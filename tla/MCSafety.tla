------------------------------ MODULE MCSafety ------------------------------
(***************************************************************************)
(* The safety of components that share no variable: `part` picks the one   *)
(* whose behaviours are generated and the others stay in their initial     *)
(* state. Grants and tips both hold the contract's custody state; webhooks *)
(* and executor are those MCServices checks for liveness, here with a      *)
(* second delivery and with every outcome and runs an owner starts by hand.*)
(***************************************************************************)
EXTENDS WebhookDelivery, RefreshTokens, EmailQueue, InboundSecrets,
        AnchorCallbacks, WalletDashboard, Turrets, ScheduledExecutor, Grants, Tips, TLC

CONSTANTS alice, bob

VARIABLE part

safetyVars == <<part, webhookVars, tokenVars, mailVars, secretVars, callbackVars, dashboardVars,
                turretVars, vars, grantVars, tipVars>>

\* Two leaves for one recipient and one for another.
SomeLeaves == {{[recipient |-> alice, amount |-> 1], [recipient |-> alice, amount |-> 2],
                [recipient |-> bob, amount |-> 2]}}

SafetyInit ==
    /\ part \in {"webhooks", "tokens", "mail", "secrets", "anchor", "wallet", "turrets",
                  "executor", "grants", "tips"}
    /\ WebhookInit /\ TokenInit /\ MailInit /\ SecretInit /\ CallbackInit /\ DashboardInit
    /\ TurretsInit /\ Init /\ GrantsInit /\ TipsInit
    /\ store = "db"
    /\ part # "wallet" => loader = CHOOSE l \in Loaders : TRUE

\* Bound: a behaviour of the executor has a crash or an error, or runs by hand.
FaultOrManual == faults' = 0 \/ \A id \in ExecutionIds : id > MaxRuns => execution'[id] = NoExecution

\* Bound: a fault of the runner leaves one line of history and no overlapping tick.
FaultOrOverlap == turretFaults' = 0 \/ (lastLog' <= 1 /\ ~ticksOverlapped')

\* Bound: ticks overlap only while time has a step left.
LateOrOverlap == turretClock' < MaxTurretTime \/ ~ticksOverlapped'

\* Bound: the database fails, or all sessions are revoked, or two calls race.
FaultOrRace == tokenFaults' = 0 \/ (epoch' = 0 /\ "overlap" \notin tangled')

SafetyNext ==
    \/ /\ part = "webhooks" /\ WebhookNext
       /\ UNCHANGED <<part, tokenVars, mailVars, secretVars, callbackVars, dashboardVars,
                      turretVars, vars, grantVars, tipVars>>
    \/ /\ part = "tokens" /\ TokenNext /\ FaultOrRace
       /\ UNCHANGED <<part, webhookVars, mailVars, secretVars, callbackVars, dashboardVars,
                      turretVars, vars, grantVars, tipVars>>
    \/ /\ part = "mail" /\ MailNext
       /\ UNCHANGED <<part, webhookVars, tokenVars, secretVars, callbackVars, dashboardVars,
                      turretVars, vars, grantVars, tipVars>>
    \/ /\ part = "secrets" /\ SecretNext
       /\ UNCHANGED <<part, webhookVars, tokenVars, mailVars, callbackVars, dashboardVars,
                      turretVars, vars, grantVars, tipVars>>
    \/ /\ part = "anchor" /\ CallbackNext
       /\ UNCHANGED <<part, webhookVars, tokenVars, mailVars, secretVars, dashboardVars,
                      turretVars, vars, grantVars, tipVars>>
    \/ /\ part = "wallet" /\ DashboardNext
       /\ UNCHANGED <<part, webhookVars, tokenVars, mailVars, secretVars, callbackVars,
                      turretVars, vars, grantVars, tipVars>>
    \/ /\ part = "turrets" /\ TurretsNext /\ FaultOrOverlap /\ LateOrOverlap
       /\ UNCHANGED <<part, webhookVars, tokenVars, mailVars, secretVars, callbackVars,
                      dashboardVars, vars, grantVars, tipVars>>
    \/ /\ part = "executor" /\ Next /\ FaultOrManual
       /\ UNCHANGED <<part, webhookVars, tokenVars, mailVars, secretVars, callbackVars,
                      dashboardVars, turretVars, grantVars, tipVars>>
    \/ /\ part = "grants" /\ GrantsNext
       /\ UNCHANGED <<part, webhookVars, tokenVars, mailVars, secretVars, callbackVars,
                      dashboardVars, turretVars, vars, tipVars>>
    \/ /\ part = "tips" /\ TipsNext
       /\ UNCHANGED <<part, webhookVars, tokenVars, mailVars, secretVars, callbackVars,
                      dashboardVars, turretVars, vars, grantOnlyVars>>

SafetySpec == SafetyInit /\ [][SafetyNext]_safetyVars

(* Every table row, cache entry, cookie, screen value and stored record of  *)
(* the components is a value of its type.                                   *)
SafetyTypeOK ==
    /\ part = "webhooks" => WebhookTypeOK
    /\ part = "tokens" => TokenTypeOK
    /\ part = "mail" => MailTypeOK
    /\ part = "secrets" => SecretTypeOK
    /\ part = "anchor" => CallbackTypeOK
    /\ part = "wallet" => DashboardTypeOK
    /\ part = "turrets" => TurretsTypeOK
    /\ part = "executor" => TypeOK
    /\ part = "grants" => GrantsTypeOK
    /\ part = "tips" => TipsTypeOK
=============================================================================
