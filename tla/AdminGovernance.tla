---------------------------- MODULE AdminGovernance ----------------------------
(***************************************************************************)
(* The N-of-M administration of the Finchippay contract (lib.rs): the      *)
(* admin signer set and its threshold, proposals of admin actions that     *)
(* execute with the approval that reaches their threshold, the pauser's    *)
(* fast path to the circuit breaker, the legacy admin pointer, and the     *)
(* contract and storage-layout versions.                                   *)
(*                                                                         *)
(* A signer list is duplicate-free once it is stored                       *)
(* (validate_admin_signers), so it is a set; so is a list of approvals.    *)
(***************************************************************************)
EXTENDS TokenCustody, FiniteSets

CONSTANTS
    Accounts,
    InitialSets,           \* [signers, threshold] pairs given to initialize
    Payloads,              \* [kind, ...] records a signer may propose
    MAX_ADMIN_SIGNERS,
    STORAGE_LAYOUT_VERSION, CONTRACT_VERSION,
    ActionTtl,             \* the 120960 ledgers of propose_admin_action
    MaxActions             \* bound of the model on the number of proposals

ASSUME GovernanceAssumption ==
    /\ {MAX_ADMIN_SIGNERS, STORAGE_LAYOUT_VERSION, CONTRACT_VERSION, ActionTtl,
        MaxActions} \subseteq Nat
    /\ IsFiniteSet(Accounts)

\* What the types of initialize's and propose_admin_action's arguments say.
ASSUME PayloadAssumption ==
    /\ \A s \in InitialSets : s.signers \in SUBSET Accounts /\ s.threshold \in Nat
    /\ \A p \in Payloads :
         /\ p.kind = "set_admin_signers" => /\ p.signers \in SUBSET Accounts
                                           /\ p.threshold \in Nat
         /\ p.kind = "set_pauser" => p.pauser \in Accounts
         /\ p.kind = "upgrade" => p.layout \in Nat
         /\ p.kind = "reconcile_balance" => p.token \in Tokens

VARIABLES
    admin,                 \* DataKey::Admin, Nobody until initialize
    adminSigners,          \* DataKey::AdminSigners
    adminThreshold,        \* DataKey::AdminSignersThreshold
    pauser,                \* DataKey::Pauser
    action,                \* DataKey::AdminActionProposal(id)
    actionCount,           \* DataKey::AdminActionCount, ids start at 1
    version,               \* DataKey::Version
    layout                 \* DataKey::StorageLayoutVersion

adminVars == <<admin, adminSigners, adminThreshold, pauser, action, actionCount,
               version, layout>>

Nobody == "nobody"
ActionIds == 1 .. MaxActions

Action == [payload : Payloads, approvals : SUBSET Accounts, threshold : Nat,
           executed : BOOLEAN, expiration_ledger : Nat]
NoAction == [executed |-> FALSE]

AdminTypeOK ==
    /\ admin \in Accounts \cup {Nobody}
    /\ adminSigners \in SUBSET Accounts
    /\ adminThreshold \in Nat
    /\ pauser \in Accounts \cup {Nobody}
    /\ actionCount \in 0 .. MaxActions
    /\ DOMAIN action = ActionIds
    /\ \A id \in ActionIds : IF id <= actionCount THEN action[id] \in Action
                                                  ELSE action[id] = NoAction
    /\ version \in Nat
    /\ layout \in Nat

AdminInit ==
    /\ admin = Nobody
    /\ adminSigners = {}
    /\ adminThreshold = 0
    /\ pauser = Nobody
    /\ action = [id \in ActionIds |-> NoAction]
    /\ actionCount = 0
    /\ version = CONTRACT_VERSION
    /\ layout = STORAGE_LAYOUT_VERSION

Initialized == admin # Nobody

-----------------------------------------------------------------------------
(***************************************************************************)
(* Definitions whose name ends in Fault are variants of the definition     *)
(* that follows them with one plausible coding error.  No specification    *)
(* uses them: substituted for the definition, each makes TLC report the    *)
(* property that is there to notice the error.                             *)
(***************************************************************************)
ValidSigners(signers, threshold) ==
    /\ Cardinality(signers) \in 1 .. MAX_ADMIN_SIGNERS
    /\ threshold \in 1 .. Cardinality(signers)

\* first is the head of the signer list; it becomes the legacy admin.
Initialize(signers, threshold, first) ==
    /\ ~Initialized
    /\ ValidSigners(signers, threshold)
    /\ first \in signers
    /\ admin' = first
    /\ adminSigners' = signers
    /\ adminThreshold' = threshold
    /\ UNCHANGED <<custodyVars, pauser, action, actionCount, version, layout>>

TransferAdmin(newAdmin) ==
    /\ Initialized
    /\ admin' = newAdmin
    /\ UNCHANGED <<custodyVars, adminSigners, adminThreshold, pauser, action,
                   actionCount, version, layout>>

\* pause and unpause called by the designated pauser.
PauserSets(flag) ==
    /\ pauser # Nobody
    /\ SetPaused(flag)
    /\ UNCHANGED adminVars

-----------------------------------------------------------------------------

\* validate_storage_compatibility
LayoutOk(newLayout) == newLayout >= layout

(***************************************************************************)
(* execute_admin_action.  A payload it rejects panics and rolls back the   *)
(* approval that triggered it, so the action of the caller is disabled.    *)
(***************************************************************************)
ExecuteAdminAction(payload) ==
    CASE payload.kind \in {"pause", "unpause"} ->
           /\ paused' = (payload.kind = "pause")
           /\ UNCHANGED <<cached, adminSigners, adminThreshold, pauser, version,
                          layout>>
      [] payload.kind = "set_admin_signers" ->
           /\ ValidSigners(payload.signers, payload.threshold)
           /\ adminSigners' = payload.signers
           /\ adminThreshold' = payload.threshold
           /\ UNCHANGED <<cached, paused, pauser, version, layout>>
      [] payload.kind = "set_pauser" ->
           /\ pauser' = payload.pauser
           /\ UNCHANGED <<cached, paused, adminSigners, adminThreshold, version,
                          layout>>
      [] payload.kind = "upgrade" ->
           /\ LayoutOk(payload.layout)
           /\ version' = version + 1
           /\ layout' = payload.layout
           /\ UNCHANGED <<cached, paused, adminSigners, adminThreshold, pauser>>
      [] payload.kind = "reconcile_balance" ->
           \* an absent cache reads as 0 and is written only if that differs
           /\ cached' = IF cached[payload.token] = NoCache /\ balance[payload.token] = 0
                        THEN cached
                        ELSE [cached EXCEPT ![payload.token] = balance[payload.token]]
           /\ UNCHANGED <<paused, adminSigners, adminThreshold, pauser, version,
                          layout>>
      [] OTHER -> FALSE

NoEffect == UNCHANGED <<cached, paused, adminSigners, adminThreshold, pauser,
                        version, layout>>

(***************************************************************************)
(* The threshold is copied into the proposal; the proposer's own approval  *)
(* counts, so a threshold of 1 executes at once.                           *)
(***************************************************************************)
ProposeAdminAction(proposer, payload) ==
    /\ Initialized
    /\ proposer \in adminSigners
    /\ actionCount < MaxActions
    /\ actionCount' = actionCount + 1
    /\ action' = [action EXCEPT ![actionCount + 1] =
                    [payload |-> payload, approvals |-> {proposer},
                     threshold |-> adminThreshold,
                     executed |-> adminThreshold = 1,
                     expiration_ledger |-> ledger + ActionTtl]]
    /\ IF adminThreshold = 1 THEN ExecuteAdminAction(payload) ELSE NoEffect
    /\ UNCHANGED <<balance, locked, ledger, admin>>

ApproveAdminAction_ReplayFault(id, approver) ==
    LET p == action[id]
        approvals == p.approvals \cup {approver}
        reached == Cardinality(approvals) >= p.threshold
    IN  /\ id <= actionCount /\ approver \in adminSigners
        /\ approver \notin p.approvals /\ ledger <= p.expiration_ledger
        /\ action' = [action EXCEPT ![id].approvals = approvals,
                                    ![id].executed = reached]
        /\ IF reached THEN ExecuteAdminAction(p.payload) ELSE NoEffect
        /\ UNCHANGED <<balance, locked, ledger, admin, actionCount>>

ApproveAdminAction(id, approver) ==
    LET p == action[id]
        approvals == p.approvals \cup {approver}
        reached == Cardinality(approvals) >= p.threshold
    IN  /\ approver \in adminSigners
        /\ id <= actionCount
        /\ ~p.executed
        /\ approver \notin p.approvals
        /\ ledger <= p.expiration_ledger
        /\ action' = [action EXCEPT ![id].approvals = approvals,
                                    ![id].executed = reached]
        /\ IF reached THEN ExecuteAdminAction(p.payload) ELSE NoEffect
        /\ UNCHANGED <<balance, locked, ledger, admin, actionCount>>

AdminNext ==
    \/ \E s \in InitialSets : \E first \in Accounts :
         Initialize(s.signers, s.threshold, first)
    \/ \E a \in Accounts : TransferAdmin(a)
    \/ \E flag \in BOOLEAN : PauserSets(flag)
    \/ \E a \in Accounts, p \in Payloads : ProposeAdminAction(a, p)
    \/ \E a \in Accounts, id \in ActionIds : ApproveAdminAction(id, a)

\* Ledgers close and tokens arrive; the breaker moves only by AdminNext.
Environment ==
    \/ AdvanceLedger
    \/ \E t \in Tokens, amount \in Donations : Donate(t, amount)

adminSpecVars == <<custodyVars, adminVars>>

-----------------------------------------------------------------------------
(***************************************************************************)
(* Governance never locks itself out: after any sequence of executed       *)
(* set_admin_signers actions, stale proposals included, the stored         *)
(* threshold can be met by the stored signers.                             *)
(***************************************************************************)
QuorumIsReachable ==
    Initialized => /\ adminThreshold >= 1
                   /\ adminThreshold <= Cardinality(adminSigners)
                   /\ Cardinality(adminSigners) <= MAX_ADMIN_SIGNERS

(***************************************************************************)
(* A proposal is executed exactly when it carries as many approvals of     *)
(* distinct accounts as the threshold it was created under, and proposals  *)
(* are created under a positive threshold.                                 *)
(***************************************************************************)
ExecutedByQuorum ==
    \A id \in 1 .. actionCount :
        /\ action[id].threshold >= 1
        /\ action[id].executed <=>
             Cardinality(action[id].approvals) >= action[id].threshold

(***************************************************************************)
(* An executed proposal is spent: it never collects another approval and   *)
(* never runs again, even if the signer set changes.                       *)
(***************************************************************************)
ExecutedIsFinal ==
    [][\A id \in ActionIds : action[id].executed => action'[id] = action[id]]_adminSpecVars

\* This step executes the unexpired proposal id, and it is of this kind.
Ran(id, kind) == /\ ~action[id].executed
                 /\ action'[id].executed
                 /\ action'[id].payload.kind = kind
                 /\ ledger <= action'[id].expiration_ledger

(***************************************************************************)
(* Once the contract is initialised, signers, threshold, pauser and        *)
(* versions change only in a step that executes one unexpired proposal of  *)
(* that kind, and take the proposal's values.  The legacy admin and the    *)
(* pauser alone can change none of them.                                   *)
(***************************************************************************)
ChangesNeedAProposal ==
    [][Initialized =>
         /\ <<adminSigners, adminThreshold>>' # <<adminSigners, adminThreshold>> =>
              \E id \in ActionIds :
                 /\ Ran(id, "set_admin_signers")
                 /\ adminSigners' = action'[id].payload.signers
                 /\ adminThreshold' = action'[id].payload.threshold
         /\ pauser' # pauser =>
              \E id \in ActionIds :
                 Ran(id, "set_pauser") /\ pauser' = action'[id].payload.pauser
         /\ <<version, layout>>' # <<version, layout>> =>
              \E id \in ActionIds :
                 Ran(id, "upgrade") /\ layout' = action'[id].payload.layout
         /\ paused' # paused =>
              \/ pauser # Nobody
              \/ \E id \in ActionIds : Ran(id, "pause") \/ Ran(id, "unpause")
      ]_adminSpecVars

(***************************************************************************)
(* The storage layout version never decreases, although an upgrade is      *)
(* validated when it executes and other upgrades may have run since it was *)
(* proposed.                                                               *)
(***************************************************************************)
LayoutNeverDowngrades == [][layout' >= layout]_adminSpecVars
=============================================================================
