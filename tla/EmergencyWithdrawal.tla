-------------------------- MODULE EmergencyWithdrawal --------------------------
(***************************************************************************)
(* Time-delayed emergency withdrawals of unlocked tokens (lib.rs), next to *)
(* the administration that governs them and to products that lock and pay  *)
(* out tokens meanwhile.  A product is represented by what all of them do  *)
(* to the shared accounts: a deposit raises the balance and the locked     *)
(* balance, a payout lowers both.                                          *)
(***************************************************************************)
EXTENDS AdminGovernance

CONSTANTS
    Amounts,                    \* amounts of withdrawals, deposits and payouts
    EMERGENCY_WITHDRAWAL_DELAY,
    MaxHeld,                    \* bound of the model on what products deposit
    MaxWithdrawals              \* bound of the model on the number of withdrawals

ASSUME WithdrawalAssumption ==
    /\ Amounts \subseteq Int
    /\ {EMERGENCY_WITHDRAWAL_DELAY, MaxHeld, MaxWithdrawals} \subseteq Nat

VARIABLES
    withdrawal,                 \* DataKey::EmergencyWithdrawal(id)
    withdrawalCount             \* DataKey::EmergencyWithdrawalCount

withdrawalVars == <<withdrawal, withdrawalCount>>
vars == <<custodyVars, adminVars, withdrawalVars>>

WithdrawalIds == 0 .. MaxWithdrawals - 1

Withdrawal == [token : Tokens, amount : Nat \ {0}, activation_ledger : Nat,
               approvals : SUBSET Accounts, threshold : Nat,
               status : {"Pending", "Executed", "Cancelled"}]
NoWithdrawal == [status |-> "none"]

TypeOK ==
    /\ CustodyTypeOK
    /\ AdminTypeOK
    /\ withdrawalCount \in 0 .. MaxWithdrawals
    /\ DOMAIN withdrawal = WithdrawalIds
    /\ \A id \in WithdrawalIds :
         IF id < withdrawalCount THEN withdrawal[id] \in Withdrawal
                                 ELSE withdrawal[id] = NoWithdrawal

Init ==
    /\ CustodyInit
    /\ AdminInit
    /\ withdrawal = [id \in WithdrawalIds |-> NoWithdrawal]
    /\ withdrawalCount = 0

Pending(id) == id < withdrawalCount /\ withdrawal[id].status = "Pending"

-----------------------------------------------------------------------------
(***************************************************************************)
(* What the products do to the shared accounts.                            *)
(***************************************************************************)
Deposit(t, amount) ==
    /\ ~paused /\ Initialized
    /\ amount > 0
    /\ balance[t] + amount <= MaxHeld
    /\ TransferIn(t, amount)
    /\ IncreaseLocked(t, amount)
    /\ UNCHANGED <<paused, ledger, adminVars, withdrawalVars>>

Payout(t, amount) ==
    /\ ~paused
    /\ amount \in 1 .. locked[t]
    /\ DecreaseLocked(t, amount)
    /\ TransferOut(t, amount)
    /\ UNCHANGED <<paused, ledger, adminVars, withdrawalVars>>

-----------------------------------------------------------------------------
InitiateEmergencyWithdrawal_LockedFault(t, amount) ==
    /\ ~paused /\ Initialized
    /\ amount \in 1 .. balance[t]
    /\ withdrawalCount < MaxWithdrawals
    /\ withdrawal' = [withdrawal EXCEPT ![withdrawalCount] =
                        [token |-> t, amount |-> amount,
                         activation_ledger |-> ledger + EMERGENCY_WITHDRAWAL_DELAY,
                         approvals |-> {}, threshold |-> adminThreshold,
                         status |-> "Pending"]]
    /\ withdrawalCount' = withdrawalCount + 1
    /\ UNCHANGED <<custodyVars, adminVars>>

(***************************************************************************)
(* Only the legacy admin initiates.  The unlocked amount is checked here   *)
(* and nowhere else.                                                       *)
(***************************************************************************)
InitiateEmergencyWithdrawal(t, amount) ==
    /\ Initialized
    /\ ~paused
    /\ amount \in 1 .. balance[t] - locked[t]
    /\ withdrawalCount < MaxWithdrawals
    /\ withdrawal' = [withdrawal EXCEPT ![withdrawalCount] =
                        [token |-> t, amount |-> amount,
                         activation_ledger |-> ledger + EMERGENCY_WITHDRAWAL_DELAY,
                         approvals |-> {}, threshold |-> adminThreshold,
                         status |-> "Pending"]]
    /\ withdrawalCount' = withdrawalCount + 1
    /\ UNCHANGED <<custodyVars, adminVars>>

PayWithdrawal(id, approvals) ==
    /\ withdrawal' = [withdrawal EXCEPT ![id].approvals = approvals,
                                        ![id].status = "Executed"]
    /\ TransferOut(withdrawal[id].token, withdrawal[id].amount)
    /\ UNCHANGED <<locked, paused, ledger, adminVars, withdrawalCount>>

ApproveEmergencyWithdrawal_DelayFault(id, signer) ==
    LET w == withdrawal[id]
        approvals == w.approvals \cup {signer}
    IN  /\ ~paused /\ Pending(id) /\ signer \in adminSigners \ w.approvals
        /\ IF Cardinality(approvals) >= w.threshold
           THEN PayWithdrawal(id, approvals)
           ELSE /\ withdrawal' = [withdrawal EXCEPT ![id].approvals = approvals]
                /\ UNCHANGED <<custodyVars, adminVars, withdrawalCount>>

\* The approval that finds the delay elapsed and the threshold reached pays.
ApproveEmergencyWithdrawal(id, signer) ==
    LET w == withdrawal[id]
        approvals == w.approvals \cup {signer}
        ready == /\ Cardinality(approvals) >= w.threshold
                 /\ ledger >= w.activation_ledger
    IN  /\ ~paused
        /\ Pending(id)
        /\ signer \in adminSigners
        /\ signer \notin w.approvals
        /\ \/ ready /\ PayWithdrawal(id, approvals)
           \/ /\ ~ready
              /\ withdrawal' = [withdrawal EXCEPT ![id].approvals = approvals]
              /\ UNCHANGED <<custodyVars, adminVars, withdrawalCount>>

\* Anyone may execute a withdrawal that is due.
ExecuteEmergencyWithdrawal(id) ==
    /\ ~paused
    /\ Pending(id)
    /\ ledger >= withdrawal[id].activation_ledger
    /\ Cardinality(withdrawal[id].approvals) >= withdrawal[id].threshold
    /\ PayWithdrawal(id, withdrawal[id].approvals)

CancelEmergencyWithdrawal(id) ==
    /\ ~paused
    /\ Initialized
    /\ Pending(id)
    /\ withdrawal' = [withdrawal EXCEPT ![id].status = "Cancelled"]
    /\ UNCHANGED <<custodyVars, adminVars, withdrawalCount>>

WithdrawalNext ==
    \/ \E t \in Tokens, amount \in Amounts :
         \/ Deposit(t, amount)
         \/ Payout(t, amount)
         \/ InitiateEmergencyWithdrawal(t, amount)
    \/ \E id \in WithdrawalIds :
         \/ ExecuteEmergencyWithdrawal(id)
         \/ CancelEmergencyWithdrawal(id)
         \/ \E a \in Accounts : ApproveEmergencyWithdrawal(id, a)

Next ==
    \/ WithdrawalNext
    \/ AdminNext /\ UNCHANGED withdrawalVars
    \/ Environment /\ UNCHANGED <<adminVars, withdrawalVars>>

Spec == Init /\ [][Next]_vars

-----------------------------------------------------------------------------
(***************************************************************************)
(* A withdrawal is initiated under a positive threshold, paid only with as *)
(* many distinct approvals as that and never before its delay has elapsed, *)
(* on both paths that can pay it.                                          *)
(***************************************************************************)
PaidAfterDelayByQuorum ==
    \A id \in WithdrawalIds : id < withdrawalCount =>
        /\ withdrawal[id].threshold >= 1
        /\ withdrawal[id].status = "Executed" =>
             /\ ledger >= withdrawal[id].activation_ledger
             /\ Cardinality(withdrawal[id].approvals) >= withdrawal[id].threshold

(***************************************************************************)
(* An executed or cancelled withdrawal is never paid, approved or          *)
(* cancelled again.                                                        *)
(***************************************************************************)
SettledIsFinal ==
    [][\A id \in WithdrawalIds :
         id < withdrawalCount /\ ~Pending(id) =>
            withdrawal'[id] = withdrawal[id]]_vars

(***************************************************************************)
(* "Emergency withdrawals move only unlocked tokens" (comment in           *)
(* approve_emergency_withdrawal): what products have locked stays in the   *)
(* contract.                                                               *)
(***************************************************************************)
LockedIsBacked == \A t \in Tokens : locked[t] <= balance[t]

(* Every decision has its quorum: of the signers for an administrative      *)
(* action, of the approvers of its time, and after the delay, for a         *)
(* withdrawal; and a quorum of signers always exists.                       *)
DecisionsHaveAQuorum ==
    TypeOK /\ QuorumIsReachable /\ ExecutedByQuorum /\ PaidAfterDelayByQuorum

(* A decision stands: what was executed or cancelled is spent, nothing but  *)
(* an executed proposal changes the administration, and no upgrade lowers   *)
(* the layout.                                                              *)
DecisionsStand ==
    ExecutedIsFinal /\ SettledIsFinal /\ ChangesNeedAProposal /\ LayoutNeverDowngrades
=============================================================================
