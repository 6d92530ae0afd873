--------------------------- MODULE GovernanceProofs ---------------------------
(***************************************************************************)
(* Theorems about AdminGovernance and EmergencyWithdrawal, for every       *)
(* finite set of accounts, every list of payloads and every delay.  The    *)
(* invariant of the run, DecisionsHaveAQuorum, is inductive: a withdrawal  *)
(* and a proposal copy a threshold that is positive because                *)
(* QuorumIsReachable holds when they are created, and an approval is       *)
(* compared with a cardinality because the types make it one.  The last    *)
(* two parts show that a decision is final and that the tokens locked for  *)
(* a withdrawal stay locked until it is decided.                           *)
(***************************************************************************)
EXTENDS EmergencyWithdrawal, FiniteSetTheorems, TLAPS

LEMMA GovernanceNumbers ==
    /\ MAX_ADMIN_SIGNERS \in Nat /\ STORAGE_LAYOUT_VERSION \in Nat
    /\ CONTRACT_VERSION \in Nat /\ ActionTtl \in Nat /\ MaxActions \in Nat
    /\ EMERGENCY_WITHDRAWAL_DELAY \in Nat /\ MaxWithdrawals \in Nat
BY GovernanceAssumption, WithdrawalAssumption

\* A set of accounts is finite, so an approval adds one.
LEMMA AccountSets ==
    ASSUME NEW S \in SUBSET Accounts
    PROVE  IsFiniteSet(S) /\ Cardinality(S) \in Nat
<1>1. IsFiniteSet(S)
  BY GovernanceAssumption, FS_Subset
<1> QED
  BY <1>1, FS_CardinalityType

LEMMA OneApproval ==
    ASSUME NEW a \in Accounts
    PROVE  {a} \in SUBSET Accounts /\ Cardinality({a}) = 1
BY FS_Singleton

\* The quorum of one withdrawal.
PaidInTime(w, l) ==
    /\ w.threshold >= 1
    /\ w.status = "Executed" => /\ l >= w.activation_ledger
                                /\ Cardinality(w.approvals) >= w.threshold

\* The quorum of one proposal.
DecidedByQuorum(p) ==
    p.threshold >= 1 /\ (p.executed <=> Cardinality(p.approvals) >= p.threshold)

LEMMA QuorumsOneByOne ==
    /\ PaidAfterDelayByQuorum <=>
         \A id \in WithdrawalIds : id < withdrawalCount => PaidInTime(withdrawal[id], ledger)
    /\ ExecutedByQuorum <=> \A id \in 1 .. actionCount : DecidedByQuorum(action[id])
BY DEF PaidAfterDelayByQuorum, PaidInTime, ExecutedByQuorum, DecidedByQuorum

-----------------------------------------------------------------------------
(***************************************************************************)
(* What execute_admin_action may do: it keeps the types, accepts only a    *)
(* signer set whose threshold it can meet, and changes only what the kind  *)
(* of the payload names.                                                   *)
(***************************************************************************)
LEMMA ActionEffect ==
    ASSUME CustodyTypeOK, AdminTypeOK, NEW payload \in Payloads, ExecuteAdminAction(payload)
    PROVE  /\ cached' \in [Tokens -> Nat \cup {NoCache}] /\ paused' \in BOOLEAN
           /\ adminSigners' \in SUBSET Accounts /\ adminThreshold' \in Nat
           /\ pauser' \in Accounts \cup {Nobody} /\ version' \in Nat /\ layout' \in Nat
           /\ \/ UNCHANGED <<adminSigners, adminThreshold>>
              \/ ValidSigners(adminSigners', adminThreshold')
           /\ layout' >= layout
           /\ <<adminSigners, adminThreshold>>' # <<adminSigners, adminThreshold>> =>
                /\ payload.kind = "set_admin_signers"
                /\ adminSigners' = payload.signers /\ adminThreshold' = payload.threshold
           /\ pauser' # pauser => payload.kind = "set_pauser" /\ pauser' = payload.pauser
           /\ <<version, layout>>' # <<version, layout>> =>
                payload.kind = "upgrade" /\ layout' = payload.layout
           /\ paused' # paused => payload.kind \in {"pause", "unpause"}
<1> USE DEF AdminTypeOK, CustodyTypeOK
<1>1. CASE payload.kind \in {"pause", "unpause"}
  <2>1. /\ paused' = (payload.kind = "pause")
        /\ UNCHANGED <<cached, adminSigners, adminThreshold, pauser, version, layout>>
    BY <1>1 DEF ExecuteAdminAction
  <2>2. paused' \in BOOLEAN
    BY <2>1
  <2> QED
    BY <1>1, <2>1, <2>2
<1>2. CASE payload.kind = "set_admin_signers"
  BY <1>2, PayloadAssumption DEF ExecuteAdminAction
<1>3. CASE payload.kind = "set_pauser"
  BY <1>3, PayloadAssumption DEF ExecuteAdminAction
<1>4. CASE payload.kind = "upgrade"
  BY <1>4, PayloadAssumption DEF ExecuteAdminAction, LayoutOk
<1>5. CASE payload.kind = "reconcile_balance"
  <2>1. payload.token \in Tokens /\ balance[payload.token] \in Nat
    BY <1>5, PayloadAssumption
  <2>2. /\ cached' = IF cached[payload.token] = NoCache /\ balance[payload.token] = 0
                     THEN cached
                     ELSE [cached EXCEPT ![payload.token] = balance[payload.token]]
        /\ UNCHANGED <<paused, adminSigners, adminThreshold, pauser, version, layout>>
    BY <1>5 DEF ExecuteAdminAction
  <2>3. cached' \in [Tokens -> Nat \cup {NoCache}]
    BY <2>1, <2>2
  <2> QED
    BY <2>2, <2>3
<1> QED
  BY <1>1, <1>2, <1>3, <1>4, <1>5 DEF ExecuteAdminAction

-----------------------------------------------------------------------------
\* The administration's part of the invariant.
Governed == AdminTypeOK /\ QuorumIsReachable /\ ExecutedByQuorum

\* Proposals change one at a time: a new one takes the next number.
LEMMA RecordProposal ==
    ASSUME Governed, NEW id \in ActionIds, NEW p \in Action, DecidedByQuorum(p),
           action' = [action EXCEPT ![id] = p],
           \/ id <= actionCount /\ actionCount' = actionCount
           \/ id = actionCount + 1 /\ actionCount' = id
    PROVE  /\ actionCount' \in 0 .. MaxActions /\ DOMAIN action' = ActionIds
           /\ \A i \in ActionIds : IF i <= actionCount' THEN action'[i] \in Action
                                                       ELSE action'[i] = NoAction
           /\ ExecutedByQuorum'
<1>1. MaxActions \in Nat /\ actionCount \in Nat /\ actionCount <= MaxActions
      /\ DOMAIN action = ActionIds /\ id \in Nat /\ id <= MaxActions
  BY GovernanceNumbers DEF Governed, AdminTypeOK, ActionIds
<1>2. actionCount' \in 0 .. MaxActions /\ DOMAIN action' = ActionIds
  BY <1>1
<1>3. action'[id] = p /\ \A i \in ActionIds \ {id} : action'[i] = action[i]
  BY <1>1
<1>4. \A i \in ActionIds \ {id} : i \in Nat /\ (i <= actionCount' <=> i <= actionCount)
  BY <1>1, GovernanceNumbers DEF ActionIds
<1>5. id <= actionCount'
  BY <1>1
<1>6. \A i \in ActionIds : IF i <= actionCount' THEN action'[i] \in Action
                                                ELSE action'[i] = NoAction
  BY <1>3, <1>4, <1>5 DEF Governed, AdminTypeOK
<1>7. ASSUME NEW i \in 1 .. actionCount' PROVE DecidedByQuorum(action'[i])
  <2>1. i \in ActionIds
    BY <1>1, <1>2 DEF ActionIds
  <2>2. CASE i = id
    BY <1>3, <2>2
  <2>3. CASE i # id
    <3>1. i \in 1 .. actionCount /\ action'[i] = action[i]
      BY <1>1, <1>2, <1>3, <1>4, <2>1, <2>3
    <3> QED
      BY <3>1, QuorumsOneByOne DEF Governed
  <2> QED
    BY <2>2, <2>3
<1>8. ExecutedByQuorum'
  BY <1>7 DEF ExecutedByQuorum, DecidedByQuorum
<1> QED
  BY <1>2, <1>6, <1>8

\* What a proposal or an approval does besides recording itself.
LEMMA DecisionEffect ==
    ASSUME CustodyTypeOK, Governed, NEW payload \in Payloads,
           ExecuteAdminAction(payload) \/ NoEffect, UNCHANGED <<balance, locked, ledger, admin>>
    PROVE  /\ CustodyTypeOK' /\ QuorumIsReachable'
           /\ admin' \in Accounts \cup {Nobody} /\ adminSigners' \in SUBSET Accounts
           /\ adminThreshold' \in Nat /\ pauser' \in Accounts \cup {Nobody}
           /\ version' \in Nat /\ layout' \in Nat
<1>1. CASE ExecuteAdminAction(payload)
  <2>1. AdminTypeOK /\ Cardinality(adminSigners') \in Nat
    BY <1>1, ActionEffect, AccountSets DEF Governed
  <2>2. CustodyTypeOK'
    BY <1>1, <2>1, ActionEffect DEF CustodyTypeOK
  <2>3. ASSUME UNCHANGED <<adminSigners, adminThreshold>> PROVE QuorumIsReachable'
    BY <2>3 DEF Governed, QuorumIsReachable, Initialized
  <2>4. ASSUME ValidSigners(adminSigners', adminThreshold') PROVE QuorumIsReachable'
    BY <2>4, <2>1, GovernanceNumbers DEF QuorumIsReachable, ValidSigners
  <2>5. QuorumIsReachable'
    BY <1>1, <2>1, <2>3, <2>4, ActionEffect
  <2> QED
    BY <1>1, <2>1, <2>2, <2>5, ActionEffect DEF AdminTypeOK
<1>2. CASE NoEffect
  BY <1>2 DEF NoEffect, Governed, AdminTypeOK, CustodyTypeOK, QuorumIsReachable, Initialized
<1> QED
  BY <1>1, <1>2

LEMMA ProposalIsGoverned ==
    ASSUME CustodyTypeOK, Governed, NEW a \in Accounts, NEW payload \in Payloads,
           ProposeAdminAction(a, payload)
    PROVE  CustodyTypeOK' /\ Governed'
<1> DEFINE p == [payload |-> payload, approvals |-> {a}, threshold |-> adminThreshold,
                 executed |-> adminThreshold = 1, expiration_ledger |-> ledger + ActionTtl]
<1>1. actionCount + 1 \in ActionIds /\ adminThreshold \in Nat /\ adminThreshold >= 1
      /\ ledger + ActionTtl \in Nat
  BY GovernanceNumbers DEF ProposeAdminAction, Governed, AdminTypeOK, ActionIds,
     QuorumIsReachable, CustodyTypeOK
<1>2. {a} \in SUBSET Accounts /\ Cardinality({a}) = 1
  BY OneApproval
<1>3. (adminThreshold = 1) \in BOOLEAN
  OBVIOUS
<1>4. p \in Action
  BY <1>1, <1>2, <1>3 DEF Action
<1>5. p.threshold = adminThreshold /\ p.approvals = {a} /\ p.executed = (adminThreshold = 1)
  OBVIOUS
<1>6. action' = [action EXCEPT ![actionCount + 1] = p] /\ actionCount' = actionCount + 1
      /\ (ExecuteAdminAction(payload) \/ NoEffect)
      /\ UNCHANGED <<balance, locked, ledger, admin>>
  BY DEF ProposeAdminAction
<1> HIDE DEF p
<1>7. DecidedByQuorum(p)
  <2>1. (adminThreshold = 1) <=> 1 >= adminThreshold
    BY <1>1
  <2>2. p.executed <=> 1 >= adminThreshold
    BY <2>1, <1>5
  <2>3. p.executed <=> Cardinality(p.approvals) >= p.threshold
    BY <2>2, <1>2, <1>5, Zenon
  <2> QED
    BY <1>1, <1>5, <2>3 DEF DecidedByQuorum
<1> QED
  BY <1>1, <1>4, <1>6, <1>7, RecordProposal, DecisionEffect DEF Governed, AdminTypeOK

LEMMA ApprovalIsGoverned ==
    ASSUME CustodyTypeOK, Governed, NEW a \in Accounts, NEW id \in ActionIds,
           ApproveAdminAction(id, a)
    PROVE  CustodyTypeOK' /\ Governed'
<1> DEFINE old == action[id]
           approvals == old.approvals \cup {a}
           reached == Cardinality(approvals) >= old.threshold
           p == [old EXCEPT !.approvals = approvals, !.executed = reached]
<1>1. id <= actionCount /\ old \in Action
  BY DEF ApproveAdminAction, Governed, AdminTypeOK
<1>2. approvals \in SUBSET Accounts /\ reached \in BOOLEAN
  BY <1>1 DEF Action
<1>3. p \in Action
  BY <1>1, <1>2 DEF Action
<1>4. id \in 1 .. actionCount
  BY <1>1 DEF ActionIds, Governed, AdminTypeOK
<1>5. old.threshold >= 1
  BY <1>4, QuorumsOneByOne DEF Governed, DecidedByQuorum
<1>6. p.threshold = old.threshold /\ p.approvals = approvals /\ p.executed = reached
  BY <1>1 DEF Action
<1>7. action' = [action EXCEPT ![id] = p]
  BY DEF ApproveAdminAction, Governed, AdminTypeOK
<1>8. old.payload \in Payloads /\ (ExecuteAdminAction(old.payload) \/ NoEffect)
      /\ UNCHANGED <<balance, locked, ledger, admin, actionCount>>
  BY <1>1 DEF ApproveAdminAction, Action
<1>9. DecidedByQuorum(p)
  <2> HIDE DEF p
  <2> QED
    BY <1>5, <1>6 DEF DecidedByQuorum
<1> HIDE DEF p, old
<1> QED
  BY <1>1, <1>3, <1>7, <1>8, <1>9, RecordProposal, DecisionEffect DEF Governed, AdminTypeOK

LEMMA AdministrationIsGoverned ==
    ASSUME CustodyTypeOK, Governed, AdminNext
    PROVE  CustodyTypeOK' /\ Governed' /\ ledger' = ledger
<1>1. ASSUME NEW s \in InitialSets, NEW first \in Accounts, Initialize(s.signers, s.threshold, first)
      PROVE  CustodyTypeOK' /\ Governed' /\ ledger' = ledger
  <2>1. s.signers \in SUBSET Accounts /\ s.threshold \in Nat
    BY PayloadAssumption
  <2>2. Cardinality(s.signers) \in Nat
    BY <2>1, AccountSets
  <2>3. UNCHANGED <<custodyVars, pauser, action, actionCount, version, layout>>
        /\ admin' = first /\ adminSigners' = s.signers /\ adminThreshold' = s.threshold
        /\ ValidSigners(s.signers, s.threshold)
    BY <1>1 DEF Initialize
  <2>4. CustodyTypeOK' /\ ledger' = ledger
    BY <2>3 DEF CustodyTypeOK, custodyVars
  <2>5. AdminTypeOK'
    BY <2>1, <2>3 DEF Governed, AdminTypeOK
  <2>6. QuorumIsReachable'
    BY <2>1, <2>2, <2>3, GovernanceNumbers DEF QuorumIsReachable, ValidSigners
  <2>7. ExecutedByQuorum'
    BY <2>3 DEF Governed, ExecutedByQuorum
  <2> QED
    BY <2>4, <2>5, <2>6, <2>7 DEF Governed
<1>2. ASSUME NEW a \in Accounts, TransferAdmin(a)
      PROVE  CustodyTypeOK' /\ Governed' /\ ledger' = ledger
  BY <1>2 DEF TransferAdmin, Governed, CustodyTypeOK, custodyVars, AdminTypeOK,
     QuorumIsReachable, Initialized, ExecutedByQuorum
<1>3. ASSUME NEW flag \in BOOLEAN, PauserSets(flag)
      PROVE  CustodyTypeOK' /\ Governed' /\ ledger' = ledger
  BY <1>3 DEF PauserSets, SetPaused, Governed, CustodyTypeOK, adminVars, AdminTypeOK,
     QuorumIsReachable, Initialized, ExecutedByQuorum
<1>4. ASSUME NEW a \in Accounts, NEW p \in Payloads, ProposeAdminAction(a, p)
      PROVE  CustodyTypeOK' /\ Governed' /\ ledger' = ledger
  <2>1. ledger' = ledger
    BY <1>4 DEF ProposeAdminAction
  <2> QED
    BY <1>4, <2>1, ProposalIsGoverned
<1>5. ASSUME NEW a \in Accounts, NEW id \in ActionIds, ApproveAdminAction(id, a)
      PROVE  CustodyTypeOK' /\ Governed' /\ ledger' = ledger
  <2>1. ledger' = ledger
    BY <1>5 DEF ApproveAdminAction
  <2> QED
    BY <1>5, <2>1, ApprovalIsGoverned
<1> QED
  BY <1>1, <1>2, <1>3, <1>4, <1>5 DEF AdminNext

LEMMA EnvironmentKeepsTypes ==
    ASSUME CustodyTypeOK, Environment
    PROVE  CustodyTypeOK' /\ ledger' >= ledger
<1>1. CASE AdvanceLedger
  BY <1>1 DEF AdvanceLedger, CustodyTypeOK
<1>2. ASSUME NEW t \in Tokens, NEW amount \in Donations, Donate(t, amount)
      PROVE  CustodyTypeOK' /\ ledger' >= ledger
  <2>1. amount \in Nat
    BY DonationsAssumption
  <2>2. balance' \in [Tokens -> Nat]
    BY <1>2, <2>1 DEF Donate, CustodyTypeOK
  <2> QED
    BY <1>2, <2>2 DEF Donate, CustodyTypeOK
<1> QED
  BY <1>1, <1>2 DEF Environment

-----------------------------------------------------------------------------
\* The part of the invariant about withdrawals.
WithdrawalsOK ==
    /\ withdrawalCount \in 0 .. MaxWithdrawals
    /\ DOMAIN withdrawal = WithdrawalIds
    /\ \A id \in WithdrawalIds :
         IF id < withdrawalCount THEN withdrawal[id] \in Withdrawal
                                 ELSE withdrawal[id] = NoWithdrawal
    /\ PaidAfterDelayByQuorum

LEMMA InvariantParts ==
    DecisionsHaveAQuorum <=> CustodyTypeOK /\ Governed /\ WithdrawalsOK
BY DEF DecisionsHaveAQuorum, TypeOK, Governed, WithdrawalsOK

\* Withdrawals change one at a time: a new one takes the next number.
LEMMA RecordWithdrawal ==
    ASSUME WithdrawalsOK, CustodyTypeOK, UNCHANGED ledger,
           NEW id \in WithdrawalIds, NEW w \in Withdrawal, PaidInTime(w, ledger),
           withdrawal' = [withdrawal EXCEPT ![id] = w],
           \/ id < withdrawalCount /\ withdrawalCount' = withdrawalCount
           \/ id = withdrawalCount /\ withdrawalCount' = withdrawalCount + 1
    PROVE  WithdrawalsOK'
<1>1. MaxWithdrawals \in Nat /\ withdrawalCount \in Nat /\ withdrawalCount <= MaxWithdrawals
      /\ DOMAIN withdrawal = WithdrawalIds /\ id \in Nat /\ id < MaxWithdrawals
  BY GovernanceNumbers DEF WithdrawalsOK, WithdrawalIds
<1>2. withdrawalCount' \in 0 .. MaxWithdrawals /\ DOMAIN withdrawal' = WithdrawalIds
      /\ id < withdrawalCount'
  BY <1>1
<1>3. withdrawal'[id] = w /\ \A i \in WithdrawalIds \ {id} : withdrawal'[i] = withdrawal[i]
  BY <1>1
<1>4. \A i \in WithdrawalIds \ {id} : i < withdrawalCount' <=> i < withdrawalCount
  BY <1>1, GovernanceNumbers DEF WithdrawalIds
<1>5. \A i \in WithdrawalIds : IF i < withdrawalCount' THEN withdrawal'[i] \in Withdrawal
                                                      ELSE withdrawal'[i] = NoWithdrawal
  BY <1>2, <1>3, <1>4 DEF WithdrawalsOK
<1>6. \A i \in WithdrawalIds : i < withdrawalCount' => PaidInTime(withdrawal'[i], ledger')
  BY <1>3, <1>4, QuorumsOneByOne DEF WithdrawalsOK
<1>7. PaidAfterDelayByQuorum'
  BY <1>6 DEF PaidAfterDelayByQuorum, PaidInTime
<1> QED
  BY <1>2, <1>5, <1>7 DEF WithdrawalsOK

\* Time alone takes nothing back.
LEMMA WithdrawalsSurvive ==
    ASSUME WithdrawalsOK, CustodyTypeOK, CustodyTypeOK', ledger' >= ledger, UNCHANGED withdrawalVars
    PROVE  WithdrawalsOK'
<1>1. ASSUME NEW id \in WithdrawalIds, id < withdrawalCount, withdrawal[id].status = "Executed"
      PROVE  ledger' >= withdrawal[id].activation_ledger
  <2>1. withdrawal[id].activation_ledger \in Nat /\ ledger \in Nat /\ ledger' \in Nat
    BY <1>1 DEF WithdrawalsOK, Withdrawal, CustodyTypeOK
  <2> QED
    BY <1>1, <2>1 DEF WithdrawalsOK, PaidAfterDelayByQuorum
<1> QED
  BY <1>1 DEF WithdrawalsOK, PaidAfterDelayByQuorum, withdrawalVars

LEMMA PendingWithdrawal ==
    ASSUME WithdrawalsOK, NEW id \in WithdrawalIds, Pending(id)
    PROVE  id < withdrawalCount /\ withdrawal[id] \in Withdrawal
           /\ withdrawal[id].status = "Pending" /\ withdrawal[id].threshold >= 1
BY DEF Pending, WithdrawalsOK, PaidAfterDelayByQuorum

\* Both paths that pay (approve and execute) pay after the delay and a quorum.
LEMMA PaymentIsInTime ==
    ASSUME CustodyTypeOK, WithdrawalsOK, NEW id \in WithdrawalIds, Pending(id),
           NEW approvals \in SUBSET Accounts,
           ledger >= withdrawal[id].activation_ledger,
           Cardinality(approvals) >= withdrawal[id].threshold,
           PayWithdrawal(id, approvals)
    PROVE  CustodyTypeOK' /\ WithdrawalsOK' /\ UNCHANGED <<ledger, adminVars>>
<1> DEFINE w == [withdrawal[id] EXCEPT !.approvals = approvals, !.status = "Executed"]
<1>1. id < withdrawalCount /\ withdrawal[id] \in Withdrawal /\ withdrawal[id].threshold >= 1
  BY PendingWithdrawal
<1>2. w \in Withdrawal
  BY <1>1 DEF Withdrawal
<1>3. w.approvals = approvals /\ w.threshold = withdrawal[id].threshold
      /\ w.activation_ledger = withdrawal[id].activation_ledger
  BY <1>1 DEF Withdrawal
<1>4. withdrawal' = [withdrawal EXCEPT ![id] = w]
  BY DEF PayWithdrawal, WithdrawalsOK
<1>5. UNCHANGED <<locked, paused, ledger, adminVars, withdrawalCount>>
      /\ TransferOut(withdrawal[id].token, withdrawal[id].amount)
  BY DEF PayWithdrawal
<1> HIDE DEF w
<1>6. PaidInTime(w, ledger)
  BY <1>1, <1>3 DEF PaidInTime
<1>7. WithdrawalsOK'
  BY <1>1, <1>2, <1>4, <1>5, <1>6, RecordWithdrawal
<1>8. withdrawal[id].token \in Tokens /\ withdrawal[id].amount \in Nat
  BY <1>1 DEF Withdrawal
<1>9. balance' \in [Tokens -> Nat] /\ cached' \in [Tokens -> Nat \cup {NoCache}]
  BY <1>5, <1>8 DEF TransferOut, CustodyTypeOK, NoCache
<1> QED
  BY <1>5, <1>7, <1>9 DEF CustodyTypeOK

LEMMA ApprovalIsInTime ==
    ASSUME CustodyTypeOK, WithdrawalsOK, NEW id \in WithdrawalIds, NEW a \in Accounts,
           ApproveEmergencyWithdrawal(id, a)
    PROVE  CustodyTypeOK' /\ WithdrawalsOK' /\ UNCHANGED <<ledger, adminVars>>
<1> DEFINE approvals == withdrawal[id].approvals \cup {a}
           w == [withdrawal[id] EXCEPT !.approvals = approvals]
<1>1. Pending(id)
  BY DEF ApproveEmergencyWithdrawal
<1>2. id < withdrawalCount /\ withdrawal[id] \in Withdrawal /\ withdrawal[id].threshold >= 1
      /\ withdrawal[id].status = "Pending"
  BY <1>1, PendingWithdrawal
<1>3. approvals \in SUBSET Accounts
  BY <1>2 DEF Withdrawal
<1>4. CASE Cardinality(approvals) >= withdrawal[id].threshold
           /\ ledger >= withdrawal[id].activation_ledger /\ PayWithdrawal(id, approvals)
  BY <1>1, <1>3, <1>4, PaymentIsInTime
<1>5. CASE withdrawal' = [withdrawal EXCEPT ![id].approvals = approvals]
           /\ UNCHANGED <<custodyVars, adminVars, withdrawalCount>>
  <2>1. w \in Withdrawal
    BY <1>2, <1>3 DEF Withdrawal
  <2>2. w.status = "Pending" /\ w.threshold >= 1
    BY <1>2 DEF Withdrawal
  <2>3. withdrawal' = [withdrawal EXCEPT ![id] = w]
    BY <1>5 DEF WithdrawalsOK
  <2> HIDE DEF w
  <2>4. PaidInTime(w, ledger)
    BY <2>2 DEF PaidInTime
  <2>5. CustodyTypeOK' /\ UNCHANGED ledger
    BY <1>5 DEF custodyVars, CustodyTypeOK
  <2> QED
    BY <1>2, <1>5, <2>1, <2>3, <2>4, <2>5, RecordWithdrawal
<1> QED
  BY <1>4, <1>5 DEF ApproveEmergencyWithdrawal

LEMMA CancellationIsInTime ==
    ASSUME CustodyTypeOK, WithdrawalsOK, NEW id \in WithdrawalIds, CancelEmergencyWithdrawal(id)
    PROVE  CustodyTypeOK' /\ WithdrawalsOK' /\ UNCHANGED <<ledger, adminVars>>
<1> DEFINE w == [withdrawal[id] EXCEPT !.status = "Cancelled"]
<1>1. id < withdrawalCount /\ withdrawal[id] \in Withdrawal /\ withdrawal[id].threshold >= 1
  BY PendingWithdrawal DEF CancelEmergencyWithdrawal
<1>2. w \in Withdrawal /\ w.status = "Cancelled" /\ w.threshold >= 1
  BY <1>1 DEF Withdrawal
<1>3. withdrawal' = [withdrawal EXCEPT ![id] = w]
      /\ UNCHANGED <<custodyVars, adminVars, withdrawalCount>>
  BY DEF CancelEmergencyWithdrawal, WithdrawalsOK
<1> HIDE DEF w
<1>4. PaidInTime(w, ledger)
  BY <1>2 DEF PaidInTime
<1>5. CustodyTypeOK' /\ UNCHANGED ledger
  BY <1>3 DEF custodyVars, CustodyTypeOK
<1> QED
  BY <1>1, <1>2, <1>3, <1>4, <1>5, RecordWithdrawal

LEMMA InitiationIsInTime ==
    ASSUME CustodyTypeOK, Governed, WithdrawalsOK, NEW t \in Tokens, NEW amount \in Amounts,
           InitiateEmergencyWithdrawal(t, amount)
    PROVE  CustodyTypeOK' /\ WithdrawalsOK' /\ UNCHANGED <<ledger, adminVars>>
<1> DEFINE w == [token |-> t, amount |-> amount,
                 activation_ledger |-> ledger + EMERGENCY_WITHDRAWAL_DELAY,
                 approvals |-> {}, threshold |-> adminThreshold, status |-> "Pending"]
<1>1. adminThreshold \in Nat /\ adminThreshold >= 1
  BY DEF InitiateEmergencyWithdrawal, Governed, AdminTypeOK, QuorumIsReachable
<1>2. amount \in Nat \ {0} /\ ledger + EMERGENCY_WITHDRAWAL_DELAY \in Nat
  BY GovernanceNumbers, WithdrawalAssumption DEF InitiateEmergencyWithdrawal, CustodyTypeOK
<1>3. w \in Withdrawal /\ w.status = "Pending" /\ w.threshold >= 1
  BY <1>1, <1>2 DEF Withdrawal
<1>4. withdrawalCount \in WithdrawalIds
  BY GovernanceNumbers DEF InitiateEmergencyWithdrawal, WithdrawalsOK, WithdrawalIds
<1>5. withdrawal' = [withdrawal EXCEPT ![withdrawalCount] = w]
      /\ withdrawalCount' = withdrawalCount + 1 /\ UNCHANGED <<custodyVars, adminVars>>
  BY DEF InitiateEmergencyWithdrawal
<1> HIDE DEF w
<1>6. PaidInTime(w, ledger)
  BY <1>3 DEF PaidInTime
<1>7. CustodyTypeOK' /\ UNCHANGED ledger
  BY <1>5 DEF custodyVars, CustodyTypeOK
<1> QED
  BY <1>3, <1>4, <1>5, <1>6, <1>7, RecordWithdrawal

LEMMA ProductsKeepTypes ==
    ASSUME CustodyTypeOK, NEW t \in Tokens, NEW amount \in Amounts,
           Deposit(t, amount) \/ Payout(t, amount)
    PROVE  CustodyTypeOK' /\ UNCHANGED <<ledger, adminVars, withdrawalVars>>
<1>1. CASE Deposit(t, amount)
  <2>1. amount \in Nat
    BY <1>1, WithdrawalAssumption DEF Deposit
  <2>2. balance' \in [Tokens -> Nat] /\ cached' \in [Tokens -> Nat \cup {NoCache}]
    BY <1>1, <2>1 DEF Deposit, TransferIn, CustodyTypeOK
  <2>3. locked' \in [Tokens -> Int]
    BY <1>1, <2>1 DEF Deposit, IncreaseLocked, CustodyTypeOK
  <2> QED
    BY <1>1, <2>2, <2>3 DEF Deposit, CustodyTypeOK
<1>2. CASE Payout(t, amount)
  <2>1. amount \in Nat
    BY <1>2, WithdrawalAssumption DEF Payout
  <2>2. balance' \in [Tokens -> Nat] /\ cached' \in [Tokens -> Nat \cup {NoCache}]
    BY <1>2, <2>1 DEF Payout, TransferOut, CustodyTypeOK, NoCache
  <2>3. locked' \in [Tokens -> Int]
    BY <1>2, <2>1 DEF Payout, DecreaseLocked, CustodyTypeOK
  <2> QED
    BY <1>2, <2>2, <2>3 DEF Payout, CustodyTypeOK
<1> QED
  BY <1>1, <1>2

LEMMA GovernanceFrame ==
    ASSUME Governed, UNCHANGED adminVars
    PROVE  Governed'
BY DEF Governed, AdminTypeOK, QuorumIsReachable, Initialized, ExecutedByQuorum, adminVars

LEMMA WithdrawalStep ==
    ASSUME CustodyTypeOK, Governed, WithdrawalsOK, WithdrawalNext
    PROVE  CustodyTypeOK' /\ Governed' /\ WithdrawalsOK'
<1>1. ASSUME NEW t \in Tokens, NEW amount \in Amounts, Deposit(t, amount) \/ Payout(t, amount)
      PROVE  CustodyTypeOK' /\ Governed' /\ WithdrawalsOK'
  <2>1. CustodyTypeOK' /\ UNCHANGED <<ledger, adminVars, withdrawalVars>>
    BY <1>1, ProductsKeepTypes
  <2>2. ledger' >= ledger
    BY <2>1 DEF CustodyTypeOK
  <2> QED
    BY <2>1, <2>2, GovernanceFrame, WithdrawalsSurvive
<1>2. ASSUME NEW t \in Tokens, NEW amount \in Amounts, InitiateEmergencyWithdrawal(t, amount)
      PROVE  CustodyTypeOK' /\ Governed' /\ WithdrawalsOK'
  BY <1>2, InitiationIsInTime, GovernanceFrame
<1>3. ASSUME NEW id \in WithdrawalIds, ExecuteEmergencyWithdrawal(id)
      PROVE  CustodyTypeOK' /\ Governed' /\ WithdrawalsOK'
  <2>1. Pending(id)
    BY <1>3 DEF ExecuteEmergencyWithdrawal
  <2>2. withdrawal[id].approvals \in SUBSET Accounts
    BY <2>1, PendingWithdrawal DEF Withdrawal
  <2> QED
    BY <1>3, <2>1, <2>2, PaymentIsInTime, GovernanceFrame DEF ExecuteEmergencyWithdrawal
<1>4. ASSUME NEW id \in WithdrawalIds, CancelEmergencyWithdrawal(id)
      PROVE  CustodyTypeOK' /\ Governed' /\ WithdrawalsOK'
  BY <1>4, CancellationIsInTime, GovernanceFrame
<1>5. ASSUME NEW id \in WithdrawalIds, NEW a \in Accounts, ApproveEmergencyWithdrawal(id, a)
      PROVE  CustodyTypeOK' /\ Governed' /\ WithdrawalsOK'
  BY <1>5, ApprovalIsInTime, GovernanceFrame
<1> QED
  BY <1>1, <1>2, <1>3, <1>4, <1>5 DEF WithdrawalNext

LEMMA GovernanceInitially == Init => DecisionsHaveAQuorum
<1> SUFFICES ASSUME Init PROVE DecisionsHaveAQuorum
  OBVIOUS
<1>1. CustodyTypeOK
  <2>1. 0 \in Nat /\ 1 \in Nat /\ 0 \in Int /\ NoCache \in Nat \cup {NoCache}
    OBVIOUS
  <2>2. balance \in [Tokens -> Nat] /\ locked \in [Tokens -> Int]
    BY <2>1 DEF Init, CustodyInit
  <2>3. cached \in [Tokens -> Nat \cup {NoCache}]
    BY <2>1 DEF Init, CustodyInit
  <2>4. paused \in BOOLEAN /\ ledger \in Nat
    BY <2>1 DEF Init, CustodyInit
  <2> QED
    BY <2>2, <2>3, <2>4 DEF CustodyTypeOK
<1>2. AdminTypeOK /\ QuorumIsReachable /\ ExecutedByQuorum
  BY GovernanceNumbers DEF Init, AdminInit, AdminTypeOK, QuorumIsReachable, Initialized,
     ExecutedByQuorum, ActionIds
<1>3. WithdrawalsOK
  BY GovernanceNumbers DEF Init, WithdrawalsOK, PaidAfterDelayByQuorum, WithdrawalIds
<1> QED
  BY <1>1, <1>2, <1>3, InvariantParts DEF Governed

LEMMA GovernanceStep == DecisionsHaveAQuorum /\ [Next]_vars => DecisionsHaveAQuorum'
<1> SUFFICES ASSUME CustodyTypeOK, Governed, WithdrawalsOK, [Next]_vars
             PROVE  CustodyTypeOK' /\ Governed' /\ WithdrawalsOK'
  <2>1. DecisionsHaveAQuorum' <=> CustodyTypeOK' /\ Governed' /\ WithdrawalsOK'
    BY DEF DecisionsHaveAQuorum, TypeOK, Governed, WithdrawalsOK
  <2> QED
    BY <2>1, InvariantParts
<1>1. CASE WithdrawalNext
  BY <1>1, WithdrawalStep
<1>2. CASE AdminNext /\ UNCHANGED withdrawalVars
  <2>1. CustodyTypeOK' /\ Governed' /\ ledger' >= ledger
    BY <1>2, AdministrationIsGoverned DEF CustodyTypeOK
  <2> QED
    BY <1>2, <2>1, WithdrawalsSurvive
<1>3. CASE Environment /\ UNCHANGED <<adminVars, withdrawalVars>>
  <2>1. CustodyTypeOK' /\ ledger' >= ledger
    BY <1>3, EnvironmentKeepsTypes
  <2> QED
    BY <1>3, <2>1, GovernanceFrame, WithdrawalsSurvive
<1>4. CASE UNCHANGED vars
  <2>1. CustodyTypeOK' /\ ledger' >= ledger /\ UNCHANGED <<adminVars, withdrawalVars>>
    BY <1>4 DEF vars, custodyVars, CustodyTypeOK
  <2> QED
    BY <2>1, GovernanceFrame, WithdrawalsSurvive
<1> QED
  BY <1>1, <1>2, <1>3, <1>4 DEF Next

(***************************************************************************)
(* Whatever signers, thresholds, payloads and delays: administrative       *)
(* actions and withdrawals take effect with a quorum of the threshold they *)
(* were created under, withdrawals not before their delay, and the stored  *)
(* threshold can always be met by the stored signers.                      *)
(***************************************************************************)
THEOREM DecisionsNeedAQuorum == Spec => []DecisionsHaveAQuorum
<1>1. Init => DecisionsHaveAQuorum
  BY GovernanceInitially
<1>2. DecisionsHaveAQuorum /\ [Next]_vars => DecisionsHaveAQuorum'
  BY GovernanceStep
<1> QED
  BY <1>1, <1>2, PTL DEF Spec

-----------------------------------------------------------------------------
(***************************************************************************)
(* Decisions stand.  A proposal or an approval touches one proposal that   *)
(* was not executed; it has an effect only if it executes that proposal,   *)
(* and then the effect of its payload.                                     *)
(***************************************************************************)
Decides(id, payload) ==
    /\ ~action[id].executed
    /\ \A i \in ActionIds \ {id} : action'[i] = action[i]
    /\ action'[id].payload = payload
    /\ ledger <= action'[id].expiration_ledger
    /\ \/ action'[id].executed /\ ExecuteAdminAction(payload)
       \/ NoEffect

LEMMA ProposalDecides ==
    ASSUME CustodyTypeOK, Governed, NEW a \in Accounts, NEW payload \in Payloads,
           ProposeAdminAction(a, payload)
    PROVE  actionCount + 1 \in ActionIds /\ Decides(actionCount + 1, payload)
<1> DEFINE p == [payload |-> payload, approvals |-> {a}, threshold |-> adminThreshold,
                 executed |-> adminThreshold = 1, expiration_ledger |-> ledger + ActionTtl]
           id == actionCount + 1
<1>1. id \in ActionIds /\ ~(id <= actionCount) /\ ledger <= ledger + ActionTtl
  BY GovernanceNumbers DEF ProposeAdminAction, Governed, AdminTypeOK, ActionIds, CustodyTypeOK
<1>2. action[id] = NoAction
  BY <1>1 DEF Governed, AdminTypeOK
<1>3. p.payload = payload /\ p.executed = (adminThreshold = 1)
      /\ p.expiration_ledger = ledger + ActionTtl
  OBVIOUS
<1>4. /\ action' = [action EXCEPT ![id] = p]
      /\ IF adminThreshold = 1 THEN ExecuteAdminAction(payload) ELSE NoEffect
  BY DEF ProposeAdminAction
<1> HIDE DEF p, id
<1>5. action'[id] = p /\ \A i \in ActionIds \ {id} : action'[i] = action[i]
  BY <1>1, <1>4 DEF Governed, AdminTypeOK
<1>6. (p.executed /\ ExecuteAdminAction(payload)) \/ NoEffect
  BY <1>3, <1>4, Zenon
<1>7. Decides(id, payload)
  BY <1>1, <1>2, <1>3, <1>5, <1>6 DEF Decides, NoAction
<1> QED
  BY <1>1, <1>7 DEF id

LEMMA ApprovalDecides ==
    ASSUME CustodyTypeOK, Governed, NEW a \in Accounts, NEW id \in ActionIds,
           ApproveAdminAction(id, a)
    PROVE  action[id].payload \in Payloads /\ Decides(id, action[id].payload)
<1> DEFINE old == action[id]
           approvals == old.approvals \cup {a}
           reached == Cardinality(approvals) >= old.threshold
           p == [old EXCEPT !.approvals = approvals, !.executed = reached]
<1>1. id <= actionCount /\ old \in Action /\ ~old.executed /\ ledger <= old.expiration_ledger
  BY DEF ApproveAdminAction, Governed, AdminTypeOK
<1>2. p.payload = old.payload /\ p.executed = reached
      /\ p.expiration_ledger = old.expiration_ledger
  BY <1>1 DEF Action
<1>3. /\ action' = [action EXCEPT ![id] = p]
      /\ IF reached THEN ExecuteAdminAction(old.payload) ELSE NoEffect
  BY DEF ApproveAdminAction, Governed, AdminTypeOK
<1> HIDE DEF p, reached
<1>4. action'[id] = p /\ \A i \in ActionIds \ {id} : action'[i] = action[i]
  BY <1>3 DEF Governed, AdminTypeOK
<1>5. (p.executed /\ ExecuteAdminAction(old.payload)) \/ NoEffect
  BY <1>2, <1>3, Zenon
<1>6. Decides(id, old.payload)
  BY <1>1, <1>2, <1>4, <1>5 DEF Decides
<1> QED
  BY <1>1, <1>6 DEF Action

\* The other calls, and everything outside the administration, decide nothing.
DecidesNothing ==
    /\ action' = action /\ UNCHANGED <<version, layout>>
    /\ Initialized => /\ UNCHANGED <<adminSigners, adminThreshold, pauser>>
                      /\ paused' = paused \/ pauser # Nobody

LEMMA KindsOfDecision ==
    ASSUME CustodyTypeOK, Governed, [Next]_vars
    PROVE  \/ \E id \in ActionIds, payload \in Payloads : Decides(id, payload)
           \/ DecidesNothing
<1>1. ASSUME AdminNext
      PROVE  \/ \E id \in ActionIds, payload \in Payloads : Decides(id, payload)
             \/ DecidesNothing
  <2>1. ASSUME NEW s \in InitialSets, NEW first \in Accounts,
               Initialize(s.signers, s.threshold, first)
        PROVE  DecidesNothing
    BY <2>1 DEF Initialize, DecidesNothing
  <2>2. ASSUME NEW a \in Accounts, TransferAdmin(a) PROVE DecidesNothing
    BY <2>2 DEF TransferAdmin, DecidesNothing, custodyVars
  <2>3. ASSUME NEW flag \in BOOLEAN, PauserSets(flag) PROVE DecidesNothing
    BY <2>3 DEF PauserSets, DecidesNothing, adminVars
  <2>4. ASSUME NEW a \in Accounts, NEW payload \in Payloads, ProposeAdminAction(a, payload)
        PROVE  \E id \in ActionIds, q \in Payloads : Decides(id, q)
    BY <2>4, ProposalDecides
  <2>5. ASSUME NEW a \in Accounts, NEW id \in ActionIds, ApproveAdminAction(id, a)
        PROVE  \E i \in ActionIds, q \in Payloads : Decides(i, q)
    BY <2>5, ApprovalDecides
  <2> QED
    BY <1>1, <2>1, <2>2, <2>3, <2>4, <2>5 DEF AdminNext
<1>2. ASSUME UNCHANGED adminVars, paused' = paused PROVE DecidesNothing
  BY <1>2 DEF DecidesNothing, adminVars
<1>3. CASE WithdrawalNext
  <2>1. UNCHANGED adminVars /\ paused' = paused
    BY <1>3 DEF WithdrawalNext, Deposit, Payout, InitiateEmergencyWithdrawal, PayWithdrawal,
       ApproveEmergencyWithdrawal, ExecuteEmergencyWithdrawal, CancelEmergencyWithdrawal,
       custodyVars
  <2> QED
    BY <1>2, <2>1
<1>4. CASE Environment /\ UNCHANGED <<adminVars, withdrawalVars>>
  BY <1>2, <1>4 DEF Environment, AdvanceLedger, Donate
<1>5. CASE UNCHANGED vars
  BY <1>2, <1>5 DEF vars, custodyVars
<1> QED
  BY <1>1, <1>3, <1>4, <1>5 DEF Next

\* The three promises about administration, one step at a time.
LEMMA DecisionStep ==
    ASSUME CustodyTypeOK, Governed, [Next]_vars
    PROVE  /\ \A id \in ActionIds : action[id].executed => action'[id] = action[id]
           /\ layout' >= layout
           /\ Initialized =>
                /\ <<adminSigners, adminThreshold>>' # <<adminSigners, adminThreshold>> =>
                     \E id \in ActionIds :
                        /\ Ran(id, "set_admin_signers")
                        /\ adminSigners' = action'[id].payload.signers
                        /\ adminThreshold' = action'[id].payload.threshold
                /\ pauser' # pauser =>
                     \E id \in ActionIds :
                        Ran(id, "set_pauser") /\ pauser' = action'[id].payload.pauser
                /\ <<version, layout>>' # <<version, layout>> =>
                     \E id \in ActionIds :
                        Ran(id, "upgrade") /\ layout' = action'[id].payload.layout
                /\ paused' # paused =>
                     \/ pauser # Nobody
                     \/ \E id \in ActionIds : Ran(id, "pause") \/ Ran(id, "unpause")
<1>0. layout \in Nat /\ AdminTypeOK
  BY DEF Governed, AdminTypeOK
<1>1. ASSUME NEW id \in ActionIds, NEW payload \in Payloads, Decides(id, payload), NoEffect
      PROVE  /\ UNCHANGED <<paused, adminSigners, adminThreshold, pauser, version, layout>>
             /\ \A i \in ActionIds : action[i].executed => action'[i] = action[i]
  BY <1>1 DEF Decides, NoEffect
<1>2. ASSUME NEW id \in ActionIds, NEW payload \in Payloads, Decides(id, payload),
             action'[id].executed, ExecuteAdminAction(payload)
      PROVE  /\ \A i \in ActionIds : action[i].executed => action'[i] = action[i]
             /\ action'[id].payload = payload /\ Ran(id, payload.kind)
             /\ layout' >= layout
             /\ <<adminSigners, adminThreshold>>' # <<adminSigners, adminThreshold>> =>
                  /\ payload.kind = "set_admin_signers"
                  /\ adminSigners' = payload.signers /\ adminThreshold' = payload.threshold
             /\ pauser' # pauser => payload.kind = "set_pauser" /\ pauser' = payload.pauser
             /\ <<version, layout>>' # <<version, layout>> =>
                  payload.kind = "upgrade" /\ layout' = payload.layout
             /\ paused' # paused => payload.kind \in {"pause", "unpause"}
  BY <1>0, <1>2, ActionEffect DEF Decides, Ran
<1>3. CASE DecidesNothing
  BY <1>0, <1>3 DEF DecidesNothing
<1>4. ASSUME NEW id \in ActionIds, NEW payload \in Payloads, Decides(id, payload)
      PROVE  NoEffect \/ (action'[id].executed /\ ExecuteAdminAction(payload))
  BY <1>4 DEF Decides
<1> QED
  BY <1>0, <1>1, <1>2, <1>3, <1>4, KindsOfDecision

\* The same for withdrawals: only a pending one is touched.
LEMMA SettledStep ==
    ASSUME WithdrawalsOK, [Next]_vars, NEW id \in WithdrawalIds,
           id < withdrawalCount, ~Pending(id)
    PROVE  withdrawal'[id] = withdrawal[id]
<1>1. DOMAIN withdrawal = WithdrawalIds
  BY DEF WithdrawalsOK
<1>2. ASSUME NEW i \in WithdrawalIds, Pending(i),
             \E approvals : PayWithdrawal(i, approvals)
      PROVE  withdrawal'[id] = withdrawal[id]
  BY <1>1, <1>2 DEF PayWithdrawal
<1>3. ASSUME NEW i \in WithdrawalIds,
             \/ ExecuteEmergencyWithdrawal(i) \/ CancelEmergencyWithdrawal(i)
             \/ \E a \in Accounts : ApproveEmergencyWithdrawal(i, a)
      PROVE  withdrawal'[id] = withdrawal[id]
  <2>1. Pending(i) /\ i # id
    BY <1>3 DEF ExecuteEmergencyWithdrawal, CancelEmergencyWithdrawal,
       ApproveEmergencyWithdrawal
  <2>2. CASE CancelEmergencyWithdrawal(i)
    BY <1>1, <2>1, <2>2 DEF CancelEmergencyWithdrawal
  <2>3. CASE ExecuteEmergencyWithdrawal(i)
    BY <1>2, <2>1, <2>3 DEF ExecuteEmergencyWithdrawal
  <2>4. ASSUME NEW a \in Accounts, ApproveEmergencyWithdrawal(i, a)
        PROVE  withdrawal'[id] = withdrawal[id]
    BY <1>1, <1>2, <2>1, <2>4 DEF ApproveEmergencyWithdrawal
  <2> QED
    BY <1>3, <2>2, <2>3, <2>4
<1>4. ASSUME NEW t \in Tokens, NEW amount \in Amounts, InitiateEmergencyWithdrawal(t, amount)
      PROVE  withdrawal'[id] = withdrawal[id]
  <2>1. id # withdrawalCount
    BY GovernanceNumbers DEF WithdrawalsOK, WithdrawalIds
  <2> QED
    BY <1>1, <1>4, <2>1 DEF InitiateEmergencyWithdrawal
<1>5. ASSUME UNCHANGED withdrawalVars PROVE withdrawal'[id] = withdrawal[id]
  BY <1>5 DEF withdrawalVars
<1> QED
  BY <1>3, <1>4, <1>5 DEF Next, WithdrawalNext, Deposit, Payout, vars

(***************************************************************************)
(* What was executed or cancelled is spent; signers, threshold, pauser,    *)
(* versions and (but for the pauser) the circuit breaker change only when  *)
(* an unexpired proposal of that kind is executed, to its values; and no   *)
(* upgrade lowers the storage layout.                                      *)
(***************************************************************************)
THEOREM DecisionsAreFinal == Spec => DecisionsStand
<1>1. DecisionsHaveAQuorum /\ [Next]_vars =>
        [\A id \in ActionIds : action[id].executed => action'[id] = action[id]]_adminSpecVars
  BY DecisionStep, InvariantParts
<1>2. Spec => ExecutedIsFinal
  BY <1>1, DecisionsNeedAQuorum, PTL DEF Spec, ExecutedIsFinal
<1>3. DecisionsHaveAQuorum /\ [Next]_vars =>
        [\A id \in WithdrawalIds :
           id < withdrawalCount /\ ~Pending(id) => withdrawal'[id] = withdrawal[id]]_vars
  BY SettledStep, InvariantParts
<1>4. Spec => SettledIsFinal
  BY <1>3, DecisionsNeedAQuorum, PTL DEF Spec, SettledIsFinal
<1>5. DecisionsHaveAQuorum /\ [Next]_vars => [layout' >= layout]_adminSpecVars
  BY DecisionStep, InvariantParts
<1>6. Spec => LayoutNeverDowngrades
  BY <1>5, DecisionsNeedAQuorum, PTL DEF Spec, LayoutNeverDowngrades
<1> DEFINE Change ==
      Initialized =>
         /\ <<adminSigners, adminThreshold>>' # <<adminSigners, adminThreshold>> =>
              \E id \in ActionIds :
                 /\ Ran(id, "set_admin_signers")
                 /\ adminSigners' = action'[id].payload.signers
                 /\ adminThreshold' = action'[id].payload.threshold
         /\ pauser' # pauser =>
              \E id \in ActionIds :
                 Ran(id, "set_pauser") /\ pauser' = action'[id].payload.pauser
         /\ <<version, layout>>' # <<version, layout>> =>
              \E id \in ActionIds :
                 Ran(id, "upgrade") /\ layout' = action'[id].payload.layout
         /\ paused' # paused =>
              \/ pauser # Nobody
              \/ \E id \in ActionIds : Ran(id, "pause") \/ Ran(id, "unpause")
<1>7. DecisionsHaveAQuorum /\ [Next]_vars => [Change]_adminSpecVars
  BY DecisionStep, InvariantParts
<1>8. Spec => ChangesNeedAProposal
  BY <1>7, DecisionsNeedAQuorum, PTL DEF Spec, ChangesNeedAProposal
<1> QED
  BY <1>2, <1>4, <1>6, <1>8, PTL DEF DecisionsStand

-----------------------------------------------------------------------------
(***************************************************************************)
(* When emergency withdrawals leave locked tokens alone.  The unlocked     *)
(* amount is checked when a withdrawal is initiated and not when it is     *)
(* paid; that is enough as long as a token has one pending withdrawal at a *)
(* time, because products move balance and locked balance alike.  (Two     *)
(* pending at once may each promise the same tokens: MCEmergencyTwo.)      *)
(***************************************************************************)
OneAtATime ==
    \A i, j \in WithdrawalIds :
        Pending(i) /\ Pending(j) /\ withdrawal[i].token = withdrawal[j].token => i = j

\* The check made at initiation still holds.
StillCovered ==
    \A id \in WithdrawalIds :
        Pending(id) => LET w == withdrawal[id]
                       IN  w.amount <= balance[w.token] - locked[w.token]

\* No withdrawal starts and no token loses unlocked tokens.
LEMMA UnlockedKept ==
    ASSUME CustodyTypeOK, CustodyTypeOK', WithdrawalsOK, LockedIsBacked, StillCovered,
           \A t \in Tokens : balance'[t] - locked'[t] >= balance[t] - locked[t],
           \A id \in WithdrawalIds :
              id < withdrawalCount' /\ withdrawal'[id].status = "Pending" =>
                 /\ Pending(id)
                 /\ withdrawal'[id].token = withdrawal[id].token
                 /\ withdrawal'[id].amount = withdrawal[id].amount
    PROVE  LockedIsBacked' /\ StillCovered'
<1>1. \A t \in Tokens : /\ balance[t] \in Int /\ locked[t] \in Int
                        /\ balance'[t] \in Int /\ locked'[t] \in Int
  BY DEF CustodyTypeOK
<1>2. LockedIsBacked'
  BY <1>1 DEF LockedIsBacked
<1>3. ASSUME NEW id \in WithdrawalIds, id < withdrawalCount', withdrawal'[id].status = "Pending"
      PROVE  withdrawal'[id].amount <=
               balance'[withdrawal'[id].token] - locked'[withdrawal'[id].token]
  <2> DEFINE t == withdrawal[id].token
             n == withdrawal[id].amount
  <2>1. Pending(id) /\ withdrawal'[id].token = t /\ withdrawal'[id].amount = n
    BY <1>3
  <2>2. t \in Tokens /\ n \in Int /\ n <= balance[t] - locked[t]
    BY <2>1, PendingWithdrawal DEF StillCovered, Withdrawal
  <2> HIDE DEF t, n
  <2>3. n <= balance'[t] - locked'[t]
    BY <1>1, <2>2
  <2> QED
    BY <2>1, <2>3
<1> QED
  BY <1>2, <1>3 DEF StillCovered, Pending

\* A payment spends what its withdrawal was promised, and no other pending
\* withdrawal was promised any of that token.
LEMMA PaymentIsCovered ==
    ASSUME CustodyTypeOK, CustodyTypeOK', WithdrawalsOK, LockedIsBacked, StillCovered, OneAtATime,
           NEW id \in WithdrawalIds, Pending(id), NEW approvals, PayWithdrawal(id, approvals)
    PROVE  LockedIsBacked' /\ StillCovered'
<1> DEFINE t == withdrawal[id].token
           n == withdrawal[id].amount
<1>1. t \in Tokens /\ n \in Nat /\ n <= balance[t] - locked[t]
  BY PendingWithdrawal DEF StillCovered, Withdrawal
<1>2. /\ balance' = [balance EXCEPT ![t] = @ - n] /\ locked' = locked
      /\ withdrawalCount' = withdrawalCount
  BY DEF PayWithdrawal, TransferOut
<1>3. /\ withdrawal'[id].status = "Executed"
      /\ \A i \in WithdrawalIds \ {id} : withdrawal'[i] = withdrawal[i]
  <2> DEFINE w == [[withdrawal[id] EXCEPT !.approvals = approvals] EXCEPT !.status = "Executed"]
  <2>1. withdrawal' = [withdrawal EXCEPT ![id] = w]
    BY DEF PayWithdrawal, WithdrawalsOK
  <2>2. w.status = "Executed"
    BY PendingWithdrawal DEF Withdrawal
  <2> HIDE DEF w
  <2> QED
    BY <2>1, <2>2 DEF WithdrawalsOK
<1>4. \A i \in WithdrawalIds \ {id} : Pending(i) => withdrawal[i].token # t
  BY DEF OneAtATime
<1> HIDE DEF t, n
<1>5. /\ \A u \in Tokens : balance[u] \in Int /\ locked[u] \in Int
      /\ \A u \in Tokens : balance'[u] = IF u = t THEN balance[t] - n ELSE balance[u]
  BY <1>2 DEF CustodyTypeOK
<1>6. LockedIsBacked'
  BY <1>1, <1>2, <1>5 DEF LockedIsBacked
<1>7. ASSUME NEW i \in WithdrawalIds, i < withdrawalCount', withdrawal'[i].status = "Pending"
      PROVE  withdrawal'[i].amount <=
               balance'[withdrawal'[i].token] - locked'[withdrawal'[i].token]
  <2>1. i # id /\ withdrawal'[i] = withdrawal[i] /\ Pending(i)
    BY <1>2, <1>3, <1>7 DEF Pending
  <2>2. withdrawal[i].token \in Tokens /\ withdrawal[i].token # t
        /\ withdrawal[i].amount <= balance[withdrawal[i].token] - locked[withdrawal[i].token]
    BY <1>4, <2>1, PendingWithdrawal DEF StillCovered, Withdrawal
  <2> QED
    BY <1>2, <1>5, <2>1, <2>2
<1> QED
  BY <1>6, <1>7 DEF StillCovered, Pending

\* A new withdrawal is checked against what is unlocked.
LEMMA InitiationIsCovered ==
    ASSUME CustodyTypeOK, CustodyTypeOK', WithdrawalsOK, LockedIsBacked, StillCovered,
           NEW t \in Tokens, NEW amount \in Amounts, InitiateEmergencyWithdrawal(t, amount)
    PROVE  LockedIsBacked' /\ StillCovered'
<1> DEFINE w == [token |-> t, amount |-> amount,
                 activation_ledger |-> ledger + EMERGENCY_WITHDRAWAL_DELAY,
                 approvals |-> {}, threshold |-> adminThreshold, status |-> "Pending"]
<1>1. /\ withdrawal' = [withdrawal EXCEPT ![withdrawalCount] = w]
      /\ withdrawalCount' = withdrawalCount + 1 /\ balance' = balance /\ locked' = locked
      /\ amount <= balance[t] - locked[t]
  BY WithdrawalAssumption DEF InitiateEmergencyWithdrawal, custodyVars, CustodyTypeOK
<1>2. w.token = t /\ w.amount = amount
  OBVIOUS
<1> HIDE DEF w
<1>3. \A i \in WithdrawalIds : withdrawal'[i] = IF i = withdrawalCount THEN w ELSE withdrawal[i]
  BY <1>1 DEF WithdrawalsOK
<1>4. \A i \in WithdrawalIds \ {withdrawalCount} : i < withdrawalCount' => i < withdrawalCount
  BY <1>1, GovernanceNumbers DEF WithdrawalsOK, WithdrawalIds
<1>5. ASSUME NEW i \in WithdrawalIds, i < withdrawalCount', withdrawal'[i].status = "Pending"
      PROVE  withdrawal'[i].amount <=
               balance'[withdrawal'[i].token] - locked'[withdrawal'[i].token]
  <2>1. CASE i = withdrawalCount
    BY <1>1, <1>2, <1>3, <2>1
  <2>2. CASE i # withdrawalCount
    <3>1. Pending(i) /\ withdrawal'[i] = withdrawal[i]
      BY <1>3, <1>4, <1>5, <2>2 DEF Pending
    <3> QED
      BY <1>1, <3>1 DEF StillCovered
  <2> QED
    BY <2>1, <2>2
<1> QED
  BY <1>1, <1>5 DEF StillCovered, Pending, LockedIsBacked

LEMMA CoverageStep ==
    ASSUME CustodyTypeOK, CustodyTypeOK', WithdrawalsOK, LockedIsBacked, StillCovered, OneAtATime,
           [Next]_vars
    PROVE  LockedIsBacked' /\ StillCovered'
<1>0. \A t \in Tokens : /\ balance[t] \in Int /\ locked[t] \in Int
                        /\ balance'[t] \in Int /\ locked'[t] \in Int
  BY DEF CustodyTypeOK
<1>1. ASSUME UNCHANGED withdrawalVars,
             \A t \in Tokens : balance'[t] - locked'[t] >= balance[t] - locked[t]
      PROVE  LockedIsBacked' /\ StillCovered'
  <2>1. \A id \in WithdrawalIds :
           id < withdrawalCount' /\ withdrawal'[id].status = "Pending" =>
              /\ Pending(id)
              /\ withdrawal'[id].token = withdrawal[id].token
              /\ withdrawal'[id].amount = withdrawal[id].amount
    BY <1>1 DEF withdrawalVars, Pending
  <2> QED
    BY <1>1, <2>1, UnlockedKept
<1>2. ASSUME NEW id \in WithdrawalIds, Pending(id), NEW w,
             withdrawal' = [withdrawal EXCEPT ![id] = w],
             w.token = withdrawal[id].token, w.amount = withdrawal[id].amount,
             UNCHANGED <<custodyVars, withdrawalCount>>
      PROVE  LockedIsBacked' /\ StillCovered'
  <2>1. \A i \in WithdrawalIds : withdrawal'[i] = IF i = id THEN w ELSE withdrawal[i]
    BY <1>2 DEF WithdrawalsOK
  <2>2. \A i \in WithdrawalIds :
           i < withdrawalCount' /\ withdrawal'[i].status = "Pending" =>
              /\ Pending(i)
              /\ withdrawal'[i].token = withdrawal[i].token
              /\ withdrawal'[i].amount = withdrawal[i].amount
    BY <1>2, <2>1 DEF Pending
  <2>3. \A t \in Tokens : balance'[t] - locked'[t] >= balance[t] - locked[t]
    BY <1>0, <1>2 DEF custodyVars
  <2> QED
    BY <2>2, <2>3, UnlockedKept
<1>3. ASSUME NEW t \in Tokens, NEW amount \in Amounts, Deposit(t, amount) \/ Payout(t, amount)
      PROVE  LockedIsBacked' /\ StillCovered'
  <2>1. amount \in Int
    BY WithdrawalAssumption
  <2>2. UNCHANGED withdrawalVars
    BY <1>3 DEF Deposit, Payout
  <2>3. CASE Deposit(t, amount)
    <3>1. /\ balance' = [balance EXCEPT ![t] = @ + amount]
          /\ locked' = [locked EXCEPT ![t] = @ + amount]
      BY <2>3 DEF Deposit, TransferIn, IncreaseLocked
    <3>2. \A u \in Tokens : balance'[u] - locked'[u] >= balance[u] - locked[u]
      BY <1>0, <2>1, <3>1 DEF CustodyTypeOK
    <3> QED
      BY <1>1, <2>2, <3>2
  <2>4. CASE Payout(t, amount)
    <3>1. /\ balance' = [balance EXCEPT ![t] = @ - amount]
          /\ locked' = [locked EXCEPT ![t] = @ - amount]
      BY <2>4 DEF Payout, TransferOut, DecreaseLocked
    <3>2. \A u \in Tokens : balance'[u] - locked'[u] >= balance[u] - locked[u]
      BY <1>0, <2>1, <3>1 DEF CustodyTypeOK
    <3> QED
      BY <1>1, <2>2, <3>2
  <2> QED
    BY <1>3, <2>3, <2>4
<1>4. ASSUME NEW id \in WithdrawalIds, CancelEmergencyWithdrawal(id)
      PROVE  LockedIsBacked' /\ StillCovered'
  <2> DEFINE w == [withdrawal[id] EXCEPT !.status = "Cancelled"]
  <2>1. /\ Pending(id) /\ withdrawal' = [withdrawal EXCEPT ![id] = w]
        /\ UNCHANGED <<custodyVars, withdrawalCount>>
    BY <1>4 DEF CancelEmergencyWithdrawal
  <2>2. w.token = withdrawal[id].token /\ w.amount = withdrawal[id].amount
    BY <2>1, PendingWithdrawal DEF Withdrawal
  <2> HIDE DEF w
  <2> QED
    BY <1>2, <2>1, <2>2
<1>5. ASSUME NEW id \in WithdrawalIds, NEW a \in Accounts, ApproveEmergencyWithdrawal(id, a)
      PROVE  LockedIsBacked' /\ StillCovered'
  <2> DEFINE approvals == withdrawal[id].approvals \cup {a}
             w == [withdrawal[id] EXCEPT !.approvals = approvals]
  <2>1. Pending(id)
    BY <1>5 DEF ApproveEmergencyWithdrawal
  <2>2. CASE PayWithdrawal(id, approvals)
    BY <2>1, <2>2, PaymentIsCovered
  <2>3. CASE withdrawal' = [withdrawal EXCEPT ![id].approvals = approvals]
             /\ UNCHANGED <<custodyVars, adminVars, withdrawalCount>>
    <3>1. withdrawal' = [withdrawal EXCEPT ![id] = w] /\ UNCHANGED <<custodyVars, withdrawalCount>>
      BY <2>3 DEF WithdrawalsOK
    <3>2. w.token = withdrawal[id].token /\ w.amount = withdrawal[id].amount
      BY <2>1, PendingWithdrawal DEF Withdrawal
    <3> HIDE DEF w
    <3> QED
      BY <1>2, <2>1, <3>1, <3>2
  <2> QED
    BY <1>5, <2>2, <2>3 DEF ApproveEmergencyWithdrawal
<1>6. ASSUME NEW id \in WithdrawalIds, ExecuteEmergencyWithdrawal(id)
      PROVE  LockedIsBacked' /\ StillCovered'
  BY <1>6, PaymentIsCovered DEF ExecuteEmergencyWithdrawal
<1>7. CASE AdminNext /\ UNCHANGED withdrawalVars
  <2>1. balance' = balance /\ locked' = locked
    BY <1>7 DEF AdminNext, Initialize, TransferAdmin, PauserSets, SetPaused, ProposeAdminAction,
       ApproveAdminAction, custodyVars
  <2>2. \A t \in Tokens : balance'[t] - locked'[t] >= balance[t] - locked[t]
    BY <1>0, <2>1
  <2> QED
    BY <1>1, <1>7, <2>2
<1>8. CASE Environment /\ UNCHANGED <<adminVars, withdrawalVars>>
  <2>1. ASSUME NEW t \in Tokens, NEW amount \in Donations, Donate(t, amount), NEW u \in Tokens
        PROVE  balance'[u] - locked'[u] >= balance[u] - locked[u]
    <3>1. amount \in Nat /\ balance' = [balance EXCEPT ![t] = @ + amount] /\ locked' = locked
      BY <2>1, DonationsAssumption DEF Donate
    <3> QED
      BY <1>0, <3>1 DEF CustodyTypeOK
  <2>2. ASSUME AdvanceLedger, NEW u \in Tokens
        PROVE  balance'[u] - locked'[u] >= balance[u] - locked[u]
    BY <1>0, <2>2 DEF AdvanceLedger
  <2>3. \A u \in Tokens : balance'[u] - locked'[u] >= balance[u] - locked[u]
    BY <1>8, <2>1, <2>2 DEF Environment
  <2> QED
    BY <1>1, <1>8, <2>3
<1>9. CASE UNCHANGED vars
  <2>1. \A t \in Tokens : balance'[t] - locked'[t] >= balance[t] - locked[t]
    BY <1>0, <1>9 DEF vars, custodyVars
  <2> QED
    BY <1>1, <1>9, <2>1 DEF vars
<1> QED
  BY <1>3, <1>4, <1>5, <1>6, <1>7, <1>8, <1>9, InitiationIsCovered DEF Next, WithdrawalNext

(***************************************************************************)
(* An emergency withdrawal takes only unlocked tokens if no other one is   *)
(* pending in its token, however long its delay is and whatever products   *)
(* deposit and pay out between initiation and payment.                     *)
(***************************************************************************)
THEOREM LockedTokensStay == Spec /\ []OneAtATime => []LockedIsBacked
<1>1. Init => LockedIsBacked /\ StillCovered
  BY GovernanceNumbers DEF Init, CustodyInit, LockedIsBacked, StillCovered, Pending, WithdrawalIds
<1>2. /\ DecisionsHaveAQuorum /\ DecisionsHaveAQuorum'
      /\ LockedIsBacked /\ StillCovered /\ OneAtATime /\ [Next]_vars
      => LockedIsBacked' /\ StillCovered'
  <2> SUFFICES ASSUME DecisionsHaveAQuorum, DecisionsHaveAQuorum',
                      LockedIsBacked, StillCovered, OneAtATime, [Next]_vars
               PROVE  LockedIsBacked' /\ StillCovered'
    OBVIOUS
  <2>1. CustodyTypeOK /\ WithdrawalsOK
    BY InvariantParts
  <2>2. CustodyTypeOK'
    BY DEF DecisionsHaveAQuorum, TypeOK
  <2> QED
    BY <2>1, <2>2, CoverageStep
<1> QED
  BY <1>1, <1>2, DecisionsNeedAQuorum, PTL DEF Spec
=============================================================================
