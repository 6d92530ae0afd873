----------------------------- MODULE CustodyProofs ----------------------------
(***************************************************************************)
(* Theorems about MultiSig and Grants, which lock what they owe, and about *)
(* Tips, which pays at once, for every finite set of accounts and          *)
(* recipients, every set of tokens and every limit.                        *)
(*                                                                         *)
(* Multi-sig payments.  The inductive invariant is QuorumInv: that one     *)
(* more approval raises their number by one needs the types (approvals are *)
(* a finite set), and the types need nothing else.  The locked balance     *)
(* rests on it: a settlement pays what was deposited because no proposal   *)
(* is settled twice, and changes the sum of the pending proposals by that. *)
(*                                                                         *)
(* Grants.  The inductive invariant is GrantsInv.  A step changes one      *)
(* grant of one kind and moves what that kind owes in one token by the     *)
(* difference (VestingMoves, AirdropMoves, YieldMoves), so that an action  *)
(* has to show what it does to its own record and to the balance.          *)
(*                                                                         *)
(* Tips.  The inductive invariant is TipsInv, of the state between calls.  *)
(* It is the case of StateSound in which nothing is collected: StateSound  *)
(* holds after every item of a batch (LoopSound, by induction on their     *)
(* number), so that the end of the batch finds what it writes.             *)
(***************************************************************************)
EXTENDS MultiSig, Grants, Tips, SumsProofs, TLAPS

\* What ExecutedByQuorum says of one proposal.
QuorumOf(p) ==
    /\ p.approvals \subseteq p.signers
    /\ p.threshold <= Cardinality(p.signers)
    /\ p.status = "Executed" => Cardinality(p.approvals) >= p.threshold
    /\ p.status # "Executed" => Cardinality(p.approvals) < p.threshold

QuorumInv == TypeOK /\ ExecutedByQuorum

LEMMA QuorumsOneByOne ==
    ExecutedByQuorum <=> \A id \in ProposalIds : id < multiSigCount => QuorumOf(proposal[id])
BY DEF ExecutedByQuorum, QuorumOf

\* A set of accounts is finite, so an approval adds one.
LEMMA AccountSets ==
    ASSUME NEW S \in SUBSET Accounts
    PROVE  /\ IsFiniteSet(S) /\ Cardinality(S) \in Nat
           /\ \A a \in Accounts \ S : Cardinality(S \cup {a}) = Cardinality(S) + 1
<1>1. IsFiniteSet(S)
  BY MultiSigInputsAssumption, FS_Subset
<1> QED
  BY <1>1, FS_CardinalityType, FS_AddElement

LEMMA ProposalIdsAreNat == MaxProposals \in Nat /\ \A id \in ProposalIds : id \in Nat /\ id < MaxProposals
BY MultiSigLimitsAssumption DEF ProposalIds

LEMMA MultiSigInitially == Init => QuorumInv
<1> SUFFICES ASSUME Init PROVE QuorumInv
  OBVIOUS
<1>1. CustodyTypeOK
  <2>1. 0 \in Nat /\ 1 \in Nat /\ 0 \in Int /\ NoCache \in Nat \cup {NoCache}
    OBVIOUS
  <2>2. balance \in [Tokens -> Nat] /\ locked \in [Tokens -> Int]
    BY <2>1 DEF Init, CustodyInit
  <2>3. cached \in [Tokens -> Nat \cup {NoCache}]
    BY <2>1 DEF Init, CustodyInit
  <2>4. paused \in BOOLEAN /\ ledger \in Nat
    BY <2>1 DEF Init, CustodyInit
  <2> QED
    BY <2>2, <2>3, <2>4 DEF CustodyTypeOK
<1>2. \A id \in ProposalIds : ~ (id < multiSigCount) /\ proposal[id] = NoProposal
  BY ProposalIdsAreNat DEF Init
<1>3. multiSigCount \in 0 .. MaxProposals
  BY ProposalIdsAreNat DEF Init
<1>4. DOMAIN proposal = ProposalIds /\ proposal = [id \in ProposalIds |-> proposal[id]]
  BY DEF Init
<1> QED
  BY <1>1, <1>2, <1>3, <1>4 DEF QuorumInv, TypeOK, ExecutedByQuorum

-----------------------------------------------------------------------------
\* A call on one proposal replaces its record.
LEMMA ReplaceProposal ==
    ASSUME QuorumInv, CustodyTypeOK', multiSigCount' = multiSigCount,
           NEW id \in ProposalIds, id < multiSigCount,
           NEW p \in Proposal, proposal' = [proposal EXCEPT ![id] = p], QuorumOf(p)
    PROVE  QuorumInv'
<1>1. DOMAIN proposal' = ProposalIds /\ proposal' = [i \in ProposalIds |-> proposal'[i]]
      /\ proposal'[id] = p
      /\ \A i \in ProposalIds \ {id} : proposal'[i] = proposal[i]
  BY DEF QuorumInv, TypeOK
<1>2. TypeOK'
  BY <1>1 DEF QuorumInv, TypeOK
<1>3. \A i \in ProposalIds : i < multiSigCount' => QuorumOf(proposal'[i])
  BY <1>1, QuorumsOneByOne DEF QuorumInv
<1>4. ExecutedByQuorum'
  BY <1>3 DEF ExecutedByQuorum, QuorumOf
<1> QED
  BY <1>2, <1>4 DEF QuorumInv

\* A pending proposal: what its calls start from.
LEMMA PendingProposal ==
    ASSUME QuorumInv, NEW id \in ProposalIds, Pending(id)
    PROVE  /\ id < multiSigCount /\ proposal[id] \in Proposal /\ QuorumOf(proposal[id])
           /\ proposal[id].status = "Pending"
           /\ Cardinality(proposal[id].approvals) < proposal[id].threshold
<1>1. id < multiSigCount /\ proposal[id] \in Proposal /\ proposal[id].status = "Pending"
  BY DEF Pending, QuorumInv, TypeOK
<1>2. QuorumOf(proposal[id])
  BY <1>1, QuorumsOneByOne DEF QuorumInv
<1> QED
  BY <1>1, <1>2 DEF QuorumOf

\* What a settlement leaves of the custody state and of the proposal (PayOut).
LEMMA PayOutTypes ==
    ASSUME CustodyTypeOK, NEW id \in ProposalIds, proposal[id] \in Proposal,
           NEW approvals, NEW status, PayOut(id, approvals, status),
           UNCHANGED <<paused, ledger>>
    PROVE  CustodyTypeOK'
<1>1. proposal[id].token \in Tokens /\ proposal[id].amount \in Nat
  BY DEF Proposal
<1>2. balance' \in [Tokens -> Nat] /\ cached' \in [Tokens -> Nat \cup {NoCache}]
  BY <1>1 DEF PayOut, TransferOut, CustodyTypeOK, NoCache
<1>3. locked' \in [Tokens -> Int]
  BY <1>1 DEF PayOut, DecreaseLocked, CustodyTypeOK
<1> QED
  BY <1>2, <1>3 DEF CustodyTypeOK

LEMMA CreationKeepsQuorum ==
    ASSUME QuorumInv, NEW t \in Tokens, NEW p \in Accounts, NEW r \in Accounts,
           NEW amount \in Amounts, NEW n \in Thresholds, NEW signers \in SUBSET Accounts,
           NEW l \in Expirations, CreateMultisig(t, p, r, amount, n, signers, l)
    PROVE  QuorumInv'
<1> DEFINE new == NewProposal(t, p, r, amount, n, signers, l)
<1>1. Cardinality(signers) \in Nat /\ Cardinality({}) = 0
  BY AccountSets, FS_EmptySet
<1>2. amount \in Nat \ {0} /\ n \in Nat \ {0} /\ n <= Cardinality(signers) /\ l \in Nat
  BY <1>1, MultiSigInputsAssumption, MultiSigLimitsAssumption DEF CreateMultisig, Acceptable
<1>3. new \in Proposal /\ QuorumOf(new)
  BY <1>1, <1>2 DEF NewProposal, Proposal, QuorumOf
<1>4. multiSigCount \in ProposalIds /\ multiSigCount \in Nat
  BY ProposalIdsAreNat DEF CreateMultisig, ProposalIds, QuorumInv, TypeOK
<1>5. multiSigCount' = multiSigCount + 1 /\ proposal' = [proposal EXCEPT ![multiSigCount] = new]
      /\ multiSigCount' \in 0 .. MaxProposals
  BY <1>4, ProposalIdsAreNat DEF CreateMultisig
<1> HIDE DEF new
<1>6. DOMAIN proposal' = ProposalIds /\ proposal' = [i \in ProposalIds |-> proposal'[i]]
      /\ proposal'[multiSigCount] = new
      /\ \A i \in ProposalIds \ {multiSigCount} : proposal'[i] = proposal[i]
  BY <1>4, <1>5 DEF QuorumInv, TypeOK
<1>7. \A i \in ProposalIds \ {multiSigCount} : i < multiSigCount' <=> i < multiSigCount
  BY <1>4, <1>5, ProposalIdsAreNat
<1>8. CustodyTypeOK'
  <2>1. balance' \in [Tokens -> Nat] /\ cached' \in [Tokens -> Nat \cup {NoCache}]
    BY <1>2 DEF CreateMultisig, TransferIn, QuorumInv, TypeOK, CustodyTypeOK
  <2>2. locked' \in [Tokens -> Int]
    BY <1>2 DEF CreateMultisig, IncreaseLocked, QuorumInv, TypeOK, CustodyTypeOK
  <2> QED
    BY <2>1, <2>2 DEF CreateMultisig, QuorumInv, TypeOK, CustodyTypeOK
<1>9. TypeOK'
  BY <1>3, <1>4, <1>5, <1>6, <1>7, <1>8 DEF QuorumInv, TypeOK
<1>10. \A i \in ProposalIds : i < multiSigCount' => QuorumOf(proposal'[i])
  BY <1>3, <1>6, <1>7, QuorumsOneByOne DEF QuorumInv
<1>11. ExecutedByQuorum'
  BY <1>10 DEF ExecutedByQuorum, QuorumOf
<1> QED
  BY <1>9, <1>11 DEF QuorumInv

-----------------------------------------------------------------------------
\* A settlement is justified by the approvals it writes: a quorum executes,
\* and a cancellation adds none.
LEMMA SettlementKeepsQuorum ==
    ASSUME QuorumInv, NEW id \in ProposalIds, Pending(id),
           NEW approvals \in SUBSET proposal[id].signers,
           NEW status \in {"Executed", "Cancelled"},
           status = "Executed" => Cardinality(approvals) >= proposal[id].threshold,
           status = "Cancelled" => approvals = proposal[id].approvals,
           PayOut(id, approvals, status), UNCHANGED <<paused, ledger, multiSigCount>>
    PROVE  QuorumInv'
<1> DEFINE new == [proposal[id] EXCEPT !.approvals = approvals, !.status = status]
<1>1. id < multiSigCount /\ proposal[id] \in Proposal /\ QuorumOf(proposal[id])
      /\ Cardinality(proposal[id].approvals) < proposal[id].threshold
  BY PendingProposal
<1>2. new \in Proposal
  BY <1>1 DEF Proposal
<1>3. new.approvals = approvals /\ new.status = status /\ new.signers = proposal[id].signers
      /\ new.threshold = proposal[id].threshold
  BY <1>1 DEF Proposal
<1>4. proposal' = [proposal EXCEPT ![id] = new]
  BY DEF PayOut, QuorumInv, TypeOK
<1> HIDE DEF new
<1>5. QuorumOf(new)
  BY <1>1, <1>3 DEF QuorumOf
<1>6. CustodyTypeOK'
  BY <1>1, PayOutTypes DEF QuorumInv, TypeOK
<1> QED
  BY <1>1, <1>2, <1>4, <1>5, <1>6, ReplaceProposal

LEMMA ApprovalKeepsQuorum ==
    ASSUME QuorumInv, NEW id \in ProposalIds, NEW signer \in Accounts,
           ApproveMultisig(id, signer)
    PROVE  QuorumInv'
<1> DEFINE approvals == proposal[id].approvals \cup {signer}
<1>1. Pending(id) /\ signer \in proposal[id].signers \ proposal[id].approvals
      /\ UNCHANGED <<paused, ledger, multiSigCount>>
  BY DEF ApproveMultisig
<1>2. id < multiSigCount /\ proposal[id] \in Proposal /\ QuorumOf(proposal[id])
      /\ proposal[id].status = "Pending"
  BY <1>1, PendingProposal
<1>3. approvals \in SUBSET proposal[id].signers /\ approvals \in SUBSET Accounts
  BY <1>1, <1>2 DEF QuorumOf, Proposal
<1>4. CASE Cardinality(approvals) >= proposal[id].threshold
           /\ PayOut(id, approvals, "Executed")
  BY <1>1, <1>3, <1>4, SettlementKeepsQuorum
<1>5. CASE /\ Cardinality(approvals) < proposal[id].threshold
           /\ proposal' = [proposal EXCEPT ![id].approvals = approvals]
           /\ UNCHANGED <<balance, locked, cached>>
  <2> DEFINE new == [proposal[id] EXCEPT !.approvals = approvals]
  <2>1. new \in Proposal
    BY <1>2, <1>3 DEF Proposal
  <2>2. new.approvals = approvals /\ new.status = "Pending"
        /\ new.signers = proposal[id].signers /\ new.threshold = proposal[id].threshold
    BY <1>2 DEF Proposal
  <2>3. proposal' = [proposal EXCEPT ![id] = new]
    BY <1>5 DEF QuorumInv, TypeOK
  <2> HIDE DEF new
  <2>4. QuorumOf(new)
    BY <1>2, <1>3, <1>5, <2>2 DEF QuorumOf
  <2>5. CustodyTypeOK'
    BY <1>1, <1>5 DEF QuorumInv, TypeOK, CustodyTypeOK
  <2> QED
    BY <1>1, <1>2, <2>1, <2>3, <2>4, <2>5, ReplaceProposal
<1> QED
  BY <1>4, <1>5 DEF ApproveMultisig

LEMMA RefundKeepsQuorum ==
    ASSUME QuorumInv, NEW id \in ProposalIds,
           TimeoutMultisig(id) \/ \E a \in Accounts : CancelMultisig(id, a)
    PROVE  QuorumInv'
<1>1. Pending(id) /\ PayOut(id, proposal[id].approvals, "Cancelled")
      /\ UNCHANGED <<paused, ledger, multiSigCount>>
  BY DEF TimeoutMultisig, CancelMultisig
<1>2. proposal[id].approvals \in SUBSET proposal[id].signers
  BY <1>1, PendingProposal DEF QuorumOf
<1> QED
  BY <1>1, <1>2, SettlementKeepsQuorum

\* Nothing but the calls above touches a proposal.
LEMMA SurroundingsKeepQuorum ==
    ASSUME QuorumInv, CustodyTypeOK', UNCHANGED multiSigVars
    PROVE  QuorumInv'
BY DEF QuorumInv, TypeOK, ExecutedByQuorum, multiSigVars

LEMMA CustodyKeepsTypes ==
    ASSUME CustodyTypeOK, CustodyNext
    PROVE  CustodyTypeOK'
<1>1. CASE AdvanceLedger
  BY <1>1 DEF AdvanceLedger, CustodyTypeOK
<1>2. ASSUME NEW t \in Tokens, NEW amount \in Donations, Donate(t, amount)
      PROVE  CustodyTypeOK'
  <2>1. amount \in Nat
    BY DonationsAssumption
  <2>2. balance' \in [Tokens -> Nat]
    BY <1>2, <2>1 DEF Donate, CustodyTypeOK
  <2> QED
    BY <1>2, <2>2 DEF Donate, CustodyTypeOK
<1>3. ASSUME NEW flag \in BOOLEAN, SetPaused(flag)
      PROVE  CustodyTypeOK'
  BY <1>3 DEF SetPaused, CustodyTypeOK
<1> QED
  BY <1>1, <1>2, <1>3 DEF CustodyNext

LEMMA MultiSigStep == QuorumInv /\ [Next]_vars => QuorumInv'
<1> SUFFICES ASSUME QuorumInv, [Next]_vars PROVE QuorumInv'
  OBVIOUS
<1>1. CASE MultiSigNext
  BY <1>1, CreationKeepsQuorum, ApprovalKeepsQuorum, RefundKeepsQuorum DEF MultiSigNext
<1>2. CASE CustodyNext /\ UNCHANGED multiSigVars
  BY <1>2, CustodyKeepsTypes, SurroundingsKeepQuorum DEF QuorumInv, TypeOK
<1>3. CASE UNCHANGED vars
  <2>1. CustodyTypeOK' /\ UNCHANGED multiSigVars
    BY <1>3 DEF vars, custodyVars, QuorumInv, TypeOK, CustodyTypeOK
  <2> QED
    BY <2>1, SurroundingsKeepQuorum
<1> QED
  BY <1>1, <1>2, <1>3 DEF Next

LEMMA QuorumInvariant == Spec => []QuorumInv
<1>1. Init => QuorumInv
  BY MultiSigInitially
<1>2. QuorumInv /\ [Next]_vars => QuorumInv'
  BY MultiSigStep
<1> QED
  BY <1>1, <1>2, PTL DEF Spec

(***************************************************************************)
(* A proposal that was executed, cancelled or timed out is never paid,     *)
(* refunded or approved again: no call finds it pending, and a creation    *)
(* takes the next number.                                                  *)
(***************************************************************************)
THEOREM SettlementsAreFinal == Spec => SettledIsFinal
<1> DEFINE Final == \A id \in ProposalIds :
                      id < multiSigCount /\ ~Pending(id) => proposal'[id] = proposal[id]
<1>1. ASSUME QuorumInv, [Next]_vars PROVE [Final]_vars
  <2> SUFFICES ASSUME NEW id \in ProposalIds, id < multiSigCount, ~Pending(id), Next
               PROVE  proposal'[id] = proposal[id]
    BY <1>1
  <2>1. DOMAIN proposal = ProposalIds /\ proposal = [i \in ProposalIds |-> proposal[i]]
        /\ multiSigCount \in Nat /\ id \in Nat
    BY <1>1, ProposalIdsAreNat DEF QuorumInv, TypeOK
  <2>2. ASSUME NEW i \in ProposalIds,
               TimeoutMultisig(i) \/ \E a \in Accounts : ApproveMultisig(i, a)
                                                     \/ CancelMultisig(i, a)
        PROVE  proposal'[id] = proposal[id]
    <3>1. Pending(i) /\ i # id
      BY <2>2 DEF TimeoutMultisig, ApproveMultisig, CancelMultisig
    <3>2. ASSUME NEW j \in ProposalIds, j # i PROVE proposal'[j] = proposal[j]
      <4>1. ASSUME NEW approvals, NEW status, PayOut(i, approvals, status)
            PROVE  proposal'[j] = proposal[j]
        BY <2>1, <3>2, <4>1 DEF PayOut
      <4>2. ASSUME NEW a \in Accounts, ApproveMultisig(i, a)
            PROVE  proposal'[j] = proposal[j]
        BY <2>1, <3>2, <4>1, <4>2 DEF ApproveMultisig
      <4> QED
        BY <2>2, <4>1, <4>2 DEF TimeoutMultisig, CancelMultisig
    <3> QED
      BY <3>1, <3>2
  <2>3. ASSUME NEW t \in Tokens, NEW p \in Accounts, NEW r \in Accounts, NEW amount \in Amounts,
               NEW n \in Thresholds, NEW signers \in SUBSET Accounts, NEW l \in Expirations,
               CreateMultisig(t, p, r, amount, n, signers, l)
        PROVE  proposal'[id] = proposal[id]
    <3>1. id # multiSigCount
      BY <2>1
    <3> QED
      BY <2>1, <2>3, <3>1 DEF CreateMultisig
  <2>4. CASE UNCHANGED multiSigVars
    BY <2>4 DEF multiSigVars
  <2> QED
    BY <2>2, <2>3, <2>4 DEF Next, MultiSigNext
<1>2. Spec => []QuorumInv
  BY QuorumInvariant
<1> QED
  BY <1>1, <1>2, PTL DEF Spec, SettledIsFinal

-----------------------------------------------------------------------------
(***************************************************************************)
(* What a call does to what is owed.  A creation incurs a debt, a          *)
(* settlement pays one off; no other step touches one.                     *)
(***************************************************************************)
OwedCounted ==
    /\ OwedFn \in [ProposalIds -> Nat]
    /\ AssetFn = [id \in ProposalIds |-> AssetFn[id]]
    /\ \A id \in ProposalIds : AssetFn[id] = NoToken => OwedFn[id] = 0
    /\ balance \in [Tokens -> Nat] /\ locked \in [Tokens -> Int]

\* Proposal id is made, and owes n in token t.
Incurs(id, t, n) ==
    /\ AssetFn[id] = NoToken /\ OwedFn[id] = 0
    /\ OwedFn' = [OwedFn EXCEPT ![id] = n]
    /\ AssetFn' = [AssetFn EXCEPT ![id] = t]
    /\ balance' = [balance EXCEPT ![t] = @ + n]
    /\ locked' = [locked EXCEPT ![t] = @ + n]

\* Proposal id is paid or refunded in full.
Pays(id) ==
    /\ AssetFn[id] \in Tokens /\ OwedFn[id] \in Nat \ {0}
    /\ OwedFn' = [OwedFn EXCEPT ![id] = 0] /\ AssetFn' = AssetFn
    /\ balance' = [balance EXCEPT ![AssetFn[id]] = @ - OwedFn[id]]
    /\ locked' = [locked EXCEPT ![AssetFn[id]] = @ - OwedFn[id]]

\* No proposal is paid for or pays out; somebody may still donate.
LeavesDebts ==
    /\ OwedFn' = OwedFn /\ AssetFn' = AssetFn /\ locked' = locked
    /\ balance' = balance \/ \E t \in Tokens, n \in Donations : Donate(t, n)

LEMMA FinitelyManyProposals == IsFiniteSet(ProposalIds)
BY MultiSigLimitsAssumption, FS_Interval DEF ProposalIds

LEMMA OwedIsCounted == QuorumInv => OwedCounted
<1> SUFFICES ASSUME QuorumInv PROVE OwedCounted
  OBVIOUS
<1>1. ASSUME NEW id \in ProposalIds
      PROVE  Owed(id) \in Nat /\ (proposal[id].token = NoToken => Owed(id) = 0)
  <2>1. CASE Pending(id)
    BY <2>1, PendingProposal, NoTokenAssumption DEF Owed, Proposal
  <2>2. CASE ~Pending(id)
    BY <2>2 DEF Owed
  <2> QED
    BY <2>1, <2>2
<1>2. /\ OwedFn \in [ProposalIds -> Nat]
      /\ AssetFn = [id \in ProposalIds |-> AssetFn[id]]
      /\ \A id \in ProposalIds : AssetFn[id] = NoToken => OwedFn[id] = 0
  BY <1>1 DEF OwedFn, AssetFn, Owed, Pending
<1> QED
  BY <1>2 DEF OwedCounted, QuorumInv, TypeOK, CustodyTypeOK

LEMMA CreationIncurs ==
    ASSUME QuorumInv, NEW t \in Tokens, NEW p \in Accounts, NEW r \in Accounts,
           NEW amount \in Amounts, NEW n \in Thresholds, NEW signers \in SUBSET Accounts,
           NEW l \in Expirations, CreateMultisig(t, p, r, amount, n, signers, l)
    PROVE  /\ multiSigCount \in ProposalIds /\ amount \in Nat \ {0}
           /\ Incurs(multiSigCount, t, amount)
<1> DEFINE new == NewProposal(t, p, r, amount, n, signers, l)
<1>1. multiSigCount \in ProposalIds /\ multiSigCount \in Nat /\ multiSigCount' = multiSigCount + 1
  BY ProposalIdsAreNat DEF CreateMultisig, ProposalIds, QuorumInv, TypeOK
<1>2. amount \in Nat \ {0}
  BY MultiSigInputsAssumption, MultiSigLimitsAssumption DEF CreateMultisig, Acceptable
<1>3. new.token = t /\ new.amount = amount /\ new.status = "Pending"
  BY DEF NewProposal
<1>4. \A i \in ProposalIds : proposal'[i] = IF i = multiSigCount THEN new ELSE proposal[i]
  BY <1>1 DEF CreateMultisig, QuorumInv, TypeOK
<1> HIDE DEF new
<1>5. \A i \in ProposalIds : OwedFn'[i] = IF i = multiSigCount THEN amount ELSE OwedFn[i]
  <2>1. multiSigCount < multiSigCount'
        /\ \A i \in ProposalIds \ {multiSigCount} : i < multiSigCount' <=> i < multiSigCount
    BY <1>1, ProposalIdsAreNat
  <2>2. OwedFn'[multiSigCount] = amount
    BY <1>1, <1>3, <1>4, <2>1 DEF OwedFn, Owed, Pending
  <2>3. ASSUME NEW i \in ProposalIds, i # multiSigCount PROVE OwedFn'[i] = OwedFn[i]
    BY <1>4, <2>1, <2>3 DEF OwedFn, Owed, Pending
  <2> QED
    BY <2>2, <2>3
<1>6. OwedFn' = [OwedFn EXCEPT ![multiSigCount] = amount]
  <2>1. OwedFn = [i \in ProposalIds |-> OwedFn[i]] /\ OwedFn' = [i \in ProposalIds |-> OwedFn'[i]]
    BY DEF OwedFn, Owed, Pending
  <2> QED
    BY <1>1, <1>5, <2>1, OnePlace
<1>7. AssetFn' = [AssetFn EXCEPT ![multiSigCount] = t]
  <2>1. AssetFn = [i \in ProposalIds |-> AssetFn[i]] /\ AssetFn' = [i \in ProposalIds |-> AssetFn'[i]]
    BY DEF AssetFn
  <2>2. \A i \in ProposalIds : AssetFn'[i] = IF i = multiSigCount THEN t ELSE AssetFn[i]
    BY <1>3, <1>4 DEF AssetFn
  <2> QED
    BY <1>1, <2>1, <2>2, OnePlace
<1>8. AssetFn[multiSigCount] = NoToken /\ OwedFn[multiSigCount] = 0
  BY <1>1 DEF AssetFn, OwedFn, Owed, Pending, QuorumInv, TypeOK, NoProposal
<1> QED
  BY <1>1, <1>2, <1>6, <1>7, <1>8 DEF CreateMultisig, TransferIn, IncreaseLocked, Incurs

LEMMA SettlementDischarges ==
    ASSUME QuorumInv, NEW id \in ProposalIds, Pending(id), NEW approvals,
           NEW status \in {"Executed", "Cancelled"},
           PayOut(id, approvals, status), multiSigCount' = multiSigCount
    PROVE  Pays(id)
<1>1. proposal[id] \in Proposal
  BY PendingProposal
<1>2. /\ AssetFn[id] = proposal[id].token /\ OwedFn[id] = proposal[id].amount
      /\ AssetFn[id] \in Tokens /\ OwedFn[id] \in Nat \ {0}
  BY <1>1 DEF AssetFn, OwedFn, Owed, Pending, Proposal
<1>3. /\ \A i \in ProposalIds \ {id} : proposal'[i] = proposal[i]
      /\ proposal'[id].status = status /\ proposal'[id].token = proposal[id].token
  <2> DEFINE new == [[proposal[id] EXCEPT !.approvals = approvals] EXCEPT !.status = status]
  <2>1. proposal' = [proposal EXCEPT ![id] = new]
    BY DEF PayOut, QuorumInv, TypeOK
  <2>2. new.status = status /\ new.token = proposal[id].token
    BY <1>1 DEF Proposal
  <2> HIDE DEF new
  <2> QED
    BY <2>1, <2>2 DEF QuorumInv, TypeOK
<1>4. \A i \in ProposalIds : OwedFn'[i] = IF i = id THEN 0 ELSE OwedFn[i]
  BY <1>3 DEF OwedFn, Owed, Pending
<1>5. OwedFn' = [OwedFn EXCEPT ![id] = 0]
  <2>1. OwedFn = [i \in ProposalIds |-> OwedFn[i]] /\ OwedFn' = [i \in ProposalIds |-> OwedFn'[i]]
    BY DEF OwedFn, Owed, Pending
  <2> QED
    BY <1>4, <2>1, OnePlace
<1>6. AssetFn' = AssetFn
  BY <1>3 DEF AssetFn
<1> QED
  BY <1>2, <1>5, <1>6 DEF PayOut, TransferOut, DecreaseLocked, Pays

\* An approval that does not pay, and every step of the surroundings.
LEMMA NothingOwedChanges ==
    ASSUME QuorumInv, multiSigCount' = multiSigCount,
           \/ proposal' = proposal
           \/ \E id \in ProposalIds : \E approvals :
                /\ proposal[id] \in Proposal
                /\ proposal' = [proposal EXCEPT ![id].approvals = approvals]
    PROVE  OwedFn' = OwedFn /\ AssetFn' = AssetFn
<1>1. \A i \in ProposalIds : /\ proposal'[i].token = proposal[i].token
                             /\ proposal'[i].status = proposal[i].status
                             /\ Pending(i) => proposal'[i].amount = proposal[i].amount
  <2>1. CASE proposal' = proposal
    BY <2>1
  <2>2. ASSUME NEW id \in ProposalIds, NEW approvals, proposal[id] \in Proposal,
               proposal' = [proposal EXCEPT ![id].approvals = approvals], NEW i \in ProposalIds
        PROVE  /\ proposal'[i].token = proposal[i].token
               /\ proposal'[i].status = proposal[i].status
               /\ Pending(i) => proposal'[i].amount = proposal[i].amount
    <3>1. CASE i = id
      BY <2>2, <3>1 DEF Proposal, QuorumInv, TypeOK
    <3>2. CASE i # id
      BY <2>2, <3>2 DEF QuorumInv, TypeOK
    <3> QED
      BY <3>1, <3>2
  <2> QED
    BY <2>1, <2>2
<1>2. OwedFn' = OwedFn
  BY <1>1 DEF OwedFn, Owed, Pending
<1>3. AssetFn' = AssetFn
  BY <1>1 DEF AssetFn
<1> QED
  BY <1>2, <1>3

\* The kinds of step there are.
LEMMA KindsOfStep ==
    ASSUME QuorumInv, [Next]_vars
    PROVE  \/ \E id \in ProposalIds, t \in Tokens, n \in Nat \ {0} : Incurs(id, t, n)
           \/ \E id \in ProposalIds : Pays(id)
           \/ LeavesDebts
<1>1. ASSUME NEW t \in Tokens, NEW p \in Accounts, NEW r \in Accounts, NEW amount \in Amounts,
             NEW n \in Thresholds, NEW signers \in SUBSET Accounts, NEW l \in Expirations,
             CreateMultisig(t, p, r, amount, n, signers, l)
      PROVE  \E id \in ProposalIds, u \in Tokens, m \in Nat \ {0} : Incurs(id, u, m)
  <2>1. /\ multiSigCount \in ProposalIds /\ amount \in Nat \ {0}
        /\ Incurs(multiSigCount, t, amount)
    BY <1>1, CreationIncurs
  <2> QED
    BY <2>1
<1>2. ASSUME NEW id \in ProposalIds, NEW a \in Accounts, ApproveMultisig(id, a)
      PROVE  Pays(id) \/ LeavesDebts
  <2> DEFINE approvals == proposal[id].approvals \cup {a}
  <2>1. Pending(id) /\ multiSigCount' = multiSigCount
    BY <1>2 DEF ApproveMultisig
  <2>2. CASE PayOut(id, approvals, "Executed")
    BY <2>1, <2>2, SettlementDischarges
  <2>3. CASE /\ proposal' = [proposal EXCEPT ![id].approvals = approvals]
             /\ UNCHANGED <<balance, locked, cached>>
    <3>1. proposal[id] \in Proposal
      BY <2>1, PendingProposal
    <3>2. OwedFn' = OwedFn /\ AssetFn' = AssetFn
      BY <2>1, <2>3, <3>1, NothingOwedChanges
    <3> QED
      BY <2>3, <3>2 DEF LeavesDebts
  <2> QED
    BY <1>2, <2>2, <2>3 DEF ApproveMultisig
<1>3. ASSUME NEW id \in ProposalIds,
             TimeoutMultisig(id) \/ \E a \in Accounts : CancelMultisig(id, a)
      PROVE  Pays(id)
  <2>1. /\ Pending(id) /\ multiSigCount' = multiSigCount
        /\ PayOut(id, proposal[id].approvals, "Cancelled")
    BY <1>3 DEF TimeoutMultisig, CancelMultisig
  <2> QED
    BY <2>1, SettlementDischarges
<1>4. CASE (CustodyNext /\ UNCHANGED multiSigVars) \/ UNCHANGED vars
  <2>1. UNCHANGED multiSigVars /\ locked' = locked
    BY <1>4 DEF CustodyNext, AdvanceLedger, Donate, SetPaused, vars, custodyVars, multiSigVars
  <2>2. balance' = balance \/ \E t \in Tokens, n \in Donations : Donate(t, n)
    BY <1>4 DEF CustodyNext, AdvanceLedger, SetPaused, vars, custodyVars
  <2>3. OwedFn' = OwedFn /\ AssetFn' = AssetFn
    BY <2>1, NothingOwedChanges DEF multiSigVars
  <2> QED
    BY <2>1, <2>2, <2>3 DEF LeavesDebts
<1> QED
  BY <1>1, <1>2, <1>3, <1>4 DEF Next, MultiSigNext

-----------------------------------------------------------------------------
(***************************************************************************)
(* The locked balance of a token is what its pending proposals add up to:  *)
(* both change by the amount of the one proposal a step makes or settles.  *)
(***************************************************************************)
LEMMA LockedStep ==
    ASSUME QuorumInv, QuorumInv', [Next]_vars, LockedIsPending
    PROVE  LockedIsPending'
<1>1. OwedCounted /\ OwedCounted'
  BY OwedIsCounted, PTL
<1>2. ASSUME NEW id \in ProposalIds, NEW t \in Tokens,
             AssetFn[id] = t \/ OwedFn[id] = 0, AssetFn'[id] = t,
             \A i \in ProposalIds \ {id} : OwedFn'[i] = OwedFn[i] /\ AssetFn'[i] = AssetFn[i],
             NEW u \in Tokens
      PROVE  OwedIn(u)' = OwedIn(u) + (IF u = t THEN OwedFn'[id] - OwedFn[id] ELSE 0)
  <2>1. OneDebt(ProposalIds, OwedFn, OwedFn', AssetFn, AssetFn', id, t)
    BY <1>1, <1>2, FinitelyManyProposals DEF OneDebt, OwedCounted
  <2> QED
    BY <2>1, OwedMoves DEF OwedIn
<1>3. \A u \in Tokens : /\ locked[u] = OwedIn(u) /\ locked[u] <= balance[u]
                        /\ locked[u] \in Int /\ balance[u] \in Nat /\ balance'[u] \in Nat
  BY <1>1 DEF LockedIsPending, OwedCounted
<1>4. ASSUME NEW id \in ProposalIds, NEW t \in Tokens, NEW n \in Nat \ {0}, Incurs(id, t, n),
             NEW u \in Tokens
      PROVE  locked'[u] = OwedIn(u)' /\ locked'[u] <= balance'[u]
  <2>1. /\ OwedFn'[id] = n /\ OwedFn[id] = 0 /\ AssetFn'[id] = t
        /\ \A i \in ProposalIds \ {id} : OwedFn'[i] = OwedFn[i] /\ AssetFn'[i] = AssetFn[i]
    BY <1>1, <1>4 DEF Incurs, OwedCounted
  <2>2. OwedIn(u)' = OwedIn(u) + (IF u = t THEN OwedFn'[id] - OwedFn[id] ELSE 0)
    BY <1>2, <2>1
  <2>3. /\ locked'[u] = locked[u] + (IF u = t THEN n ELSE 0)
        /\ balance'[u] = balance[u] + (IF u = t THEN n ELSE 0)
    BY <1>1, <1>3, <1>4 DEF Incurs, OwedCounted
  <2> QED
    BY <1>3, <2>1, <2>2, <2>3
<1>5. ASSUME NEW id \in ProposalIds, Pays(id), NEW u \in Tokens
      PROVE  locked'[u] = OwedIn(u)' /\ locked'[u] <= balance'[u]
  <2> DEFINE t == AssetFn[id]
             n == OwedFn[id]
  <2>1. /\ t \in Tokens /\ n \in Nat /\ OwedFn'[id] = 0 /\ AssetFn'[id] = t
        /\ \A i \in ProposalIds \ {id} : OwedFn'[i] = OwedFn[i] /\ AssetFn'[i] = AssetFn[i]
    BY <1>1, <1>5 DEF Pays, OwedCounted
  <2>2. OwedIn(u)' = OwedIn(u) + (IF u = t THEN OwedFn'[id] - OwedFn[id] ELSE 0)
    BY <1>2, <2>1
  <2>3. /\ locked'[u] = locked[u] - (IF u = t THEN n ELSE 0)
        /\ balance'[u] = balance[u] - (IF u = t THEN n ELSE 0)
    BY <1>1, <1>3, <1>5 DEF Pays, OwedCounted
  <2>4. OwedFn'[id] = 0 /\ OwedFn[id] = n
    BY <2>1
  <2> HIDE DEF t, n
  <2> QED
    BY <1>3, <2>1, <2>2, <2>3, <2>4
<1>6. ASSUME LeavesDebts, NEW u \in Tokens
      PROVE  locked'[u] = OwedIn(u)' /\ locked'[u] <= balance'[u]
  <2>1. OwedIn(u)' = OwedIn(u) /\ locked'[u] = locked[u]
    BY <1>6 DEF LeavesDebts, OwedIn
  <2>2. balance'[u] >= balance[u]
    <3>1. ASSUME NEW t \in Tokens, NEW n \in Donations, Donate(t, n)
          PROVE  balance'[u] >= balance[u]
      BY <1>1, <1>3, <3>1, DonationsAssumption DEF Donate, OwedCounted
    <3> QED
      BY <1>3, <1>6, <3>1 DEF LeavesDebts
  <2> QED
    BY <1>3, <2>1, <2>2
<1>7. ASSUME NEW u \in Tokens
      PROVE  locked'[u] = OwedIn(u)' /\ locked'[u] <= balance'[u]
  BY <1>4, <1>5, <1>6, KindsOfStep
<1> QED
  BY <1>7 DEF LockedIsPending

LEMMA LockedInitially == Init => LockedIsPending
<1> SUFFICES ASSUME Init, NEW t \in Tokens PROVE locked[t] = OwedIn(t) /\ locked[t] <= balance[t]
  BY DEF LockedIsPending
<1>1. OwedCounted
  BY MultiSigInitially, OwedIsCounted
<1>2. \A id \in ProposalIds : OwedFn[id] = 0
  BY ProposalIdsAreNat DEF Init, OwedFn, Owed, Pending
<1>3. /\ OfToken(OwedFn, AssetFn, t) \in [ProposalIds -> Nat]
      /\ \A id \in ProposalIds : OfToken(OwedFn, AssetFn, t)[id] = 0
  BY <1>1, <1>2, OfTokenType DEF OwedCounted
<1>4. OwedIn(t) = 0
  BY <1>3, TotalZero DEF OwedIn
<1> QED
  BY <1>4 DEF Init, CustodyInit

(***************************************************************************)
(* Whatever is proposed, approved, cancelled and timed out in whatever     *)
(* order: a payment leaves exactly with its quorum, and the locked balance *)
(* is the sum of the pending proposals, which the contract holds.          *)
(***************************************************************************)
THEOREM QuorumsPay == Spec => []PaidByQuorum
<1>1. Init => QuorumInv /\ LockedIsPending
  BY MultiSigInitially, LockedInitially
<1>2. QuorumInv /\ LockedIsPending /\ [Next]_vars => (QuorumInv /\ LockedIsPending)'
  BY MultiSigStep, LockedStep
<1>3. QuorumInv /\ LockedIsPending => PaidByQuorum
  BY DEF QuorumInv, PaidByQuorum
<1> QED
  BY <1>1, <1>2, <1>3, PTL DEF Spec

-----------------------------------------------------------------------------
(***************************************************************************)
(* Double entry: both accounts implement Obligations, the locked one       *)
(* without donations.                                                      *)
(***************************************************************************)
LEMMA MovesAreObligations ==
    ASSUME QuorumInv,
           \/ \E id \in ProposalIds, t \in Tokens, n \in Nat \ {0} : Incurs(id, t, n)
           \/ \E id \in ProposalIds : Pays(id)
    PROVE  Held!Move /\ Locked!Move
<1>1. OwedCounted
  BY OwedIsCounted
<1>2. ASSUME NEW id \in ProposalIds, NEW t \in Tokens, NEW n \in Nat \ {0}, Incurs(id, t, n)
      PROVE  Held!Move /\ Locked!Move
  <2>1. OwedFn'[id] > OwedFn[id] /\ OwedFn'[id] - OwedFn[id] = n
        /\ OwedFn[id] + n = n
    BY <1>1, <1>2 DEF Incurs, OwedCounted
  <2>2. OwedFn' = [OwedFn EXCEPT ![id] = @ + n]
    BY <1>2, <2>1, Zenon DEF Incurs
  <2>3. Held!Incur(id, t, n) /\ Locked!Incur(id, t, n)
    BY <1>2, <2>2 DEF Incurs, Held!Incur, Locked!Incur
  <2>4. /\ Held!Incur(id, t, OwedFn'[id] - OwedFn[id])
        /\ Locked!Incur(id, t, OwedFn'[id] - OwedFn[id])
    BY <2>1, <2>3
  <2> QED
    BY <2>1, <2>4 DEF Held!Move, Locked!Move
<1>3. ASSUME NEW id \in ProposalIds, Pays(id)
      PROVE  Held!Move /\ Locked!Move
  <2> DEFINE t == AssetFn[id]
             n == OwedFn[id]
  <2>1. /\ t \in Tokens /\ n \in Nat \ {0} /\ OwedFn'[id] = 0
        /\ OwedFn'[id] < OwedFn[id] /\ OwedFn[id] - OwedFn'[id] = n
        /\ OwedFn[id] - n = 0
    BY <1>1, <1>3 DEF Pays, OwedCounted
  <2>2. OwedFn' = [OwedFn EXCEPT ![id] = @ - n]
    BY <1>3, <2>1, Zenon DEF Pays
  <2>3. Held!Discharge(id, t, n) /\ Locked!Discharge(id, t, n)
    <3>1. n \in 1 .. OwedFn[id] /\ AssetFn[id] = t /\ UNCHANGED AssetFn
      BY <1>3, <2>1 DEF Pays
    <3> QED
      BY <1>3, <2>2, <3>1, Zenon DEF Pays, Held!Discharge, Locked!Discharge
  <2> HIDE DEF t, n
  <2>4. /\ Held!Discharge(id, t, OwedFn[id] - OwedFn'[id])
        /\ Locked!Discharge(id, t, OwedFn[id] - OwedFn'[id])
    BY <2>1, <2>3
  <2> QED
    BY <2>1, <2>4 DEF Held!Move, Locked!Move
<1> QED
  BY <1>2, <1>3

LEMMA RefineStep ==
    ASSUME QuorumInv, [Next]_vars
    PROVE  [Held!Next]_(Held!vars) /\ [Locked!Move]_(Locked!vars)
<1>1. CASE \/ \E id \in ProposalIds, t \in Tokens, n \in Nat \ {0} : Incurs(id, t, n)
           \/ \E id \in ProposalIds : Pays(id)
  <2>1. Held!Move /\ Locked!Move
    BY <1>1, MovesAreObligations
  <2> QED
    BY <2>1 DEF Held!Next
<1>2. CASE LeavesDebts
  <2>1. OwedFn' = OwedFn /\ AssetFn' = AssetFn /\ locked' = locked
    BY <1>2 DEF LeavesDebts
  <2>2. [Locked!Move]_(Locked!vars)
    BY <2>1 DEF Locked!vars
  <2>3. CASE balance' = balance
    BY <2>1, <2>2, <2>3 DEF Held!vars
  <2>4. ASSUME NEW t \in Tokens, NEW n \in Donations, Donate(t, n)
        PROVE  Held!Next
    <3>1. /\ balance' = [balance EXCEPT ![t] = @ + n] /\ n > 0
          /\ balance'[t] - balance[t] = n
      BY <2>4, DonationsAssumption DEF Donate, QuorumInv, TypeOK, CustodyTypeOK
    <3>2. Held!Donate(t, n)
      BY <2>1, <3>1 DEF Held!Donate
    <3>3. Held!Donate(t, balance'[t] - balance[t])
      BY <3>1, <3>2
    <3> QED
      BY <3>3 DEF Held!Next
  <2> QED
    BY <1>2, <2>2, <2>3, <2>4 DEF LeavesDebts
<1> QED
  BY <1>1, <1>2, KindsOfStep

(***************************************************************************)
(* multi_sig.rs keeps double entry in the token balance and in the locked  *)
(* balance: what is deposited for a proposal leaves with that proposal, in *)
(* its token, once, by the approval that completes the quorum or by the    *)
(* refund.                                                                 *)
(***************************************************************************)
THEOREM DepositsAreHandedOnOnce == Spec => DepositsLeaveOnce
<1>1. Init => Held!Init /\ Locked!Init
  <2> SUFFICES ASSUME Init PROVE Held!Init /\ Locked!Init
    OBVIOUS
  <2>1. OwedFn = [id \in ProposalIds |-> 0]
    BY ProposalIdsAreNat DEF Init, OwedFn, Owed, Pending
  <2>2. AssetFn = [id \in ProposalIds |-> NoToken]
    BY DEF Init, AssetFn, NoProposal
  <2> QED
    BY <2>1, <2>2 DEF Init, CustodyInit, Held!Init, Locked!Init
<1>2. QuorumInv /\ [Next]_vars => [Held!Next]_(Held!vars) /\ [Locked!Move]_(Locked!vars)
  BY RefineStep
<1>3. Spec => BalanceFollowsObligations
  BY <1>1, <1>2, QuorumInvariant, PTL DEF Spec, BalanceFollowsObligations, Held!Spec
<1>4. Spec => LockedFollowsObligations
  BY <1>1, <1>2, QuorumInvariant, PTL DEF Spec, LockedFollowsObligations, Locked!ClosedSpec
<1> QED
  BY <1>3, <1>4, SettlementsAreFinal, PTL DEF DepositsLeaveOnce

-----------------------------------------------------------------------------
(***************************************************************************)
(* Grants.  The inductive invariant: ids are given out in order, a vesting *)
(* ends after its cliff and has paid no more than its schedule releases,   *)
(* what an airdrop has paid is what its recipients got and none got        *)
(* anything without a leaf, and the books balance.                         *)
(***************************************************************************)
Numbered(ids) == ids \subseteq GrantIds /\ ids = 0 .. Cardinality(ids) - 1

OnSchedule(v) ==
    /\ v.claimed <= v.total_amount
    /\ ledger < v.end_ledger =>
         v.claimed * (v.end_ledger - v.cliff_ledger)
             <= v.total_amount * (ledger - v.cliff_ledger) \/ v.claimed = 0

VestingSound(v) == v \in Vesting /\ v.cliff_ledger < v.end_ledger /\ OnSchedule(v)

VestingsSound ==
    /\ Numbered(DOMAIN vestings)
    /\ \A id \in DOMAIN vestings : VestingSound(vestings[id])

PaidByLeaf(id, a) ==
    \A r \in Grantees : airdropPaid[id][r] > 0 =>
        /\ r \in a.claimedBy
        /\ a.builtFor = id
        /\ [recipient |-> r, amount |-> airdropPaid[id][r]] \in a.leaves

AirdropSound(id, a) ==
    /\ a \in Airdrop
    /\ a.claimed_amount <= a.total_amount
    /\ Total(airdropPaid[id]) = a.claimed_amount
    /\ PaidByLeaf(id, a)

AirdropsSound ==
    /\ Numbered(DOMAIN airdrops)
    /\ airdropPaid \in [GrantIds -> [Grantees -> Nat]]
    /\ \A id \in DOMAIN airdrops : AirdropSound(id, airdrops[id])
    /\ \A id \in GrantIds \ DOMAIN airdrops : \A r \in Grantees : airdropPaid[id][r] = 0

YieldsSound ==
    /\ Numbered(DOMAIN yields)
    /\ \A id \in DOMAIN yields : yields[id] \in YieldEscrow

PaidTypes == yieldPaid \in [Tokens -> Nat] /\ withdrawn \in [Tokens -> Nat] /\ initiated \in [Tokens -> SUBSET Nat]

GrantsInv ==
    /\ CustodyTypeOK /\ PaidTypes
    /\ VestingsSound /\ AirdropsSound /\ YieldsSound
    /\ LockedMatchesGrants /\ ShortfallIsBounded

LEMMA GrantNumbers ==
    /\ MaxGrants \in Nat \ {0} /\ IsFiniteSet(GrantIds) /\ IsFiniteSet(Grantees)
    /\ \A id \in GrantIds : id \in Nat /\ id < MaxGrants
<1>1. MaxGrants \in Nat \ {0} /\ IsFiniteSet(Grantees)
  BY GrantsAssumption
<1>2. IsFiniteSet(GrantIds)
  BY <1>1, FS_Interval DEF GrantIds
<1> QED
  BY <1>1, <1>2 DEF GrantIds

\* What the invariant says is what the property asks.
LEMMA GrantsInvSuffices == GrantsInv => GrantsTypeOK /\ GrantsAddUp
<1> SUFFICES ASSUME GrantsInv PROVE GrantsTypeOK /\ GrantsAddUp
  OBVIOUS
<1>1. ClaimsFollowSchedule
  BY DEF GrantsInv, VestingsSound, VestingSound, OnSchedule, ClaimsFollowSchedule
<1>2. AirdropPaysOneLeaf
  <2> SUFFICES ASSUME NEW id \in DOMAIN airdrops
               PROVE  /\ \A r \in Grantees : airdropPaid[id][r] > 0 =>
                           /\ airdrops[id].builtFor = id
                           /\ [recipient |-> r, amount |-> airdropPaid[id][r]]
                                \in airdrops[id].leaves
                      /\ Total(airdropPaid[id]) <= airdrops[id].total_amount
    BY DEF AirdropPaysOneLeaf
  <2>1. AirdropSound(id, airdrops[id])
    BY DEF GrantsInv, AirdropsSound
  <2> QED
    BY <2>1 DEF AirdropSound, PaidByLeaf
<1>3. GrantsTypeOK
  BY DEF GrantsInv, PaidTypes, VestingsSound, VestingSound, AirdropsSound, AirdropSound,
         YieldsSound, Numbered, GrantsTypeOK
<1> QED
  BY <1>1, <1>2, <1>3 DEF GrantsInv, GrantsAddUp

-----------------------------------------------------------------------------
\* A grant is created or changed and the others of its kind stay.
OneGrant(grants, grants2, id, g) ==
    /\ id \in GrantIds
    /\ DOMAIN grants2 = DOMAIN grants \cup {id}
    /\ Numbered(DOMAIN grants2)
    /\ grants2[id] = g
    /\ \A x \in DOMAIN grants \ {id} : grants2[x] = grants[x]

LEMMA GrantAdded ==
    ASSUME NEW grants, NEW g, Numbered(DOMAIN grants), NewId(grants) < MaxGrants
    PROVE  /\ OneGrant(grants, AddGrant(grants, g), NewId(grants), g)
           /\ NewId(grants) \notin DOMAIN grants
           /\ NewId(grants) \in Nat
<1> DEFINE n == NewId(grants)
<1>1. IsFiniteSet(DOMAIN grants) /\ n \in Nat
  BY GrantNumbers, FS_Subset, FS_CardinalityType DEF Numbered, NewId
<1>2. DOMAIN grants = 0 .. n - 1 /\ n \notin DOMAIN grants
  BY <1>1 DEF Numbered, NewId
<1>3. n \in GrantIds
  BY <1>1, GrantNumbers DEF GrantIds
<1>4. DOMAIN AddGrant(grants, g) = DOMAIN grants \cup {n}
  BY DEF AddGrant
<1>5. Cardinality(DOMAIN grants \cup {n}) = n + 1
  BY <1>1, <1>2, FS_AddElement DEF NewId
<1>6. DOMAIN grants \cup {n} = 0 .. (n + 1) - 1
  BY <1>1, <1>2
<1>7. Numbered(DOMAIN AddGrant(grants, g))
  BY <1>3, <1>4, <1>5, <1>6 DEF Numbered
<1>8. /\ AddGrant(grants, g)[n] = g
      /\ \A x \in DOMAIN grants \ {n} : AddGrant(grants, g)[x] = grants[x]
  BY <1>2 DEF AddGrant
<1> QED
  BY <1>1, <1>2, <1>3, <1>4, <1>7, <1>8 DEF OneGrant

LEMMA GrantChanged ==
    ASSUME NEW grants, NEW id \in DOMAIN grants, NEW g, Numbered(DOMAIN grants)
    PROVE  OneGrant(grants, [grants EXCEPT ![id] = g], id, g)
BY DEF OneGrant, Numbered

\* A new id leaves room for one more grant of its kind.
LEMMA RoomForOne ==
    ASSUME GrantsInv, AllGrants < MaxGrants
    PROVE  NewId(vestings) < MaxGrants /\ NewId(airdrops) < MaxGrants /\ NewId(yields) < MaxGrants
<1>1. /\ DOMAIN vestings \subseteq GrantIds /\ DOMAIN airdrops \subseteq GrantIds
      /\ DOMAIN yields \subseteq GrantIds
  BY DEF GrantsInv, VestingsSound, AirdropsSound, YieldsSound, Numbered
<1>2. NewId(vestings) \in Nat /\ NewId(airdrops) \in Nat /\ NewId(yields) \in Nat
  BY <1>1, GrantNumbers, FS_Subset, FS_CardinalityType DEF NewId
<1> QED
  BY <1>2, GrantNumbers DEF AllGrants

-----------------------------------------------------------------------------
\* What one vesting owes.
LEMMA VestingOwedType ==
    ASSUME NEW v, VestingSound(v)
    PROVE  VestingOwed(v) \in Nat /\ v.token \in Tokens
BY DEF VestingSound, OnSchedule, Vesting, VestingOwed

LEMMA AirdropOwedType ==
    ASSUME NEW a \in Airdrop, a.claimed_amount <= a.total_amount
    PROVE  AirdropOwed(a) \in Nat /\ a.token \in Tokens
BY DEF Airdrop, AirdropOwed

LEMMA YieldOwedType ==
    ASSUME NEW y \in YieldEscrow
    PROVE  YieldOwed(y) \in Nat /\ y.token_a \in Tokens
BY DEF YieldEscrow, YieldOwed

LEMMA DebtTypes ==
    ASSUME VestingsSound, AirdropsSound, YieldsSound, NEW t
    PROVE  /\ VestingDebts(t) \in [GrantIds -> Nat] /\ Total(VestingDebts(t)) \in Nat
           /\ AirdropDebts(t) \in [GrantIds -> Nat] /\ Total(AirdropDebts(t)) \in Nat
           /\ YieldDebts(t) \in [GrantIds -> Nat] /\ Total(YieldDebts(t)) \in Nat
<1>1. \A id \in DOMAIN vestings : VestingOwed(vestings[id]) \in Nat
  BY VestingOwedType DEF VestingsSound
<1>2. \A id \in DOMAIN airdrops : AirdropOwed(airdrops[id]) \in Nat
  BY AirdropOwedType DEF AirdropsSound, AirdropSound
<1>3. \A id \in DOMAIN yields : YieldOwed(yields[id]) \in Nat
  BY YieldOwedType DEF YieldsSound
<1>4. /\ VestingDebts(t) \in [GrantIds -> Nat]
      /\ AirdropDebts(t) \in [GrantIds -> Nat]
      /\ YieldDebts(t) \in [GrantIds -> Nat]
  BY <1>1, <1>2, <1>3 DEF VestingDebts, AirdropDebts, YieldDebts
<1> QED
  BY <1>4, GrantNumbers, TotalType

\* A vesting moves what vestings owe in its token, and in no other.
LEMMA VestingMoves ==
    ASSUME VestingsSound, AirdropsSound, YieldsSound,
           NEW id, NEW v, VestingSound(v), OneGrant(vestings, vestings', id, v),
           NEW old, old = IF id \in DOMAIN vestings THEN VestingOwed(vestings[id]) ELSE 0,
           id \in DOMAIN vestings => vestings[id].token = v.token,
           UNCHANGED ledger,
           NEW t
    PROVE  /\ VestingsSound'
           /\ old \in Nat
           /\ Total(VestingDebts(t)') =
                Total(VestingDebts(t)) + (IF t = v.token THEN VestingOwed(v) - old ELSE 0)
<1> DEFINE f == VestingDebts(t)
           g == VestingDebts(t)'
<1>1. /\ id \in GrantIds /\ DOMAIN vestings' = DOMAIN vestings \cup {id} /\ vestings'[id] = v
      /\ Numbered(DOMAIN vestings')
      /\ \A x \in DOMAIN vestings \ {id} : vestings'[x] = vestings[x]
  BY DEF OneGrant
<1>2. \A x : VestingSound(x)' <=> VestingSound(x)
  BY DEF VestingSound, OnSchedule
<1>3. VestingsSound'
  BY <1>1, <1>2 DEF VestingsSound, Numbered
<1>4. \A x \in DOMAIN vestings' : VestingOwed(vestings'[x]) \in Nat
  BY <1>2, <1>3, VestingOwedType DEF VestingsSound
<1>5. VestingOwed(v) \in Nat /\ old \in Nat
  BY <1>2, VestingOwedType DEF VestingsSound
<1>6. /\ f \in [GrantIds -> Nat] /\ Total(f) \in Nat
      /\ g \in [GrantIds -> Nat]
  BY <1>4, DebtTypes DEF VestingDebts
<1>7. \A x \in GrantIds \ {id} : g[x] = f[x]
  BY <1>1 DEF VestingDebts
<1>8. /\ f[id] = IF t = v.token THEN old ELSE 0
      /\ g[id] = IF t = v.token THEN VestingOwed(v) ELSE 0
  BY <1>1 DEF VestingDebts
<1> HIDE DEF f, g
<1>9. Total(g) = Total(f) - f[id] + g[id]
  BY <1>1, <1>6, <1>7, GrantNumbers, TotalChange
<1>10. Total(g) = Total(f) + (IF t = v.token THEN VestingOwed(v) - old ELSE 0)
  BY <1>5, <1>6, <1>8, <1>9
<1> QED
  BY <1>3, <1>5, <1>10 DEF f, g

\* The same of an airdrop and of a yield escrow.
LEMMA AirdropMoves ==
    ASSUME VestingsSound, AirdropsSound, YieldsSound, AirdropsSound',
           NEW id, NEW a, OneGrant(airdrops, airdrops', id, a),
           NEW old, old = IF id \in DOMAIN airdrops THEN AirdropOwed(airdrops[id]) ELSE 0,
           id \in DOMAIN airdrops => airdrops[id].token = a.token,
           NEW t
    PROVE  Total(AirdropDebts(t)') =
             Total(AirdropDebts(t)) + (IF t = a.token THEN AirdropOwed(a) - old ELSE 0)
<1> DEFINE f == AirdropDebts(t)
           g == AirdropDebts(t)'
<1>1. /\ id \in GrantIds /\ DOMAIN airdrops' = DOMAIN airdrops \cup {id} /\ airdrops'[id] = a
      /\ \A x \in DOMAIN airdrops \ {id} : airdrops'[x] = airdrops[x]
  BY DEF OneGrant
<1>2. \A x \in DOMAIN airdrops' : /\ airdrops'[x] \in Airdrop
                                  /\ airdrops'[x].claimed_amount <= airdrops'[x].total_amount
  BY DEF AirdropsSound, AirdropSound
<1>3. \A x \in DOMAIN airdrops' : AirdropOwed(airdrops'[x]) \in Nat
  BY <1>2, AirdropOwedType
<1>4. \A x \in DOMAIN airdrops : AirdropOwed(airdrops[x]) \in Nat
  BY AirdropOwedType DEF AirdropsSound, AirdropSound
<1>5. AirdropOwed(a) \in Nat /\ old \in Nat
  BY <1>1, <1>3, <1>4
<1>6. /\ f \in [GrantIds -> Nat] /\ Total(f) \in Nat
      /\ g \in [GrantIds -> Nat]
  BY <1>3, DebtTypes DEF AirdropDebts
<1>7. \A x \in GrantIds \ {id} : g[x] = f[x]
  BY <1>1 DEF AirdropDebts
<1>8. /\ f[id] = IF t = a.token THEN old ELSE 0
      /\ g[id] = IF t = a.token THEN AirdropOwed(a) ELSE 0
  BY <1>1 DEF AirdropDebts
<1> HIDE DEF f, g
<1>9. Total(g) = Total(f) - f[id] + g[id]
  BY <1>1, <1>6, <1>7, GrantNumbers, TotalChange
<1>10. Total(g) = Total(f) + (IF t = a.token THEN AirdropOwed(a) - old ELSE 0)
  BY <1>5, <1>6, <1>8, <1>9
<1> QED
  BY <1>10 DEF f, g

LEMMA YieldMoves ==
    ASSUME VestingsSound, AirdropsSound, YieldsSound,
           NEW id, NEW y \in YieldEscrow, OneGrant(yields, yields', id, y),
           NEW old, old = IF id \in DOMAIN yields THEN YieldOwed(yields[id]) ELSE 0,
           id \in DOMAIN yields => yields[id].token_a = y.token_a,
           NEW t
    PROVE  /\ YieldsSound'
           /\ old \in Nat
           /\ Total(YieldDebts(t)') =
                Total(YieldDebts(t)) + (IF t = y.token_a THEN YieldOwed(y) - old ELSE 0)
<1> DEFINE f == YieldDebts(t)
           g == YieldDebts(t)'
<1>1. /\ id \in GrantIds /\ DOMAIN yields' = DOMAIN yields \cup {id} /\ yields'[id] = y
      /\ Numbered(DOMAIN yields')
      /\ \A x \in DOMAIN yields \ {id} : yields'[x] = yields[x]
  BY DEF OneGrant
<1>3. YieldsSound'
  BY <1>1 DEF YieldsSound, Numbered
<1>4. \A x \in DOMAIN yields' : YieldOwed(yields'[x]) \in Nat
  BY <1>3, YieldOwedType DEF YieldsSound
<1>5. YieldOwed(y) \in Nat /\ old \in Nat
  BY YieldOwedType DEF YieldsSound
<1>6. /\ f \in [GrantIds -> Nat] /\ Total(f) \in Nat
      /\ g \in [GrantIds -> Nat]
  BY <1>4, DebtTypes DEF YieldDebts
<1>7. \A x \in GrantIds \ {id} : g[x] = f[x]
  BY <1>1 DEF YieldDebts
<1>8. /\ f[id] = IF t = y.token_a THEN old ELSE 0
      /\ g[id] = IF t = y.token_a THEN YieldOwed(y) ELSE 0
  BY <1>1 DEF YieldDebts
<1> HIDE DEF f, g
<1>9. Total(g) = Total(f) - f[id] + g[id]
  BY <1>1, <1>6, <1>7, GrantNumbers, TotalChange
<1>10. Total(g) = Total(f) + (IF t = y.token_a THEN YieldOwed(y) - old ELSE 0)
  BY <1>5, <1>6, <1>8, <1>9
<1> QED
  BY <1>3, <1>5, <1>10 DEF f, g

-----------------------------------------------------------------------------
\* A kind of grant that no step touches stays as it is.
LEMMA VestingsKept ==
    ASSUME VestingsSound, UNCHANGED <<vestings, ledger>>
    PROVE  VestingsSound' /\ \A t : Total(VestingDebts(t)') = Total(VestingDebts(t))
<1>1. VestingsSound'
  BY DEF VestingsSound, Numbered, VestingSound, OnSchedule
<1>2. \A t : VestingDebts(t)' = VestingDebts(t)
  BY DEF VestingDebts
<1> QED
  BY <1>1, <1>2

LEMMA AirdropsKept ==
    ASSUME AirdropsSound, UNCHANGED <<airdrops, airdropPaid>>
    PROVE  AirdropsSound' /\ \A t : Total(AirdropDebts(t)') = Total(AirdropDebts(t))
<1>1. AirdropsSound'
  BY DEF AirdropsSound, Numbered, AirdropSound, PaidByLeaf
<1>2. \A t : AirdropDebts(t)' = AirdropDebts(t)
  BY DEF AirdropDebts
<1> QED
  BY <1>1, <1>2

LEMMA YieldsKept ==
    ASSUME YieldsSound, UNCHANGED yields
    PROVE  YieldsSound' /\ \A t : Total(YieldDebts(t)') = Total(YieldDebts(t))
<1>1. YieldsSound'
  BY DEF YieldsSound, Numbered
<1>2. \A t : YieldDebts(t)' = YieldDebts(t)
  BY DEF YieldDebts
<1> QED
  BY <1>1, <1>2

\* Token t's balance and what is locked in it move by d, which may be negative.
LockedMoves(t, d) ==
    /\ CustodyTypeOK' /\ d \in Int
    /\ UNCHANGED <<paused, ledger, yields, yieldPaid, withdrawn, initiated>>
    /\ \A u \in Tokens : /\ locked'[u] = locked[u] + (IF u = t THEN d ELSE 0)
                         /\ balance'[u] = balance[u] + (IF u = t THEN d ELSE 0)

\* A vesting is created, claimed or revoked.
LEMMA VestingKeepsBooks ==
    ASSUME GrantsInv, NEW id, NEW v, VestingSound(v), OneGrant(vestings, vestings', id, v),
           NEW old, old = IF id \in DOMAIN vestings THEN VestingOwed(vestings[id]) ELSE 0,
           id \in DOMAIN vestings => vestings[id].token = v.token,
           LockedMoves(v.token, VestingOwed(v) - old), UNCHANGED <<airdrops, airdropPaid>>
    PROVE  GrantsInv'
<1>1. /\ VestingsSound /\ AirdropsSound /\ YieldsSound /\ PaidTypes /\ CustodyTypeOK
      /\ LockedMatchesGrants /\ ShortfallIsBounded
  BY DEF GrantsInv
<1>2. UNCHANGED ledger /\ UNCHANGED yields /\ UNCHANGED yieldPaid /\ UNCHANGED withdrawn /\ UNCHANGED initiated
      /\ CustodyTypeOK'
  BY DEF LockedMoves
<1>3. \A t \in Tokens : Total(VestingDebts(t)') =
          Total(VestingDebts(t)) + (IF t = v.token THEN VestingOwed(v) - old ELSE 0)
  BY <1>1, <1>2, VestingMoves
<1>4. VestingsSound' /\ old \in Nat
  BY <1>1, <1>2, VestingMoves
<1>5. /\ AirdropsSound' /\ \A t : Total(AirdropDebts(t)') = Total(AirdropDebts(t))
      /\ YieldsSound' /\ \A t : Total(YieldDebts(t)') = Total(YieldDebts(t))
  BY <1>1, <1>2, AirdropsKept, YieldsKept
<1>6. PaidTypes'
  BY <1>1, <1>2 DEF PaidTypes
<1>7. VestingOwed(v) \in Nat
  BY VestingOwedType
<1>8. ASSUME NEW t \in Tokens
      PROVE  /\ locked'[t] = Total(VestingDebts(t)') + Total(AirdropDebts(t)')
             /\ balance'[t] + yieldPaid'[t] + withdrawn'[t] >= locked'[t] + Total(YieldDebts(t)')
  <2>1. /\ Total(VestingDebts(t)) \in Nat /\ Total(AirdropDebts(t)) \in Nat
        /\ Total(YieldDebts(t)) \in Nat
    BY <1>1, DebtTypes
  <2>2. /\ locked[t] \in Int /\ balance[t] \in Nat /\ yieldPaid[t] \in Nat /\ withdrawn[t] \in Nat
    BY <1>1 DEF CustodyTypeOK, PaidTypes
  <2>3. /\ locked[t] = Total(VestingDebts(t)) + Total(AirdropDebts(t))
        /\ balance[t] + yieldPaid[t] + withdrawn[t] >= locked[t] + Total(YieldDebts(t))
    BY <1>1 DEF LockedMatchesGrants, ShortfallIsBounded
  <2>4. /\ locked'[t] = locked[t] + (IF t = v.token THEN VestingOwed(v) - old ELSE 0)
        /\ balance'[t] = balance[t] + (IF t = v.token THEN VestingOwed(v) - old ELSE 0)
        /\ yieldPaid'[t] = yieldPaid[t] /\ withdrawn'[t] = withdrawn[t]
    BY <1>2 DEF LockedMoves
  <2> QED
    BY <1>3, <1>4, <1>5, <1>7, <2>1, <2>2, <2>3, <2>4
<1> QED
  BY <1>2, <1>4, <1>5, <1>6, <1>8 DEF GrantsInv, LockedMatchesGrants, ShortfallIsBounded

\* An airdrop is created, claimed or cancelled.
LEMMA AirdropKeepsBooks ==
    ASSUME GrantsInv, AirdropsSound', NEW id, NEW a, OneGrant(airdrops, airdrops', id, a),
           NEW old, old = IF id \in DOMAIN airdrops THEN AirdropOwed(airdrops[id]) ELSE 0,
           id \in DOMAIN airdrops => airdrops[id].token = a.token,
           LockedMoves(a.token, AirdropOwed(a) - old), UNCHANGED vestings
    PROVE  GrantsInv'
<1>1. /\ VestingsSound /\ AirdropsSound /\ YieldsSound /\ PaidTypes /\ CustodyTypeOK
      /\ LockedMatchesGrants /\ ShortfallIsBounded
  BY DEF GrantsInv
<1>2. /\ UNCHANGED ledger /\ UNCHANGED yields /\ UNCHANGED yieldPaid /\ UNCHANGED withdrawn /\ UNCHANGED initiated
      /\ CustodyTypeOK' /\ AirdropOwed(a) - old \in Int
  BY DEF LockedMoves
<1>3. \A t \in Tokens : Total(AirdropDebts(t)') =
          Total(AirdropDebts(t)) + (IF t = a.token THEN AirdropOwed(a) - old ELSE 0)
  BY <1>1, AirdropMoves
<1>5. /\ VestingsSound' /\ \A t : Total(VestingDebts(t)') = Total(VestingDebts(t))
      /\ YieldsSound' /\ \A t : Total(YieldDebts(t)') = Total(YieldDebts(t))
  BY <1>1, <1>2, VestingsKept, YieldsKept
<1>6. PaidTypes'
  BY <1>1, <1>2 DEF PaidTypes
<1>8. ASSUME NEW t \in Tokens
      PROVE  /\ locked'[t] = Total(VestingDebts(t)') + Total(AirdropDebts(t)')
             /\ balance'[t] + yieldPaid'[t] + withdrawn'[t] >= locked'[t] + Total(YieldDebts(t)')
  <2>1. /\ Total(VestingDebts(t)) \in Nat /\ Total(AirdropDebts(t)) \in Nat
        /\ Total(YieldDebts(t)) \in Nat
    BY <1>1, DebtTypes
  <2>2. /\ locked[t] \in Int /\ balance[t] \in Nat /\ yieldPaid[t] \in Nat /\ withdrawn[t] \in Nat
    BY <1>1 DEF CustodyTypeOK, PaidTypes
  <2>3. /\ locked[t] = Total(VestingDebts(t)) + Total(AirdropDebts(t))
        /\ balance[t] + yieldPaid[t] + withdrawn[t] >= locked[t] + Total(YieldDebts(t))
    BY <1>1 DEF LockedMatchesGrants, ShortfallIsBounded
  <2>4. /\ locked'[t] = locked[t] + (IF t = a.token THEN AirdropOwed(a) - old ELSE 0)
        /\ balance'[t] = balance[t] + (IF t = a.token THEN AirdropOwed(a) - old ELSE 0)
        /\ yieldPaid'[t] = yieldPaid[t] /\ withdrawn'[t] = withdrawn[t]
    BY <1>2 DEF LockedMoves
  <2> QED
    BY <1>2, <1>3, <1>5, <2>1, <2>2, <2>3, <2>4
<1> QED
  BY <1>2, <1>5, <1>6, <1>8 DEF GrantsInv, LockedMatchesGrants, ShortfallIsBounded

\* A yield escrow is created, claimed or cancelled.
LEMMA YieldKeepsBooks ==
    ASSUME GrantsInv, NEW id, NEW y \in YieldEscrow, OneGrant(yields, yields', id, y),
           NEW old, old = IF id \in DOMAIN yields THEN YieldOwed(yields[id]) ELSE 0,
           id \in DOMAIN yields => yields[id].token_a = y.token_a,
           UNCHANGED <<ledger, locked, vestings, airdrops, airdropPaid, withdrawn, initiated>>,
           CustodyTypeOK', PaidTypes',
           \A u \in Tokens : balance'[u] + yieldPaid'[u] = balance[u] + yieldPaid[u]
               + (IF u = y.token_a THEN YieldOwed(y) - old ELSE 0)
    PROVE  GrantsInv'
<1>1. /\ VestingsSound /\ AirdropsSound /\ YieldsSound /\ PaidTypes /\ CustodyTypeOK
      /\ LockedMatchesGrants /\ ShortfallIsBounded
  BY DEF GrantsInv
<1>3. \A t \in Tokens : Total(YieldDebts(t)') =
          Total(YieldDebts(t)) + (IF t = y.token_a THEN YieldOwed(y) - old ELSE 0)
  BY <1>1, YieldMoves
<1>4. YieldsSound' /\ old \in Nat /\ YieldOwed(y) \in Nat
  BY <1>1, YieldMoves, YieldOwedType
<1>5. /\ VestingsSound' /\ \A t : Total(VestingDebts(t)') = Total(VestingDebts(t))
      /\ AirdropsSound' /\ \A t : Total(AirdropDebts(t)') = Total(AirdropDebts(t))
  BY <1>1, VestingsKept, AirdropsKept
<1>8. ASSUME NEW t \in Tokens
      PROVE  /\ locked'[t] = Total(VestingDebts(t)') + Total(AirdropDebts(t)')
             /\ balance'[t] + yieldPaid'[t] + withdrawn'[t] >= locked'[t] + Total(YieldDebts(t)')
  <2>1. /\ Total(VestingDebts(t)) \in Nat /\ Total(AirdropDebts(t)) \in Nat
        /\ Total(YieldDebts(t)) \in Nat
    BY <1>1, DebtTypes
  <2>2. /\ locked[t] \in Int /\ balance[t] \in Nat /\ yieldPaid[t] \in Nat /\ withdrawn[t] \in Nat
        /\ balance'[t] \in Nat /\ yieldPaid'[t] \in Nat
    BY <1>1 DEF CustodyTypeOK, PaidTypes
  <2>3. /\ locked[t] = Total(VestingDebts(t)) + Total(AirdropDebts(t))
        /\ balance[t] + yieldPaid[t] + withdrawn[t] >= locked[t] + Total(YieldDebts(t))
    BY <1>1 DEF LockedMatchesGrants, ShortfallIsBounded
  <2> QED
    BY <1>3, <1>4, <1>5, <2>1, <2>2, <2>3
<1> QED
  BY <1>4, <1>5, <1>8 DEF GrantsInv, LockedMatchesGrants, ShortfallIsBounded

\* No grant changes, and the balance loses no more than is withdrawn.
LEMMA NoGrantKeepsBooks ==
    ASSUME GrantsInv, VestingsSound', CustodyTypeOK', PaidTypes',
           UNCHANGED <<locked, vestings, airdrops, airdropPaid, yields>>,
           \A u \in Tokens : balance'[u] + yieldPaid'[u] + withdrawn'[u]
                               >= balance[u] + yieldPaid[u] + withdrawn[u]
    PROVE  GrantsInv'
<1>1. /\ VestingsSound /\ AirdropsSound /\ YieldsSound /\ PaidTypes /\ CustodyTypeOK
      /\ LockedMatchesGrants /\ ShortfallIsBounded
  BY DEF GrantsInv
<1>2. \A t : VestingDebts(t)' = VestingDebts(t)
  BY DEF VestingDebts
<1>3. \A t : Total(VestingDebts(t)') = Total(VestingDebts(t))
  BY <1>2
<1>5. /\ AirdropsSound' /\ \A t : Total(AirdropDebts(t)') = Total(AirdropDebts(t))
      /\ YieldsSound' /\ \A t : Total(YieldDebts(t)') = Total(YieldDebts(t))
  BY <1>1, AirdropsKept, YieldsKept
<1>8. ASSUME NEW t \in Tokens
      PROVE  /\ locked'[t] = Total(VestingDebts(t)') + Total(AirdropDebts(t)')
             /\ balance'[t] + yieldPaid'[t] + withdrawn'[t] >= locked'[t] + Total(YieldDebts(t)')
  <2>1. /\ Total(VestingDebts(t)) \in Nat /\ Total(AirdropDebts(t)) \in Nat
        /\ Total(YieldDebts(t)) \in Nat
    BY <1>1, DebtTypes
  <2>2. /\ locked[t] \in Int /\ balance[t] \in Nat /\ yieldPaid[t] \in Nat /\ withdrawn[t] \in Nat
        /\ balance'[t] \in Nat /\ yieldPaid'[t] \in Nat /\ withdrawn'[t] \in Nat
    BY <1>1 DEF CustodyTypeOK, PaidTypes
  <2>3. /\ locked[t] = Total(VestingDebts(t)) + Total(AirdropDebts(t))
        /\ balance[t] + yieldPaid[t] + withdrawn[t] >= locked[t] + Total(YieldDebts(t))
    BY <1>1 DEF LockedMatchesGrants, ShortfallIsBounded
  <2> QED
    BY <1>3, <1>5, <2>1, <2>2, <2>3
<1> QED
  BY <1>5, <1>8 DEF GrantsInv, LockedMatchesGrants, ShortfallIsBounded

-----------------------------------------------------------------------------
\* A deposit that is locked, and a payment out of what is locked.
LEMMA LockedDeposit ==
    ASSUME CustodyTypeOK, NEW t \in Tokens, NEW n \in Nat, TransferIn(t, n), IncreaseLocked(t, n),
           UNCHANGED <<paused, ledger, yields, yieldPaid, withdrawn, initiated>>
    PROVE  LockedMoves(t, n)
BY DEF CustodyTypeOK, TransferIn, IncreaseLocked, LockedMoves

LEMMA LockedPayment ==
    ASSUME CustodyTypeOK, NEW t \in Tokens, NEW n \in Nat, NEW d \in Int, d = 0 - n,
           RawTransferOut(t, n), DecreaseLocked(t, n),
           UNCHANGED <<paused, ledger, yields, yieldPaid, withdrawn, initiated>>
    PROVE  LockedMoves(t, d)
BY DEF CustodyTypeOK, RawTransferOut, DecreaseLocked, LockedMoves

\* Rounding down and cancelling a factor.
LEMMA RoundedDown ==
    ASSUME NEW p \in Nat, NEW q \in Nat \ {0}
    PROVE  p \div q \in Nat /\ (p \div q) * q <= p
BY SMT

LEMMA FactorCancels ==
    ASSUME NEW x \in Nat, NEW y \in Nat, NEW q \in Nat \ {0}, x * q <= y * q
    PROVE  x <= y
BY SMT

LEMMA FactorKeepsOrder ==
    ASSUME NEW n \in Nat, NEW x \in Int, NEW y \in Int, x <= y
    PROVE  n * x <= n * y /\ n * x \in Int /\ n * y \in Int
BY SMT

\* What claim_vesting counts as vested is covered by the schedule.
LEMMA VestedBounds ==
    ASSUME NEW v \in Vesting, v.cliff_ledger < v.end_ledger, ledger \in Nat
    PROVE  /\ Vested(v) \in Nat /\ Vested(v) <= v.total_amount
           /\ Vested(v) > 0 /\ ledger < v.end_ledger =>
                Vested(v) * (v.end_ledger - v.cliff_ledger)
                    <= v.total_amount * (ledger - v.cliff_ledger)
<1>1. /\ v.total_amount \in Nat /\ v.cliff_ledger \in Nat /\ v.end_ledger \in Nat
  BY DEF Vesting
<1>2. CASE ledger < v.cliff_ledger
  BY <1>1, <1>2 DEF Vested
<1>3. CASE ~(ledger < v.cliff_ledger)
  <2> DEFINE effective == IF ledger > v.end_ledger THEN v.end_ledger ELSE ledger
             q == v.end_ledger - v.cliff_ledger
             e == effective - v.cliff_ledger
             n == v.total_amount
             p == n * e
  <2>1. q \in Nat \ {0} /\ e \in Nat /\ e <= q
    BY <1>1, <1>3
  <2>2. ledger < v.end_ledger => e = ledger - v.cliff_ledger
    BY <1>1
  <2>3. Vested(v) = p \div q
    BY <1>3 DEF Vested
  <2> HIDE DEF q, e
  <2>4. p \in Nat /\ p <= n * q
    BY <1>1, <2>1, FactorKeepsOrder
  <2> HIDE DEF p
  <2>5. Vested(v) \in Nat /\ Vested(v) * q <= p
    BY <2>1, <2>3, <2>4, RoundedDown
  <2>6. Vested(v) * q \in Nat /\ n * q \in Nat
    BY <1>1, <2>1, <2>5
  <2>7. Vested(v) * q <= n * q
    BY <2>4, <2>5, <2>6
  <2>8. Vested(v) <= n
    BY <1>1, <2>1, <2>5, <2>7, FactorCancels
  <2>9. ledger < v.end_ledger => Vested(v) * q <= n * (ledger - v.cliff_ledger)
    BY <2>2, <2>5 DEF p
  <2> QED
    BY <2>5, <2>8, <2>9 DEF q
<1> QED
  BY <1>2, <1>3

-----------------------------------------------------------------------------
LEMMA CreateVestingKeeps ==
    ASSUME GrantsInv, NEW t \in Tokens, NEW amount \in GrantAmounts, NEW cliff \in GrantLedgers,
           NEW end \in GrantLedgers, CreateVesting(t, amount, cliff, end)
    PROVE  GrantsInv'
<1> DEFINE v == [token |-> t, total_amount |-> amount, cliff_ledger |-> cliff,
                 end_ledger |-> end, claimed |-> 0, revoked |-> FALSE]
           id == NewId(vestings)
<1>1. /\ amount \in Nat \ {0} /\ cliff \in Nat /\ end \in Nat /\ ledger \in Nat
      /\ VestingsSound /\ CustodyTypeOK
  BY GrantsAssumption DEF CreateVesting, GrantsInv, CustodyTypeOK
<1>2. VestingSound(v)
  <2>1. v \in Vesting
    BY <1>1 DEF Vesting
  <2> QED
    BY <1>1, <2>1 DEF VestingSound, OnSchedule, CreateVesting
<1>3. OneGrant(vestings, vestings', id, v) /\ id \notin DOMAIN vestings
  BY <1>1, RoomForOne, GrantAdded DEF CreateVesting, VestingsSound
<1>4. LockedMoves(t, amount)
  BY <1>1, LockedDeposit DEF CreateVesting
<1>5. VestingOwed(v) - 0 = amount /\ v.token = t
  BY <1>1 DEF VestingOwed
<1>6. UNCHANGED <<airdrops, airdropPaid>>
  BY DEF CreateVesting
<1> HIDE DEF v, id
<1> QED
  BY <1>2, <1>3, <1>4, <1>5, <1>6, VestingKeepsBooks

LEMMA ClaimVestingKeeps ==
    ASSUME GrantsInv, NEW id \in DOMAIN vestings, ClaimVesting(id)
    PROVE  GrantsInv'
<1> DEFINE v == vestings[id]
           paid == Vested(v) - v.claimed
           w == [v EXCEPT !.claimed = @ + paid]
<1>1. VestingsSound /\ CustodyTypeOK /\ ledger \in Nat /\ VestingSound(v)
  BY DEF GrantsInv, VestingsSound, CustodyTypeOK
<1>2. /\ v \in Vesting /\ v.cliff_ledger < v.end_ledger /\ v.claimed <= v.total_amount
      /\ v.claimed \in Nat /\ v.total_amount \in Nat /\ v.token \in Tokens
      /\ v.cliff_ledger \in Nat /\ v.end_ledger \in Nat
  BY <1>1 DEF VestingSound, OnSchedule, Vesting
<1>3. /\ Vested(v) \in Nat /\ Vested(v) <= v.total_amount
      /\ Vested(v) > 0 /\ ledger < v.end_ledger =>
           Vested(v) * (v.end_ledger - v.cliff_ledger)
               <= v.total_amount * (ledger - v.cliff_ledger)
  BY <1>1, <1>2, VestedBounds
<1>4. /\ paid > 0 /\ ~v.revoked
      /\ DecreaseLocked(v.token, paid) /\ RawTransferOut(v.token, paid)
      /\ UNCHANGED <<paused, ledger, airdrops, yields, airdropPaid, yieldPaid, withdrawn, initiated>>
  BY DEF ClaimVesting
<1>5. paid \in Nat /\ Vested(v) > 0 /\ v.claimed + paid = Vested(v)
  BY <1>2, <1>3, <1>4
<1>6. vestings' = [vestings EXCEPT ![id] = w]
  BY DEF ClaimVesting
<1>7. /\ w \in Vesting /\ w.claimed = Vested(v) /\ w.total_amount = v.total_amount
      /\ w.cliff_ledger = v.cliff_ledger /\ w.end_ledger = v.end_ledger
      /\ w.token = v.token /\ w.revoked = v.revoked
  BY <1>2, <1>3, <1>5 DEF Vesting
<1>8. OneGrant(vestings, vestings', id, w)
  BY <1>1, <1>6, GrantChanged DEF VestingsSound
<1>9. VestingOwed(v) = v.total_amount - v.claimed /\ VestingOwed(w) = v.total_amount - Vested(v)
  BY <1>4, <1>7 DEF VestingOwed
<1>10. LockedMoves(w.token, VestingOwed(w) - VestingOwed(v))
  <2> DEFINE d == VestingOwed(w) - VestingOwed(v)
  <2>1. d \in Int /\ d = 0 - paid
    BY <1>2, <1>3, <1>9
  <2> HIDE DEF d, paid
  <2> QED
    BY <1>1, <1>2, <1>4, <1>5, <1>7, <2>1, LockedPayment DEF d
<1> HIDE DEF w, paid
<1>11. VestingSound(w)
  BY <1>2, <1>3, <1>5, <1>7 DEF VestingSound, OnSchedule
<1> QED
  BY <1>4, <1>7, <1>8, <1>10, <1>11, VestingKeepsBooks

LEMMA RevokeVestingKeeps ==
    ASSUME GrantsInv, NEW id \in DOMAIN vestings, RevokeVesting(id)
    PROVE  GrantsInv'
<1> DEFINE v == vestings[id]
           unclaimed == v.total_amount - v.claimed
           w == [v EXCEPT !.revoked = TRUE]
<1>1. VestingsSound /\ CustodyTypeOK /\ VestingSound(v)
  BY DEF GrantsInv, VestingsSound
<1>2. /\ v \in Vesting /\ v.claimed <= v.total_amount
      /\ v.claimed \in Nat /\ v.total_amount \in Nat /\ v.token \in Tokens
  BY <1>1 DEF VestingSound, OnSchedule, Vesting
<1>4. /\ ~v.revoked
      /\ DecreaseLocked(v.token, unclaimed) /\ RawTransferOut(v.token, unclaimed)
      /\ UNCHANGED <<paused, ledger, airdrops, yields, airdropPaid, yieldPaid, withdrawn, initiated>>
  BY DEF RevokeVesting
<1>5. unclaimed \in Nat
  BY <1>2
<1>6. vestings' = [vestings EXCEPT ![id] = w]
  BY DEF RevokeVesting
<1>7. /\ w \in Vesting /\ w.claimed = v.claimed /\ w.total_amount = v.total_amount
      /\ w.cliff_ledger = v.cliff_ledger /\ w.end_ledger = v.end_ledger
      /\ w.token = v.token /\ w.revoked
  BY <1>2 DEF Vesting
<1>8. OneGrant(vestings, vestings', id, w)
  BY <1>1, <1>6, GrantChanged DEF VestingsSound
<1>9. VestingOwed(v) = unclaimed /\ VestingOwed(w) = 0
  BY <1>4, <1>7 DEF VestingOwed
<1>10. LockedMoves(w.token, VestingOwed(w) - VestingOwed(v))
  <2> DEFINE d == VestingOwed(w) - VestingOwed(v)
  <2>1. d \in Int /\ d = 0 - unclaimed
    BY <1>5, <1>9
  <2> HIDE DEF d, unclaimed
  <2> QED
    BY <1>1, <1>2, <1>4, <1>5, <1>7, <2>1, LockedPayment DEF d
<1> HIDE DEF w, unclaimed
<1>11. VestingSound(w)
  BY <1>1, <1>7 DEF VestingSound, OnSchedule
<1> QED
  BY <1>4, <1>7, <1>8, <1>10, <1>11, VestingKeepsBooks

-----------------------------------------------------------------------------
\* A changed airdrop that paid nobody.
LEMMA AirdropChanged ==
    ASSUME AirdropsSound, NEW id, NEW a, OneGrant(airdrops, airdrops', id, a),
           AirdropSound(id, a), UNCHANGED airdropPaid
    PROVE  AirdropsSound'
<1>1. /\ id \in GrantIds /\ DOMAIN airdrops' = DOMAIN airdrops \cup {id} /\ airdrops'[id] = a
      /\ Numbered(DOMAIN airdrops')
      /\ \A x \in DOMAIN airdrops \ {id} : airdrops'[x] = airdrops[x]
  BY DEF OneGrant
<1>2. \A x, b : AirdropSound(x, b)' <=> AirdropSound(x, b)
  BY DEF AirdropSound, PaidByLeaf
<1>3. \A x \in DOMAIN airdrops' : AirdropSound(x, airdrops'[x])
  BY <1>1 DEF AirdropsSound
<1>4. \A x \in DOMAIN airdrops' : AirdropSound(x, airdrops[x])'
  BY <1>3 DEF AirdropSound, PaidByLeaf
<1> QED
  BY <1>1, <1>4 DEF AirdropsSound, Numbered

LEMMA CreateAirdropKeeps ==
    ASSUME GrantsInv, NEW t \in Tokens, NEW builtFor \in GrantIds, NEW leaves \in Leaves,
           NEW total \in GrantAmounts, NEW expiration \in GrantLedgers,
           CreateAirdrop(t, builtFor, leaves, total, expiration)
    PROVE  GrantsInv'
<1> DEFINE a == [token |-> t, builtFor |-> builtFor, leaves |-> leaves,
                 total_amount |-> total, claimed_amount |-> 0, claimedBy |-> {},
                 expiration_ledger |-> expiration, cancelled |-> FALSE]
           id == NewId(airdrops)
<1>1. total \in Nat \ {0} /\ expiration \in Nat /\ AirdropsSound /\ CustodyTypeOK
  BY GrantsAssumption DEF CreateAirdrop, GrantsInv
<1>2. OneGrant(airdrops, airdrops', id, a) /\ id \notin DOMAIN airdrops
  BY <1>1, RoomForOne, GrantAdded DEF CreateAirdrop, AirdropsSound
<1>3. id \in GrantIds /\ airdropPaid[id] \in [Grantees -> Nat]
      /\ \A r \in Grantees : airdropPaid[id][r] = 0
  BY <1>1, <1>2 DEF OneGrant, AirdropsSound
<1>4. Total(airdropPaid[id]) = 0
  BY <1>3, TotalZero
<1>5. /\ a \in Airdrop /\ a.claimed_amount = 0 /\ a.total_amount = total /\ a.token = t
      /\ ~a.cancelled
  BY <1>1 DEF Airdrop
<1>6. LockedMoves(t, total)
  BY <1>1, LockedDeposit DEF CreateAirdrop
<1>7. UNCHANGED vestings /\ UNCHANGED airdropPaid
  BY DEF CreateAirdrop
<1> HIDE DEF a, id
<1>8. AirdropSound(id, a)
  BY <1>1, <1>3, <1>4, <1>5 DEF AirdropSound, PaidByLeaf
<1>9. AirdropsSound'
  BY <1>1, <1>2, <1>7, <1>8, AirdropChanged
<1>10. AirdropOwed(a) - 0 = total
  BY <1>1, <1>5 DEF AirdropOwed
<1> QED
  BY <1>2, <1>5, <1>6, <1>7, <1>9, <1>10, AirdropKeepsBooks

LEMMA CancelAirdropKeeps ==
    ASSUME GrantsInv, NEW id \in DOMAIN airdrops, CancelAirdrop(id)
    PROVE  GrantsInv'
<1> DEFINE a == airdrops[id]
           unclaimed == a.total_amount - a.claimed_amount
           b == [a EXCEPT !.cancelled = TRUE]
<1>1. AirdropsSound /\ CustodyTypeOK /\ AirdropSound(id, a)
  BY DEF GrantsInv, AirdropsSound
<1>2. /\ a \in Airdrop /\ a.claimed_amount <= a.total_amount
      /\ a.claimed_amount \in Nat /\ a.total_amount \in Nat /\ a.token \in Tokens
  BY <1>1 DEF AirdropSound, Airdrop
<1>3. /\ ~a.cancelled
      /\ DecreaseLocked(a.token, unclaimed) /\ RawTransferOut(a.token, unclaimed)
      /\ UNCHANGED <<paused, ledger, vestings, yields, airdropPaid, yieldPaid, withdrawn, initiated>>
  BY DEF CancelAirdrop
<1>4. unclaimed \in Nat
  BY <1>2
<1>5. airdrops' = [airdrops EXCEPT ![id] = b]
  BY DEF CancelAirdrop
<1>6. /\ b \in Airdrop /\ b.claimed_amount = a.claimed_amount /\ b.total_amount = a.total_amount
      /\ b.token = a.token /\ b.cancelled /\ b.claimedBy = a.claimedBy
      /\ b.builtFor = a.builtFor /\ b.leaves = a.leaves
  BY <1>2 DEF Airdrop
<1>7. OneGrant(airdrops, airdrops', id, b)
  BY <1>1, <1>5, GrantChanged DEF AirdropsSound
<1>8. AirdropOwed(a) = unclaimed /\ AirdropOwed(b) = 0
  BY <1>3, <1>6 DEF AirdropOwed
<1>9. LockedMoves(b.token, AirdropOwed(b) - AirdropOwed(a))
  <2> DEFINE d == AirdropOwed(b) - AirdropOwed(a)
  <2>1. d \in Int /\ d = 0 - unclaimed
    BY <1>4, <1>8
  <2> HIDE DEF d, unclaimed
  <2> QED
    BY <1>1, <1>2, <1>3, <1>4, <1>6, <2>1, LockedPayment DEF d
<1> HIDE DEF b, unclaimed
<1>10. AirdropSound(id, b)
  BY <1>1, <1>6 DEF AirdropSound, PaidByLeaf
<1>11. AirdropsSound'
  BY <1>1, <1>3, <1>7, <1>10, AirdropChanged
<1> QED
  BY <1>3, <1>6, <1>7, <1>9, <1>11, AirdropKeepsBooks

LEMMA ClaimAirdropKeeps ==
    ASSUME GrantsInv, NEW id \in DOMAIN airdrops, NEW r \in Grantees, NEW amount \in Int,
           ClaimAirdrop(id, r, amount)
    PROVE  GrantsInv'
<1> DEFINE a == airdrops[id]
           b == [a EXCEPT !.claimed_amount = @ + amount, !.claimedBy = @ \cup {r}]
           f == airdropPaid[id]
           g == airdropPaid'[id]
<1>1. AirdropsSound /\ CustodyTypeOK /\ AirdropSound(id, a) /\ id \in GrantIds
  BY DEF GrantsInv, AirdropsSound, Numbered
<1>2. /\ a \in Airdrop /\ Total(f) = a.claimed_amount /\ PaidByLeaf(id, a)
      /\ a.claimed_amount \in Nat /\ a.total_amount \in Nat /\ a.token \in Tokens
      /\ a.claimedBy \in SUBSET Grantees
  BY <1>1 DEF AirdropSound, Airdrop
<1>3. /\ amount > 0 /\ ~a.cancelled /\ r \notin a.claimedBy
      /\ a.builtFor = id /\ [recipient |-> r, amount |-> amount] \in a.leaves
      /\ a.claimed_amount + amount <= a.total_amount
      /\ DecreaseLocked(a.token, amount) /\ RawTransferOut(a.token, amount)
      /\ UNCHANGED <<paused, ledger, vestings, yields, yieldPaid, withdrawn, initiated>>
  BY DEF ClaimAirdrop, VerifyMerkleProof
<1>4. amount \in Nat
  BY <1>3
<1>5. airdrops' = [airdrops EXCEPT ![id] = b]
  BY DEF ClaimAirdrop
<1>6. /\ b \in Airdrop /\ b.claimed_amount = a.claimed_amount + amount
      /\ b.total_amount = a.total_amount /\ b.token = a.token /\ b.cancelled = a.cancelled
      /\ b.claimedBy = a.claimedBy \cup {r} /\ b.builtFor = a.builtFor /\ b.leaves = a.leaves
  <2> DEFINE n == a.claimed_amount + amount
             by == a.claimedBy \cup {r}
  <2>1. n \in Nat /\ by \in SUBSET Grantees
    BY <1>2, <1>4
  <2>2. b = [a EXCEPT !.claimed_amount = n, !.claimedBy = by]
    OBVIOUS
  <2> HIDE DEF n, by, b
  <2>3. /\ b \in Airdrop /\ b.claimed_amount = n
        /\ b.total_amount = a.total_amount /\ b.token = a.token /\ b.cancelled = a.cancelled
        /\ b.claimedBy = by /\ b.builtFor = a.builtFor /\ b.leaves = a.leaves
    BY <1>2, <2>1, <2>2 DEF Airdrop
  <2> QED
    BY <2>3 DEF n, by
<1>7. OneGrant(airdrops, airdrops', id, b)
  BY <1>1, <1>5, GrantChanged DEF AirdropsSound
<1>8. AirdropOwed(a) = a.total_amount - a.claimed_amount
      /\ AirdropOwed(b) = a.total_amount - (a.claimed_amount + amount)
  BY <1>3, <1>6 DEF AirdropOwed
<1>9. LockedMoves(b.token, AirdropOwed(b) - AirdropOwed(a))
  <2> DEFINE d == AirdropOwed(b) - AirdropOwed(a)
  <2>1. d \in Int /\ d = 0 - amount
    BY <1>2, <1>4, <1>8
  <2> HIDE DEF d
  <2> QED
    BY <1>1, <1>2, <1>3, <1>4, <1>6, <2>1, LockedPayment DEF d
<1>10. f \in [Grantees -> Nat] /\ f[r] = 0
  <2>1. f \in [Grantees -> Nat]
    BY <1>1 DEF AirdropsSound
  <2>2. f[r] > 0 => r \in a.claimedBy
    BY <1>2 DEF PaidByLeaf
  <2>3. f[r] \in Nat
    BY <2>1
  <2> QED
    BY <1>3, <2>1, <2>2, <2>3
<1>11. /\ airdropPaid' \in [GrantIds -> [Grantees -> Nat]]
       /\ \A x \in GrantIds \ {id} : airdropPaid'[x] = airdropPaid[x]
       /\ g[r] = amount /\ \A s \in Grantees \ {r} : g[s] = f[s]
       /\ g \in [Grantees -> Nat]
  <2>1. /\ airdropPaid \in [GrantIds -> [Grantees -> Nat]]
        /\ airdropPaid' = [airdropPaid EXCEPT ![id][r] = @ + amount]
    BY <1>1 DEF ClaimAirdrop, AirdropsSound
  <2>2. g = [f EXCEPT ![r] = @ + amount]
    BY <1>1, <2>1
  <2>3. g \in [Grantees -> Nat] /\ g[r] = amount /\ \A s \in Grantees \ {r} : g[s] = f[s]
    BY <1>4, <1>10, <2>2
  <2> QED
    BY <1>1, <2>1, <2>3
<1> HIDE DEF b, f, g
<1>12. Total(g) = Total(f) - f[r] + g[r]
  BY <1>10, <1>11, GrantNumbers, TotalChange
<1>13. Total(g) = b.claimed_amount /\ b.claimed_amount <= b.total_amount
  BY <1>2, <1>3, <1>4, <1>6, <1>10, <1>11, <1>12
<1>14. \A s \in Grantees : g[s] > 0 =>
          /\ s \in b.claimedBy /\ b.builtFor = id
          /\ [recipient |-> s, amount |-> g[s]] \in b.leaves
  <2> SUFFICES ASSUME NEW s \in Grantees, g[s] > 0
               PROVE  /\ s \in b.claimedBy /\ b.builtFor = id
                      /\ [recipient |-> s, amount |-> g[s]] \in b.leaves
    OBVIOUS
  <2>1. CASE s = r
    BY <1>3, <1>6, <1>11, <2>1
  <2>2. CASE s # r
    <3>1. g[s] = f[s]
      BY <1>11, <2>2
    <3>2. /\ s \in a.claimedBy /\ a.builtFor = id
          /\ [recipient |-> s, amount |-> f[s]] \in a.leaves
      BY <1>2, <3>1 DEF PaidByLeaf, f
    <3> QED
      BY <1>6, <3>1, <3>2
  <2> QED
    BY <2>1, <2>2
<1>15. AirdropsSound'
  <2>1. /\ DOMAIN airdrops' = DOMAIN airdrops \cup {id} /\ airdrops'[id] = b
        /\ Numbered(DOMAIN airdrops')
        /\ \A x \in DOMAIN airdrops \ {id} : airdrops'[x] = airdrops[x]
    BY <1>7 DEF OneGrant
  <2>2. ASSUME NEW x \in DOMAIN airdrops' PROVE AirdropSound(x, airdrops[x])'
    <3>1. CASE x = id
      BY <1>6, <1>13, <1>14, <2>1, <3>1 DEF AirdropSound, PaidByLeaf, g
    <3>2. CASE x # id
      <4>1. /\ airdrops'[x] = airdrops[x] /\ airdropPaid'[x] = airdropPaid[x]
            /\ AirdropSound(x, airdrops[x])
        BY <1>1, <1>11, <2>1, <3>2 DEF AirdropsSound, Numbered
      <4> QED
        BY <4>1 DEF AirdropSound, PaidByLeaf
    <3> QED
      BY <3>1, <3>2
  <2>3. ASSUME NEW x \in GrantIds \ DOMAIN airdrops', NEW s \in Grantees
        PROVE  airdropPaid'[x][s] = 0
    BY <1>1, <1>11, <2>1 DEF AirdropsSound
  <2> QED
    BY <1>11, <2>1, <2>2, <2>3 DEF AirdropsSound, Numbered
<1> QED
  BY <1>3, <1>6, <1>7, <1>9, <1>15, AirdropKeepsBooks

-----------------------------------------------------------------------------
LEMMA CreateYieldKeeps ==
    ASSUME GrantsInv, NEW t \in Tokens, NEW amount \in GrantAmounts, NEW release \in GrantLedgers,
           CreateYieldEscrow(t, amount, release)
    PROVE  GrantsInv'
<1> DEFINE y == [token_a |-> t, amount |-> amount, release_ledger |-> release,
                 status |-> "Pending"]
           id == NewId(yields)
<1>1. amount \in Nat \ {0} /\ release \in Nat /\ YieldsSound /\ CustodyTypeOK /\ PaidTypes
  BY GrantsAssumption DEF CreateYieldEscrow, GrantsInv
<1>2. OneGrant(yields, yields', id, y) /\ id \notin DOMAIN yields
  BY <1>1, RoomForOne, GrantAdded DEF CreateYieldEscrow, YieldsSound
<1>3. y \in YieldEscrow /\ YieldOwed(y) - 0 = amount /\ y.token_a = t
  BY <1>1 DEF YieldEscrow, YieldOwed
<1>4. /\ balance' = [balance EXCEPT ![t] = @ + amount]
      /\ UNCHANGED <<locked, cached, paused, ledger, vestings, airdrops, airdropPaid, yieldPaid,
                     withdrawn, initiated>>
  BY DEF CreateYieldEscrow
<1>5. CustodyTypeOK' /\ PaidTypes'
  BY <1>1, <1>4 DEF CustodyTypeOK, PaidTypes
<1>6. \A u \in Tokens : balance'[u] + yieldPaid'[u] =
          balance[u] + yieldPaid[u] + (IF u = t THEN amount ELSE 0)
  BY <1>1, <1>4 DEF CustodyTypeOK, PaidTypes
<1> HIDE DEF y, id
<1> QED
  BY <1>2, <1>3, <1>4, <1>5, <1>6, YieldKeepsBooks

\* The status of a pending yield escrow.
LEMMA YieldSettled ==
    ASSUME GrantsInv, NEW id \in DOMAIN yields, yields[id].status = "Pending",
           NEW s \in {"Claimed", "Cancelled"}, NEW y, y = [yields[id] EXCEPT !.status = s],
           yields' = [yields EXCEPT ![id] = y]
    PROVE  /\ OneGrant(yields, yields', id, y) /\ y \in YieldEscrow
           /\ y.token_a = yields[id].token_a /\ y.token_a \in Tokens
           /\ yields[id].amount \in Nat
           /\ YieldOwed(yields[id]) = yields[id].amount /\ YieldOwed(y) = 0
<1>1. YieldsSound /\ yields[id] \in YieldEscrow
  BY DEF GrantsInv, YieldsSound
<1>2. OneGrant(yields, yields', id, y)
  BY <1>1, GrantChanged DEF YieldsSound
<1>3. y \in YieldEscrow /\ y.token_a = yields[id].token_a /\ y.status = s
  BY <1>1 DEF YieldEscrow
<1> QED
  BY <1>1, <1>2, <1>3 DEF YieldEscrow, YieldOwed

LEMMA CancelYieldKeeps ==
    ASSUME GrantsInv, NEW id \in DOMAIN yields, CancelYieldEscrow(id)
    PROVE  GrantsInv'
<1> DEFINE o == yields[id]
           y == [o EXCEPT !.status = "Cancelled"]
<1>1. /\ o.status = "Pending" /\ yields' = [yields EXCEPT ![id] = y]
      /\ RawTransferOut(o.token_a, o.amount)
      /\ UNCHANGED <<locked, paused, ledger, vestings, airdrops, airdropPaid, yieldPaid, withdrawn, initiated>>
  BY DEF CancelYieldEscrow
<1>2. CustodyTypeOK /\ PaidTypes
  BY DEF GrantsInv
<1> HIDE DEF y
<1>3. /\ OneGrant(yields, yields', id, y) /\ y \in YieldEscrow
      /\ y.token_a = o.token_a /\ y.token_a \in Tokens /\ o.amount \in Nat
      /\ YieldOwed(o) = o.amount /\ YieldOwed(y) = 0
  BY <1>1, YieldSettled DEF y
<1> HIDE DEF o
<1>4. CustodyTypeOK' /\ PaidTypes'
  BY <1>1, <1>2, <1>3 DEF CustodyTypeOK, PaidTypes, RawTransferOut
<1>5. \A u \in Tokens : balance'[u] + yieldPaid'[u] = balance[u] + yieldPaid[u]
          + (IF u = y.token_a THEN YieldOwed(y) - YieldOwed(o) ELSE 0)
  BY <1>1, <1>2, <1>3 DEF CustodyTypeOK, PaidTypes, RawTransferOut
<1> QED
  BY <1>1, <1>3, <1>4, <1>5, YieldKeepsBooks DEF o

\* The yield the oracle's price makes is never negative.
LEMMA AccruedYieldType ==
    ASSUME NEW amount \in Nat, NEW price \in Int, price > 0
    PROVE  AccruedYield(amount, price) \in Nat
<1> DEFINE value == (amount * price) \div PRICE_SCALE
<1>1. amount * price \in Nat /\ PRICE_SCALE \in Nat \ {0}
  BY GrantsAssumption
<1>2. value \in Nat
  BY <1>1, RoundedDown
<1>3. AccruedYield(amount, price) = IF value > amount THEN value - amount ELSE 0
  BY DEF AccruedYield
<1> HIDE DEF value
<1> QED
  BY <1>2, <1>3

LEMMA ClaimYieldKeeps ==
    ASSUME GrantsInv, NEW id \in DOMAIN yields, NEW price \in QuotedPrices, NEW quoted,
           ClaimYieldEscrow(id, price, quoted)
    PROVE  GrantsInv'
<1> DEFINE o == yields[id]
           n == AccruedYield(o.amount, price)
           y == [o EXCEPT !.status = "Claimed"]
<1>1. /\ o.status = "Pending" /\ yields' = [yields EXCEPT ![id] = y] /\ price > 0
      /\ RawTransferOut(o.token_a, o.amount + n)
      /\ yieldPaid' = [yieldPaid EXCEPT ![o.token_a] = @ + n]
      /\ UNCHANGED <<locked, paused, ledger, vestings, airdrops, airdropPaid, withdrawn, initiated>>
  BY DEF ClaimYieldEscrow, GetSharePrice
<1>2. CustodyTypeOK /\ PaidTypes /\ price \in Int
  BY GrantsAssumption DEF GrantsInv
<1> HIDE DEF y, n
<1>3. /\ OneGrant(yields, yields', id, y) /\ y \in YieldEscrow
      /\ y.token_a = o.token_a /\ y.token_a \in Tokens /\ o.amount \in Nat
      /\ YieldOwed(o) = o.amount /\ YieldOwed(y) = 0
  BY <1>1, YieldSettled DEF y
<1> HIDE DEF o
<1>4. n \in Nat
  BY <1>1, <1>2, <1>3, AccruedYieldType DEF n
<1>5. CustodyTypeOK' /\ PaidTypes'
  BY <1>1, <1>2, <1>3, <1>4 DEF CustodyTypeOK, PaidTypes, RawTransferOut
<1>6. \A u \in Tokens : balance'[u] + yieldPaid'[u] = balance[u] + yieldPaid[u]
          + (IF u = y.token_a THEN YieldOwed(y) - YieldOwed(o) ELSE 0)
  BY <1>1, <1>2, <1>3, <1>4 DEF CustodyTypeOK, PaidTypes, RawTransferOut
<1>7. /\ UNCHANGED <<ledger, locked, vestings, airdrops, airdropPaid, withdrawn, initiated>>
      /\ id \in DOMAIN yields => yields[id].token_a = y.token_a
  BY <1>1, <1>3 DEF o
<1> QED
  BY <1>3, <1>5, <1>6, <1>7, YieldKeepsBooks DEF o

-----------------------------------------------------------------------------
LEMMA InitiatingKeeps ==
    ASSUME GrantsInv, NEW t \in Tokens, NEW amount \in GrantAmounts, InitiateWithdrawal(t, amount)
    PROVE  GrantsInv'
<1>1. CustodyTypeOK /\ PaidTypes /\ VestingsSound /\ balance[t] \in Nat /\ locked[t] \in Int
  BY DEF GrantsInv, CustodyTypeOK
<1>2. /\ amount \in Nat
      /\ UNCHANGED <<custodyVars, vestings, airdrops, yields, airdropPaid, yieldPaid, withdrawn>>
      /\ initiated' = [initiated EXCEPT ![t] = @ \cup {amount}]
  <2>1. amount \in 1 .. balance[t] - locked[t]
    BY DEF InitiateWithdrawal
  <2>2. amount \in Nat
    BY <1>1, <2>1
  <2> QED
    BY <2>2 DEF InitiateWithdrawal
<1>3. UNCHANGED <<balance, locked, paused, ledger, vestings, airdrops, yields, airdropPaid, yieldPaid, withdrawn>>
  BY <1>2 DEF custodyVars
<1>4. CustodyTypeOK' /\ PaidTypes'
  <2>1. CustodyTypeOK'
    BY <1>1, <1>2 DEF CustodyTypeOK, custodyVars
  <2>2. initiated' \in [Tokens -> SUBSET Nat]
    BY <1>1, <1>2 DEF PaidTypes
  <2> QED
    BY <1>1, <1>3, <2>1, <2>2 DEF PaidTypes
<1>5. VestingsSound'
  BY <1>1, <1>3, VestingsKept
<1>6. \A u \in Tokens : balance'[u] + yieldPaid'[u] + withdrawn'[u]
                           >= balance[u] + yieldPaid[u] + withdrawn[u]
  BY <1>1, <1>3 DEF CustodyTypeOK, PaidTypes
<1> QED
  BY <1>3, <1>4, <1>5, <1>6, NoGrantKeepsBooks

\* Whatever it was checked against when it was initiated: what leaves is counted.
LEMMA ExecutingKeeps ==
    ASSUME GrantsInv, NEW t \in Tokens, NEW amount \in GrantAmounts, ExecuteWithdrawal(t, amount)
    PROVE  GrantsInv'
<1>1. CustodyTypeOK /\ PaidTypes /\ VestingsSound /\ balance[t] \in Nat /\ locked[t] \in Int
  BY DEF GrantsInv, CustodyTypeOK
<1>2. amount \in Nat
  BY <1>1 DEF ExecuteWithdrawal, PaidTypes
<1>3. CustodyTypeOK' /\ PaidTypes'
  BY <1>1, <1>2 DEF ExecuteWithdrawal, TransferOut, CustodyTypeOK, PaidTypes
<1>4. VestingsSound'
  BY <1>1, VestingsKept DEF ExecuteWithdrawal
<1>5. \A u \in Tokens : balance'[u] + yieldPaid'[u] + withdrawn'[u]
                           >= balance[u] + yieldPaid[u] + withdrawn[u]
  BY <1>1, <1>2 DEF ExecuteWithdrawal, TransferOut, CustodyTypeOK, PaidTypes
<1> QED
  BY <1>3, <1>4, <1>5, NoGrantKeepsBooks DEF ExecuteWithdrawal

\* What was within the schedule stays within it.
LEMMA VestingsLater ==
    ASSUME VestingsSound, ledger \in Nat, ledger' = ledger + 1, UNCHANGED vestings
    PROVE  VestingsSound'
<1> SUFFICES ASSUME NEW id \in DOMAIN vestings PROVE VestingSound(vestings[id])'
  BY DEF VestingsSound, Numbered
<1> DEFINE v == vestings[id]
<1>1. VestingSound(v)
  BY DEF VestingsSound
<1>2. v.total_amount \in Nat /\ v.cliff_ledger \in Nat /\ v.end_ledger \in Nat /\ v.claimed \in Nat
  BY <1>1 DEF VestingSound, Vesting
<1> DEFINE x == ledger - v.cliff_ledger
           z == ledger + 1 - v.cliff_ledger
           p == v.claimed * (v.end_ledger - v.cliff_ledger)
<1>3. v.total_amount * x <= v.total_amount * z
      /\ v.total_amount * x \in Int /\ v.total_amount * z \in Int
  <2>1. x \in Int /\ z \in Int /\ x <= z
    BY <1>2
  <2> HIDE DEF x, z
  <2> QED
    BY <1>2, <2>1, FactorKeepsOrder
<1>4. p \in Int
  BY <1>2
<1>5. ledger < v.end_ledger => p <= v.total_amount * x \/ v.claimed = 0
  BY <1>1 DEF VestingSound, OnSchedule
<1>6. (ledger' < v.end_ledger => ledger < v.end_ledger) /\ ledger' - v.cliff_ledger = z
  BY <1>2
<1> HIDE DEF x, z, p
<1>7. ledger' < v.end_ledger => p <= v.total_amount * z \/ v.claimed = 0
  BY <1>3, <1>4, <1>5, <1>6
<1>8. ledger' < v.end_ledger =>
          v.claimed * (v.end_ledger - v.cliff_ledger)
              <= v.total_amount * (ledger' - v.cliff_ledger) \/ v.claimed = 0
  BY <1>6, <1>7 DEF p
<1>9. vestings'[id] = v
  OBVIOUS
<1> HIDE DEF v
<1> QED
  BY <1>1, <1>8, <1>9 DEF VestingSound, OnSchedule

LEMMA GrantSurroundingsKeep ==
    ASSUME GrantsInv, CustodyNext, UNCHANGED grantOnlyVars
    PROVE  GrantsInv'
<1>1. CustodyTypeOK /\ PaidTypes /\ VestingsSound /\ ledger \in Nat
  BY DEF GrantsInv, CustodyTypeOK
<1>2. PaidTypes'
  BY <1>1 DEF PaidTypes, grantOnlyVars
<1>3. CASE AdvanceLedger
  <2>1. CustodyTypeOK' /\ VestingsSound'
    BY <1>1, <1>3, VestingsLater DEF AdvanceLedger, CustodyTypeOK, grantOnlyVars
  <2>2. \A u \in Tokens : balance'[u] + yieldPaid'[u] + withdrawn'[u]
                             >= balance[u] + yieldPaid[u] + withdrawn[u]
    BY <1>1, <1>3 DEF AdvanceLedger, CustodyTypeOK, PaidTypes, grantOnlyVars
  <2> QED
    BY <1>2, <1>3, <2>1, <2>2, NoGrantKeepsBooks DEF AdvanceLedger, grantOnlyVars
<1>4. ASSUME NEW t \in Tokens, NEW amount \in Donations, Donate(t, amount) PROVE GrantsInv'
  <2>0. amount \in Nat
    BY DonationsAssumption
  <2>1. CustodyTypeOK'
    BY <1>1, <1>4, <2>0 DEF Donate, CustodyTypeOK
  <2>2. VestingsSound'
    BY <1>1, <1>4, VestingsKept DEF Donate, grantOnlyVars
  <2>3. \A u \in Tokens : balance'[u] + yieldPaid'[u] + withdrawn'[u]
                             >= balance[u] + yieldPaid[u] + withdrawn[u]
    BY <1>1, <1>4, <2>0 DEF Donate, CustodyTypeOK, PaidTypes, grantOnlyVars
  <2> QED
    BY <1>2, <1>4, <2>1, <2>2, <2>3, NoGrantKeepsBooks DEF Donate, grantOnlyVars
<1>5. ASSUME NEW flag \in BOOLEAN, SetPaused(flag) PROVE GrantsInv'
  <2>1. CustodyTypeOK'
    BY <1>1, <1>5 DEF SetPaused, CustodyTypeOK
  <2>2. VestingsSound'
    BY <1>1, <1>5, VestingsKept DEF SetPaused, grantOnlyVars
  <2>3. \A u \in Tokens : balance'[u] + yieldPaid'[u] + withdrawn'[u]
                             >= balance[u] + yieldPaid[u] + withdrawn[u]
    BY <1>1, <1>5 DEF SetPaused, CustodyTypeOK, PaidTypes, grantOnlyVars
  <2> QED
    BY <1>2, <1>5, <2>1, <2>2, <2>3, NoGrantKeepsBooks DEF SetPaused, grantOnlyVars
<1> QED
  BY <1>3, <1>4, <1>5 DEF CustodyNext

LEMMA GrantsInitially == GrantsInit => GrantsInv
<1> SUFFICES ASSUME GrantsInit PROVE GrantsInv
  OBVIOUS
<1>1. DOMAIN vestings = {} /\ DOMAIN airdrops = {} /\ DOMAIN yields = {}
  BY DEF GrantsInit
<1>2. Cardinality({}) = 0
  BY FS_EmptySet
<1>3. Numbered({})
  BY <1>2 DEF Numbered
<1>4. CustodyTypeOK /\ PaidTypes
  <2>1. /\ balance \in [Tokens -> Nat] /\ locked \in [Tokens -> Int]
        /\ cached \in [Tokens -> Nat \cup {NoCache}] /\ ledger \in Nat
    BY DEF GrantsInit, CustodyInit
  <2>2. paused \in BOOLEAN
    BY DEF GrantsInit, CustodyInit
  <2>3. PaidTypes
    BY DEF GrantsInit, PaidTypes
  <2> QED
    BY <2>1, <2>2, <2>3 DEF CustodyTypeOK
<1>5. VestingsSound /\ YieldsSound
  BY <1>1, <1>3 DEF VestingsSound, YieldsSound
<1>6. AirdropsSound
  BY <1>1, <1>3 DEF GrantsInit, AirdropsSound
<1>7. ASSUME NEW t \in Tokens
      PROVE  /\ locked[t] = Total(VestingDebts(t)) + Total(AirdropDebts(t))
             /\ balance[t] + yieldPaid[t] + withdrawn[t] >= locked[t] + Total(YieldDebts(t))
  <2>1. /\ VestingDebts(t) \in [GrantIds -> Nat] /\ AirdropDebts(t) \in [GrantIds -> Nat]
        /\ YieldDebts(t) \in [GrantIds -> Nat]
    BY <1>5, <1>6, DebtTypes
  <2>2. \A id \in GrantIds : /\ VestingDebts(t)[id] = 0 /\ AirdropDebts(t)[id] = 0
                             /\ YieldDebts(t)[id] = 0
    BY <1>1 DEF VestingDebts, AirdropDebts, YieldDebts
  <2>3. Total(VestingDebts(t)) = 0 /\ Total(AirdropDebts(t)) = 0 /\ Total(YieldDebts(t)) = 0
    BY <2>1, <2>2, TotalZero
  <2>4. locked[t] = 0 /\ balance[t] = 0 /\ yieldPaid[t] = 0 /\ withdrawn[t] = 0
    BY DEF GrantsInit, CustodyInit
  <2> QED
    BY <2>3, <2>4
<1> QED
  BY <1>4, <1>5, <1>6, <1>7 DEF GrantsInv, LockedMatchesGrants, ShortfallIsBounded

LEMMA GrantsStep == GrantsInv /\ [GrantsNext]_grantVars => GrantsInv'
<1> SUFFICES ASSUME GrantsInv, [GrantsNext]_grantVars PROVE GrantsInv'
  OBVIOUS
<1>1. CASE UNCHANGED grantVars
  <2>1. CustodyTypeOK' /\ PaidTypes' /\ VestingsSound'
    BY <1>1, VestingsKept DEF grantVars, custodyVars, grantOnlyVars, GrantsInv, CustodyTypeOK, PaidTypes
  <2>2. \A u \in Tokens : balance'[u] + yieldPaid'[u] + withdrawn'[u]
                             >= balance[u] + yieldPaid[u] + withdrawn[u]
    BY <1>1 DEF grantVars, custodyVars, grantOnlyVars, GrantsInv, CustodyTypeOK, PaidTypes
  <2> QED
    BY <1>1, <2>1, <2>2, NoGrantKeepsBooks DEF grantVars, custodyVars, grantOnlyVars
<1>2. CASE GrantsNext
  <2>1. CASE CustodyNext /\ UNCHANGED grantOnlyVars
    BY <2>1, GrantSurroundingsKeep
  <2>2. ASSUME NEW t \in Tokens, NEW n \in GrantAmounts,
               InitiateWithdrawal(t, n) \/ ExecuteWithdrawal(t, n)
        PROVE  GrantsInv'
    BY <2>2, InitiatingKeeps, ExecutingKeeps
  <2>3. ASSUME NEW t \in Tokens, NEW n \in GrantAmounts, NEW l \in GrantLedgers,
               CreateYieldEscrow(t, n, l)
        PROVE  GrantsInv'
    BY <2>3, CreateYieldKeeps
  <2>4. ASSUME NEW t \in Tokens, NEW n \in GrantAmounts, NEW l \in GrantLedgers,
               NEW end \in GrantLedgers, CreateVesting(t, n, l, end)
        PROVE  GrantsInv'
    BY <2>4, CreateVestingKeeps
  <2>5. ASSUME NEW t \in Tokens, NEW n \in GrantAmounts, NEW l \in GrantLedgers,
               NEW id \in GrantIds, NEW s \in Leaves, CreateAirdrop(t, id, s, n, l)
        PROVE  GrantsInv'
    BY <2>5, CreateAirdropKeeps
  <2>6. ASSUME NEW id \in DOMAIN vestings, ClaimVesting(id) \/ RevokeVesting(id) PROVE GrantsInv'
    BY <2>6, ClaimVestingKeeps, RevokeVestingKeeps
  <2>7. ASSUME NEW id \in DOMAIN airdrops, CancelAirdrop(id) PROVE GrantsInv'
    BY <2>7, CancelAirdropKeeps
  <2>8. ASSUME NEW id \in DOMAIN airdrops, NEW leaf \in UNION Leaves,
               ClaimAirdrop(id, leaf.recipient, leaf.amount)
        PROVE  GrantsInv'
    <3>1. leaf \in [recipient : Grantees, amount : Int]
      BY GrantsAssumption
    <3>2. leaf.recipient \in Grantees /\ leaf.amount \in Int
      BY <3>1
    <3> QED
      BY <2>8, <3>2, ClaimAirdropKeeps
  <2>9. ASSUME NEW id \in DOMAIN yields, CancelYieldEscrow(id) PROVE GrantsInv'
    BY <2>9, CancelYieldKeeps
  <2>10. ASSUME NEW id \in DOMAIN yields, NEW price \in QuotedPrices, NEW quoted \in 0 .. MaxLedger,
                ClaimYieldEscrow(id, price, quoted)
         PROVE  GrantsInv'
    BY <2>10, ClaimYieldKeeps
  <2> QED
    BY <1>2, <2>1, <2>2, <2>3, <2>4, <2>5, <2>6, <2>7, <2>8, <2>9, <2>10 DEF GrantsNext
<1> QED
  BY <1>1, <1>2

(***************************************************************************)
(* Vestings, airdrops and yield escrows add up: what batch_send.rs and     *)
(* airdrop.rs lock is what they still owe, the balance is short by no more *)
(* than yield and withdrawals took, no vesting runs ahead of its schedule  *)
(* and no airdrop pays a recipient twice or more than it was funded with.  *)
(***************************************************************************)
THEOREM GrantsStayPaid == GrantsSpec => []GrantsAddUp
<1>1. GrantsInit => GrantsInv
  BY GrantsInitially
<1>2. GrantsInv /\ [GrantsNext]_grantVars => GrantsInv'
  BY GrantsStep
<1>3. GrantsInv => GrantsAddUp
  BY GrantsInvSuffices
<1> QED
  BY <1>1, <1>2, <1>3, PTL DEF GrantsSpec

-----------------------------------------------------------------------------
(***************************************************************************)
(* Tips.  In the middle of a batch the records of a recipient are ahead of *)
(* its counters by what recipient_updates holds for it, and by nothing     *)
(* else.                                                                   *)
(***************************************************************************)
TipRecords == UNION {[0 .. n - 1 -> Nat] : n \in Nat}
TipRow == [total : Nat, count : Nat, records : TipRecords]
Count == [count : Nat, acc : Nat]

\* A row of which `ahead` is counted but not written, whose recipient got `got`.
RowSound(row, ahead, got) ==
    /\ row \in TipRow /\ ahead \in Count
    /\ row.records \in [0 .. ahead.count - 1 -> Nat]
    /\ Total(row.records) = row.total + ahead.acc
    /\ got = row.total + ahead.acc

Written(row) == [count |-> row.count, acc |-> 0]

TipState == [tips : [Tippers -> TipRow], received : [Tippers -> Nat],
             updates : UNION {[D -> Count] : D \in SUBSET Tippers}]

StateSound(state) ==
    /\ state \in TipState
    /\ \A a \in Tippers : RowSound(state.tips[a], Ahead(state, a), state.received[a])

\* Nothing is collected.
Flushed(state) == DOMAIN state.updates = {}

ReceiptsSound ==
    /\ receiptByIndex \in Seq(Tippers \X Nat)
    /\ receiptCount \in [Tippers -> Nat]
    /\ ReceiptsAreIndexed

TipRowsSound == StateSound(Start)

TipsInv == TipRowsSound /\ ReceiptsSound

\* A table of natural numbers that has an entry for all of S but n.
Lacks(records, S, n) == IsFiniteSet(S) /\ n \in S /\ records \in [S \ {n} -> Nat]

LEMMA EntryAdded ==
    ASSUME NEW S, NEW n, NEW records, Lacks(records, S, n), NEW amount \in Nat
    PROVE  /\ WithEntry(records, n, amount) \in [S -> Nat]
           /\ Total(WithEntry(records, n, amount)) = Total(records) + amount
<1> DEFINE g == WithEntry(records, n, amount)
<1>1. IsFiniteSet(S) /\ n \in S /\ records \in [S \ {n} -> Nat]
  BY DEF Lacks
<1>2. g = [i \in S |-> IF i = n THEN amount ELSE records[i]]
  BY <1>1 DEF WithEntry
<1>3. g \in [S -> Nat] /\ g[n] = amount /\ \A y \in S \ {n} : g[y] = records[y]
  BY <1>1, <1>2
<1> HIDE DEF g
<1>4. Total(g) = Total(records) + g[n]
  BY <1>1, <1>3, TotalGrows
<1> QED
  BY <1>3, <1>4 DEF g

\* A record at the next index leaves the others as they were.
LEMMA RecordOnTop ==
    ASSUME NEW n \in Nat, NEW records \in [0 .. n - 1 -> Nat], NEW amount \in Nat
    PROVE  /\ WithEntry(records, n, amount) \in [0 .. n -> Nat]
           /\ Total(WithEntry(records, n, amount)) = Total(records) + amount
<1>1. n \in 0 .. n /\ (0 .. n) \ {n} = 0 .. n - 1
  OBVIOUS
<1>2. Lacks(records, 0 .. n, n)
  <2>1. IsFiniteSet(0 .. n)
    BY FS_Interval
  <2>2. records \in [(0 .. n) \ {n} -> Nat]
    BY <1>1
  <2> QED
    BY <1>1, <2>1, <2>2 DEF Lacks
<1> QED
  BY <1>2, EntryAdded

\* send_tip, an item of batch_send_multi, an item of batch_send, and the end of
\* batch_send each keep a row sound.
LEMMA RowMoves ==
    ASSUME NEW row, NEW ahead, NEW got \in Nat, NEW amount \in Nat, RowSound(row, ahead, got)
    PROVE  LET more == WithEntry(row.records, ahead.count, amount)
               both == [total |-> row.total + amount, count |-> row.count + 1, records |-> more]
               ahead2 == [count |-> ahead.count + 1, acc |-> ahead.acc + amount]
               written == [total |-> row.total + ahead.acc, count |-> ahead.count, records |-> row.records]
           IN  /\ ahead = Written(row) => RowSound(both, Written(both), got + amount)
               /\ RowSound([row EXCEPT !.records = more], ahead2, got + amount)
               /\ RowSound(written, Written(written), got)
               /\ got + amount \in Nat
<1> DEFINE n == ahead.count
           more == WithEntry(row.records, n, amount)
           both == [total |-> row.total + amount, count |-> row.count + 1, records |-> more]
           ahead2 == [count |-> n + 1, acc |-> ahead.acc + amount]
           written == [total |-> row.total + ahead.acc, count |-> n, records |-> row.records]
           later == [row EXCEPT !.records = more]
<1>1. /\ row \in TipRow /\ ahead \in Count
      /\ row.records \in [0 .. n - 1 -> Nat]
      /\ Total(row.records) = row.total + ahead.acc /\ got = row.total + ahead.acc
  BY DEF RowSound
<1>2. n \in Nat /\ ahead.acc \in Nat /\ row.total \in Nat /\ row.count \in Nat
  BY <1>1 DEF Count, TipRow
<1>3. more \in [0 .. n -> Nat] /\ Total(more) = Total(row.records) + amount
  BY <1>1, <1>2, RecordOnTop
<1> HIDE DEF n, more
<1>4. n + 1 \in Nat /\ (n + 1) - 1 = n
  BY <1>2
<1>5. more \in TipRecords
  BY <1>3, <1>4 DEF TipRecords
<1>6. ASSUME ahead = Written(row) PROVE RowSound(both, Written(both), got + amount)
  <2>1. n = row.count /\ ahead.acc = 0
    BY <1>6 DEF Written, n
  <2>2. both \in TipRow /\ both.total = row.total + amount /\ both.count = n + 1 /\ both.records = more
    BY <1>2, <1>5, <2>1 DEF TipRow
  <2> HIDE DEF both
  <2>3. Written(both) \in Count /\ Written(both).count = n + 1 /\ Written(both).acc = 0
    BY <1>4, <2>2 DEF Written, Count
  <2>4. both.records \in [0 .. Written(both).count - 1 -> Nat]
    BY <1>3, <1>4, <2>2, <2>3
  <2> QED
    BY <1>1, <1>2, <1>3, <2>1, <2>2, <2>3, <2>4 DEF RowSound
<1>7. RowSound(later, ahead2, got + amount)
  <2>1. later \in TipRow /\ later.total = row.total /\ later.records = more
    BY <1>1, <1>5 DEF TipRow
  <2>2. ahead2 \in Count /\ ahead2.count = n + 1 /\ ahead2.acc = ahead.acc + amount
    BY <1>2 DEF Count
  <2> HIDE DEF later, ahead2
  <2>3. later.records \in [0 .. ahead2.count - 1 -> Nat]
    BY <1>3, <1>4, <2>1, <2>2
  <2> QED
    BY <1>1, <1>2, <1>3, <2>1, <2>2, <2>3 DEF RowSound
<1>8. RowSound(written, Written(written), got)
  <2>1. row.records \in TipRecords
    BY <1>1 DEF TipRow
  <2>2. written \in TipRow /\ written.total = row.total + ahead.acc /\ written.count = n
        /\ written.records = row.records
    BY <1>2, <2>1 DEF TipRow
  <2> HIDE DEF written
  <2>3. Written(written) \in Count /\ Written(written).count = n /\ Written(written).acc = 0
    BY <1>2, <2>2 DEF Written, Count
  <2> QED
    BY <1>1, <1>2, <2>2, <2>3 DEF RowSound
<1> QED
  BY <1>2, <1>6, <1>7, <1>8 DEF n, more

LEMMA FlushedAhead ==
    ASSUME NEW state, Flushed(state), NEW a
    PROVE  Ahead(state, a) = Written(state.tips[a])
BY DEF Flushed, Ahead, Written

LEMMA StartFlushed ==
    /\ Start.tips = tips /\ Start.received = received /\ Flushed(Start)
    /\ Start.updates \in UNION {[D -> Count] : D \in SUBSET Tippers}
<1>1. << >> \in [{} -> Count] /\ DOMAIN << >> = {}
  OBVIOUS
<1>2. << >> \in UNION {[D -> Count] : D \in SUBSET Tippers}
  BY <1>1
<1> QED
  BY <1>1, <1>2 DEF Start, Flushed

\* A recipient is paid and its row becomes `row`; the others stay as they are.
LEMMA RowReplaced ==
    ASSUME NEW state, StateSound(state), NEW a \in Tippers, NEW row, NEW amount \in Nat, NEW next,
           next.received = [state.received EXCEPT ![a] = @ + amount],
           next.tips = [state.tips EXCEPT ![a] = row],
           next \in [tips : {next.tips}, received : {next.received},
                     updates : UNION {[D -> Count] : D \in SUBSET Tippers}],
           RowSound(row, Ahead(next, a), state.received[a] + amount),
           \A b \in Tippers \ {a} : Ahead(next, b) = Ahead(state, b)
    PROVE  StateSound(next)
<1>1. state.received \in [Tippers -> Nat] /\ state.tips \in [Tippers -> TipRow]
  BY DEF StateSound, TipState
<1>2. row \in TipRow /\ state.received[a] + amount \in Nat
  BY <1>1 DEF RowSound
<1>3. next.received \in [Tippers -> Nat] /\ next.tips \in [Tippers -> TipRow]
  BY <1>1, <1>2
<1>4. next \in TipState
  BY <1>3 DEF TipState
<1>5. ASSUME NEW b \in Tippers PROVE RowSound(next.tips[b], Ahead(next, b), next.received[b])
  <2>1. CASE b = a
    BY <1>1, <2>1
  <2>2. CASE b # a
    <3>1. next.tips[b] = state.tips[b] /\ next.received[b] = state.received[b]
          /\ Ahead(next, b) = Ahead(state, b)
      BY <1>1, <2>2
    <3>2. RowSound(state.tips[b], Ahead(state, b), state.received[b])
      BY DEF StateSound
    <3> QED
      BY <3>1, <3>2
  <2> QED
    BY <2>1, <2>2
<1> QED
  BY <1>4, <1>5 DEF StateSound

\* send_tip and an item of batch_send_multi.
LEMMA TippedSound ==
    ASSUME NEW state, StateSound(state), Flushed(state),
           NEW item, item.to \in Tippers, item.amount \in Nat
    PROVE  StateSound(Tipped(state, item)) /\ Flushed(Tipped(state, item))
<1> DEFINE a == item.to
           amount == item.amount
           old == state.tips[a]
           row == [total |-> old.total + amount, count |-> old.count + 1,
                   records |-> WithEntry(old.records, old.count, amount)]
           next == Tipped(state, item)
<1>1. state \in TipState
  BY DEF StateSound
<1>2. /\ next.received = [state.received EXCEPT ![a] = @ + amount]
      /\ next.tips = [state.tips EXCEPT ![a] = row]
      /\ next.updates = state.updates
      /\ next \in [tips : {next.tips}, received : {next.received},
                   updates : UNION {[D -> Count] : D \in SUBSET Tippers}]
  BY <1>1 DEF Tipped, Transferred, TipState
<1>3. state.received[a] \in Nat /\ DOMAIN state.tips = Tippers
  BY <1>1 DEF TipState
<1>4. RowSound(old, Written(old), state.received[a])
  BY FlushedAhead DEF StateSound
<1>5. Written(old).count = old.count
  BY DEF Written
<1>6. RowSound(row, Written(row), state.received[a] + amount)
  BY <1>3, <1>4, <1>5, RowMoves
<1> HIDE DEF row, next
<1>7. Flushed(next)
  BY <1>2 DEF Flushed
<1>8. next.tips[a] = row /\ \A b \in Tippers \ {a} : next.tips[b] = state.tips[b]
  BY <1>2, <1>3
<1>9. \A b : Ahead(next, b) = Written(next.tips[b]) /\ Ahead(state, b) = Written(state.tips[b])
  BY <1>7, FlushedAhead
<1>10. RowSound(row, Ahead(next, a), state.received[a] + amount)
       /\ \A b \in Tippers \ {a} : Ahead(next, b) = Ahead(state, b)
  BY <1>6, <1>8, <1>9
<1>11. StateSound(next)
  BY <1>2, <1>10, RowReplaced
<1> QED
  BY <1>7, <1>11 DEF next

\* An item of batch_send.
LEMMA CollectedSound ==
    ASSUME NEW state, StateSound(state), NEW item, item.to \in Tippers, item.amount \in Nat
    PROVE  StateSound(Collected(state, item))
<1> DEFINE a == item.to
           amount == item.amount
           old == Ahead(state, a)
           new == [count |-> old.count + 1, acc |-> old.acc + amount]
           row == [state.tips[a] EXCEPT !.records = WithEntry(state.tips[a].records, old.count, amount)]
           updates == WithEntry(state.updates, a, new)
           next == Collected(state, item)
<1>1. state \in TipState
  BY DEF StateSound
<1>2. next = [tips |-> [state.tips EXCEPT ![a] = row],
              received |-> [state.received EXCEPT ![a] = @ + amount], updates |-> updates]
  BY DEF Collected, Noted, Transferred
<1>3. RowSound(state.tips[a], old, state.received[a]) /\ state.received[a] \in Nat
  BY <1>1 DEF StateSound, TipState
<1>4. old \in Count
  BY <1>3 DEF RowSound
<1>5. RowSound(row, new, state.received[a] + amount)
  BY <1>3, RowMoves
<1>6. new \in Count
  BY <1>4 DEF Count
<1> HIDE DEF new, row
<1>7. updates \in UNION {[D -> Count] : D \in SUBSET Tippers}
  <2>1. PICK D \in SUBSET Tippers : state.updates \in [D -> Count]
    BY <1>1 DEF TipState
  <2>2. updates \in [D \cup {a} -> Count] /\ D \cup {a} \in SUBSET Tippers
    BY <1>6, <2>1 DEF WithEntry
  <2> HIDE DEF updates
  <2> QED
    BY <2>2
<1>8. /\ DOMAIN updates = DOMAIN state.updates \cup {a}
      /\ \A b \in DOMAIN updates : updates[b] = IF b = a THEN new ELSE state.updates[b]
  BY DEF WithEntry
<1> HIDE DEF updates
<1>9. /\ next.received = [state.received EXCEPT ![a] = @ + amount]
      /\ next.tips = [state.tips EXCEPT ![a] = row]
      /\ next.updates = updates
      /\ next \in [tips : {next.tips}, received : {next.received},
                   updates : UNION {[D -> Count] : D \in SUBSET Tippers}]
  BY <1>2, <1>7
<1> HIDE DEF next
<1>10. Ahead(next, a) = new
  BY <1>8, <1>9 DEF Ahead
<1>11. \A b \in Tippers \ {a} : next.tips[b] = state.tips[b]
  BY <1>1, <1>9 DEF TipState
<1>12. \A b \in Tippers \ {a} : Ahead(next, b) = Ahead(state, b)
  BY <1>8, <1>9, <1>11 DEF Ahead
<1>13. StateSound(next)
  BY <1>5, <1>9, <1>10, <1>12, RowReplaced
<1> QED
  BY <1>13 DEF next

\* The end of batch_send writes what was collected.
LEMMA SettledSound ==
    ASSUME NEW state, StateSound(state), NEW next,
           next = [tips |-> Settled(state), received |-> state.received, updates |-> << >>]
    PROVE  StateSound(next)
<1>1. /\ state.received \in [Tippers -> Nat] /\ state.tips \in [Tippers -> TipRow]
      /\ \A b \in Tippers : RowSound(state.tips[b], Ahead(state, b), state.received[b])
  BY DEF StateSound, TipState
<1>2. << >> \in [{} -> Count] /\ DOMAIN << >> = {}
  OBVIOUS
<1>3. << >> \in UNION {[D -> Count] : D \in SUBSET Tippers}
  BY <1>2
<1>4. next.received = state.received /\ next.tips = Settled(state) /\ Flushed(next)
  BY <1>2 DEF Flushed
<1>5. ASSUME NEW b \in Tippers
      PROVE  /\ next.tips[b] \in TipRow
             /\ RowSound(next.tips[b], Ahead(next, b), next.received[b])
  <2> DEFINE old == Ahead(state, b)
             row == [total |-> state.tips[b].total + old.acc, count |-> old.count,
                     records |-> state.tips[b].records]
  <2>1. RowSound(state.tips[b], old, state.received[b]) /\ state.received[b] \in Nat
        /\ state.tips[b] \in TipRow
    BY <1>1
  <2>2. next.tips[b] = row
    <3>1. CASE b \in DOMAIN state.updates
      BY <1>4, <3>1 DEF Settled, Ahead
    <3>2. CASE b \notin DOMAIN state.updates
      <4>1. next.tips[b] = state.tips[b] /\ old.acc = 0 /\ old.count = state.tips[b].count
        BY <1>4, <3>2 DEF Settled, Ahead
      <4> QED
        BY <2>1, <4>1 DEF TipRow
    <3> QED
      BY <3>1, <3>2
  <2> HIDE DEF old
  <2>3. RowSound(row, Written(row), state.received[b])
    BY <2>1, RowMoves
  <2>4. row \in TipRow
    BY <2>3 DEF RowSound
  <2> HIDE DEF row
  <2>5. Ahead(next, b) = Written(next.tips[b])
    BY <1>4, FlushedAhead
  <2> QED
    BY <1>4, <2>2, <2>3, <2>4, <2>5
<1>6. next.tips \in [Tippers -> TipRow]
  BY <1>4, <1>5 DEF Settled
<1>7. next \in TipState
  BY <1>1, <1>3, <1>6 DEF TipState
<1> QED
  BY <1>5, <1>7 DEF StateSound

LEMMA ItemType ==
    ASSUME NEW item \in Items, item.amount > 0
    PROVE  item.to \in Tippers /\ item.amount \in Nat
<1>1. item.to \in Tippers /\ item.amount \in Int
  BY TipsAssumption DEF Items
<1> QED
  BY <1>1

\* The recursive function of AfterItems, which is defined on every number of items.
Runs(run, kind, items, m) ==
    run = [n \in 0 .. m |-> IF n = 0 THEN Start ELSE AfterItem(kind, run[n - 1], items[n])]

LEMMA LoopDefined ==
    ASSUME NEW kind, NEW items, NEW m \in Nat
    PROVE  \E run : Runs(run, kind, items, m)
<1> DEFINE T == {k \in Nat : \E run : Runs(run, kind, items, k)}
<1>1. 0 \in T
  <2>1. Runs([n \in 0 .. 0 |-> Start], kind, items, 0)
    BY DEF Runs
  <2> QED
    BY <2>1
<1>2. ASSUME NEW k \in T PROVE k + 1 \in T
  <2>1. PICK run : Runs(run, kind, items, k)
    OBVIOUS
  <2> DEFINE last == AfterItem(kind, run[k], items[k + 1])
             longer == [n \in 0 .. k + 1 |-> IF n = k + 1 THEN last ELSE run[n]]
  <2>2. \A n \in 0 .. k : longer[n] = run[n]
    OBVIOUS
  <2>3. \A n \in 0 .. k : run[n] = IF n = 0 THEN Start ELSE AfterItem(kind, run[n - 1], items[n])
    BY <2>1 DEF Runs
  <2>4. ASSUME NEW n \in 0 .. k + 1
        PROVE  longer[n] = IF n = 0 THEN Start ELSE AfterItem(kind, longer[n - 1], items[n])
    <3>1. CASE n = k + 1
      <4>1. longer[n] = last /\ n # 0 /\ n - 1 = k /\ longer[n - 1] = run[k]
        BY <3>1
      <4> QED
        BY <3>1, <4>1
    <3>2. CASE n = 0
      BY <2>2, <2>3, <3>2
    <3>3. CASE n # 0 /\ n # k + 1
      <4>1. n \in 0 .. k /\ n - 1 \in 0 .. k
        BY <3>3
      <4> QED
        BY <2>2, <2>3, <3>3, <4>1
    <3> QED
      BY <3>1, <3>2, <3>3
  <2>5. Runs(longer, kind, items, k + 1)
    BY <2>4 DEF Runs
  <2> HIDE DEF longer
  <2> QED
    BY <2>5
<1>3. T = Nat
  <2>1. T \in SUBSET Nat
    OBVIOUS
  <2> HIDE DEF T
  <2> QED
    BY <1>1, <1>2, <2>1, SetOfNaturals
<1> QED
  BY <1>3

\* The loop, by induction on the items it has done.
LEMMA LoopSound ==
    ASSUME TipRowsSound, NEW kind \in {"send", "multi"}, NEW items \in Batches,
           \A i \in DOMAIN items : items[i].amount > 0
    PROVE  /\ StateSound(AfterItems(kind, items))
           /\ kind = "multi" => Flushed(AfterItems(kind, items))
<1> DEFINE run == CHOOSE run : Runs(run, kind, items, Len(items))
           Good(n) == StateSound(run[n]) /\ (kind = "multi" => Flushed(run[n]))
           T == {n \in Nat : n <= Len(items) => Good(n)}
<1>1. PICK m \in 0 .. MAX_BATCH_SIZE + 1 : items \in [1 .. m -> Items]
  BY DEF Batches, SeqOf
<1>2. Len(items) = m /\ m \in Nat
  BY <1>1, TipsAssumption
<1>3. Runs(run, kind, items, m)
  BY <1>2, LoopDefined
<1>4. AfterItems(kind, items) = run[m]
  BY <1>2 DEF AfterItems, Runs
<1> HIDE DEF run
<1>5. run[0] = Start /\ \A n \in 1 .. m : run[n] = AfterItem(kind, run[n - 1], items[n])
  BY <1>2, <1>3 DEF Runs
<1>6. 0 \in T
  BY <1>5, StartFlushed DEF TipRowsSound
<1>7. ASSUME NEW n \in T PROVE n + 1 \in T
  <2> SUFFICES ASSUME n + 1 <= m PROVE Good(n + 1)
    BY <1>2
  <2>1. Good(n) /\ n + 1 \in 1 .. m /\ (n + 1) - 1 = n
    BY <1>2
  <2>2. PICK item \in Items : item = items[n + 1] /\ item.amount > 0
    BY <1>1, <2>1
  <2>3. item.to \in Tippers /\ item.amount \in Nat
    BY <2>2, ItemType
  <2>4. run[n + 1] = AfterItem(kind, run[n], item)
    BY <1>5, <2>1, <2>2
  <2>5. CASE kind = "send"
    BY <2>1, <2>3, <2>4, <2>5, CollectedSound DEF AfterItem
  <2>6. CASE kind = "multi"
    BY <2>1, <2>3, <2>4, <2>6, TippedSound DEF AfterItem
  <2> QED
    BY <2>5, <2>6
<1>8. T = Nat
  <2>1. T \in SUBSET Nat
    OBVIOUS
  <2> HIDE DEF T
  <2> QED
    BY <1>6, <1>7, <2>1, SetOfNaturals
<1>9. Good(m)
  BY <1>2, <1>8
<1> QED
  BY <1>4, <1>9

\* The state a call ends in is the one the next starts from.
LEMMA EndsSound ==
    ASSUME NEW end, StateSound(end), Flushed(end), tips' = end.tips, received' = end.received
    PROVE  TipRowsSound'
<1>1. /\ Start'.tips = end.tips /\ Start'.received = end.received /\ Flushed(Start')
      /\ Start'.updates = << >>
  BY DEF Start, Flushed
<1>2. Start' \in TipState
  <2>1. << >> \in [{} -> Count]
    OBVIOUS
  <2>2. << >> \in UNION {[D -> Count] : D \in SUBSET Tippers}
    BY <2>1
  <2> QED
    BY <2>2 DEF Start, StateSound, TipState
<1>3. \A b : Ahead(end, b) = Written(end.tips[b]) /\ Ahead(Start', b) = Written(end.tips[b])
  BY <1>1, FlushedAhead
<1>4. StateSound(Start')
  BY <1>1, <1>2, <1>3 DEF StateSound
<1> QED
  BY <1>4 DEF TipRowsSound

\* mint_receipt adds the next receipt of one account to the global index.
LEMMA ReceiptAdded ==
    ASSUME ReceiptsSound, NEW from \in Tippers, MintReceipt(from)
    PROVE  ReceiptsSound'
<1> DEFINE n == receiptCount[from]
           e == <<from, n>>
           Indexed(a) == {a} \X (0 .. receiptCount[a] - 1)
<1>1. /\ receiptByIndex \in Seq(Tippers \X Nat) /\ receiptCount \in [Tippers -> Nat]
      /\ IsInjective(receiptByIndex)
      /\ Range(receiptByIndex) = UNION {Indexed(a) : a \in Tippers}
  BY DEF ReceiptsSound, ReceiptsAreIndexed
<1>2. /\ receiptByIndex' = Append(receiptByIndex, e)
      /\ receiptCount' = [receiptCount EXCEPT ![from] = @ + 1]
  BY DEF MintReceipt
<1>3. n \in Nat /\ e \in Tippers \X Nat
  BY <1>1
<1>4. e \notin Range(receiptByIndex)
  BY <1>1, <1>3
<1> HIDE DEF e
<1>5. PICK m \in Nat : m = Len(receiptByIndex) /\ DOMAIN receiptByIndex = 1 .. m
  BY <1>1
<1>6. /\ receiptByIndex' \in Seq(Tippers \X Nat) /\ receiptCount' \in [Tippers -> Nat]
      /\ DOMAIN receiptByIndex' = 1 .. m + 1
      /\ \A i \in 1 .. m : receiptByIndex'[i] = receiptByIndex[i] /\ i # m + 1
      /\ receiptByIndex'[m + 1] = e
      /\ 1 .. m + 1 = (1 .. m) \cup {m + 1}
  <2>1. receiptByIndex' \in Seq(Tippers \X Nat) /\ receiptCount' \in [Tippers -> Nat]
    BY <1>1, <1>2, <1>3
  <2>2. DOMAIN receiptByIndex' = 1 .. m + 1 /\ receiptByIndex'[m + 1] = e
    BY <1>1, <1>2, <1>3, <1>5
  <2>3. \A i \in 1 .. m : receiptByIndex'[i] = receiptByIndex[i] /\ i # m + 1
    BY <1>1, <1>2, <1>3, <1>5
  <2> QED
    BY <2>1, <2>2, <2>3
<1>7. /\ IsInjective(receiptByIndex')
      /\ Range(receiptByIndex') = Range(receiptByIndex) \cup {e}
  <2>1. \A i \in 1 .. m : receiptByIndex[i] # e
    BY <1>4, <1>5 DEF Range
  <2>2. ASSUME NEW i \in 1 .. m + 1, NEW j \in 1 .. m + 1, receiptByIndex'[i] = receiptByIndex'[j]
        PROVE  i = j
    BY <1>1, <1>5, <1>6, <2>1, <2>2 DEF IsInjective
  <2>3. Range(receiptByIndex') = Range(receiptByIndex) \cup {e}
    <3>1. PICK S, x : S = 1 .. m /\ x = m + 1
      OBVIOUS
    <3>2. /\ DOMAIN receiptByIndex = S /\ DOMAIN receiptByIndex' = S \cup {x}
          /\ \A i \in S : receiptByIndex'[i] = receiptByIndex[i]
          /\ receiptByIndex'[x] = e
      BY <1>5, <1>6, <3>1
    <3> QED
      BY <3>2 DEF Range
  <2> QED
    BY <1>6, <2>2, <2>3 DEF IsInjective
<1>8. UNION {{a} \X (0 .. receiptCount'[a] - 1) : a \in Tippers}
        = (UNION {Indexed(a) : a \in Tippers}) \cup {e}
  <2>1. ASSUME NEW a \in Tippers, a # from
        PROVE  {a} \X (0 .. receiptCount'[a] - 1) = Indexed(a)
    BY <1>1, <1>2, <2>1
  <2>2. receiptCount'[from] = n + 1 /\ 0 .. receiptCount'[from] - 1 = (0 .. n - 1) \cup {n}
    <3>1. receiptCount'[from] = n + 1
      BY <1>1, <1>2
    <3> HIDE DEF n
    <3> QED
      BY <1>3, <3>1
  <2>3. {from} \X (0 .. receiptCount'[from] - 1) = Indexed(from) \cup {e}
    BY <2>2 DEF e
  <2> HIDE DEF Indexed
  <2> QED
    BY <2>1, <2>3
<1> QED
  BY <1>1, <1>6, <1>7, <1>8 DEF ReceiptsSound, ReceiptsAreIndexed


LEMMA TipsInvInit == TipsInit => TipsInv
<1> SUFFICES ASSUME TipsInit PROVE TipsInv
  OBVIOUS
<1>1. /\ tips = [a \in Tippers |-> [total |-> 0, count |-> 0, records |-> << >>]]
      /\ receiptCount = [a \in Tippers |-> 0] /\ receiptByIndex = << >>
      /\ received = [a \in Tippers |-> 0]
  BY DEF TipsInit
<1>2. TipRowsSound
  <2> DEFINE row == [total |-> 0, count |-> 0, records |-> << >>]
  <2>1. << >> \in [0 .. 0 - 1 -> Nat]
    OBVIOUS
  <2>2. Total(<< >>) = 0
    BY <2>1, FS_EmptySet DEF Total, Units
  <2>3. << >> \in TipRecords
    BY <2>1 DEF TipRecords
  <2>4. row \in TipRow /\ row.total = 0 /\ row.count = 0 /\ row.records = << >>
    BY <2>3 DEF TipRow
  <2> HIDE DEF row
  <2>5. Written(row) \in Count /\ Written(row).count = 0 /\ Written(row).acc = 0
    BY <2>4 DEF Written, Count
  <2>6. RowSound(row, Written(row), 0)
    BY <2>1, <2>2, <2>4, <2>5 DEF RowSound
  <2>7. \A a \in Tippers : tips[a] = row /\ received[a] = 0
    BY <1>1 DEF row
  <2>8. \A a \in Tippers : Ahead(Start, a) = Written(tips[a])
    BY StartFlushed, FlushedAhead
  <2>9. tips \in [Tippers -> TipRow] /\ received \in [Tippers -> Nat]
    BY <1>1, <2>4 DEF row
  <2>10. Start \in TipState
    BY <2>9, StartFlushed DEF Start, TipState
  <2> QED
    BY <2>6, <2>7, <2>8, <2>10, StartFlushed DEF TipRowsSound, StateSound
<1>3. ReceiptsSound
  <2>1. receiptByIndex \in Seq(Tippers \X Nat) /\ receiptCount \in [Tippers -> Nat]
        /\ DOMAIN receiptByIndex = {}
    BY <1>1
  <2>2. \A a \in Tippers : 0 .. receiptCount[a] - 1 = {}
    BY <1>1
  <2>3. UNION {{a} \X (0 .. receiptCount[a] - 1) : a \in Tippers} = {}
    BY <2>2
  <2> QED
    BY <2>1, <2>3 DEF ReceiptsSound, ReceiptsAreIndexed, IsInjective, Range
<1> QED
  BY <1>2, <1>3 DEF TipsInv

\* Each part of the invariant names the variables it is about.
LEMMA TipsInvFrame ==
    /\ TipRowsSound /\ UNCHANGED <<tips, received>> => TipRowsSound'
    /\ ReceiptsSound /\ UNCHANGED <<receiptByIndex, receiptCount>> => ReceiptsSound'
<1>1. TipRowsSound /\ UNCHANGED <<tips, received>> => TipRowsSound'
  BY DEF TipRowsSound, Start
<1>2. ReceiptsSound /\ UNCHANGED <<receiptByIndex, receiptCount>> => ReceiptsSound'
  BY DEF ReceiptsSound, ReceiptsAreIndexed
<1> QED
  BY <1>1, <1>2

LEMMA TipsInvStep == TipsInv /\ [TipsNext]_<<custodyVars, tipVars>> => TipsInv'
<1> SUFFICES ASSUME TipsInv, [TipsNext]_<<custodyVars, tipVars>> PROVE TipsInv'
  OBVIOUS
<1>1. TipRowsSound /\ ReceiptsSound
  BY DEF TipsInv
<1>2. ASSUME NEW from \in Tippers, MintReceipt(from) PROVE TipsInv'
  <2>1. UNCHANGED <<tips, received>>
    BY <1>2 DEF MintReceipt
  <2> QED
    BY <1>1, <1>2, <2>1, ReceiptAdded, TipsInvFrame DEF TipsInv
<1>3. ASSUME NEW from \in Tippers, NEW item \in Items, SendTip(from, item) PROVE TipsInv'
  <2>1. PICK end : end = Tipped(Start, item)
    OBVIOUS
  <2>2. /\ tips' = end.tips /\ received' = end.received /\ item.amount > 0
        /\ UNCHANGED <<receiptByIndex, receiptCount>>
    BY <1>3, <2>1 DEF SendTip
  <2>3. StateSound(end) /\ Flushed(end)
    BY <1>1, <2>1, <2>2, ItemType, StartFlushed, TippedSound DEF TipRowsSound
  <2>4. TipRowsSound'
    BY <2>2, <2>3, EndsSound
  <2> QED
    BY <1>1, <2>2, <2>4, TipsInvFrame DEF TipsInv
<1>4. ASSUME NEW from \in Tippers, NEW items \in Batches, BatchSend(from, items) PROVE TipsInv'
  <2>1. PICK end : end = AfterItems("send", items)
    OBVIOUS
  <2>2. /\ tips' = Settled(end) /\ received' = end.received
        /\ \A i \in DOMAIN items : items[i].amount > 0
        /\ UNCHANGED <<receiptByIndex, receiptCount>>
    BY <1>4, <2>1 DEF BatchSend, ValidBatch
  <2>3. StateSound(end)
    BY <1>1, <2>1, <2>2, LoopSound
  <2>4. PICK next : next = [tips |-> Settled(end), received |-> end.received, updates |-> << >>]
    OBVIOUS
  <2>5. StateSound(next) /\ Flushed(next)
    BY <2>3, <2>4, SettledSound DEF Flushed
  <2>6. tips' = next.tips /\ received' = next.received
    BY <2>2, <2>4
  <2>7. TipRowsSound'
    BY <2>5, <2>6, EndsSound
  <2> QED
    BY <1>1, <2>2, <2>7, TipsInvFrame DEF TipsInv
<1>5. ASSUME NEW from \in Tippers, NEW items \in Batches, BatchSendMulti(from, items) PROVE TipsInv'
  <2>1. PICK end : end = AfterItems("multi", items)
    OBVIOUS
  <2>2. /\ tips' = end.tips /\ received' = end.received
        /\ \A i \in DOMAIN items : items[i].amount > 0
        /\ UNCHANGED <<receiptByIndex, receiptCount>>
    BY <1>5, <2>1 DEF BatchSendMulti, ValidBatch
  <2>3. StateSound(end) /\ Flushed(end)
    BY <1>1, <2>1, <2>2, LoopSound
  <2>4. TipRowsSound'
    BY <2>2, <2>3, EndsSound
  <2> QED
    BY <1>1, <2>2, <2>4, TipsInvFrame DEF TipsInv
<1>6. ASSUME UNCHANGED tipVars PROVE TipsInv'
  BY <1>1, <1>6, TipsInvFrame DEF TipsInv, tipVars
<1> QED
  BY <1>2, <1>3, <1>4, <1>5, <1>6 DEF TipsNext

\* Between calls nothing is collected, and the counters are what was written.
LEMMA TipsInvAddsUp == TipsInv => RecordsAddUp
<1> SUFFICES ASSUME TipsInv PROVE RecordsAddUp
  OBVIOUS
<1>1. ASSUME NEW a \in Tippers
      PROVE  /\ DOMAIN tips[a].records = 0 .. tips[a].count - 1
             /\ Total(tips[a].records) = tips[a].total
             /\ tips[a].total = received[a]
  <2>1. RowSound(tips[a], Written(tips[a]), received[a]) /\ tips[a] \in TipRow
    BY StartFlushed, FlushedAhead DEF TipsInv, TipRowsSound, StateSound, RowSound
  <2>2. Written(tips[a]).count = tips[a].count /\ Written(tips[a]).acc = 0
    BY DEF Written
  <2>3. tips[a].total \in Nat
    BY <2>1 DEF TipRow
  <2> QED
    BY <2>1, <2>2, <2>3 DEF RowSound
<1> QED
  BY <1>1 DEF TipsInv, ReceiptsSound, RecordsAddUp, TipsAddUp

(* However a recipient is paid, by tips and by batches that name it several *)
(* times, its records are numbered without a gap and add up to its total    *)
(* and to the tokens it received, and the global index names every receipt  *)
(* once: RecordsAddUp of send_tip, batch_send, batch_send_multi and         *)
(* mint_receipt.                                                            *)
THEOREM TipsStayCounted == TipsSpec => []RecordsAddUp
<1>1. TipsInit => TipsInv
  BY TipsInvInit
<1>2. TipsInv /\ [TipsNext]_<<custodyVars, tipVars>> => TipsInv'
  BY TipsInvStep
<1>3. TipsInv => RecordsAddUp
  BY TipsInvAddsUp
<1> QED
  BY <1>1, <1>2, <1>3, PTL DEF TipsSpec
=============================================================================
