----------------------------- MODULE EscrowProofs -----------------------------
(***************************************************************************)
(* Theorems about Escrow, for every set of accounts and tokens, every      *)
(* list of plans and batches and every limit.                              *)
(*                                                                         *)
(* The argument: KindsOfStep sorts the actions by what they do to records  *)
(* and debts (open one, open many, settle or change one, settle many, or   *)
(* touch none).  EscrowInv, the windows and the books then need one case   *)
(* per kind instead of one per action.  The books are the difference       *)
(* between what is locked and what is owed in a token, which no kind of    *)
(* step lowers (NoLoss), except a batch claim that pays milestones twice.  *)
(***************************************************************************)
EXTENDS Escrow, SumsProofs, SequenceTheorems, TLAPS

LEMMA EscrowNumbers ==
    /\ MIN_ESCROW_AMOUNT \in Nat \ {0} /\ MAX_ESCROW_AMOUNT \in Nat
    /\ MAX_ESCROW_LEDGERS \in Nat /\ MAX_MILESTONES \in Nat /\ MAX_BATCH_SIZE \in Nat
    /\ MAX_USER_ESCROWS \in Nat /\ MaxEscrows \in Nat
    /\ IsFiniteSet(EscrowIds)
    /\ \A id \in EscrowIds : id \in Nat /\ id < MaxEscrows
<1>1. MaxEscrows \in Nat
  BY EscrowLimitsAssumption
<1>2. IsFiniteSet(EscrowIds)
  BY <1>1, FS_Interval DEF EscrowIds
<1> QED
  BY <1>1, <1>2, EscrowLimitsAssumption DEF EscrowIds

\* What a record alone owes.
OwedBy(e) == IF e.status # "Pending" THEN 0
             ELSE IF e.is_milestone_based THEN UnclaimedAmount(e) ELSE e.amount

\* A milestone escrow has no window of its own and no arbitrator, so that
\* batch_cancel_escrow and the dispute calls never reach it.
Sound(e) ==
    /\ e \in EscrowRecord
    /\ e.is_milestone_based => e.arbitrator = Nobody /\ e.release_ledger = 0
    /\ e.disputed => e.arbitrator # Nobody

(***************************************************************************)
(* The inductive invariant of the records: the type invariant, with every  *)
(* record sound.                                                           *)
(***************************************************************************)
RecordsAreSound == \A id \in EscrowIds : Exists(id) => Sound(escrow[id])

EscrowInv == TypeOK /\ RecordsAreSound

-----------------------------------------------------------------------------
(***************************************************************************)
(* Milestones.                                                             *)
(***************************************************************************)
LEMMA MilestoneSeq ==
    ASSUME NEW ms \in Seq(Milestone)
    PROVE  /\ DOMAIN ms = 1 .. Len(ms) /\ Len(ms) \in Nat /\ IsFiniteSet(DOMAIN ms)
           /\ \A i \in DOMAIN ms : ms[i] \in Milestone
           /\ Unpaid(ms) \in [DOMAIN ms -> Nat]
           /\ Total(Unpaid(ms)) \in Nat
<1>1. DOMAIN ms = 1 .. Len(ms) /\ Len(ms) \in Nat
  BY LenProperties
<1>2. IsFiniteSet(DOMAIN ms)
  BY <1>1, FS_Interval
<1>3. \A i \in DOMAIN ms : ms[i] \in Milestone
  BY <1>1, ElementOfSeq
<1>4. Unpaid(ms) \in [DOMAIN ms -> Nat]
  BY <1>3 DEF Unpaid, Milestone
<1> QED
  BY <1>1, <1>2, <1>3, <1>4, TotalType

\* Changing one milestone in place.
LEMMA MilestoneChanged ==
    ASSUME NEW ms \in Seq(Milestone), NEW m \in DOMAIN ms, NEW s \in Milestone
    PROVE  /\ [ms EXCEPT ![m] = s] \in Seq(Milestone)
           /\ DOMAIN [ms EXCEPT ![m] = s] = DOMAIN ms
           /\ \A i \in DOMAIN ms : [ms EXCEPT ![m] = s][i] = IF i = m THEN s ELSE ms[i]
<1>1. DOMAIN ms = 1 .. Len(ms)
  BY LenProperties
<1>2. [ms EXCEPT ![m] = s] \in Seq(Milestone)
  BY <1>1, ExceptSeq
<1> QED
  BY <1>2

LEMMA ApprovingMilestone ==
    ASSUME NEW e, Sound(e), e.status = "Pending", e.is_milestone_based,
           NEW m \in DOMAIN e.milestones
    PROVE  /\ Sound(Approving(e, m))
           /\ Approving(e, m).token = e.token
           /\ Approving(e, m).is_milestone_based
           /\ OwedBy(Approving(e, m)) = OwedBy(e)
<1> DEFINE ms == e.milestones
           s == [ms[m] EXCEPT !.approved = TRUE]
           ns == [ms EXCEPT ![m] = s]
           n == Approving(e, m)
<1>1. e \in EscrowRecord /\ ms \in Seq(Milestone)
  BY DEF Sound, EscrowRecord
<1>2a. ms[m] \in Milestone
  BY <1>1, MilestoneSeq
<1>2. /\ ms[m] \in Milestone /\ s \in Milestone
      /\ s.amount = ms[m].amount /\ s.claimed = ms[m].claimed
  BY <1>2a DEF Milestone
<1>3. ns \in Seq(Milestone) /\ DOMAIN ns = DOMAIN ms
      /\ \A i \in DOMAIN ms : ns[i] = IF i = m THEN s ELSE ms[i]
  BY <1>1, <1>2, MilestoneChanged
<1>4. n = [e EXCEPT !.milestones = ns]
  BY <1>1 DEF Approving, EscrowRecord
<1> HIDE DEF s, ns, n
<1>5. n \in EscrowRecord /\ n.milestones = ns
      /\ n.token = e.token /\ n.status = e.status /\ n.is_milestone_based = e.is_milestone_based
      /\ n.arbitrator = e.arbitrator /\ n.release_ledger = e.release_ledger
      /\ n.disputed = e.disputed
  BY <1>1, <1>3, <1>4 DEF EscrowRecord
<1>6. Unpaid(ns) = Unpaid(ms)
  BY <1>2, <1>3 DEF Unpaid
<1>7. OwedBy(n) = OwedBy(e)
  BY <1>5, <1>6 DEF OwedBy, UnclaimedAmount
<1>8. Sound(n)
  BY <1>5 DEF Sound
<1> QED
  BY <1>5, <1>7, <1>8 DEF n

LEMMA ClaimingMilestone ==
    ASSUME NEW e, Sound(e), e.status = "Pending", e.is_milestone_based,
           NEW m \in DOMAIN e.milestones, ~e.milestones[m].claimed
    PROVE  /\ Sound(Claiming(e, m))
           /\ Claiming(e, m).token = e.token
           /\ Claiming(e, m).is_milestone_based
           /\ e.milestones[m].amount \in Nat
           /\ OwedBy(Claiming(e, m)) + e.milestones[m].amount = OwedBy(e)
           /\ Claiming(e, m).status = "Released" => Unclaimed(Claiming(e, m)) = {}
           /\ Claiming(e, m).status \in {"Pending", "Released"}
<1> DEFINE ms == e.milestones
           s == [ms[m] EXCEPT !.claimed = TRUE]
           ns == [ms EXCEPT ![m] = s]
           status == IF Unclaimed(e) = {m} THEN "Released" ELSE "Pending"
           n == Claiming(e, m)
<1>1. e \in EscrowRecord /\ ms \in Seq(Milestone)
  BY DEF Sound, EscrowRecord
<1>2a. ms[m] \in Milestone
  BY <1>1, MilestoneSeq
<1>2. /\ ms[m] \in Milestone /\ s \in Milestone /\ ms[m].amount \in Nat
      /\ s.amount = ms[m].amount /\ s.claimed = TRUE
  BY <1>2a DEF Milestone
<1>3. ns \in Seq(Milestone) /\ DOMAIN ns = DOMAIN ms
      /\ \A i \in DOMAIN ms : ns[i] = IF i = m THEN s ELSE ms[i]
  BY <1>1, <1>2, MilestoneChanged
<1>4. n = [[e EXCEPT !.milestones = ns] EXCEPT !.status = status]
  BY <1>1 DEF Claiming, EscrowRecord
<1>0. status \in {"Released", "Pending"} /\ (status = "Released" <=> Unclaimed(e) = {m})
  OBVIOUS
<1> HIDE DEF s, ns, n, status
<1>5. n \in EscrowRecord /\ n.milestones = ns /\ n.status = status
      /\ n.token = e.token /\ n.is_milestone_based = e.is_milestone_based
      /\ n.arbitrator = e.arbitrator /\ n.release_ledger = e.release_ledger
      /\ n.disputed = e.disputed
  BY <1>0, <1>1, <1>3, <1>4 DEF EscrowRecord
<1>6. /\ Unpaid(ns) \in [DOMAIN ms -> Nat] /\ Unpaid(ms) \in [DOMAIN ms -> Nat]
      /\ IsFiniteSet(DOMAIN ms) /\ Total(Unpaid(ns)) \in Nat /\ Total(Unpaid(ms)) \in Nat
  BY <1>1, <1>3, MilestoneSeq
<1>7. /\ Unpaid(ns)[m] = 0 /\ Unpaid(ms)[m] = ms[m].amount
      /\ \A i \in DOMAIN ms \ {m} : Unpaid(ns)[i] = Unpaid(ms)[i]
  BY <1>2, <1>3 DEF Unpaid
<1>8. Total(Unpaid(ns)) = Total(Unpaid(ms)) - Unpaid(ms)[m] + Unpaid(ns)[m]
  BY <1>6, <1>7, TotalChange
<1>9. Total(Unpaid(ns)) + ms[m].amount = Total(Unpaid(ms))
  BY <1>2, <1>6, <1>7, <1>8
<1>10. Unclaimed(n) = Unclaimed(e) \ {m}
  BY <1>2, <1>3, <1>5 DEF Unclaimed
<1>11. status = "Released" => Total(Unpaid(ns)) = 0
  <2> SUFFICES ASSUME status = "Released" PROVE Total(Unpaid(ns)) = 0
    OBVIOUS
  <2>1. Unclaimed(n) = {}
    BY <1>0, <1>10
  <2>2. \A i \in DOMAIN ms : Unpaid(ns)[i] = 0
    BY <1>3, <1>5, <2>1 DEF Unclaimed, Unpaid
  <2> QED
    BY <1>6, <2>2, TotalZero
<1>12. OwedBy(n) + ms[m].amount = OwedBy(e)
  BY <1>0, <1>2, <1>5, <1>6, <1>9, <1>11 DEF OwedBy, UnclaimedAmount
<1>13. Sound(n)
  BY <1>5 DEF Sound
<1> QED
  BY <1>0, <1>2, <1>5, <1>10, <1>12, <1>13 DEF n

-----------------------------------------------------------------------------
(***************************************************************************)
(* The accepted items of a batch are numbered in order: the n-th item is   *)
(* the one that n accepted items precede.                                  *)
(***************************************************************************)
Rank(S, i) == Cardinality({j \in S : j < i})

LEMMA ItemsInOrder ==
    ASSUME NEW S \in SUBSET Int, IsFiniteSet(S), NEW c \in Nat
    PROVE  LET ids == c .. c + Cardinality(S) - 1
           IN  /\ IsFiniteSet(ids)
               /\ [id \in ids |-> Nth(S, id - c)] \in Bijection(ids, S)
<1> DEFINE k == Cardinality(S)
           ids == c .. c + k - 1
           rank == [i \in S |-> Rank(S, i)]
<1>1. k \in Nat
  BY FS_CardinalityType
<1>2. \A i \in S : IsFiniteSet({j \in S : j < i}) /\ Rank(S, i) \in Nat
  BY FS_Subset, FS_CardinalityType DEF Rank
<1>0. \A i \in S : Rank(S, i) \in Nat
  BY <1>2
<1>3. ASSUME NEW i \in S, NEW T \in SUBSET S, \A j \in S : j < i => j \in T, i \in T
      PROVE  Rank(S, i) < Cardinality(T)
  <2>1. IsFiniteSet(T)
    BY FS_Subset
  <2>2. Cardinality({j \in S : j < i} \cup {i}) = Rank(S, i) + 1
    BY <1>2, FS_AddElement DEF Rank
  <2>3. {j \in S : j < i} \cup {i} \in SUBSET T
    BY <1>3
  <2>4. Rank(S, i) + 1 <= Cardinality(T) /\ Cardinality(T) \in Nat
    BY <2>1, <2>2, <2>3, FS_Subset, FS_CardinalityType
  <2> QED
    BY <1>0, <2>4
<1>4. \A i \in S : Rank(S, i) < k
  BY <1>3
<1>5. \A i, j \in S : j < i => Rank(S, j) < Rank(S, i)
  <2> SUFFICES ASSUME NEW i \in S, NEW j \in S, j < i PROVE Rank(S, j) < Rank(S, i)
    OBVIOUS
  <2>1. \A l \in S : l < j => l \in {l1 \in S : l1 < i}
    OBVIOUS
  <2> QED
    BY <1>3, <2>1 DEF Rank
<1>6. \A i, j \in S : Rank(S, i) = Rank(S, j) => i = j
  BY <1>0, <1>5
<1>7. rank \in Injection(S, 0 .. k - 1)
  <2>1. rank \in [S -> 0 .. k - 1]
    BY <1>1, <1>0, <1>4
  <2> QED
    BY <1>6, <2>1 DEF Injection, IsInjective
<1>8. rank \in Surjection(S, 0 .. k - 1)
  <2>1. IsFiniteSet(0 .. k - 1) /\ Cardinality(0 .. k - 1) = k
    BY <1>1, FS_Interval
  <2> QED
    BY <1>7, <2>1, FS_Injection
<1>9. \A n \in 0 .. k - 1 : \E i \in S : Rank(S, i) = n
  BY <1>8 DEF Surjection
<1>10. \A n \in 0 .. k - 1 : Nth(S, n) \in S /\ Rank(S, Nth(S, n)) = n
  BY <1>9 DEF Nth, Rank
<1>11. \A id \in ids : id - c \in 0 .. k - 1
  BY <1>1
<1>12. \A n \in 0 .. k - 1 : n + c \in ids /\ (n + c) - c = n
  BY <1>1
<1> DEFINE item == [id \in ids |-> Nth(S, id - c)]
<1>13. item \in [ids -> S]
  BY <1>10, <1>11
<1>14. \A id, jd \in ids : item[id] = item[jd] => id = jd
  <2> SUFFICES ASSUME NEW id \in ids, NEW jd \in ids, item[id] = item[jd] PROVE id = jd
    OBVIOUS
  <2>1. id - c = jd - c
    BY <1>10, <1>11
  <2> QED
    BY <1>1, <2>1
<1>15. \A i \in S : \E id \in ids : item[id] = i
  <2> SUFFICES ASSUME NEW i \in S PROVE \E id \in ids : item[id] = i
    OBVIOUS
  <2>1. Rank(S, i) \in 0 .. k - 1
    BY <1>1, <1>0, <1>4
  <2>2. Nth(S, Rank(S, i)) = i
    BY <1>6, <1>10, <2>1
  <2>3. Rank(S, i) + c \in ids /\ item[Rank(S, i) + c] = Nth(S, Rank(S, i))
    BY <1>12, <2>1
  <2> QED
    BY <2>2, <2>3
<1> HIDE DEF item
<1>16. item \in Bijection(ids, S)
  BY <1>13, <1>14, <1>15 DEF Bijection, Injection, Surjection, IsInjective
<1>17. IsFiniteSet(ids)
  BY <1>1, FS_Interval
<1> QED
  BY <1>16, <1>17 DEF item

-----------------------------------------------------------------------------
(***************************************************************************)
(* Money moves in one token: n arrives and is locked, or leaves and is no  *)
(* longer locked.                                                          *)
(***************************************************************************)
Moves(t, n) ==
    \A u \in Tokens : /\ balance'[u] = balance[u] + (IF u = t THEN n ELSE 0)
                      /\ locked'[u] = locked[u] + (IF u = t THEN n ELSE 0)

LEMMA Deposit ==
    ASSUME CustodyTypeOK, NEW t \in Tokens, NEW n \in Nat,
           TransferIn(t, n), IncreaseLocked(t, n), UNCHANGED <<paused, ledger>>
    PROVE  CustodyTypeOK' /\ Moves(t, n)
<1>1. balance' \in [Tokens -> Nat] /\ cached' \in [Tokens -> Nat \cup {NoCache}]
  BY DEF TransferIn, CustodyTypeOK, NoCache
<1>2. locked' \in [Tokens -> Int]
  BY DEF IncreaseLocked, CustodyTypeOK
<1>3. Moves(t, n)
  BY DEF Moves, TransferIn, IncreaseLocked, CustodyTypeOK
<1> QED
  BY <1>1, <1>2, <1>3 DEF CustodyTypeOK

LEMMA Payment ==
    ASSUME CustodyTypeOK, NEW t \in Tokens, NEW n \in Nat, DecreaseLocked(t, n),
           TransferOut(t, n) \/ RawTransferOut(t, n), UNCHANGED <<paused, ledger>>
    PROVE  CustodyTypeOK' /\ Moves(t, -n)
<1>1. balance' = [balance EXCEPT ![t] = @ - n] /\ n <= balance[t]
  BY DEF TransferOut, RawTransferOut
<1>2. cached' \in [Tokens -> Nat \cup {NoCache}]
  <2>1. CASE TransferOut(t, n)
    BY <2>1 DEF TransferOut, CustodyTypeOK, NoCache
  <2>2. CASE RawTransferOut(t, n)
    BY <2>2 DEF RawTransferOut, CustodyTypeOK
  <2> QED
    BY <2>1, <2>2
<1>3. balance' \in [Tokens -> Nat]
  BY <1>1 DEF CustodyTypeOK
<1>4. locked' \in [Tokens -> Int]
  BY DEF DecreaseLocked, CustodyTypeOK
<1>5. Moves(t, -n)
  BY <1>1 DEF Moves, DecreaseLocked, CustodyTypeOK
<1> QED
  BY <1>2, <1>3, <1>4, <1>5 DEF CustodyTypeOK

\* batch_claim_escrow and batch_cancel_escrow pay in every token at once.
LEMMA PaymentOfAll ==
    ASSUME CustodyTypeOK, NEW paid \in [Tokens -> Nat], TransferOutAll(paid),
           locked' = [t \in Tokens |-> locked[t] - paid[t]], UNCHANGED <<paused, ledger>>
    PROVE  /\ CustodyTypeOK'
           /\ \A t \in Tokens : balance'[t] = balance[t] - paid[t]
<1>1. \A t \in Tokens : balance'[t] = balance[t] - paid[t] /\ paid[t] <= balance[t]
  BY DEF TransferOutAll
<1>2. balance' \in [Tokens -> Nat]
  BY DEF TransferOutAll, CustodyTypeOK
<1>3. cached' \in [Tokens -> Nat \cup {NoCache}]
  BY DEF TransferOutAll, CustodyTypeOK, NoCache
<1>4. locked' \in [Tokens -> Int]
  BY DEF CustodyTypeOK
<1> QED
  BY <1>1, <1>2, <1>3, <1>4 DEF CustodyTypeOK

LEMMA SurroundingsKeepCustody ==
    ASSUME CustodyTypeOK, CustodyNext
    PROVE  /\ CustodyTypeOK' /\ locked' = locked
           /\ \A t \in Tokens : balance'[t] >= balance[t]
<1>1. CASE AdvanceLedger
  BY <1>1 DEF AdvanceLedger, CustodyTypeOK
<1>2. ASSUME NEW t \in Tokens, NEW amount \in Donations, Donate(t, amount)
      PROVE  /\ CustodyTypeOK' /\ locked' = locked
             /\ \A u \in Tokens : balance'[u] >= balance[u]
  <2>1. amount \in Nat
    BY DonationsAssumption
  <2>2. balance' \in [Tokens -> Nat]
    BY <1>2, <2>1 DEF Donate, CustodyTypeOK
  <2>3. \A u \in Tokens : balance'[u] >= balance[u]
    BY <1>2, <2>1 DEF Donate, CustodyTypeOK
  <2> QED
    BY <1>2, <2>2, <2>3 DEF Donate, CustodyTypeOK
<1>3. ASSUME NEW flag \in BOOLEAN, SetPaused(flag)
      PROVE  /\ CustodyTypeOK' /\ locked' = locked
             /\ \A t \in Tokens : balance'[t] >= balance[t]
  BY <1>3 DEF SetPaused, CustodyTypeOK
<1> QED
  BY <1>1, <1>2, <1>3 DEF CustodyNext

-----------------------------------------------------------------------------
(***************************************************************************)
(* What a step does to the records.  Opens: the next number gets a record. *)
(* Replaces: one record changes.                                           *)
(***************************************************************************)
Opens(e) ==
    /\ escrowCount \in EscrowIds
    /\ escrow' = [escrow EXCEPT ![escrowCount] = e]
    /\ escrowCount' = escrowCount + 1
    /\ arbitrators' = arbitrators

Replaces(id, e) ==
    /\ escrow' = [escrow EXCEPT ![id] = e]
    /\ escrowCount' = escrowCount
    /\ arbitrators' = arbitrators

\* The invariant record by record.
EscrowParts ==
    /\ CustodyTypeOK /\ escrowCount \in 0 .. MaxEscrows
    /\ DOMAIN escrow = EscrowIds /\ arbitrators \in SUBSET Accounts
    /\ \A id \in EscrowIds : /\ id < escrowCount => Sound(escrow[id])
                             /\ ~(id < escrowCount) => escrow[id] = NoEscrow

LEMMA InvIsParts == EscrowInv <=> EscrowParts
BY DEF EscrowInv, EscrowParts, TypeOK, RecordsAreSound, Exists, Sound

LEMMA OpeningKeepsInv ==
    ASSUME EscrowInv, CustodyTypeOK', NEW e, Sound(e), Opens(e)
    PROVE  EscrowInv'
<1>0. EscrowParts /\ escrowCount \in Nat
  BY InvIsParts, EscrowNumbers DEF EscrowParts
<1>1. escrowCount' \in 0 .. MaxEscrows
  BY <1>0, EscrowNumbers DEF Opens, EscrowParts
<1>2. DOMAIN escrow' = EscrowIds /\ arbitrators' \in SUBSET Accounts
  BY <1>0 DEF Opens, EscrowParts
<1>3. ASSUME NEW id \in EscrowIds
      PROVE  /\ id < escrowCount' => Sound(escrow'[id])
             /\ ~(id < escrowCount') => escrow'[id] = NoEscrow
  <2>1. CASE id = escrowCount
    <3>1. escrow'[id] = e /\ id < escrowCount'
      BY <1>0, <2>1 DEF Opens, EscrowParts
    <3> QED
      BY <3>1
  <2>2. CASE id # escrowCount
    <3>1. escrow'[id] = escrow[id] /\ (id < escrowCount' <=> id < escrowCount)
      BY <1>0, <2>2, EscrowNumbers DEF Opens, EscrowParts
    <3> QED
      BY <1>0, <3>1 DEF EscrowParts
  <2> QED
    BY <2>1, <2>2
<1>4. EscrowParts'
  BY <1>1, <1>2, <1>3 DEF EscrowParts
<1> QED
  BY <1>4, InvIsParts, PTL

LEMMA ReplacingKeepsInv ==
    ASSUME EscrowInv, CustodyTypeOK', NEW id \in EscrowIds, id < escrowCount,
           NEW e, Sound(e), Replaces(id, e)
    PROVE  EscrowInv'
<1>0. EscrowParts
  BY InvIsParts
<1>1. \A i \in EscrowIds : escrow'[i] = IF i = id THEN e ELSE escrow[i]
  BY <1>0 DEF Replaces, EscrowParts
<1>2. /\ escrowCount' \in 0 .. MaxEscrows /\ DOMAIN escrow' = EscrowIds
      /\ arbitrators' \in SUBSET Accounts /\ escrowCount' = escrowCount
  BY <1>0 DEF Replaces, EscrowParts
<1>3. \A i \in EscrowIds : /\ i < escrowCount' => Sound(escrow'[i])
                           /\ ~(i < escrowCount') => escrow'[i] = NoEscrow
  BY <1>0, <1>1, <1>2 DEF EscrowParts
<1>4. EscrowParts'
  BY <1>2, <1>3 DEF EscrowParts
<1> QED
  BY <1>4, InvIsParts, PTL

-----------------------------------------------------------------------------
(***************************************************************************)
(* Creations.  The new record owes what was deposited for it, or less if   *)
(* the payer stored milestones as claimed.                                 *)
(***************************************************************************)
Opened(e) ==
    /\ Sound(e) /\ e.status = "Pending"
    /\ Opens(e) /\ CustodyTypeOK' /\ Moves(e.token, e.amount)

LEMMA AppendOpens ==
    ASSUME EscrowInv, NEW e, Sound(e), e.status = "Pending", Append1(e)
    PROVE  Opened(e)
<1>1. EscrowParts /\ escrowCount \in Nat
  BY InvIsParts, EscrowNumbers DEF EscrowParts
<1>2. escrowCount \in EscrowIds
  BY <1>1, EscrowNumbers DEF Append1, EscrowIds
<1>3. e.token \in Tokens /\ e.amount \in Nat
  BY DEF Sound, EscrowRecord
<1>4. CustodyTypeOK' /\ Moves(e.token, e.amount)
  BY <1>1, <1>3, Deposit DEF Append1, EscrowParts
<1> QED
  BY <1>2, <1>4 DEF Append1, Opened, Opens

LEMMA NewRecord ==
    ASSUME NEW t \in Tokens, NEW from \in Accounts, NEW to \in Accounts,
           NEW amount \in Nat, NEW l \in Nat
    PROVE  LET e == NewEscrow(from, to, t, amount, l)
           IN  /\ Sound(e) /\ e.status = "Pending" /\ ~e.is_milestone_based /\ ~e.disputed
               /\ e.token = t /\ e.amount = amount /\ e.to = to /\ OwedBy(e) = amount
<1>1. << >> \in Seq(Milestone)
  BY EmptySeq
<1> QED
  BY <1>1 DEF NewEscrow, Sound, EscrowRecord, OwedBy

LEMMA CreateOpens ==
    ASSUME EscrowInv, NEW t \in Tokens, NEW from \in Accounts, NEW to \in Accounts,
           NEW amount \in Amounts, NEW l \in Releases, CreateEscrow(t, from, to, amount, l)
    PROVE  \E e : Opened(e) /\ OwedBy(e) = e.amount
<1> DEFINE e == NewEscrow(from, to, t, amount, l)
<1>1. amount \in Nat /\ l \in Nat
  BY EscrowNumbers, EscrowAmountsAssumption DEF CreateEscrow, SizeOk
<1>2. Sound(e) /\ e.status = "Pending" /\ OwedBy(e) = e.amount
  BY <1>1, NewRecord
<1>3. Append1(e)
  BY DEF CreateEscrow
<1> HIDE DEF e
<1> QED
  BY <1>2, <1>3, AppendOpens

LEMMA CreateDisputableOpens ==
    ASSUME EscrowInv, NEW t \in Tokens, NEW from \in Accounts, NEW to \in Accounts,
           NEW amount \in Amounts, NEW l \in Releases, NEW a \in Accounts,
           CreateDisputableEscrow(t, from, to, amount, l, a)
    PROVE  \E e : Opened(e) /\ OwedBy(e) = e.amount
<1> DEFINE n == NewEscrow(from, to, t, amount, l)
           e == [n EXCEPT !.arbitrator = a]
<1>1. amount \in Nat /\ l \in Nat
  BY EscrowAmountsAssumption DEF CreateDisputableEscrow
<1>2. Sound(n) /\ n.status = "Pending" /\ ~n.is_milestone_based /\ ~n.disputed
  BY <1>1, NewRecord
<1>3. Append1(e)
  BY DEF CreateDisputableEscrow
<1> HIDE DEF n
<1>4. Sound(e) /\ e.status = "Pending" /\ OwedBy(e) = e.amount
  BY <1>2 DEF Sound, EscrowRecord, OwedBy
<1> HIDE DEF e
<1> QED
  BY <1>3, <1>4, AppendOpens

LEMMA CreateMilestoneOpens ==
    ASSUME EscrowInv, NEW t \in Tokens, NEW from \in Accounts, NEW to \in Accounts,
           NEW agent \in Accounts, NEW plan \in Plans,
           CreateMilestoneEscrow(t, from, to, agent, plan)
    PROVE  \E e : /\ Opened(e) /\ OwedBy(e) <= e.amount
                  /\ PlansAreFresh => OwedBy(e) = e.amount
<1> DEFINE table == [i \in DOMAIN plan |-> plan[i].amount]
           deposit == Total(table)
           n == NewEscrow(from, to, t, deposit, 0)
           e == [n EXCEPT !.agent = agent, !.milestones = plan, !.is_milestone_based = TRUE]
           Asked == [amount : Int, approval_deadline_ledger : Nat,
                     approved : BOOLEAN, claimed : BOOLEAN]
<1>1. plan \in Seq(Asked)
  BY EscrowAmountsAssumption
<1>2. plan \in [1 .. Len(plan) -> Asked] /\ Len(plan) \in Nat
  BY <1>1, LenProperties
<1>3. \A i \in DOMAIN plan : plan[i].amount > 0
  BY DEF CreateMilestoneEscrow
<1>4. \A i \in 1 .. Len(plan) : plan[i] \in Milestone
  BY <1>2, <1>3 DEF Milestone
<1>5. plan \in Seq(Milestone)
  BY <1>2, <1>4, SeqDef
<1>6. /\ IsFiniteSet(DOMAIN plan) /\ Unpaid(plan) \in [DOMAIN plan -> Nat]
      /\ \A i \in DOMAIN plan : plan[i] \in Milestone
  BY <1>5, MilestoneSeq
<1>7. table \in [DOMAIN plan -> Nat]
  BY <1>6 DEF Milestone
<1>8. /\ \A i \in DOMAIN plan : Unpaid(plan)[i] <= table[i]
      /\ PlansAreFresh => Unpaid(plan) = table
  BY <1>6 DEF Unpaid, Milestone, PlansAreFresh
<1> HIDE DEF table
<1>9. /\ deposit \in Nat /\ Total(Unpaid(plan)) <= deposit
      /\ PlansAreFresh => Total(Unpaid(plan)) = deposit
  BY <1>6, <1>7, <1>8, TotalType, TotalMonotone
<1>10. Append1(e)
  BY DEF CreateMilestoneEscrow, table
<1> HIDE DEF deposit
<1>11. /\ Sound(n) /\ n.status = "Pending" /\ n.amount = deposit /\ ~n.disputed
       /\ n.arbitrator = Nobody /\ n.release_ledger = 0
  <2>0. deposit \in Nat /\ 0 \in Nat
    BY <1>9
  <2>1. Sound(n) /\ n.status = "Pending" /\ n.amount = deposit /\ ~n.disputed
    BY <2>0, NewRecord
  <2>2. n.arbitrator = Nobody /\ n.release_ledger = 0
    BY DEF NewEscrow
  <2> QED
    BY <2>1, <2>2
<1> HIDE DEF n
<1>12. /\ Sound(e) /\ e.status = "Pending" /\ e.amount = deposit
       /\ e.milestones = plan /\ e.is_milestone_based
  BY <1>5, <1>11 DEF Sound, EscrowRecord
<1> HIDE DEF e
<1>13. OwedBy(e) = Total(Unpaid(plan))
  BY <1>12 DEF OwedBy, UnclaimedAmount
<1>14. Opened(e)
  BY <1>10, <1>12, AppendOpens
<1> QED
  BY <1>9, <1>12, <1>13, <1>14

-----------------------------------------------------------------------------
(***************************************************************************)
(* Calls on one pending escrow.  InWindow: who may settle it, and when.    *)
(***************************************************************************)
InWindow(old, new) ==
    ~old.disputed /\ ~old.is_milestone_based =>
      /\ new.status = "Cancelled" => ledger < old.release_ledger
      /\ new.status = "Released" => ledger >= old.release_ledger
      /\ new.amount # old.amount => ledger >= old.release_ledger

Called(id, e, n) ==
    /\ id < escrowCount /\ escrow[id].status = "Pending"
    /\ Sound(e) /\ e.token = escrow[id].token
    /\ Replaces(id, e) /\ InWindow(escrow[id], e)
    /\ CustodyTypeOK' /\ Moves(e.token, -n)
    /\ e.is_milestone_based /\ e.status = "Released" => Unclaimed(e) = {}

\* It pays exactly what the escrow no longer owes.
PaysDebt(id) ==
    \E e, n : n \in Nat /\ Called(id, e, n) /\ OwedBy(e) + n = OwedBy(escrow[id])

\* A release of less than the amount: the rest is owed to nobody.
PaysLess(id) ==
    \E e, n : n \in Nat /\ Called(id, e, n) /\ OwedBy(e) + n <= OwedBy(escrow[id])

LEMMA PendingRecord ==
    ASSUME EscrowInv, NEW id \in EscrowIds, Pending(id)
    PROVE  /\ id < escrowCount /\ Sound(escrow[id]) /\ escrow[id].status = "Pending"
           /\ escrow[id].token \in Tokens /\ escrow[id].amount \in Nat
           /\ escrow[id] \in EscrowRecord
           /\ DOMAIN escrow = EscrowIds /\ CustodyTypeOK
BY InvIsParts DEF EscrowParts, Pending, Exists, Sound, EscrowRecord

\* Pay, with the record that is written before it.
LEMMA PayCalls ==
    ASSUME EscrowInv, NEW id \in EscrowIds, Pending(id), NEW n \in Nat, Pay(id, n),
           NEW e, escrow' = [escrow EXCEPT ![id] = e], Sound(e), e.token = escrow[id].token,
           InWindow(escrow[id], e),
           e.is_milestone_based /\ e.status = "Released" => Unclaimed(e) = {}
    PROVE  Called(id, e, n)
<1>1. id < escrowCount /\ escrow[id].status = "Pending" /\ escrow[id].token \in Tokens
      /\ CustodyTypeOK
  BY PendingRecord
<1>2. CustodyTypeOK' /\ Moves(e.token, -n)
  BY <1>1, Payment DEF Pay
<1> QED
  BY <1>1, <1>2 DEF Called, Replaces, Pay

LEMMA ClaimPays ==
    ASSUME EscrowInv, NEW id \in EscrowIds, ClaimEscrow(id)
    PROVE  PaysDebt(id)
<1> DEFINE o == escrow[id]
           e == [o EXCEPT !.status = "Released"]
<1>1. /\ Pending(id) /\ ~o.is_milestone_based /\ ledger >= o.release_ledger
      /\ Pay(id, o.amount) /\ escrow' = [escrow EXCEPT ![id].status = "Released"]
  BY DEF ClaimEscrow, Claimable
<1>2. Sound(o) /\ o \in EscrowRecord /\ o.status = "Pending" /\ o.amount \in Nat
      /\ DOMAIN escrow = EscrowIds
  BY <1>1, PendingRecord
<1>3. escrow' = [escrow EXCEPT ![id] = e]
  BY <1>1, <1>2
<1>4. /\ Sound(e) /\ e.token = o.token /\ ~e.is_milestone_based /\ e.amount = o.amount
      /\ e.status = "Released"
  BY <1>1, <1>2 DEF Sound, EscrowRecord
<1> HIDE DEF e
<1>5. InWindow(o, e)
  BY <1>1, <1>4 DEF InWindow
<1>6. Called(id, e, o.amount)
  BY <1>1, <1>2, <1>3, <1>4, <1>5, PayCalls
<1>7. OwedBy(e) + o.amount = OwedBy(o)
  BY <1>1, <1>2, <1>4 DEF OwedBy
<1> QED
  BY <1>2, <1>6, <1>7 DEF PaysDebt

LEMMA PartialClaimPays ==
    ASSUME EscrowInv, NEW id \in EscrowIds, NEW amount, ClaimEscrowPartial(id, amount)
    PROVE  PaysDebt(id)
<1> DEFINE o == escrow[id]
           status == IF amount = o.amount THEN "Released" ELSE "Pending"
           rest == o.amount - amount
           e == [[o EXCEPT !.amount = rest] EXCEPT !.status = status]
<1>1. /\ Pending(id) /\ ~o.is_milestone_based /\ ledger >= o.release_ledger
      /\ Pay(id, amount) /\ amount \in 1 .. o.amount
  BY DEF ClaimEscrowPartial, Claimable
<1>2. Sound(o) /\ o \in EscrowRecord /\ o.status = "Pending" /\ o.amount \in Nat
      /\ DOMAIN escrow = EscrowIds
  BY <1>1, PendingRecord
<1>3. escrow' = [escrow EXCEPT ![id] = e]
  BY <1>2 DEF ClaimEscrowPartial, EscrowRecord
<1>0. /\ status \in {"Released", "Pending"} /\ (status = "Released" <=> amount = o.amount)
      /\ rest = o.amount - amount /\ rest \in Nat /\ amount \in Nat
  BY <1>1, <1>2
<1> HIDE DEF status, rest
<1>4. /\ Sound(e) /\ e.token = o.token /\ ~e.is_milestone_based
      /\ e.amount = rest /\ e.status = status
  BY <1>0, <1>1, <1>2 DEF Sound, EscrowRecord
<1> HIDE DEF e
<1>5. InWindow(o, e)
  BY <1>0, <1>1, <1>4 DEF InWindow
<1>6. Called(id, e, amount)
  BY <1>0, <1>1, <1>3, <1>4, <1>5, PayCalls
<1>7. OwedBy(e) + amount = OwedBy(o)
  BY <1>0, <1>1, <1>2, <1>4 DEF OwedBy
<1> QED
  BY <1>0, <1>6, <1>7 DEF PaysDebt

LEMMA CancelPays ==
    ASSUME EscrowInv, NEW id \in EscrowIds, CancelEscrow(id)
    PROVE  PaysDebt(id)
<1> DEFINE o == escrow[id]
           e == [o EXCEPT !.status = "Cancelled"]
           n == IF o.is_milestone_based THEN UnclaimedAmount(o) ELSE o.amount
<1>1. /\ Pending(id) /\ (~o.is_milestone_based => ledger < o.release_ledger)
      /\ Pay(id, n) /\ escrow' = [escrow EXCEPT ![id].status = "Cancelled"]
  BY DEF CancelEscrow
<1>2. Sound(o) /\ o \in EscrowRecord /\ o.status = "Pending" /\ o.amount \in Nat
      /\ DOMAIN escrow = EscrowIds
  BY <1>1, PendingRecord
<1>3. escrow' = [escrow EXCEPT ![id] = e]
  BY <1>1, <1>2
<1>4. /\ Sound(e) /\ e.token = o.token /\ e.is_milestone_based = o.is_milestone_based
      /\ e.amount = o.amount /\ e.status = "Cancelled"
  BY <1>1, <1>2 DEF Sound, EscrowRecord
<1>5. n \in Nat
  BY <1>2, MilestoneSeq DEF UnclaimedAmount, EscrowRecord
<1>6. OwedBy(e) + n = OwedBy(o)
  BY <1>2, <1>4, <1>5 DEF OwedBy
<1> HIDE DEF e, n
<1>7. InWindow(o, e)
  BY <1>1, <1>4 DEF InWindow
<1>8. Called(id, e, n)
  BY <1>1, <1>3, <1>4, <1>5, <1>7, PayCalls
<1> QED
  BY <1>5, <1>6, <1>8 DEF PaysDebt

LEMMA ClaimMilestonePays ==
    ASSUME EscrowInv, NEW id \in EscrowIds, NEW m, ClaimMilestone(id, m)
    PROVE  PaysDebt(id)
<1> DEFINE o == escrow[id]
           e == Claiming(o, m)
           n == o.milestones[m].amount
<1>1. /\ Pending(id) /\ o.is_milestone_based /\ m \in DOMAIN o.milestones
      /\ ~o.milestones[m].claimed
      /\ Pay(id, n) /\ escrow' = [escrow EXCEPT ![id] = e]
  BY DEF ClaimMilestone
<1>2. Sound(o) /\ o.status = "Pending"
  BY <1>1, PendingRecord
<1>3. /\ Sound(e) /\ e.token = o.token /\ e.is_milestone_based /\ n \in Nat
      /\ OwedBy(e) + n = OwedBy(o)
      /\ e.status = "Released" => Unclaimed(e) = {}
  BY <1>1, <1>2, ClaimingMilestone
<1> HIDE DEF e, n
<1>4. InWindow(o, e)
  BY <1>1 DEF InWindow
<1>5. Called(id, e, n)
  BY <1>1, <1>3, <1>4, PayCalls
<1> QED
  BY <1>3, <1>5 DEF PaysDebt

\* A call that moves no money.
LEMMA CallWithoutPayment ==
    ASSUME EscrowInv, NEW id \in EscrowIds, Pending(id), UNCHANGED custodyVars,
           NEW e, Replaces(id, e), Sound(e), e.token = escrow[id].token,
           InWindow(escrow[id], e), e.status = "Pending", OwedBy(e) = OwedBy(escrow[id]),
           OwedBy(escrow[id]) \in Nat
    PROVE  PaysDebt(id)
<1>1. id < escrowCount /\ escrow[id].status = "Pending" /\ CustodyTypeOK
  BY PendingRecord
<1>2. CustodyTypeOK'
  BY <1>1 DEF CustodyTypeOK, custodyVars
<1>3. Moves(e.token, -0)
  BY <1>1 DEF Moves, CustodyTypeOK, custodyVars
<1>4. Called(id, e, 0)
  BY <1>1, <1>2, <1>3 DEF Called
<1> QED
  BY <1>4 DEF PaysDebt

LEMMA OwedByType ==
    ASSUME NEW e, Sound(e)
    PROVE  OwedBy(e) \in Nat
<1>1. e.amount \in Nat /\ e.milestones \in Seq(Milestone)
  BY DEF Sound, EscrowRecord
<1> QED
  BY <1>1, MilestoneSeq DEF OwedBy, UnclaimedAmount

LEMMA ApproveMilestonePays ==
    ASSUME EscrowInv, NEW id \in EscrowIds, NEW m, NEW a, ApproveMilestone(id, m, a)
    PROVE  PaysDebt(id)
<1> DEFINE o == escrow[id]
           e == Approving(o, m)
<1>1. /\ Pending(id) /\ o.is_milestone_based /\ m \in DOMAIN o.milestones
      /\ escrow' = [escrow EXCEPT ![id] = e]
      /\ UNCHANGED <<custodyVars, escrowCount, arbitrators>>
  BY DEF ApproveMilestone
<1>2. Sound(o) /\ o.status = "Pending" /\ OwedBy(o) \in Nat
  BY <1>1, PendingRecord, OwedByType
<1>3. /\ Sound(e) /\ e.token = o.token /\ OwedBy(e) = OwedBy(o)
  BY <1>1, <1>2, ApprovingMilestone
<1>4. e.status = "Pending"
  BY <1>1, <1>2 DEF Approving, Sound, EscrowRecord
<1> HIDE DEF e
<1>5. InWindow(o, e) /\ Replaces(id, e)
  BY <1>1 DEF InWindow, Replaces
<1> QED
  BY <1>1, <1>2, <1>3, <1>4, <1>5, CallWithoutPayment

LEMMA RaiseDisputePays ==
    ASSUME EscrowInv, NEW id \in EscrowIds, NEW a, RaiseDispute(id, a)
    PROVE  PaysDebt(id)
<1> DEFINE o == escrow[id]
           e == [o EXCEPT !.disputed = TRUE]
<1>1. /\ Pending(id) /\ o.arbitrator # Nobody
      /\ escrow' = [escrow EXCEPT ![id].disputed = TRUE]
      /\ UNCHANGED <<custodyVars, escrowCount, arbitrators>>
  BY DEF RaiseDispute
<1>2. Sound(o) /\ o \in EscrowRecord /\ o.status = "Pending" /\ OwedBy(o) \in Nat
      /\ DOMAIN escrow = EscrowIds
  BY <1>1, PendingRecord, OwedByType
<1>3. escrow' = [escrow EXCEPT ![id] = e]
  BY <1>1, <1>2
<1>4. /\ Sound(e) /\ e.token = o.token /\ e.status = "Pending" /\ e.amount = o.amount
      /\ e.is_milestone_based = o.is_milestone_based /\ e.milestones = o.milestones
  BY <1>1, <1>2 DEF Sound, EscrowRecord
<1> HIDE DEF e
<1>5. OwedBy(e) = OwedBy(o)
  BY <1>2, <1>4 DEF OwedBy, UnclaimedAmount
<1>6. InWindow(o, e) /\ Replaces(id, e)
  BY <1>1, <1>3, <1>4 DEF InWindow, Replaces
<1> QED
  BY <1>1, <1>2, <1>4, <1>5, <1>6, CallWithoutPayment

LEMMA ResolvePays ==
    ASSUME EscrowInv, NEW id \in EscrowIds, NEW a \in Accounts,
           NEW resolution \in {"release", "refund", "split"}, NEW amount \in Amounts,
           ResolveDispute(id, a, resolution, amount)
    PROVE  PaysLess(id) /\ (ReleasesInFull => PaysDebt(id))
<1> DEFINE o == escrow[id]
           e == [[o EXCEPT !.status = "Released"] EXCEPT !.disputed = FALSE]
           n == IF resolution = "release" THEN amount ELSE o.amount
<1>1. /\ Pending(id) /\ o.disputed
      /\ DecreaseLocked(o.token, n) /\ RawTransferOut(o.token, n)
      /\ escrow' = [escrow EXCEPT ![id].status = "Released", ![id].disputed = FALSE]
      /\ UNCHANGED <<paused, ledger, escrowCount, arbitrators>>
  BY DEF ResolveDispute
<1>2. Sound(o) /\ o \in EscrowRecord /\ o.status = "Pending" /\ o.amount \in Nat
      /\ DOMAIN escrow = EscrowIds /\ id < escrowCount /\ o.token \in Tokens /\ CustodyTypeOK
  BY <1>1, PendingRecord
<1>3. escrow' = [escrow EXCEPT ![id] = e]
  BY <1>1, <1>2 DEF EscrowRecord
<1>4. /\ ~o.is_milestone_based /\ OwedBy(o) = o.amount
      /\ Sound(e) /\ e.token = o.token /\ e.status = "Released" /\ OwedBy(e) = 0
      /\ ~e.is_milestone_based
  BY <1>1, <1>2 DEF Sound, EscrowRecord, OwedBy
<1>5. n \in Nat /\ n <= o.amount
  BY <1>2 DEF ResolveDispute
<1>6. ReleasesInFull => n = o.amount
  BY DEF ReleasesInFull
<1> HIDE DEF e, n
<1>7. InWindow(o, e) /\ Replaces(id, e)
  BY <1>1, <1>2, <1>3 DEF InWindow, Replaces
<1>8. CustodyTypeOK' /\ Moves(e.token, -n)
  BY <1>1, <1>2, <1>4, <1>5, Payment
<1>9. Called(id, e, n)
  BY <1>2, <1>4, <1>7, <1>8 DEF Called
<1>10. OwedBy(e) + n <= OwedBy(o) /\ (ReleasesInFull => OwedBy(e) + n = OwedBy(o))
  BY <1>2, <1>4, <1>5, <1>6
<1> QED
  BY <1>5, <1>9, <1>10 DEF PaysLess, PaysDebt

-----------------------------------------------------------------------------
(***************************************************************************)
(* The batch calls.                                                        *)
(***************************************************************************)
\* The ids that a batch call settles, and when it may.
Settled(ids, status) ==
    /\ ids \in SUBSET EscrowIds
    /\ \A id \in ids : /\ id < escrowCount /\ escrow[id].status = "Pending"
                       /\ status = "Released" => ledger >= escrow[id].release_ledger
                       /\ status = "Cancelled" => ledger < escrow[id].release_ledger
    /\ status \in {"Released", "Cancelled"}
    /\ SettleAll(ids, status)

PaidIn(ids, t) == Total(OfToken([id \in ids |-> escrow[id].amount],
                                [id \in ids |-> escrow[id].token], t))

LEMMA BatchClaimSettles ==
    ASSUME EscrowInv, NEW ids \in BatchIds, BatchClaimEscrow(ids)
    PROVE  Settled({id \in ids : Pending(id) /\ ledger >= escrow[id].release_ledger}, "Released")
<1>1. ids \in SUBSET EscrowIds
  BY EscrowLimitsAssumption DEF EscrowIds
<1>2. ledger \in Nat /\ \A id \in ids : Pending(id) => escrow[id].release_ledger \in Nat
  BY <1>1, PendingRecord, InvIsParts DEF EscrowRecord, EscrowParts, CustodyTypeOK
<1> QED
  BY <1>1, <1>2 DEF BatchClaimEscrow, Settled, Pending, Exists

LEMMA BatchCancelSettles ==
    ASSUME EscrowInv, NEW ids \in BatchIds, BatchCancelEscrow(ids)
    PROVE  Settled({id \in ids : Pending(id) /\ ledger < escrow[id].release_ledger}, "Cancelled")
<1>1. ids \in SUBSET EscrowIds
  BY EscrowLimitsAssumption DEF EscrowIds
<1>2. ledger \in Nat /\ \A id \in ids : Pending(id) => escrow[id].release_ledger \in Nat
  BY <1>1, PendingRecord, InvIsParts DEF EscrowRecord, EscrowParts, CustodyTypeOK
<1> QED
  BY <1>1, <1>2 DEF BatchCancelEscrow, Settled, Pending, Exists

LEMMA SettledRecords ==
    ASSUME EscrowInv, NEW ids, NEW status, Settled(ids, status)
    PROVE  /\ escrowCount' = escrowCount
           /\ \A t \in Tokens : PaidIn(ids, t) \in Nat
           /\ \A t \in Tokens : /\ balance'[t] = balance[t] - PaidIn(ids, t)
                                /\ locked'[t] = locked[t] - PaidIn(ids, t)
           /\ \A id \in ids : /\ Sound(escrow'[id]) /\ escrow'[id].status = status
                              /\ escrow'[id].token = escrow[id].token
                              /\ escrow'[id].amount = escrow[id].amount
                              /\ escrow'[id].is_milestone_based = escrow[id].is_milestone_based
           /\ \A id \in EscrowIds \ ids : escrow'[id] = escrow[id]
           /\ EscrowInv'
<1> DEFINE amounts == [id \in ids |-> escrow[id].amount]
           tokens == [id \in ids |-> escrow[id].token]
           paid == [t \in Tokens |-> Total(OfToken(amounts, tokens, t))]
<1>1. EscrowParts /\ ids \in SUBSET EscrowIds /\ status \in {"Released", "Cancelled"}
      /\ \A id \in ids : id < escrowCount /\ escrow[id].status = "Pending"
  BY InvIsParts DEF Settled
<1>2. \A id \in ids : Sound(escrow[id]) /\ escrow[id] \in EscrowRecord
  BY <1>1 DEF EscrowParts, Sound
<1>3. IsFiniteSet(ids) /\ amounts \in [ids -> Nat]
  BY <1>1, <1>2, EscrowNumbers, FS_Subset DEF EscrowRecord
<1>4. \A t \in Tokens : PaidIn(ids, t) \in Nat /\ paid[t] = PaidIn(ids, t)
  BY <1>3, OwedTotalType DEF PaidIn
<1>5. /\ escrow' = [id \in EscrowIds |-> IF id \in ids THEN [escrow[id] EXCEPT !.status = status]
                                                       ELSE escrow[id]]
      /\ locked' = [t \in Tokens |-> locked[t] - paid[t]]
      /\ TransferOutAll(paid)
      /\ UNCHANGED <<paused, ledger, escrowCount, arbitrators>>
  BY DEF Settled, SettleAll
<1>6. paid \in [Tokens -> Nat]
  BY <1>4
<1> HIDE DEF paid, amounts, tokens
<1>7. CustodyTypeOK' /\ \A t \in Tokens : balance'[t] = balance[t] - paid[t]
  BY <1>1, <1>5, <1>6, PaymentOfAll DEF EscrowParts
<1>8. ASSUME NEW id \in ids
      PROVE  /\ Sound(escrow'[id]) /\ escrow'[id].status = status
             /\ escrow'[id].token = escrow[id].token
             /\ escrow'[id].amount = escrow[id].amount
             /\ escrow'[id].is_milestone_based = escrow[id].is_milestone_based
  <2> DEFINE o == escrow[id]
             e == [o EXCEPT !.status = status]
  <2>1. escrow'[id] = e
    BY <1>1, <1>5
  <2>2. Sound(o) /\ o \in EscrowRecord
    BY <1>2
  <2> HIDE DEF o
  <2>3. Sound(e) /\ e.status = status /\ e.token = o.token /\ e.amount = o.amount
        /\ e.is_milestone_based = o.is_milestone_based
    BY <1>1, <2>2 DEF Sound, EscrowRecord
  <2> QED
    BY <2>1, <2>3 DEF o
<1>9. \A id \in EscrowIds \ ids : escrow'[id] = escrow[id]
  BY <1>5
<1>10. EscrowParts'
  <2>1. escrowCount' = escrowCount /\ arbitrators' = arbitrators /\ DOMAIN escrow' = EscrowIds
    BY <1>5
  <2>2. \A id \in EscrowIds : /\ id < escrowCount' => Sound(escrow'[id])
                              /\ ~(id < escrowCount') => escrow'[id] = NoEscrow
    BY <1>1, <1>8, <1>9, <2>1 DEF EscrowParts
  <2> QED
    BY <1>1, <1>7, <2>1, <2>2 DEF EscrowParts
<1>11. EscrowInv'
  BY <1>10, InvIsParts, PTL
<1> QED
  BY <1>4, <1>5, <1>7, <1>8, <1>9, <1>11

\* The records batch_create_escrow writes: ids is the range of new numbers,
\* valid the accepted items in the order of the call.
BatchOpens(t, ids, valid, inputs) ==
    /\ inputs \in Batches /\ t \in Tokens
    /\ IsFiniteSet(valid) /\ valid \subseteq DOMAIN inputs
    /\ \A i \in valid : inputs[i].amount \in Nat
    /\ ids = escrowCount .. escrowCount + Cardinality(valid) - 1
    /\ ids \subseteq EscrowIds
    /\ [id \in ids |-> Nth(valid, id - escrowCount)] \in Bijection(ids, valid)
    /\ escrowCount' = escrowCount + Cardinality(valid)
    /\ \A id \in EscrowIds \ ids : escrow'[id] = escrow[id]
    /\ \A id \in ids : /\ Sound(escrow'[id]) /\ escrow'[id].status = "Pending"
                       /\ escrow'[id].token = t
                       /\ escrow'[id].amount = inputs[Nth(valid, id - escrowCount)].amount
                       /\ OwedBy(escrow'[id]) = escrow'[id].amount
    /\ Moves(t, Total([i \in valid |-> inputs[i].amount]))

LEMMA BatchCreateOpens ==
    ASSUME EscrowInv, NEW t \in Tokens, NEW from \in Accounts, NEW inputs \in Batches,
           BatchCreateEscrow(t, from, inputs)
    PROVE  EscrowInv' /\ \E ids, valid : BatchOpens(t, ids, valid, inputs)
<1> DEFINE Passes(i) == /\ inputs[i].to # from
                        /\ SizeOk(inputs[i].amount)
                        /\ ReleaseOk(inputs[i].release_ledger)
           Earlier(i) == {j \in DOMAIN inputs : /\ j < i /\ Passes(j)
                                                /\ inputs[j].to = inputs[i].to}
           valid == {i \in DOMAIN inputs :
                       /\ Passes(i)
                       /\ Cardinality(EscrowByRecipient(inputs[i].to))
                            + Cardinality(Earlier(i)) < MAX_USER_ESCROWS}
           total == Total([i \in valid |-> inputs[i].amount])
           k == Cardinality(valid)
           ids == escrowCount .. escrowCount + k - 1
           Record(i) == NewEscrow(from, inputs[i].to, t, inputs[i].amount,
                                  inputs[i].release_ledger)
<1>1. /\ escrowCount + k <= MaxEscrows
      /\ FundBatch(t, total)
      /\ escrow' = [id \in EscrowIds |->
           IF id \in ids
           THEN LET input == inputs[Nth(valid, id - escrowCount)]
                IN  NewEscrow(from, input.to, t, input.amount, input.release_ledger)
           ELSE escrow[id]]
      /\ escrowCount' = escrowCount + k
      /\ UNCHANGED <<paused, ledger, arbitrators>>
  BY DEF BatchCreateEscrow
<1>2. valid \subseteq DOMAIN inputs /\ \A i \in valid : SizeOk(inputs[i].amount)
  OBVIOUS
<1> HIDE DEF valid
<1>3. /\ DOMAIN inputs = 1 .. Len(inputs) /\ Len(inputs) \in Nat
      /\ \A i \in DOMAIN inputs : inputs[i] \in [to : Accounts, amount : Int, release_ledger : Nat]
  BY EscrowAmountsAssumption, LenProperties, ElementOfSeq
<1>4. IsFiniteSet(valid) /\ valid \in SUBSET Int /\ k \in Nat
  <2>1. IsFiniteSet(1 .. Len(inputs))
    BY <1>3, FS_Interval
  <2>2. valid \in SUBSET (1 .. Len(inputs))
    BY <1>2, <1>3
  <2>3. IsFiniteSet(valid)
    BY <2>1, <2>2, FS_Subset
  <2> QED
    BY <2>2, <2>3, FS_CardinalityType
<1>5. \A i \in valid : /\ inputs[i].amount \in Nat /\ inputs[i].to \in Accounts
                       /\ inputs[i].release_ledger \in Nat
  BY <1>2, <1>3, EscrowNumbers DEF SizeOk
<1>6. EscrowParts /\ escrowCount \in Nat
  BY InvIsParts, EscrowNumbers DEF EscrowParts
<1>7. [id \in ids |-> Nth(valid, id - escrowCount)] \in Bijection(ids, valid)
  BY <1>4, <1>6, ItemsInOrder
<1>8. ids \subseteq EscrowIds
  BY <1>1, <1>4, <1>6, EscrowNumbers DEF EscrowIds
<1>9. \A id \in ids : Nth(valid, id - escrowCount) \in valid
  BY <1>7 DEF Bijection, Injection
<1>10. ASSUME NEW id \in ids
       PROVE  /\ Sound(escrow'[id]) /\ escrow'[id].status = "Pending"
              /\ escrow'[id].token = t
              /\ escrow'[id].amount = inputs[Nth(valid, id - escrowCount)].amount
              /\ OwedBy(escrow'[id]) = escrow'[id].amount
  <2> DEFINE i == Nth(valid, id - escrowCount)
  <2>1. escrow'[id] = Record(i)
    BY <1>1, <1>8
  <2>2. i \in valid
    BY <1>9
  <2> HIDE DEF i
  <2>3. /\ inputs[i].to \in Accounts /\ inputs[i].amount \in Nat
        /\ inputs[i].release_ledger \in Nat
    BY <1>5, <2>2
  <2>4. /\ Sound(Record(i)) /\ Record(i).status = "Pending" /\ Record(i).token = t
        /\ Record(i).amount = inputs[i].amount /\ OwedBy(Record(i)) = inputs[i].amount
    BY <2>3, NewRecord
  <2> QED
    BY <2>1, <2>4 DEF i
<1>11. \A id \in EscrowIds \ ids : escrow'[id] = escrow[id]
  BY <1>1
<1>12. CustodyTypeOK' /\ Moves(t, total)
  <2>1. [i \in valid |-> inputs[i].amount] \in [valid -> Nat]
    BY <1>5
  <2>2. total \in Nat
    BY <1>4, <2>1, TotalType
  <2> QED
    BY <1>1, <1>6, <2>2, Deposit DEF FundBatch, EscrowParts
<1>13. EscrowParts'
  <2>1. /\ escrowCount' = escrowCount + k /\ escrowCount' \in 0 .. MaxEscrows
        /\ DOMAIN escrow' = EscrowIds /\ arbitrators' \in SUBSET Accounts
    BY <1>1, <1>4, <1>6, EscrowNumbers DEF EscrowParts
  <2>2. ASSUME NEW id \in EscrowIds
        PROVE  /\ id < escrowCount' => Sound(escrow'[id])
               /\ ~(id < escrowCount') => escrow'[id] = NoEscrow
    <3>1. CASE id \in ids
      <4>1. id < escrowCount'
        BY <1>4, <1>6, <2>1, <3>1
      <4> QED
        BY <1>10, <3>1, <4>1
    <3>2. CASE id \notin ids
      <4>1. id < escrowCount' <=> id < escrowCount
        BY <1>4, <1>6, <2>1, <3>2, EscrowNumbers
      <4> QED
        BY <1>6, <1>11, <3>2, <4>1 DEF EscrowParts
    <3> QED
      BY <3>1, <3>2
  <2> QED
    BY <1>12, <2>1, <2>2 DEF EscrowParts
<1>14. EscrowInv'
  BY <1>13, InvIsParts, PTL
<1>15. BatchOpens(t, ids, valid, inputs)
  BY <1>1, <1>2, <1>4, <1>5, <1>7, <1>8, <1>10, <1>11, <1>12 DEF BatchOpens
<1> QED
  BY <1>14, <1>15

-----------------------------------------------------------------------------
(***************************************************************************)
(* The kinds of step there are.                                            *)
(***************************************************************************)
OpensOne ==
    \E e : /\ Opened(e) /\ OwedBy(e) <= e.amount
           /\ PlansAreFresh => OwedBy(e) = e.amount

OpensMany == \E t, ids, valid, inputs : BatchOpens(t, ids, valid, inputs) /\ EscrowInv'

SettlesOne(id) == PaysLess(id) /\ (ReleasesInFull => PaysDebt(id))

SettlesMany(ids, status) ==
    /\ Settled(ids, status)
    /\ status = "Released" => \E all \in BatchIds : ids \subseteq all /\ BatchClaimEscrow(all)

TouchesNone ==
    /\ UNCHANGED <<escrow, escrowCount>> /\ arbitrators' \in SUBSET Accounts
    /\ CustodyTypeOK' /\ locked' = locked
    /\ \A t \in Tokens : balance'[t] >= balance[t]

LEMMA DebtIsLess ==
    ASSUME EscrowInv, NEW id \in EscrowIds, PaysDebt(id)
    PROVE  SettlesOne(id)
<1>1. PICK e, n : n \in Nat /\ Called(id, e, n) /\ OwedBy(e) + n = OwedBy(escrow[id])
  BY DEF PaysDebt
<1>2. OwedBy(e) + n <= OwedBy(escrow[id])
  BY <1>1, OwedByType DEF Called
<1>3. PaysLess(id)
  BY <1>1, <1>2 DEF PaysLess
<1> QED
  BY <1>3 DEF SettlesOne

LEMMA KindsOfStep ==
    ASSUME EscrowInv, [Next]_vars
    PROVE  \/ OpensOne \/ OpensMany \/ TouchesNone
           \/ \E id \in EscrowIds : SettlesOne(id)
           \/ \E ids, status : SettlesMany(ids, status)
<1>1. ASSUME NEW t \in Tokens, NEW from \in Accounts, NEW to \in Accounts,
             NEW amount \in Amounts, NEW l \in Releases,
             \/ CreateEscrow(t, from, to, amount, l)
             \/ \E a \in Accounts : CreateDisputableEscrow(t, from, to, amount, l, a)
      PROVE  OpensOne
  <2>1. PICK e : Opened(e) /\ OwedBy(e) = e.amount
    BY <1>1, CreateOpens, CreateDisputableOpens
  <2>2. OwedBy(e) <= e.amount
    BY <2>1, OwedByType DEF Opened
  <2> QED
    BY <2>1, <2>2 DEF OpensOne
<1>2. ASSUME NEW t \in Tokens, NEW from \in Accounts, NEW to \in Accounts,
             NEW agent \in Accounts, NEW plan \in Plans,
             CreateMilestoneEscrow(t, from, to, agent, plan)
      PROVE  OpensOne
  BY <1>2, CreateMilestoneOpens DEF OpensOne
<1>3. ASSUME NEW t \in Tokens, NEW from \in Accounts, NEW inputs \in Batches,
             BatchCreateEscrow(t, from, inputs)
      PROVE  OpensMany
  BY <1>3, BatchCreateOpens DEF OpensMany
<1>4. ASSUME NEW id \in EscrowIds,
             \/ ClaimEscrow(id) \/ CancelEscrow(id)
             \/ \E amount \in Amounts : ClaimEscrowPartial(id, amount)
             \/ \E m \in 1 .. MAX_MILESTONES :
                  ClaimMilestone(id, m) \/ \E a \in Accounts : ApproveMilestone(id, m, a)
             \/ \E a \in Accounts : RaiseDispute(id, a)
      PROVE  SettlesOne(id)
  <2>1. PaysDebt(id)
    BY <1>4, ClaimPays, CancelPays, PartialClaimPays, ClaimMilestonePays, ApproveMilestonePays,
       RaiseDisputePays
  <2> QED
    BY <2>1, DebtIsLess
<1>5. ASSUME NEW id \in EscrowIds, NEW a \in Accounts, NEW amount \in Amounts,
             NEW resolution \in {"release", "refund", "split"},
             ResolveDispute(id, a, resolution, amount)
      PROVE  SettlesOne(id)
  BY <1>5, ResolvePays DEF SettlesOne
<1>6. ASSUME NEW ids \in BatchIds, BatchClaimEscrow(ids)
      PROVE  \E some, status : SettlesMany(some, status)
  <2> DEFINE some == {id \in ids : Pending(id) /\ ledger >= escrow[id].release_ledger}
  <2>1. Settled(some, "Released") /\ some \subseteq ids
    BY <1>6, BatchClaimSettles
  <2> HIDE DEF some
  <2>2. SettlesMany(some, "Released")
    BY <1>6, <2>1 DEF SettlesMany
  <2> QED
    BY <2>2
<1>7. ASSUME NEW ids \in BatchIds, BatchCancelEscrow(ids)
      PROVE  \E some, status : SettlesMany(some, status)
  <2> DEFINE some == {id \in ids : Pending(id) /\ ledger < escrow[id].release_ledger}
  <2>1. Settled(some, "Cancelled")
    BY <1>7, BatchCancelSettles
  <2> HIDE DEF some
  <2>2. SettlesMany(some, "Cancelled")
    BY <2>1 DEF SettlesMany
  <2> QED
    BY <2>2
<1>8. EscrowParts
  BY InvIsParts
<1>9. ASSUME NEW a \in ArbitratorPool, AddArbitrator(a) \/ RemoveArbitrator(a)
      PROVE  TouchesNone
  <2>1. UNCHANGED <<custodyVars, escrow, escrowCount>> /\ arbitrators' \in SUBSET Accounts
    BY <1>8, <1>9, EscrowAmountsAssumption DEF AddArbitrator, RemoveArbitrator, EscrowParts
  <2> QED
    BY <1>8, <2>1 DEF TouchesNone, EscrowParts, CustodyTypeOK, custodyVars
<1>10. CASE CustodyNext /\ UNCHANGED escrowVars
  <2>1. /\ CustodyTypeOK' /\ locked' = locked
        /\ \A t \in Tokens : balance'[t] >= balance[t]
    BY <1>8, <1>10, SurroundingsKeepCustody DEF EscrowParts
  <2> QED
    BY <1>8, <1>10, <2>1 DEF TouchesNone, EscrowParts, escrowVars
<1>11. CASE UNCHANGED vars
  BY <1>8, <1>11 DEF TouchesNone, EscrowParts, CustodyTypeOK, vars, custodyVars, escrowVars
<1>12. CASE EscrowNext
  BY <1>1, <1>2, <1>3, <1>4, <1>5, <1>6, <1>7, <1>9, <1>12 DEF EscrowNext, OtherCalls
<1> QED
  BY <1>10, <1>11, <1>12 DEF Next

-----------------------------------------------------------------------------
(***************************************************************************)
(* The invariant.                                                          *)
(***************************************************************************)
LEMMA EscrowInitially == Init => EscrowInv
<1> SUFFICES ASSUME Init PROVE EscrowInv
  OBVIOUS
<1>1. CustodyTypeOK
  <2>1. 0 \in Nat /\ 1 \in Nat /\ 0 \in Int /\ NoCache \in Nat \cup {NoCache}
    OBVIOUS
  <2>2. balance \in [Tokens -> Nat] /\ locked \in [Tokens -> Int]
    BY <2>1 DEF Init, CustodyInit
  <2>3. cached \in [Tokens -> Nat \cup {NoCache}]
    BY <2>1 DEF Init, CustodyInit
  <2>4. paused \in BOOLEAN /\ ledger \in Nat
    BY <2>1 DEF Init, CustodyInit
  <2> QED
    BY <2>2, <2>3, <2>4 DEF CustodyTypeOK
<1>2. /\ escrowCount = 0 /\ escrowCount \in 0 .. MaxEscrows
      /\ DOMAIN escrow = EscrowIds /\ arbitrators \in SUBSET Accounts
  BY EscrowNumbers DEF Init
<1>3. \A id \in EscrowIds : ~(id < escrowCount) /\ escrow[id] = NoEscrow
  BY <1>2, EscrowNumbers DEF Init
<1>4. EscrowParts
  BY <1>1, <1>2, <1>3 DEF EscrowParts
<1> QED
  BY <1>4, InvIsParts

LEMMA EscrowStep ==
    ASSUME EscrowInv, [Next]_vars
    PROVE  EscrowInv'
<1>1. ASSUME OpensOne PROVE EscrowInv'
  BY <1>1, OpeningKeepsInv DEF OpensOne, Opened
<1>2. ASSUME NEW id \in EscrowIds, SettlesOne(id) PROVE EscrowInv'
  BY <1>2, ReplacingKeepsInv DEF SettlesOne, PaysLess, Called
<1>3. ASSUME NEW ids, NEW status, SettlesMany(ids, status) PROVE EscrowInv'
  BY <1>3, SettledRecords DEF SettlesMany
<1>4. ASSUME TouchesNone PROVE EscrowInv'
  <2>1. EscrowParts
    BY InvIsParts
  <2>2. EscrowParts'
    BY <1>4, <2>1 DEF TouchesNone, EscrowParts
  <2> QED
    BY <2>2, InvIsParts, PTL
<1> QED
  BY <1>1, <1>2, <1>3, <1>4, KindsOfStep DEF OpensMany

LEMMA EscrowInvariant == Spec => []EscrowInv
<1>1. Init => EscrowInv
  BY EscrowInitially
<1>2. EscrowInv /\ [Next]_vars => EscrowInv'
  BY EscrowStep
<1> QED
  BY <1>1, <1>2, PTL DEF Spec

-----------------------------------------------------------------------------
(***************************************************************************)
(* What a step does to one record that exists.                             *)
(***************************************************************************)
LEMMA SettledRecordStays ==
    ASSUME EscrowInv, [Next]_vars, NEW id \in EscrowIds, Exists(id)
    PROVE  /\ ~Pending(id) => escrow'[id] = escrow[id]
           /\ Pending(id) => InWindow(escrow[id], escrow'[id])
<1>0. EscrowParts /\ id < escrowCount /\ escrowCount \in Nat
  BY InvIsParts, EscrowNumbers DEF EscrowParts, Exists
<1>1. ASSUME escrow'[id] = escrow[id]
      PROVE  Pending(id) => InWindow(escrow[id], escrow'[id])
  BY <1>1 DEF InWindow, Pending
<1>2. CASE OpensOne
  <2>1. escrow'[id] = escrow[id]
    BY <1>0, <1>2, EscrowNumbers DEF OpensOne, Opened, Opens, EscrowParts
  <2> QED
    BY <1>1, <2>1
<1>3. CASE OpensMany
  <2>1. escrow'[id] = escrow[id]
    BY <1>0, <1>3, EscrowNumbers DEF OpensMany, BatchOpens
  <2> QED
    BY <1>1, <2>1
<1>4. CASE TouchesNone
  <2>1. escrow'[id] = escrow[id]
    BY <1>4 DEF TouchesNone
  <2> QED
    BY <1>1, <2>1
<1>5. ASSUME NEW i \in EscrowIds, SettlesOne(i)
      PROVE  /\ ~Pending(id) => escrow'[id] = escrow[id]
             /\ Pending(id) => InWindow(escrow[id], escrow'[id])
  <2>1. PICK e, n : Called(i, e, n)
    BY <1>5 DEF SettlesOne, PaysLess
  <2>2. escrow'[id] = IF id = i THEN e ELSE escrow[id]
    BY <1>0, <2>1 DEF Called, Replaces, EscrowParts
  <2>3. CASE id = i
    BY <1>0, <2>1, <2>2, <2>3 DEF Called, Pending, Exists
  <2>4. CASE id # i
    BY <1>1, <2>2, <2>4
  <2> QED
    BY <2>3, <2>4
<1>6. ASSUME NEW ids, NEW status, SettlesMany(ids, status)
      PROVE  /\ ~Pending(id) => escrow'[id] = escrow[id]
             /\ Pending(id) => InWindow(escrow[id], escrow'[id])
  <2>1. Settled(ids, status)
    BY <1>6 DEF SettlesMany
  <2>2. CASE id \in ids
    <3>1. escrow'[id].status = status /\ escrow'[id].amount = escrow[id].amount
      BY <2>1, <2>2, SettledRecords
    <3>2. /\ Pending(id)
          /\ status = "Released" => ledger >= escrow[id].release_ledger
          /\ status = "Cancelled" => ledger < escrow[id].release_ledger
      BY <1>0, <2>1, <2>2 DEF Settled, Pending, Exists
    <3> QED
      BY <3>1, <3>2 DEF InWindow
  <2>3. CASE id \notin ids
    BY <1>1, <2>1, <2>3, SettledRecords
  <2> QED
    BY <2>2, <2>3
<1> QED
  BY <1>2, <1>3, <1>4, <1>5, <1>6, KindsOfStep, Zenon

(***************************************************************************)
(* Whatever is claimed, cancelled, batched and disputed in whatever order: *)
(* a settled record never changes again, and until a dispute only the      *)
(* party whose window it is moves the money.                               *)
(***************************************************************************)
THEOREM EscrowsAreSettledOnce == Spec => EscrowsSettleOnce
<1> DEFINE Windows ==
             \A id \in EscrowIds :
               Pending(id) /\ ~escrow[id].disputed /\ ~escrow[id].is_milestone_based =>
                 /\ escrow'[id].status = "Cancelled" => ledger < escrow[id].release_ledger
                 /\ escrow'[id].status = "Released" => ledger >= escrow[id].release_ledger
                 /\ escrow'[id].amount # escrow[id].amount =>
                      ledger >= escrow[id].release_ledger
           Final == \A id \in EscrowIds : Exists(id) /\ ~Pending(id) => escrow'[id] = escrow[id]
<1>1. EscrowInv /\ [Next]_vars => [Windows]_vars /\ [Final]_vars
  <2> SUFFICES ASSUME EscrowInv, [Next]_vars PROVE Windows /\ Final
    OBVIOUS
  <2>1. Windows
    BY SettledRecordStays DEF InWindow, Pending
  <2>2. Final
    BY SettledRecordStays
  <2> QED
    BY <2>1, <2>2
<1>2. Spec => []EscrowInv
  BY EscrowInvariant
<1> QED
  BY <1>1, <1>2, PTL DEF Spec, EscrowsSettleOnce, WindowsAreDisjoint, SettledIsFinal

-----------------------------------------------------------------------------
(***************************************************************************)
(* The books: what a step does to the sum of all debts in a token.         *)
(***************************************************************************)
DebtsRecorded ==
    /\ OwedFn \in [EscrowIds -> Nat]
    /\ AssetFn = [id \in EscrowIds |-> escrow[id].token]
    /\ \A id \in EscrowIds : OwedFn[id] = OwedBy(escrow[id])

LEMMA DebtsAreRecorded == EscrowInv => DebtsRecorded
<1> SUFFICES ASSUME EscrowInv PROVE DebtsRecorded
  OBVIOUS
<1>1. EscrowParts
  BY InvIsParts
<1>2. ASSUME NEW id \in EscrowIds PROVE Owed(id) = OwedBy(escrow[id]) /\ Owed(id) \in Nat
  <2>1. CASE id < escrowCount
    <3>1. Sound(escrow[id])
      BY <1>1, <2>1 DEF EscrowParts
    <3>2. OwedBy(escrow[id]) \in Nat
      BY <3>1, OwedByType
    <3>3. Owed(id) = OwedBy(escrow[id])
      BY <2>1 DEF Owed, OwedBy, Pending, Exists
    <3> QED
      BY <3>2, <3>3
  <2>2. CASE ~(id < escrowCount)
    BY <1>1, <2>2 DEF EscrowParts, Owed, OwedBy, Pending, Exists, NoEscrow
  <2> QED
    BY <2>1, <2>2
<1> QED
  BY <1>2 DEF DebtsRecorded, OwedFn, AssetFn

\* The difference between what is locked and what is owed never shrinks (and
\* does not grow either if Exactly), and no more is locked than was received.
NoLoss(u, Exactly) ==
    /\ locked'[u] - OwedIn(u)' >= locked[u] - OwedIn(u)
    /\ Exactly => locked'[u] - OwedIn(u)' = locked[u] - OwedIn(u)
    /\ balance'[u] - locked'[u] >= balance[u] - locked[u]

\* One debt changes by as much as is deposited or paid, or shrinks by more.
LEMMA OneDebtNoLoss ==
    ASSUME EscrowInv, EscrowInv', NEW id \in EscrowIds, NEW t \in Tokens, NEW n \in Int,
           Moves(t, n), \A i \in EscrowIds \ {id} : escrow'[i] = escrow[i],
           escrow'[id].token = t, escrow[id].token = t \/ OwedBy(escrow[id]) = 0,
           OwedBy(escrow'[id]) <= OwedBy(escrow[id]) + n,
           NEW Exactly, Exactly => OwedBy(escrow'[id]) = OwedBy(escrow[id]) + n,
           NEW u \in Tokens
    PROVE  NoLoss(u, Exactly)
<1>1. /\ OwedFn \in [EscrowIds -> Nat] /\ AssetFn = [i \in EscrowIds |-> escrow[i].token]
      /\ \A i \in EscrowIds : OwedFn[i] = OwedBy(escrow[i])
  BY DebtsAreRecorded DEF DebtsRecorded
<1>2. /\ OwedFn' \in [EscrowIds -> Nat] /\ AssetFn' = [i \in EscrowIds |-> escrow'[i].token]
      /\ \A i \in EscrowIds : OwedFn'[i] = OwedBy(escrow'[i])
  <2>1. DebtsRecorded'
    BY DebtsAreRecorded, PTL
  <2> QED
    BY <2>1 DEF DebtsRecorded
<1>3. OneDebt(EscrowIds, OwedFn, OwedFn', AssetFn, AssetFn', id, t)
  BY <1>1, <1>2, EscrowNumbers DEF OneDebt
<1>4. OwedIn(u)' = OwedIn(u) + (IF u = t THEN OwedFn'[id] - OwedFn[id] ELSE 0)
  BY <1>3, OwedMoves DEF OwedIn
<1>5. OwedIn(u) \in Nat
  BY <1>1, EscrowNumbers, OwedTotalType DEF OwedIn
<1>6. locked[u] \in Int /\ balance[u] \in Nat
  BY InvIsParts DEF EscrowParts, CustodyTypeOK
<1>7. OwedFn[id] \in Nat /\ OwedFn'[id] \in Nat
  BY <1>1, <1>2
<1>8. /\ OwedFn'[id] <= OwedFn[id] + n
      /\ Exactly => OwedFn'[id] = OwedFn[id] + n
  BY <1>1, <1>2
<1>9. /\ balance'[u] = balance[u] + (IF u = t THEN n ELSE 0)
      /\ locked'[u] = locked[u] + (IF u = t THEN n ELSE 0)
  BY DEF Moves
<1> QED
  BY <1>4, <1>5, <1>6, <1>7, <1>8, <1>9 DEF NoLoss

\* The debts of a batch are those of its accepted items under new numbers.
LEMMA ManyDebtsNoLoss ==
    ASSUME EscrowInv, EscrowInv', NEW t, NEW ids, NEW valid, NEW inputs,
           BatchOpens(t, ids, valid, inputs), NEW Exactly, NEW u \in Tokens
    PROVE  NoLoss(u, Exactly)
<1> DEFINE amounts == [i \in valid |-> inputs[i].amount]
           item == [id \in ids |-> Nth(valid, id - escrowCount)]
           added == [id \in ids |-> inputs[Nth(valid, id - escrowCount)].amount]
           f == OfToken(OwedFn, AssetFn, u)
           g == OfToken(OwedFn', AssetFn', u)
<1>1. /\ OwedFn \in [EscrowIds -> Nat] /\ AssetFn = [i \in EscrowIds |-> escrow[i].token]
      /\ \A i \in EscrowIds : OwedFn[i] = OwedBy(escrow[i])
  BY DebtsAreRecorded DEF DebtsRecorded
<1>2. /\ OwedFn' \in [EscrowIds -> Nat] /\ AssetFn' = [i \in EscrowIds |-> escrow'[i].token]
      /\ \A i \in EscrowIds : OwedFn'[i] = OwedBy(escrow'[i])
  <2>1. DebtsRecorded'
    BY DebtsAreRecorded, PTL
  <2> QED
    BY <2>1 DEF DebtsRecorded
<1>3. /\ f \in [EscrowIds -> Nat] /\ g \in [EscrowIds -> Nat]
      /\ \A i \in EscrowIds : f[i] = IF AssetFn[i] = u THEN OwedFn[i] ELSE 0
      /\ \A i \in EscrowIds : g[i] = IF AssetFn'[i] = u THEN OwedFn'[i] ELSE 0
  BY <1>1, <1>2, OfTokenType
<1>4. Total(f) \in Nat /\ locked[u] \in Int /\ balance[u] \in Nat
  BY <1>3, EscrowNumbers, TotalType, InvIsParts DEF EscrowParts, CustodyTypeOK
<1>5. /\ IsFiniteSet(valid) /\ \A i \in valid : inputs[i].amount \in Nat
      /\ ids = escrowCount .. escrowCount + Cardinality(valid) - 1 /\ ids \subseteq EscrowIds
      /\ item \in Bijection(ids, valid)
      /\ \A id \in EscrowIds \ ids : escrow'[id] = escrow[id]
      /\ \A id \in ids : /\ escrow'[id].token = t
                         /\ escrow'[id].amount = inputs[Nth(valid, id - escrowCount)].amount
                         /\ OwedBy(escrow'[id]) = escrow'[id].amount
      /\ Moves(t, Total(amounts))
  BY DEF BatchOpens
<1>6. amounts \in [valid -> Nat] /\ Total(amounts) \in Nat
  BY <1>5, TotalType
<1>7. \A id \in ids : item[id] \in valid /\ added[id] = amounts[item[id]]
  BY <1>5 DEF Bijection, Injection
<1>8. added \in [ids -> Nat]
  BY <1>6, <1>7
<1>9. IsFiniteSet(ids)
  BY <1>5, EscrowNumbers, FS_Subset
<1>10. Total(added) = Total(amounts)
  <2> HIDE DEF added, amounts, item
  <2>1. \A id \in ids : added[id] = amounts[item[id]]
    BY <1>7
  <2>2. amounts \in [valid -> Nat] /\ item \in Bijection(ids, valid)
    BY <1>5, <1>6
  <2> QED
    BY <1>8, <1>9, <2>1, <2>2, TotalRenamed
<1>11. \A id \in ids : OwedFn[id] = 0
  <2>1. escrowCount \in Nat /\ \A id \in EscrowIds : ~(id < escrowCount) => escrow[id] = NoEscrow
    BY InvIsParts, EscrowNumbers DEF EscrowParts
  <2>2. \A id \in ids : escrow[id] = NoEscrow
    BY <1>5, <2>1, EscrowNumbers
  <2> QED
    BY <1>1, <1>5, <2>2 DEF OwedBy, NoEscrow
<1>12. /\ \A id \in ids : AssetFn'[id] = t /\ OwedFn'[id] = added[id]
       /\ \A id \in EscrowIds \ ids : AssetFn'[id] = AssetFn[id] /\ OwedFn'[id] = OwedFn[id]
  BY <1>1, <1>2, <1>5
<1> HIDE DEF f, g, added, amounts, item
<1>13. Total(g) = Total(f) + (IF u = t THEN Total(added) ELSE 0)
  <2>1. CASE u = t
    <3>1. /\ \A id \in EscrowIds \ ids : g[id] = f[id]
          /\ \A id \in ids : f[id] = 0 /\ g[id] = added[id]
      BY <1>3, <1>5, <1>11, <1>12, <2>1
    <3>2. ids \in SUBSET EscrowIds /\ IsFiniteSet(EscrowIds)
      BY <1>5, EscrowNumbers
    <3>3. f \in [EscrowIds -> Nat] /\ g \in [EscrowIds -> Nat]
      BY <1>3
    <3>4. Total(g) = Total(f) + Total(added)
      BY <1>8, <3>1, <3>2, <3>3, TotalAdds
    <3> QED
      BY <2>1, <3>4
  <2>2. CASE u # t
    <3>1. \A id \in EscrowIds : g[id] = f[id]
      BY <1>3, <1>5, <1>11, <1>12, <2>2
    <3>2. g = f
      BY <1>3, <3>1
    <3> QED
      BY <1>4, <2>2, <3>2
  <2> QED
    BY <2>1, <2>2
<1>14. OwedIn(u) = Total(f) /\ OwedIn(u)' = Total(g)
  BY DEF OwedIn, f, g
<1>15. /\ balance'[u] = balance[u] + (IF u = t THEN Total(amounts) ELSE 0)
       /\ locked'[u] = locked[u] + (IF u = t THEN Total(amounts) ELSE 0)
  BY <1>5 DEF Moves
<1> QED
  BY <1>4, <1>6, <1>10, <1>13, <1>14, <1>15 DEF NoLoss

\* A batch settlement pays the amounts of its escrows, and each of them owes
\* its amount: cancellations find no milestone escrow (its release_ledger is
\* 0), and claims spare those of which a part was claimed.
LEMMA ManySettledNoLoss ==
    ASSUME EscrowInv, EscrowInv', SparesClaimed, NEW ids, NEW status, SettlesMany(ids, status),
           NEW Exactly, NEW u \in Tokens
    PROVE  NoLoss(u, Exactly)
<1> DEFINE amounts == [id \in ids |-> escrow[id].amount]
           tokens == [id \in ids |-> escrow[id].token]
           f == OfToken(OwedFn', AssetFn', u)
           g == OfToken(OwedFn, AssetFn, u)
           h == OfToken(amounts, tokens, u)
<1>1. /\ OwedFn \in [EscrowIds -> Nat] /\ AssetFn = [i \in EscrowIds |-> escrow[i].token]
      /\ \A i \in EscrowIds : OwedFn[i] = OwedBy(escrow[i])
  BY DebtsAreRecorded DEF DebtsRecorded
<1>2. /\ OwedFn' \in [EscrowIds -> Nat] /\ AssetFn' = [i \in EscrowIds |-> escrow'[i].token]
      /\ \A i \in EscrowIds : OwedFn'[i] = OwedBy(escrow'[i])
  <2>1. DebtsRecorded'
    BY DebtsAreRecorded, PTL
  <2> QED
    BY <2>1 DEF DebtsRecorded
<1>3. EscrowParts
  BY InvIsParts
<1>4. /\ Settled(ids, status) /\ ids \in SUBSET EscrowIds /\ status \in {"Released", "Cancelled"}
      /\ \A id \in ids : /\ id < escrowCount /\ escrow[id].status = "Pending"
                         /\ status = "Cancelled" => ledger < escrow[id].release_ledger
      /\ status = "Released" => \E all \in BatchIds : ids \subseteq all /\ BatchClaimEscrow(all)
  BY DEF SettlesMany, Settled
<1>5. \A id \in ids : Sound(escrow[id]) /\ escrow[id].amount \in Nat
  BY <1>3, <1>4 DEF EscrowParts, Sound, EscrowRecord
<1>6. ASSUME NEW id \in ids PROVE OwedFn[id] = amounts[id]
  <2>1. CASE ~escrow[id].is_milestone_based
    BY <1>1, <1>4, <2>1 DEF OwedBy
  <2>2. CASE escrow[id].is_milestone_based /\ status = "Cancelled"
    <3>1. escrow[id].release_ledger = 0 /\ ledger \in Nat
      BY <1>3, <1>5, <2>2 DEF Sound, EscrowParts, CustodyTypeOK
    <3> QED
      BY <1>4, <2>2, <3>1
  <2>3. CASE escrow[id].is_milestone_based /\ status = "Released"
    <3>1. PICK all \in BatchIds : ids \subseteq all /\ BatchClaimEscrow(all)
      BY <1>4, <2>3
    <3>2. id \in all /\ Pending(id)
      BY <1>4, <3>1 DEF Pending, Exists
    <3>3. UnclaimedAmount(escrow[id]) = escrow[id].amount
      BY <2>3, <3>1, <3>2 DEF SparesClaimed
    <3> QED
      BY <1>1, <1>4, <2>3, <3>3 DEF OwedBy
  <2> QED
    BY <1>4, <2>1, <2>2, <2>3
<1>7. /\ \A id \in ids : escrow'[id].status = status /\ escrow'[id].token = escrow[id].token
      /\ \A id \in EscrowIds \ ids : escrow'[id] = escrow[id]
      /\ PaidIn(ids, u) \in Nat
      /\ balance'[u] = balance[u] - PaidIn(ids, u) /\ locked'[u] = locked[u] - PaidIn(ids, u)
  BY <1>4, SettledRecords
<1>8. /\ \A id \in ids : OwedFn'[id] = 0 /\ AssetFn'[id] = AssetFn[id] /\ tokens[id] = AssetFn[id]
      /\ \A id \in EscrowIds \ ids : AssetFn'[id] = AssetFn[id] /\ OwedFn'[id] = OwedFn[id]
  BY <1>1, <1>2, <1>4, <1>7 DEF OwedBy
<1>9. amounts \in [ids -> Nat]
  BY <1>5
<1> HIDE DEF amounts, tokens
<1>10. /\ f \in [EscrowIds -> Nat] /\ g \in [EscrowIds -> Nat] /\ h \in [ids -> Nat]
       /\ \A i \in EscrowIds : f[i] = IF AssetFn'[i] = u THEN OwedFn'[i] ELSE 0
       /\ \A i \in EscrowIds : g[i] = IF AssetFn[i] = u THEN OwedFn[i] ELSE 0
       /\ \A i \in ids : h[i] = IF tokens[i] = u THEN amounts[i] ELSE 0
  BY <1>1, <1>2, <1>9, OfTokenType
<1> HIDE DEF f, g, h
<1>11. /\ \A id \in EscrowIds \ ids : g[id] = f[id]
       /\ \A id \in ids : f[id] = 0 /\ g[id] = h[id]
  BY <1>4, <1>6, <1>8, <1>10
<1>12. Total(g) = Total(f) + Total(h)
  BY <1>4, <1>10, <1>11, EscrowNumbers, TotalAdds
<1>13. /\ OwedIn(u) = Total(g) /\ OwedIn(u)' = Total(f) /\ PaidIn(ids, u) = Total(h)
  BY DEF OwedIn, PaidIn, f, g, h, amounts, tokens
<1>14. Total(f) \in Nat /\ locked[u] \in Int /\ balance[u] \in Nat
  BY <1>3, <1>10, EscrowNumbers, TotalType DEF EscrowParts, CustodyTypeOK
<1> QED
  BY <1>7, <1>12, <1>13, <1>14 DEF NoLoss

\* Nothing that is not owed is paid, whatever the step, unless a batch claim
\* takes a milestone escrow of which a part was claimed.
LEMMA BooksStep ==
    ASSUME EscrowInv, EscrowInv', [Next]_vars, SparesClaimed, NEW u \in Tokens,
           NEW Exactly, Exactly => PlansAreFresh /\ ReleasesInFull
    PROVE  NoLoss(u, Exactly)
<1>1. EscrowParts /\ escrowCount \in Nat
  BY InvIsParts, EscrowNumbers DEF EscrowParts
<1>2. CASE OpensOne
  <2>1. PICK e : /\ Opened(e) /\ OwedBy(e) <= e.amount
                 /\ PlansAreFresh => OwedBy(e) = e.amount
    BY <1>2 DEF OpensOne
  <2>2. /\ escrowCount \in EscrowIds /\ escrow' = [escrow EXCEPT ![escrowCount] = e]
        /\ Moves(e.token, e.amount) /\ e.token \in Tokens /\ e.amount \in Nat
    BY <2>1 DEF Opened, Opens, Sound, EscrowRecord
  <2>3. /\ escrow'[escrowCount] = e
        /\ \A i \in EscrowIds \ {escrowCount} : escrow'[i] = escrow[i]
    BY <1>1, <2>2 DEF EscrowParts
  <2>4. OwedBy(escrow[escrowCount]) = 0
    BY <1>1, <2>2 DEF EscrowParts, OwedBy, NoEscrow
  <2>5. /\ OwedBy(escrow'[escrowCount]) <= OwedBy(escrow[escrowCount]) + e.amount
        /\ Exactly => OwedBy(escrow'[escrowCount]) = OwedBy(escrow[escrowCount]) + e.amount
    BY <2>1, <2>2, <2>3, <2>4
  <2>6. e.amount \in Int
    BY <2>2
  <2> QED
    BY <2>2, <2>3, <2>4, <2>5, <2>6, OneDebtNoLoss
<1>3. CASE OpensMany
  BY <1>3, ManyDebtsNoLoss DEF OpensMany
<1>4. ASSUME NEW id \in EscrowIds, SettlesOne(id) PROVE NoLoss(u, Exactly)
  <2>1. PICK e, n : /\ n \in Nat /\ Called(id, e, n)
                    /\ OwedBy(e) + n <= OwedBy(escrow[id])
                    /\ Exactly => OwedBy(e) + n = OwedBy(escrow[id])
    <3>1. CASE ReleasesInFull
      <4>1. PICK e, n : n \in Nat /\ Called(id, e, n) /\ OwedBy(e) + n = OwedBy(escrow[id])
        BY <1>4, <3>1 DEF SettlesOne, PaysDebt
      <4>2. OwedBy(e) + n <= OwedBy(escrow[id])
        BY <4>1, OwedByType DEF Called
      <4> QED
        BY <4>1, <4>2
    <3>2. CASE ~ReleasesInFull
      BY <1>4, <3>2 DEF SettlesOne, PaysLess
    <3> QED
      BY <3>1, <3>2
  <2>2. /\ Sound(e) /\ escrow' = [escrow EXCEPT ![id] = e] /\ id < escrowCount
        /\ e.token = escrow[id].token /\ Moves(e.token, -n) /\ e.token \in Tokens
    BY <2>1 DEF Called, Replaces, Sound, EscrowRecord
  <2>3. escrow'[id] = e /\ \A i \in EscrowIds \ {id} : escrow'[i] = escrow[i]
    BY <1>1, <2>2 DEF EscrowParts
  <2>4. OwedBy(e) \in Nat /\ OwedBy(escrow[id]) \in Nat
    BY <1>1, <2>2, OwedByType DEF EscrowParts
  <2>5. /\ OwedBy(escrow'[id]) <= OwedBy(escrow[id]) + (-n)
        /\ Exactly => OwedBy(escrow'[id]) = OwedBy(escrow[id]) + (-n)
        /\ -n \in Int
    BY <2>1, <2>3, <2>4
  <2> QED
    BY <2>2, <2>3, <2>5, OneDebtNoLoss
<1>5. ASSUME NEW ids, NEW status, SettlesMany(ids, status) PROVE NoLoss(u, Exactly)
  BY <1>5, ManySettledNoLoss
<1>6. CASE TouchesNone
  <2>1. OwedIn(u)' = OwedIn(u)
    BY <1>6 DEF TouchesNone, OwedIn, OwedFn, AssetFn, Owed, Pending, Exists, UnclaimedAmount
  <2>2. OwedIn(u) \in Nat
    BY DebtsAreRecorded, EscrowNumbers, OwedTotalType DEF DebtsRecorded, OwedIn
  <2>3. /\ locked[u] \in Int /\ balance[u] \in Nat /\ balance'[u] \in Nat
        /\ locked'[u] = locked[u] /\ balance'[u] >= balance[u]
    BY <1>1, <1>6 DEF TouchesNone, EscrowParts, CustodyTypeOK
  <2> QED
    BY <2>1, <2>2, <2>3 DEF NoLoss
<1> QED
  BY <1>2, <1>3, <1>4, <1>5, <1>6, KindsOfStep

(***************************************************************************)
(* No token is locked that was not received, and as much is locked as is   *)
(* owed.                                                                   *)
(***************************************************************************)
DebtsAreLocked ==
    \A t \in Tokens : OwedIn(t) <= locked[t] /\ locked[t] <= balance[t]

BookNumbers ==
    \A t \in Tokens : OwedIn(t) \in Nat /\ locked[t] \in Int /\ balance[t] \in Nat

LEMMA BooksAreNumbers == EscrowInv => BookNumbers
BY DebtsAreRecorded, EscrowNumbers, OwedTotalType, InvIsParts
   DEF DebtsRecorded, OwedIn, EscrowParts, CustodyTypeOK, BookNumbers

LEMMA NothingOwedAtFirst ==
    ASSUME Init, NEW t \in Tokens
    PROVE  OwedIn(t) = 0 /\ locked[t] = 0 /\ balance[t] = 0
<1>1. \A id \in EscrowIds : Owed(id) = 0
  BY EscrowNumbers DEF Init, Owed, Pending, Exists
<1>2. OwedFn \in [EscrowIds -> Nat] /\ \A id \in EscrowIds : OwedFn[id] = 0
  BY <1>1 DEF OwedFn
<1>3. /\ OfToken(OwedFn, AssetFn, t) \in [EscrowIds -> Nat]
      /\ \A id \in EscrowIds : OfToken(OwedFn, AssetFn, t)[id] = 0
  BY <1>2, OfTokenType
<1>4. OwedIn(t) = 0
  BY <1>3, TotalZero DEF OwedIn
<1> QED
  BY <1>4 DEF Init, CustodyInit

LEMMA DebtsAreLockedAtFirst == Init => DebtsAreLocked
<1> SUFFICES ASSUME Init, NEW t \in Tokens
             PROVE  OwedIn(t) <= locked[t] /\ locked[t] <= balance[t]
  BY DEF DebtsAreLocked
<1>1. OwedIn(t) = 0 /\ locked[t] = 0 /\ balance[t] = 0
  BY NothingOwedAtFirst
<1> QED
  BY <1>1

LEMMA DebtsStayLocked ==
    ASSUME EscrowInv, EscrowInv', [Next]_vars, SparesClaimed, DebtsAreLocked
    PROVE  DebtsAreLocked'
<1> SUFFICES ASSUME NEW t \in Tokens
             PROVE  OwedIn(t)' <= locked'[t] /\ locked'[t] <= balance'[t]
  BY DEF DebtsAreLocked
<1>1. NoLoss(t, FALSE)
  BY BooksStep
<1>2. OwedIn(t) <= locked[t] /\ locked[t] <= balance[t]
  BY DEF DebtsAreLocked
<1>3. BookNumbers /\ BookNumbers'
  BY BooksAreNumbers, PTL
<1> QED
  BY <1>1, <1>2, <1>3 DEF NoLoss, BookNumbers

LEMMA DebtsUntouched ==
    ASSUME DebtsAreLocked, UNCHANGED vars
    PROVE  DebtsAreLocked'
BY DEF DebtsAreLocked, OwedIn, OwedFn, AssetFn, Owed, Pending, Exists, UnclaimedAmount,
       vars, custodyVars, escrowVars

(***************************************************************************)
(* As long as batch_claim_escrow is not called on a milestone escrow of    *)
(* which a part was claimed (it would pay that part twice), the contract   *)
(* has locked, and holds, what every pending escrow still owes: partial    *)
(* claims, disputes, batches and milestones stored as claimed included.    *)
(***************************************************************************)
THEOREM EscrowsCanBePaid == Spec /\ [][SparesClaimed]_vars => []EscrowBooksBalance
<1>1. Init => DebtsAreLocked
  BY DebtsAreLockedAtFirst
<1>2. EscrowInv /\ EscrowInv' /\ DebtsAreLocked /\ [Next]_vars /\ [SparesClaimed]_vars
        => DebtsAreLocked'
  <2> SUFFICES ASSUME EscrowInv, EscrowInv', DebtsAreLocked, [Next]_vars, [SparesClaimed]_vars
               PROVE  DebtsAreLocked'
    OBVIOUS
  <2>1. CASE SparesClaimed
    BY <2>1, DebtsStayLocked
  <2>2. CASE UNCHANGED vars
    BY <2>2, DebtsUntouched
  <2> QED
    BY <2>1, <2>2
<1>3. EscrowInv /\ DebtsAreLocked => EscrowBooksBalance
  <2> SUFFICES ASSUME EscrowInv, DebtsAreLocked PROVE EscrowBooksBalance
    OBVIOUS
  <2>1. ASSUME NEW t \in Tokens PROVE OwedIn(t) <= locked[t] /\ OwedIn(t) <= balance[t]
    BY BooksAreNumbers DEF BookNumbers, DebtsAreLocked
  <2>2. TypeOK
    BY DEF EscrowInv
  <2> QED
    BY <2>1, <2>2 DEF EscrowBooksBalance, EscrowsSolvent, LockedCoversEscrows
<1>4. Spec => []EscrowInv
  BY EscrowInvariant
<1> QED
  BY <1>1, <1>2, <1>3, <1>4, PTL DEF Spec

-----------------------------------------------------------------------------
(***************************************************************************)
(* Exact books.                                                            *)
(***************************************************************************)
LEMMA SparingMilestones ==
    ASSUME SparesMilestones
    PROVE  SparesClaimed
BY DEF SparesMilestones, SparesClaimed

LEMMA LockedStaysOwed ==
    ASSUME EscrowInv, EscrowInv', [Next]_vars, SparesMilestones, ReleasesInFull, PlansAreFresh,
           LockedMatchesOwed
    PROVE  LockedMatchesOwed'
<1> SUFFICES ASSUME NEW t \in Tokens PROVE locked'[t] = OwedIn(t)'
  BY DEF LockedMatchesOwed
<1>1. NoLoss(t, TRUE)
  BY SparingMilestones, BooksStep
<1>2. locked[t] = OwedIn(t)
  BY DEF LockedMatchesOwed
<1>3. BookNumbers /\ BookNumbers'
  BY BooksAreNumbers, PTL
<1> QED
  BY <1>1, <1>2, <1>3 DEF NoLoss, BookNumbers

Completed(e) == e.status = "Released" /\ e.is_milestone_based => Unclaimed(e) = {}

\* Only claim_milestone releases a milestone escrow, with its last milestone:
\* the arbitrator and batch_cancel_escrow never reach one.
LEMMA ReleasesStayComplete ==
    ASSUME EscrowInv, [Next]_vars, SparesMilestones, MilestonesReleaseTheEscrow
    PROVE  MilestonesReleaseTheEscrow'
<1>1. EscrowParts /\ escrowCount \in Nat
  BY InvIsParts, EscrowNumbers DEF EscrowParts
<1>2. \A i \in EscrowIds : i < escrowCount => Completed(escrow[i])
  BY DEF MilestonesReleaseTheEscrow, Completed, Exists
<1> SUFFICES ASSUME NEW id \in EscrowIds, id < escrowCount' PROVE Completed(escrow'[id])
  BY DEF MilestonesReleaseTheEscrow, Completed, Exists, Unclaimed
<1>3. CASE OpensOne
  <2>1. PICK e : Opened(e)
    BY <1>3 DEF OpensOne
  <2>2. /\ escrow' = [escrow EXCEPT ![escrowCount] = e] /\ e.status = "Pending"
        /\ escrowCount' = escrowCount + 1
    BY <2>1 DEF Opened, Opens
  <2>3. CASE id = escrowCount
    BY <1>1, <2>2, <2>3 DEF EscrowParts, Completed
  <2>4. CASE id # escrowCount
    <3>1. id < escrowCount /\ escrow'[id] = escrow[id]
      BY <1>1, <2>2, <2>4, EscrowNumbers DEF EscrowParts
    <3> QED
      BY <1>2, <3>1
  <2> QED
    BY <2>3, <2>4
<1>4. CASE OpensMany
  <2>1. PICK t, ids, valid, inputs : BatchOpens(t, ids, valid, inputs)
    BY <1>4 DEF OpensMany
  <2>2. CASE id \in ids
    BY <2>1, <2>2 DEF BatchOpens, Completed
  <2>3. CASE id \notin ids
    <3>1. Cardinality(valid) \in Nat
      BY <2>1, FS_CardinalityType DEF BatchOpens
    <3>2. id < escrowCount /\ escrow'[id] = escrow[id]
      BY <1>1, <2>1, <2>3, <3>1, EscrowNumbers DEF BatchOpens
    <3> QED
      BY <1>2, <3>2
  <2> QED
    BY <2>2, <2>3
<1>5. ASSUME NEW i \in EscrowIds, SettlesOne(i) PROVE Completed(escrow'[id])
  <2>1. PICK e, n : Called(i, e, n)
    BY <1>5 DEF SettlesOne, PaysLess
  <2>2. /\ escrow' = [escrow EXCEPT ![i] = e] /\ escrowCount' = escrowCount
        /\ Completed(e)
    BY <2>1 DEF Called, Replaces, Completed
  <2> QED
    BY <1>1, <1>2, <2>2 DEF EscrowParts
<1>6. ASSUME NEW ids, NEW status, SettlesMany(ids, status) PROVE Completed(escrow'[id])
  <2>1. /\ Settled(ids, status)
        /\ status = "Released" => \E all \in BatchIds : ids \subseteq all /\ BatchClaimEscrow(all)
    BY <1>6 DEF SettlesMany
  <2>2. /\ escrowCount' = escrowCount
        /\ \A i \in ids : /\ escrow'[i].status = status
                          /\ escrow'[i].is_milestone_based = escrow[i].is_milestone_based
        /\ \A i \in EscrowIds \ ids : escrow'[i] = escrow[i]
    BY <2>1, SettledRecords
  <2>3. CASE id \in ids /\ status = "Released"
    <3>1. PICK all \in BatchIds : ids \subseteq all /\ BatchClaimEscrow(all)
      BY <2>1, <2>3
    <3>2. id \in all /\ Pending(id)
      BY <2>1, <2>3, <3>1 DEF Settled, Pending, Exists
    <3>3. ~escrow[id].is_milestone_based
      BY <3>1, <3>2 DEF SparesMilestones
    <3> QED
      BY <2>2, <2>3, <3>3 DEF Completed
  <2>4. CASE id \in ids /\ status # "Released"
    BY <2>2, <2>4 DEF Completed
  <2>5. CASE id \notin ids
    BY <1>2, <2>2, <2>5
  <2> QED
    BY <2>3, <2>4, <2>5
<1>7. CASE TouchesNone
  BY <1>2, <1>7 DEF TouchesNone
<1> QED
  BY <1>3, <1>4, <1>5, <1>6, <1>7, KindsOfStep

(***************************************************************************)
(* If payers store their milestones as unclaimed, milestone escrows are    *)
(* claimed milestone by milestone and arbitrators release whole escrows,   *)
(* then every token locked is owed by a pending escrow and every token     *)
(* owed is locked; the last milestone claimed, and nothing else, releases  *)
(* an escrow with milestones, and nothing settled moves again.             *)
(***************************************************************************)
THEOREM MilestonesPayExactly ==
    PlansAreFresh /\ Spec /\ [][SparesMilestones /\ ReleasesInFull]_vars => MilestonesAddUp
<1> SUFFICES ASSUME PlansAreFresh
             PROVE  Spec /\ [][SparesMilestones /\ ReleasesInFull]_vars => MilestonesAddUp
  OBVIOUS
<1> DEFINE Exact == LockedMatchesOwed /\ MilestonesReleaseTheEscrow
<1>1. Init => Exact
  <2> SUFFICES ASSUME Init PROVE Exact
    OBVIOUS
  <2>1. LockedMatchesOwed
    BY NothingOwedAtFirst DEF LockedMatchesOwed
  <2>2. MilestonesReleaseTheEscrow
    BY EscrowNumbers DEF Init, MilestonesReleaseTheEscrow, Exists
  <2> QED
    BY <2>1, <2>2
<1>2. EscrowInv /\ EscrowInv' /\ Exact /\ [Next]_vars /\ [SparesMilestones /\ ReleasesInFull]_vars
        => Exact'
  <2> SUFFICES ASSUME EscrowInv, EscrowInv', LockedMatchesOwed, MilestonesReleaseTheEscrow,
                      [Next]_vars, [SparesMilestones /\ ReleasesInFull]_vars
               PROVE  LockedMatchesOwed' /\ MilestonesReleaseTheEscrow'
    OBVIOUS
  <2>1. CASE SparesMilestones /\ ReleasesInFull
    BY <2>1, LockedStaysOwed, ReleasesStayComplete
  <2>2. CASE UNCHANGED vars
    BY <2>2 DEF LockedMatchesOwed, MilestonesReleaseTheEscrow, OwedIn, OwedFn, AssetFn, Owed,
                Pending, Exists, UnclaimedAmount, Unclaimed, vars, custodyVars, escrowVars
  <2> QED
    BY <2>1, <2>2
<1>3. EscrowInv /\ DebtsAreLocked => EscrowsSolvent
  <2> SUFFICES ASSUME EscrowInv, DebtsAreLocked, NEW t \in Tokens
               PROVE  OwedIn(t) <= balance[t]
    BY DEF EscrowsSolvent
  <2> QED
    BY BooksAreNumbers DEF BookNumbers, DebtsAreLocked
<1>4. EscrowInv /\ EscrowInv' /\ DebtsAreLocked /\ [Next]_vars
        /\ [SparesMilestones /\ ReleasesInFull]_vars => DebtsAreLocked'
  <2> SUFFICES ASSUME EscrowInv, EscrowInv', DebtsAreLocked, [Next]_vars,
                      [SparesMilestones /\ ReleasesInFull]_vars
               PROVE  DebtsAreLocked'
    OBVIOUS
  <2>1. CASE SparesMilestones /\ ReleasesInFull
    BY <2>1, SparingMilestones, DebtsStayLocked
  <2>2. CASE UNCHANGED vars
    BY <2>2, DebtsUntouched
  <2> QED
    BY <2>1, <2>2
<1>5. Spec => []EscrowInv
  BY EscrowInvariant
<1>6. Spec => SettledIsFinal
  <2>1. Spec => EscrowsSettleOnce
    BY EscrowsAreSettledOnce
  <2> QED
    BY <2>1, PTL DEF EscrowsSettleOnce
<1>7. Init => DebtsAreLocked
  BY DebtsAreLockedAtFirst
<1> HIDE DEF Exact
<1>8. Spec /\ [][SparesMilestones /\ ReleasesInFull]_vars => [](DebtsAreLocked /\ Exact)
  BY <1>1, <1>2, <1>4, <1>5, <1>7, PTL DEF Spec
<1>9. Exact => LockedMatchesOwed /\ MilestonesReleaseTheEscrow
  BY DEF Exact
<1> QED
  BY <1>3, <1>5, <1>6, <1>8, <1>9, PTL DEF MilestonesAddUp
===============================================================================
