-------------------------------- MODULE Escrow --------------------------------
(***************************************************************************)
(* Escrows of the Finchippay contract (escrow.rs): time-locked escrows     *)
(* with full, partial and batch claims, milestone escrows, and disputable  *)
(* escrows with an arbitrator.                                             *)
(*                                                                         *)
(* The code stores an escrow in the list of its recipient                  *)
(* (DataKey::EscrowByRecipient) and finds the list through                 *)
(* DataKey::EscrowRecipient(id).  Entries are appended and replaced in     *)
(* place, never removed, so escrow[id] is the record and the list of r is  *)
(* the set of ids whose record has to = r.                                 *)
(***************************************************************************)
EXTENDS TokenCustody, Sequences, FiniteSets, Sums

CONSTANTS
    Accounts,            \* parties of an escrow, agents and arbitrators
    Amounts,             \* amounts a caller may ask for
    Releases,            \* release ledgers a payer may ask for
    Plans,               \* milestone lists a payer may ask for
    Batches,             \* input lists of batch_create_escrow
    BatchIds,            \* id sets passed to the batch claim and cancel calls
    ArbitratorPool,      \* arbitrators the admin may register
    MIN_ESCROW_AMOUNT, MAX_ESCROW_AMOUNT, MAX_ESCROW_LEDGERS, MAX_MILESTONES,
    MAX_BATCH_SIZE,      \* items of one batch_create_escrow call
    MAX_USER_ESCROWS,    \* entries of one recipient's list
    MaxEscrows           \* bound of the model on the number of escrows

ASSUME EscrowAmountsAssumption ==
    /\ Amounts \subseteq Int /\ Releases \subseteq Nat
    /\ Plans \subseteq Seq([amount : Int, approval_deadline_ledger : Nat,
                           approved : BOOLEAN, claimed : BOOLEAN])
    /\ Batches \subseteq Seq([to : Accounts, amount : Int, release_ledger : Nat])
    /\ ArbitratorPool \subseteq Accounts
ASSUME EscrowLimitsAssumption ==
    /\ {MIN_ESCROW_AMOUNT, MAX_ESCROW_AMOUNT, MAX_ESCROW_LEDGERS,
        MAX_MILESTONES, MAX_BATCH_SIZE, MAX_USER_ESCROWS, MaxEscrows} \subseteq Nat
    /\ MIN_ESCROW_AMOUNT > 0
    /\ BatchIds \subseteq SUBSET (0 .. MaxEscrows - 1)

VARIABLES
    escrow,              \* the escrow records by id
    escrowCount,         \* DataKey::EscrowCount
    arbitrators          \* DataKey::Arbitrators

escrowVars == <<escrow, escrowCount, arbitrators>>
vars == <<custodyVars, escrowVars>>

EscrowIds == 0 .. MaxEscrows - 1
Nobody == "nobody"

Milestone == [amount : Nat, approval_deadline_ledger : Nat,
              approved : BOOLEAN, claimed : BOOLEAN]

EscrowRecord == [from : Accounts, to : Accounts, token : Tokens, amount : Nat,
                 release_ledger : Nat,
                 status : {"Pending", "Released", "Cancelled"},
                 arbitrator : Accounts \cup {Nobody}, disputed : BOOLEAN,
                 agent : Accounts \cup {Nobody}, milestones : Seq(Milestone),
                 is_milestone_based : BOOLEAN]

NoEscrow == [token |-> "none", status |-> "none"]

TypeOK ==
    /\ CustodyTypeOK
    /\ escrowCount \in 0 .. MaxEscrows
    /\ DOMAIN escrow = EscrowIds
    /\ \A id \in EscrowIds : IF id < escrowCount THEN escrow[id] \in EscrowRecord
                                                 ELSE escrow[id] = NoEscrow
    /\ arbitrators \in SUBSET Accounts

Init ==
    /\ CustodyInit
    /\ escrow = [id \in EscrowIds |-> NoEscrow]
    /\ escrowCount = 0
    /\ arbitrators = {}

Exists(id) == id < escrowCount
Pending(id) == Exists(id) /\ escrow[id].status = "Pending"
EscrowByRecipient(r) == {id \in EscrowIds : Exists(id) /\ escrow[id].to = r}

-----------------------------------------------------------------------------
(***************************************************************************)
(* Creating escrows.                                                       *)
(***************************************************************************)
SizeOk(amount) == amount \in MIN_ESCROW_AMOUNT .. MAX_ESCROW_AMOUNT
ReleaseOk(l) == l > ledger /\ l <= ledger + MAX_ESCROW_LEDGERS
HasRoom(r) == Cardinality(EscrowByRecipient(r)) < MAX_USER_ESCROWS

NewEscrow(from, to, t, amount, release) ==
    [from |-> from, to |-> to, token |-> t, amount |-> amount,
     release_ledger |-> release, status |-> "Pending", arbitrator |-> Nobody,
     disputed |-> FALSE, agent |-> Nobody, milestones |-> <<>>,
     is_milestone_based |-> FALSE]

(***************************************************************************)
(* Definitions whose name ends in Fault are variants of the definition     *)
(* that follows them with one plausible coding error.  No specification    *)
(* uses them: substituted for the definition, each makes TLC report the    *)
(* property that is there to notice the error.                             *)
(***************************************************************************)
\* What every create call does once its arguments are accepted.
Append1(record) ==
    /\ ~paused
    /\ record.from # record.to
    /\ HasRoom(record.to)
    /\ escrowCount < MaxEscrows
    /\ TransferIn(record.token, record.amount)
    /\ IncreaseLocked(record.token, record.amount)
    /\ escrow' = [escrow EXCEPT ![escrowCount] = record]
    /\ escrowCount' = escrowCount + 1
    /\ UNCHANGED <<paused, ledger, arbitrators>>

CreateEscrow(t, from, to, amount, release) ==
    /\ SizeOk(amount)
    /\ ReleaseOk(release)
    /\ Append1(NewEscrow(from, to, t, amount, release))

\* The caller's approved and claimed flags are stored as given.
CreateMilestoneEscrow(t, from, to, agent, plan) ==
    LET deposit == Total([i \in DOMAIN plan |-> plan[i].amount])
    IN  /\ agent # to
        /\ SizeOk(deposit)
        /\ Len(plan) \in 1 .. MAX_MILESTONES
        /\ \A i \in DOMAIN plan :
             /\ plan[i].amount > 0
             /\ plan[i].approval_deadline_ledger > 0 =>
                  plan[i].approval_deadline_ledger > ledger
        /\ Append1([NewEscrow(from, to, t, deposit, 0) EXCEPT
                      !.agent = agent, !.milestones = plan,
                      !.is_milestone_based = TRUE])

\* No minimum, maximum or horizon here: only a positive amount.
CreateDisputableEscrow(t, from, to, amount, release, arbitrator) ==
    /\ amount > 0
    /\ release > ledger
    /\ arbitrator \in arbitrators
    /\ Append1([NewEscrow(from, to, t, amount, release) EXCEPT
                  !.arbitrator = arbitrator])

\* One transfer and one locked-balance update for all accepted items.
FundBatch(t, total) ==
    /\ TransferIn(t, total)
    /\ IncreaseLocked(t, total)

\* The n-th of the accepted items, in the order of the call.
Nth(S, n) == CHOOSE i \in S : Cardinality({j \in S : j < i}) = n

(***************************************************************************)
(* batch_create_escrow skips the items it rejects, counts the earlier      *)
(* accepted items of the same recipient against the list cap, moves the    *)
(* total once and numbers the accepted items in order.                     *)
(***************************************************************************)
BatchCreateEscrow(t, from, inputs) ==
    LET Passes(i) == /\ inputs[i].to # from
                     /\ SizeOk(inputs[i].amount)
                     /\ ReleaseOk(inputs[i].release_ledger)
        Earlier(i) == {j \in DOMAIN inputs : /\ j < i /\ Passes(j)
                                             /\ inputs[j].to = inputs[i].to}
        valid == {i \in DOMAIN inputs :
                    /\ Passes(i)
                    /\ Cardinality(EscrowByRecipient(inputs[i].to))
                         + Cardinality(Earlier(i)) < MAX_USER_ESCROWS}
        total == Total([i \in valid |-> inputs[i].amount])
    IN  /\ ~paused
        /\ Len(inputs) \in 1 .. MAX_BATCH_SIZE
        /\ valid # {}
        /\ escrowCount + Cardinality(valid) <= MaxEscrows
        /\ FundBatch(t, total)
        /\ escrow' = [id \in EscrowIds |->
             IF id \in escrowCount .. escrowCount + Cardinality(valid) - 1
             THEN LET input == inputs[Nth(valid, id - escrowCount)]
                  IN  NewEscrow(from, input.to, t, input.amount,
                                input.release_ledger)
             ELSE escrow[id]]
        /\ escrowCount' = escrowCount + Cardinality(valid)
        /\ UNCHANGED <<paused, ledger, arbitrators>>

-----------------------------------------------------------------------------
(***************************************************************************)
(* Claims and cancellations.  The recipient (the payer, for a              *)
(* cancellation) signs every call, so the caller is not a parameter.       *)
(***************************************************************************)
Pay(id, amount) ==
    /\ DecreaseLocked(escrow[id].token, amount)
    /\ TransferOut(escrow[id].token, amount)
    /\ UNCHANGED <<paused, ledger, escrowCount, arbitrators>>

Claimable(id) ==
    /\ ~paused
    /\ Pending(id)
    /\ ~escrow[id].is_milestone_based
    /\ ~escrow[id].disputed
    /\ ledger >= escrow[id].release_ledger

ClaimEscrow(id) ==
    /\ Claimable(id)
    /\ escrow' = [escrow EXCEPT ![id].status = "Released"]
    /\ Pay(id, escrow[id].amount)

ClaimEscrowPartial_AmountFault(id, amount) ==
    /\ Claimable(id)
    /\ amount \in 1 .. escrow[id].amount
    /\ escrow' = [escrow EXCEPT ![id].status = IF amount = escrow[id].amount
                                               THEN "Released" ELSE @]
    /\ Pay(id, amount)

ClaimEscrowPartial(id, amount) ==
    /\ Claimable(id)
    /\ amount \in 1 .. escrow[id].amount
    /\ escrow' = [escrow EXCEPT
                    ![id].amount = @ - amount,
                    ![id].status = IF amount = escrow[id].amount
                                   THEN "Released" ELSE @]
    /\ Pay(id, amount)

Unclaimed(e) == {i \in DOMAIN e.milestones : ~e.milestones[i].claimed}
Unpaid(milestones) ==
    [i \in DOMAIN milestones |-> IF milestones[i].claimed THEN 0 ELSE milestones[i].amount]
UnclaimedAmount(e) == Total(Unpaid(e.milestones))

CancelEscrow_FullRefundFault(id) ==
    LET e == escrow[id]
    IN  /\ ~paused /\ Pending(id) /\ ~e.disputed
        /\ ~e.is_milestone_based => ledger < e.release_ledger
        /\ escrow' = [escrow EXCEPT ![id].status = "Cancelled"]
        /\ Pay(id, e.amount)

CancelEscrow(id) ==
    LET e == escrow[id]
    IN  /\ ~paused
        /\ Pending(id)
        /\ ~e.disputed
        /\ ~e.is_milestone_based => ledger < e.release_ledger
        /\ escrow' = [escrow EXCEPT ![id].status = "Cancelled"]
        /\ Pay(id, IF e.is_milestone_based THEN UnclaimedAmount(e)
                                           ELSE e.amount)

\* The record with milestone m approved, or claimed.
Approving(e, m) == [e EXCEPT !.milestones[m].approved = TRUE]
Claiming(e, m) ==
    [e EXCEPT !.milestones[m].claimed = TRUE,
              !.status = IF Unclaimed(e) = {m} THEN "Released" ELSE @]

ApproveMilestone(id, m, approver) ==
    LET e == escrow[id]
    IN  /\ ~paused
        /\ Pending(id)
        /\ e.is_milestone_based
        /\ approver \in {e.agent, e.from}
        /\ m \in DOMAIN e.milestones
        /\ ~e.milestones[m].approved
        /\ \/ e.milestones[m].approval_deadline_ledger = 0
           \/ ledger <= e.milestones[m].approval_deadline_ledger
        /\ escrow' = [escrow EXCEPT ![id] = Approving(e, m)]
        /\ UNCHANGED <<custodyVars, escrowCount, arbitrators>>

ClaimMilestone(id, m) ==
    LET e == escrow[id]
    IN  /\ ~paused
        /\ Pending(id)
        /\ e.is_milestone_based
        /\ m \in DOMAIN e.milestones
        /\ e.milestones[m].approved
        /\ ~e.milestones[m].claimed
        /\ escrow' = [escrow EXCEPT ![id] = Claiming(e, m)]
        /\ Pay(id, e.milestones[m].amount)

(***************************************************************************)
(* The batch calls process one cursor step of an id list.  An id that does *)
(* not qualify, or that an earlier position already settled, is skipped,   *)
(* so the effect depends on the set of ids only.  Neither call looks at    *)
(* disputed or is_milestone_based, and both pay the record's amount.       *)
(***************************************************************************)
SettleAll(ids, status) ==
    LET amounts == [id \in ids |-> escrow[id].amount]
        paid == [t \in Tokens |->
                   Total(OfToken(amounts, [id \in ids |-> escrow[id].token], t))]
    IN  /\ ids # {}
        /\ escrow' = [id \in EscrowIds |->
                        IF id \in ids THEN [escrow[id] EXCEPT !.status = status]
                                      ELSE escrow[id]]
        /\ locked' = [t \in Tokens |-> locked[t] - paid[t]]
        /\ TransferOutAll(paid)
        /\ UNCHANGED <<paused, ledger, escrowCount, arbitrators>>

BatchClaimEscrow(ids) ==
    /\ ~paused
    /\ SettleAll({id \in ids : Pending(id) /\ ledger >= escrow[id].release_ledger},
                 "Released")

BatchCancelEscrow_BoundaryFault(ids) ==
    /\ ~paused
    /\ SettleAll({id \in ids : Pending(id) /\ ledger <= escrow[id].release_ledger},
                 "Cancelled")

BatchCancelEscrow(ids) ==
    /\ ~paused
    /\ SettleAll({id \in ids : Pending(id) /\ ledger < escrow[id].release_ledger},
                 "Cancelled")

-----------------------------------------------------------------------------
(***************************************************************************)
(* Disputes.                                                               *)
(***************************************************************************)
AddArbitrator(a) ==
    /\ a \notin arbitrators
    /\ arbitrators' = arbitrators \cup {a}
    /\ UNCHANGED <<custodyVars, escrow, escrowCount>>

RemoveArbitrator(a) ==
    /\ a \in arbitrators
    /\ arbitrators' = arbitrators \ {a}
    /\ UNCHANGED <<custodyVars, escrow, escrowCount>>

\* Not guarded by the circuit breaker: it moves no funds.
RaiseDispute(id, by) ==
    /\ Pending(id)
    /\ escrow[id].arbitrator # Nobody
    /\ ~escrow[id].disputed
    /\ by \in {escrow[id].from, escrow[id].to}
    /\ escrow' = [escrow EXCEPT ![id].disputed = TRUE]
    /\ UNCHANGED <<custodyVars, escrowCount, arbitrators>>

(***************************************************************************)
(* A release pays amount and nothing else; a refund and a split pay the    *)
(* whole escrow.  The transfers are plain token.transfer calls.            *)
(***************************************************************************)
ResolveDispute(id, arbitrator, resolution, amount) ==
    LET e == escrow[id]
        transferred == IF resolution = "release" THEN amount ELSE e.amount
    IN  /\ ~paused
        /\ Pending(id)
        /\ e.disputed
        /\ e.arbitrator = arbitrator
        /\ resolution = "release" => amount \in 1 .. e.amount
        /\ resolution = "split" => amount \in 1 .. e.amount - 1
        /\ escrow' = [escrow EXCEPT ![id].status = "Released",
                                    ![id].disputed = FALSE]
        /\ DecreaseLocked(e.token, transferred)
        /\ RawTransferOut(e.token, transferred)
        /\ UNCHANGED <<paused, ledger, escrowCount, arbitrators>>

\* Every entry point but batch_claim_escrow.
OtherCalls ==
    \/ \E t \in Tokens, from, to \in Accounts :
         \/ \E amount \in Amounts, l \in Releases :
              \/ CreateEscrow(t, from, to, amount, l)
              \/ \E a \in Accounts :
                   CreateDisputableEscrow(t, from, to, amount, l, a)
         \/ \E agent \in Accounts, plan \in Plans :
              CreateMilestoneEscrow(t, from, to, agent, plan)
    \/ \E t \in Tokens, from \in Accounts, inputs \in Batches :
         BatchCreateEscrow(t, from, inputs)
    \/ \E id \in EscrowIds :
         \/ ClaimEscrow(id)
         \/ CancelEscrow(id)
         \/ \E amount \in Amounts : ClaimEscrowPartial(id, amount)
         \/ \E m \in 1 .. MAX_MILESTONES :
              \/ ClaimMilestone(id, m)
              \/ \E a \in Accounts : ApproveMilestone(id, m, a)
         \/ \E a \in Accounts : RaiseDispute(id, a)
         \/ \E a \in Accounts, resolution \in {"release", "refund", "split"},
               amount \in Amounts : ResolveDispute(id, a, resolution, amount)
    \/ \E ids \in BatchIds : BatchCancelEscrow(ids)
    \/ \E a \in ArbitratorPool : AddArbitrator(a) \/ RemoveArbitrator(a)

EscrowNext == OtherCalls \/ \E ids \in BatchIds : BatchClaimEscrow(ids)

Next == EscrowNext \/ (CustodyNext /\ UNCHANGED escrowVars)

Spec == Init /\ [][Next]_vars

-----------------------------------------------------------------------------
(***************************************************************************)
(* What the code does not prevent, as conditions a step may meet or not:   *)
(* batch_claim_escrow pays the whole amount of a milestone escrow although *)
(* milestones of it were claimed, and releases one whose milestones nobody *)
(* approved; a release by the arbitrator leaves the rest of the amount     *)
(* locked; a payer stores a milestone as claimed that nobody claimed.      *)
(***************************************************************************)
SparesClaimed ==
    \A ids \in BatchIds : BatchClaimEscrow(ids) =>
      \A id \in ids : Pending(id) /\ escrow[id].is_milestone_based =>
        UnclaimedAmount(escrow[id]) = escrow[id].amount

SparesMilestones ==
    \A ids \in BatchIds : BatchClaimEscrow(ids) =>
      \A id \in ids : Pending(id) => ~escrow[id].is_milestone_based

ReleasesInFull ==
    \A id \in EscrowIds, a \in Accounts, amount \in Amounts :
      ResolveDispute(id, a, "release", amount) => amount = escrow[id].amount

PlansAreFresh == \A plan \in Plans : \A i \in DOMAIN plan : ~plan[i].claimed

\* What escrow id still owes.
Owed(id) == IF ~Pending(id) THEN 0
            ELSE IF escrow[id].is_milestone_based THEN UnclaimedAmount(escrow[id])
            ELSE escrow[id].amount

OwedFn == [id \in EscrowIds |-> Owed(id)]
AssetFn == [id \in EscrowIds |-> escrow[id].token]

\* What the escrows in token t owe together.
OwedIn(t) == Total(OfToken(OwedFn, AssetFn, t))

(***************************************************************************)
(* The contract holds enough of every token to settle all pending escrows, *)
(* whatever mixture of single, partial, batch and arbitrated settlements   *)
(* happened before.                                                        *)
(***************************************************************************)
EscrowsSolvent == \A t \in Tokens : OwedIn(t) <= balance[t]

(***************************************************************************)
(* The locked balance never falls below what pending escrows owe: the      *)
(* emergency withdrawal's "unlocked" amount never includes escrowed funds. *)
(***************************************************************************)
LockedCoversEscrows == \A t \in Tokens : OwedIn(t) <= locked[t]

(***************************************************************************)
(* The recipient's and the payer's windows are disjoint on every path,     *)
(* batch calls and partial claims included: before release_ledger an       *)
(* undisputed escrow can only be cancelled, from release_ledger on it can  *)
(* only be paid to the recipient.                                          *)
(***************************************************************************)
WindowsAreDisjoint ==
    [][\A id \in EscrowIds :
         Pending(id) /\ ~escrow[id].disputed /\ ~escrow[id].is_milestone_based =>
           /\ escrow'[id].status = "Cancelled" => ledger < escrow[id].release_ledger
           /\ escrow'[id].status = "Released" => ledger >= escrow[id].release_ledger
           /\ escrow'[id].amount # escrow[id].amount =>
                ledger >= escrow[id].release_ledger]_vars

(***************************************************************************)
(* A settled escrow is settled for good: no batch call, dispute, milestone *)
(* or repeated claim ever changes its record again.                        *)
(***************************************************************************)
SettledIsFinal ==
    [][\A id \in EscrowIds :
         Exists(id) /\ ~Pending(id) => escrow'[id] = escrow[id]]_vars

(***************************************************************************)
(* While milestones are only claimed one by one, every token locked is     *)
(* owed by a pending escrow and every token owed is locked.                *)
(***************************************************************************)
LockedMatchesOwed == \A t \in Tokens : locked[t] = OwedIn(t)

(***************************************************************************)
(* claim_escrow, claim_escrow_partial and cancel_escrow refuse a disputed  *)
(* escrow ("escrow is disputed"): its money waits for the arbitrator.      *)
(***************************************************************************)
DisputeFreezes ==
    [][\A id \in EscrowIds :
         Pending(id) /\ escrow[id].disputed /\ escrow'[id].disputed =>
            escrow'[id].status = "Pending"]_vars

(***************************************************************************)
(* claim_milestone: "When the last milestone is claimed the escrow is      *)
(* marked Released"; claim_escrow: "milestone escrow must be claimed via   *)
(* claim_milestone".                                                       *)
(***************************************************************************)
MilestonesReleaseTheEscrow ==
    \A id \in EscrowIds :
        Exists(id) /\ escrow[id].status = "Released"
            /\ escrow[id].is_milestone_based => Unclaimed(escrow[id]) = {}

(* The books balance: every escrow is well-formed, the contract can pay all *)
(* that are open and has locked at least that much, whatever batch calls,   *)
(* partial claims and disputes came before.                                 *)
EscrowBooksBalance == TypeOK /\ EscrowsSolvent /\ LockedCoversEscrows

(* An escrow is settled once, and by the party whose window it is.          *)
EscrowsSettleOnce == WindowsAreDisjoint /\ SettledIsFinal

(* Milestones add up: approved, claimed and cancelled in any order they pay *)
(* exactly what is locked, the last one releases the escrow, and nothing of *)
(* a settled escrow moves again.                                            *)
MilestonesAddUp == [](EscrowsSolvent /\ LockedMatchesOwed /\ MilestonesReleaseTheEscrow) /\ SettledIsFinal
=============================================================================
