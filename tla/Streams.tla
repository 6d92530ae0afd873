------------------------------- MODULE Streams --------------------------------
(***************************************************************************)
(* Streaming payments of the Finchippay contract (streams.rs): a payer     *)
(* deposits tokens that accrue to a recipient at a fixed rate per ledger.  *)
(* The record of stream id is DataKey::Stream(id); ids below the counter   *)
(* DataKey::StreamCount exist.  paused_at_ledger and total_paused_duration *)
(* are written once, as 0, by open_stream and never again, so the          *)
(* accrual formula is modelled without them.                               *)
(***************************************************************************)
EXTENDS TokenCustody, Sums

CONSTANTS
    Accounts,            \* addresses that may call the contract
    Amounts,             \* rates, deposits and top-ups a caller may ask for
    MAX_STREAM_RATE,
    MAX_STREAM_DEPOSIT,
    MAX_USER_STREAMS,    \* entries of the per-payer index
    MaxStreams           \* bound of the model on the number of streams

ASSUME AmountsAssumption == Amounts \subseteq Int
ASSUME LimitsAssumption ==
    /\ MAX_STREAM_RATE \in Nat
    /\ MAX_STREAM_DEPOSIT \in Nat
    /\ MAX_USER_STREAMS \in Nat
    /\ MaxStreams \in Nat

VARIABLES
    stream,              \* DataKey::Stream(id)
    streamCount,         \* DataKey::StreamCount
    streamByPayer        \* DataKey::StreamByPayer(payer), ids are appended in
                         \* increasing order, so the list is kept as a set

streamVars == <<stream, streamCount, streamByPayer>>
vars == <<custodyVars, streamVars>>

StreamIds == 0 .. MaxStreams - 1

Stream == [payer : Accounts, recipient : Accounts, token : Tokens,
           rate_per_ledger : Nat, deposited : Nat, claimed : Nat,
           start_ledger : Nat, closed : BOOLEAN]

\* The value of a slot no stream occupies yet.
NoToken == "none"
ASSUME NoTokenAssumption == NoToken \notin Tokens
NoStream == [token |-> NoToken, deposited |-> 0, claimed |-> 0, closed |-> TRUE]

TypeOK ==
    /\ CustodyTypeOK
    /\ streamCount \in 0 .. MaxStreams
    /\ stream \in [StreamIds -> Stream \cup {NoStream}]
    /\ \A id \in StreamIds : id < streamCount <=> stream[id] \in Stream
    /\ streamByPayer \in [Accounts -> SUBSET StreamIds]

Init ==
    /\ CustodyInit
    /\ stream = [id \in StreamIds |-> NoStream]
    /\ streamCount = 0
    /\ streamByPayer = [p \in Accounts |-> {}]

-----------------------------------------------------------------------------
(***************************************************************************)
(* Definitions whose name ends in Fault are variants of the definition     *)
(* that follows them with one plausible coding error.  No specification    *)
(* uses them: substituted for the definition, each makes TLC report the    *)
(* property that is there to notice the error.                             *)
(***************************************************************************)
ClaimableAt_UncappedFault(s, l) ==
    IF l <= s.start_ledger \/ s.closed THEN 0
    ELSE s.rate_per_ledger * (l - s.start_ledger) - s.claimed

ClaimableAt_ClosedFault(s, l) ==
    IF l <= s.start_ledger THEN 0
    ELSE LET streamed == s.rate_per_ledger * (l - s.start_ledger)
             capped == IF streamed < s.deposited THEN streamed ELSE s.deposited
         IN  IF capped > s.claimed THEN capped - s.claimed ELSE 0

(***************************************************************************)
(* What the recipient can draw from stream s at ledger l.                  *)
(***************************************************************************)
ClaimableAt(s, l) ==
    IF l <= s.start_ledger \/ s.closed THEN 0
    ELSE LET streamed == s.rate_per_ledger * (l - s.start_ledger)
             capped == IF streamed < s.deposited THEN streamed ELSE s.deposited
         IN  IF capped > s.claimed THEN capped - s.claimed ELSE 0

Exists(id) == id < streamCount

OpenStream_CounterFault(t, payer, recipient, rate, deposit) ==
    /\ ~paused /\ payer # recipient
    /\ rate \in 1 .. MAX_STREAM_RATE /\ deposit \in 1 .. MAX_STREAM_DEPOSIT
    /\ streamCount < MaxStreams
    /\ TransferIn(t, deposit) /\ IncreaseLocked(t, deposit)
    /\ stream' = [stream EXCEPT ![streamCount] =
                    [payer |-> payer, recipient |-> recipient, token |-> t,
                     rate_per_ledger |-> rate, deposited |-> deposit,
                     claimed |-> 0, start_ledger |-> ledger, closed |-> FALSE]]
    /\ UNCHANGED <<paused, ledger, streamCount, streamByPayer>>

OpenStream(t, payer, recipient, rate, deposit) ==
    /\ ~paused
    /\ payer # recipient
    /\ rate \in 1 .. MAX_STREAM_RATE
    /\ deposit \in 1 .. MAX_STREAM_DEPOSIT
    /\ streamCount < MaxStreams
    /\ TransferIn(t, deposit)
    /\ IncreaseLocked(t, deposit)
    /\ stream' = [stream EXCEPT ![streamCount] =
                    [payer |-> payer, recipient |-> recipient, token |-> t,
                     rate_per_ledger |-> rate, deposited |-> deposit,
                     claimed |-> 0, start_ledger |-> ledger, closed |-> FALSE]]
    /\ streamCount' = streamCount + 1
    /\ streamByPayer' =
         IF Cardinality(streamByPayer[payer]) < MAX_USER_STREAMS
         THEN [streamByPayer EXCEPT ![payer] = @ \cup {streamCount}]
         ELSE streamByPayer
    /\ UNCHANGED <<paused, ledger>>

\* A claim of nothing returns 0 before any state is written.
ClaimStream(id, recipient) ==
    LET s == stream[id]
        claimable == ClaimableAt(s, ledger)
    IN  /\ ~paused
        /\ Exists(id)
        /\ s.recipient = recipient
        /\ claimable > 0
        /\ stream' = [stream EXCEPT ![id].claimed = @ + claimable]
        /\ DecreaseLocked(s.token, claimable)
        /\ TransferOut(s.token, claimable)
        /\ UNCHANGED <<paused, ledger, streamCount, streamByPayer>>

TopUpStream(id, payer, amount) ==
    LET s == stream[id]
    IN  /\ ~paused
        /\ amount > 0
        /\ Exists(id)
        /\ s.payer = payer
        /\ ~s.closed
        /\ s.deposited + amount <= MAX_STREAM_DEPOSIT
        /\ TransferIn(s.token, amount)
        /\ IncreaseLocked(s.token, amount)
        /\ stream' = [stream EXCEPT ![id].deposited = @ + amount]
        /\ UNCHANGED <<paused, ledger, streamCount, streamByPayer>>

Settle_RefundAllFault(id) ==
    LET s == stream[id]
        refund == s.deposited - s.claimed
    IN  /\ stream' = [stream EXCEPT ![id].closed = TRUE]
        /\ DecreaseLocked(s.token, refund)
        /\ TransferOut(s.token, refund)

Settle_NoRefundFault(id) ==
    LET s == stream[id]
        claimable == ClaimableAt(s, ledger)
    IN  /\ stream' = [stream EXCEPT ![id].claimed = @ + claimable,
                                    ![id].closed = TRUE]
        /\ DecreaseLocked(s.token, claimable)
        /\ TransferOut(s.token, claimable)

(***************************************************************************)
(* close_stream and reject_stream share the settlement: what has accrued   *)
(* goes to the recipient, the rest back to the payer, and both amounts     *)
(* leave the locked balance.                                               *)
(***************************************************************************)
Settle(id) ==
    LET s == stream[id]
        claimable == ClaimableAt(s, ledger)
        refund == s.deposited - (s.claimed + claimable)
    IN  /\ stream' = [stream EXCEPT ![id].claimed = @ + claimable,
                                    ![id].closed = TRUE]
        /\ DecreaseLocked(s.token, claimable + refund)
        /\ IF claimable + refund > 0 THEN TransferOut(s.token, claimable + refund)
                                     ELSE UNCHANGED <<balance, cached>>

CloseStream(id, payer) ==
    /\ ~paused
    /\ Exists(id)
    /\ stream[id].payer = payer
    /\ ~stream[id].closed
    /\ Settle(id)
    /\ streamByPayer' = [streamByPayer EXCEPT ![payer] = @ \ {id}]
    /\ UNCHANGED <<paused, ledger, streamCount>>

\* The id of a rejected stream stays in the payer's index.
RejectStream(id, recipient) ==
    /\ ~paused
    /\ Exists(id)
    /\ stream[id].recipient = recipient
    /\ ~stream[id].closed
    /\ Settle(id)
    /\ UNCHANGED <<paused, ledger, streamCount, streamByPayer>>

TransferStream_UnrecordedFault(id, recipient, newRecipient) ==
    LET s == stream[id]
        claimable == ClaimableAt(s, ledger)
    IN  /\ ~paused /\ recipient # newRecipient /\ Exists(id)
        /\ s.recipient = recipient /\ ~s.closed
        /\ stream' = [stream EXCEPT ![id].recipient = newRecipient]
        /\ RawTransferOut(s.token, claimable)
        /\ UNCHANGED <<locked, paused, ledger, streamCount, streamByPayer>>

(***************************************************************************)
(* The accrued tokens leave by a plain token.transfer: neither the locked  *)
(* balance nor the cached balance is touched.                              *)
(***************************************************************************)
TransferStream(id, recipient, newRecipient) ==
    LET s == stream[id]
        claimable == ClaimableAt(s, ledger)
    IN  /\ ~paused
        /\ recipient # newRecipient
        /\ Exists(id)
        /\ s.recipient = recipient
        /\ ~s.closed
        /\ stream' = [stream EXCEPT ![id].claimed = @ + claimable,
                                    ![id].recipient = newRecipient]
        /\ IF claimable > 0 THEN RawTransferOut(s.token, claimable)
                            ELSE UNCHANGED <<balance, cached>>
        /\ UNCHANGED <<locked, paused, ledger, streamCount, streamByPayer>>

StreamsNext ==
    \/ \E t \in Tokens, p, r \in Accounts, rate, d \in Amounts :
         OpenStream(t, p, r, rate, d)
    \/ \E id \in StreamIds, a \in Accounts :
         \/ ClaimStream(id, a)
         \/ CloseStream(id, a)
         \/ RejectStream(id, a)
         \/ \E amount \in Amounts : TopUpStream(id, a, amount)
         \/ \E b \in Accounts : TransferStream(id, a, b)

Next == StreamsNext \/ (CustodyNext /\ UNCHANGED streamVars)

Spec == Init /\ [][Next]_vars

-----------------------------------------------------------------------------
\* What stream id still owes to its recipient and its payer together.
Owed(id) == IF stream[id].closed THEN 0
            ELSE stream[id].deposited - stream[id].claimed

\* The refinement mapping to Obligations: streams are obligations of the balance.
OwedFn == [id \in StreamIds |-> Owed(id)]
AssetFn == [id \in StreamIds |-> stream[id].token]

\* What the streams in token t owe together.
OwedIn(t) == Total(OfToken(OwedFn, AssetFn, t))

(***************************************************************************)
(* The contract can always pay out every open stream in full, whatever was *)
(* claimed, topped up, transferred or settled before.                      *)
(***************************************************************************)
StreamsSolvent == \A t \in Tokens : OwedIn(t) <= balance[t]

(***************************************************************************)
(* The locked balance never falls below what streams owe, so a check of    *)
(* "unlocked = balance - locked" never offers streamed funds to anybody    *)
(* else (initiate_emergency_withdrawal relies on it).                      *)
(***************************************************************************)
LockedCoversStreams == \A t \in Tokens : OwedIn(t) <= locked[t]

(***************************************************************************)
(* The recipient of a stream never receives more than has accrued at the   *)
(* agreed rate since the stream was opened, nor more than was deposited,   *)
(* however claims, top-ups, hand-overs and settlements interleave.         *)
(***************************************************************************)
ClaimedWithinAccrual ==
    \A id \in StreamIds : Exists(id) =>
        LET s == stream[id]
        IN  /\ s.claimed <= s.deposited
            /\ s.claimed <= s.rate_per_ledger * (ledger - s.start_ledger)

(***************************************************************************)
(* A settled stream is settled for good: no later call changes its record. *)
(***************************************************************************)
ClosedIsFinal ==
    [][\A id \in StreamIds :
         Exists(id) /\ stream[id].closed => stream'[id] = stream[id]]_vars

\* What the recipient of stream id has received or could draw now.
Earned(id) == stream[id].claimed + ClaimableAt(stream[id], ledger)

(***************************************************************************)
(* What a recipient has earned is never taken back: received plus          *)
(* claimable never shrinks, whoever calls what (the payer closing the      *)
(* stream, a hand-over, a top-up), and however the ledger advances.        *)
(***************************************************************************)
EarnedNeverShrinks ==
    [][\A id \in StreamIds : Exists(id) => Earned(id) <= Earned(id)']_vars

StreamsOf(p) == {id \in StreamIds : Exists(id) /\ stream[id].payer = p}

(***************************************************************************)
(* The per-payer index only lists streams of that payer.  An open stream   *)
(* that is not listed was dropped by a full index: its payer has opened    *)
(* more streams than an index holds, whatever was closed or rejected since *)
(* (a rejected stream keeps its entry).                                    *)
(***************************************************************************)
IndexConsistent ==
    \A p \in Accounts :
      /\ streamByPayer[p] \subseteq StreamsOf(p)
      /\ \A id \in StreamsOf(p) :
           \/ stream[id].closed
           \/ id \in streamByPayer[p]
           \/ Cardinality(StreamsOf(p)) > MAX_USER_STREAMS

Held == INSTANCE Obligations WITH
    Ids <- StreamIds, funds <- balance, owed <- OwedFn, asset <- AssetFn

(***************************************************************************)
(* Double entry: tokens enter the contract only as a deposit or top-up of  *)
(* one stream (or as a donation) and leave only against what that stream   *)
(* owes, in its token and to the unit, on every settlement path.           *)
(***************************************************************************)
BalanceFollowsObligations == Held!Spec

(* The books balance: the contract can pay every open stream, has locked at *)
(* least what the open streams hold, and the payer index is true, whatever  *)
(* hand-overs, top-ups, rejections and dropped index entries came before.   *)
StreamBooksBalance == StreamsSolvent /\ LockedCoversStreams /\ IndexConsistent
=============================================================================
