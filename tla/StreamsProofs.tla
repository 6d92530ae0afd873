---------------------------- MODULE StreamsProofs -----------------------------
(***************************************************************************)
(* Theorems about Streams, for every set of accounts and tokens, every     *)
(* bound and every ledger.                                                 *)
(***************************************************************************)
EXTENDS Streams, SumsProofs, TLAPS

(***************************************************************************)
(* The inductive invariant: the type invariant (which ties the occupied    *)
(* slots to the counter) and the accrual bound, which need each other:     *)
(* the refund of Settle is a natural number only because claimed never     *)
(* exceeds deposited.                                                      *)
(***************************************************************************)
IInv == TypeOK /\ ClaimedWithinAccrual

(***************************************************************************)
(* A longer span never accrues less at the same rate.                      *)
(***************************************************************************)
LEMMA AccrualMonotone ==
    ASSUME NEW r \in Nat, NEW x \in Int, NEW y \in Int, x <= y
    PROVE  r * x <= r * y
  BY SMT

(***************************************************************************)
(* What claimable_at returns: never more than the deposit leaves, never    *)
(* more than has accrued, nothing from a closed stream.                    *)
(***************************************************************************)
LEMMA ClaimableBounds ==
    ASSUME NEW s \in Stream, NEW l \in Nat, s.claimed <= s.deposited
    PROVE  /\ ClaimableAt(s, l) \in Nat
           /\ s.claimed + ClaimableAt(s, l) <= s.deposited
           /\ ClaimableAt(s, l) > 0 =>
                s.claimed + ClaimableAt(s, l)
                    <= s.rate_per_ledger * (l - s.start_ledger)
           /\ s.closed => ClaimableAt(s, l) = 0
  <1> DEFINE streamed == s.rate_per_ledger * (l - s.start_ledger)
  <1>1. streamed \in Int
    BY DEF Stream
  <1> HIDE DEF streamed
  <1>2. ClaimableAt(s, l) = IF l <= s.start_ledger \/ s.closed THEN 0
            ELSE LET capped == IF streamed < s.deposited THEN streamed ELSE s.deposited
                 IN  IF capped > s.claimed THEN capped - s.claimed ELSE 0
    BY DEF ClaimableAt, streamed
  <1>3. /\ ClaimableAt(s, l) \in Nat
        /\ s.claimed + ClaimableAt(s, l) <= s.deposited
        /\ ClaimableAt(s, l) > 0 => s.claimed + ClaimableAt(s, l) <= streamed
        /\ s.closed => ClaimableAt(s, l) = 0
    BY <1>1, <1>2 DEF Stream
  <1> QED
    BY <1>3 DEF streamed

-----------------------------------------------------------------------------
(***************************************************************************)
(* Every call that works on one existing stream replaces one record.  If   *)
(* the new record respects the accrual bound, the invariant survives.      *)
(***************************************************************************)
LEMMA ReplaceRecord ==
    ASSUME IInv, CustodyTypeOK', ledger' = ledger, streamCount' = streamCount,
           streamByPayer' \in [Accounts -> SUBSET StreamIds],
           NEW id \in StreamIds, Exists(id),
           NEW s \in Stream, stream' = [stream EXCEPT ![id] = s],
           s.claimed <= s.deposited,
           s.claimed <= s.rate_per_ledger * (ledger - s.start_ledger)
    PROVE  IInv'
  <1>1. TypeOK'
    BY DEF IInv, TypeOK, Exists
  <1>2. ClaimedWithinAccrual'
    <2> SUFFICES ASSUME NEW i \in StreamIds, Exists(i)'
                 PROVE  /\ stream'[i].claimed <= stream'[i].deposited
                        /\ stream'[i].claimed <= stream'[i].rate_per_ledger
                                                  * (ledger' - stream'[i].start_ledger)
      BY DEF ClaimedWithinAccrual
    <2>1. CASE i = id
      BY <2>1 DEF IInv, TypeOK
    <2>2. CASE i # id
      <3>1. stream'[i] = stream[i] /\ Exists(i)
        BY <2>2 DEF IInv, TypeOK, Exists
      <3> QED
        BY <3>1 DEF IInv, ClaimedWithinAccrual
    <2> QED
      BY <2>1, <2>2
  <1> QED
    BY <1>1, <1>2 DEF IInv

(***************************************************************************)
(* Facts every call on an existing stream starts from.                     *)
(***************************************************************************)
LEMMA ExistingStream ==
    ASSUME IInv, NEW id \in StreamIds, Exists(id)
    PROVE  /\ stream[id] \in Stream
           /\ ledger \in Nat
           /\ stream[id].claimed <= stream[id].deposited
           /\ stream[id].claimed
                <= stream[id].rate_per_ledger * (ledger - stream[id].start_ledger)
           /\ ClaimableAt(stream[id], ledger) \in Nat
           /\ stream[id].claimed + ClaimableAt(stream[id], ledger)
                <= stream[id].deposited
           /\ stream[id].claimed + ClaimableAt(stream[id], ledger)
                <= stream[id].rate_per_ledger * (ledger - stream[id].start_ledger)
  <1>1. stream[id] \in Stream /\ ledger \in Nat
    BY DEF IInv, TypeOK, CustodyTypeOK, Exists
  <1>2. /\ stream[id].claimed <= stream[id].deposited
        /\ stream[id].claimed
             <= stream[id].rate_per_ledger * (ledger - stream[id].start_ledger)
    BY DEF IInv, ClaimedWithinAccrual
  <1>3. stream[id].claimed \in Nat
    BY <1>1 DEF Stream
  <1> HIDE DEF IInv
  <1> QED
    BY <1>1, <1>2, <1>3, ClaimableBounds

(***************************************************************************)
(* What a payment leaves of the custody state.                             *)
(***************************************************************************)
LEMMA PaymentTypes ==
    ASSUME CustodyTypeOK, NEW t \in Tokens, NEW n \in Nat,
           TransferOut(t, n) \/ RawTransferOut(t, n)
    PROVE  /\ balance' \in [Tokens -> Nat]
           /\ cached' \in [Tokens -> Nat \cup {NoCache}]
  BY DEF CustodyTypeOK, TransferOut, RawTransferOut, NoCache

-----------------------------------------------------------------------------
(***************************************************************************)
(* An empty slot cannot be mistaken for a stream: it has no payer.         *)
(***************************************************************************)
LEMMA EmptySlot == NoStream \notin Stream
  <1>1. "payer" \notin DOMAIN NoStream
    BY DEF NoStream
  <1>2. \A s \in Stream : "payer" \in DOMAIN s
    BY DEF Stream
  <1> QED
    BY <1>1, <1>2

(***************************************************************************)
(* The invariant holds initially and every step preserves it.              *)
(***************************************************************************)
LEMMA InitInvariant == Init => IInv
  <1> SUFFICES ASSUME Init PROVE IInv
    OBVIOUS
  <1>1. CustodyTypeOK
    <2>1. balance \in [Tokens -> Nat] /\ locked \in [Tokens -> Int] /\ ledger \in Nat
      BY DEF Init, CustodyInit
    <2>2. cached \in [Tokens -> Nat \cup {NoCache}]
      BY DEF Init, CustodyInit
    <2>3. paused \in BOOLEAN
      BY DEF Init, CustodyInit
    <2> QED
      BY <2>1, <2>2, <2>3 DEF CustodyTypeOK
  <1>2. stream \in [StreamIds -> Stream \cup {NoStream}]
    BY DEF Init
  <1>3. \A id \in StreamIds : id < streamCount <=> stream[id] \in Stream
    BY EmptySlot DEF Init, StreamIds
  <1>4. TypeOK
    BY <1>1, <1>2, <1>3, LimitsAssumption DEF Init, TypeOK
  <1>5. ClaimedWithinAccrual
    BY DEF Init, ClaimedWithinAccrual, Exists, StreamIds
  <1> QED
    BY <1>4, <1>5 DEF IInv

\* open_stream fills the free slot at the counter and keeps the invariant.
LEMMA OpenPreserves ==
    ASSUME IInv, NEW t \in Tokens, NEW p \in Accounts, NEW r \in Accounts,
           NEW rate \in Amounts, NEW d \in Amounts, OpenStream(t, p, r, rate, d)
    PROVE  IInv'
  <1> DEFINE s == [payer |-> p, recipient |-> r, token |-> t,
                   rate_per_ledger |-> rate, deposited |-> d,
                   claimed |-> 0, start_ledger |-> ledger, closed |-> FALSE]
  <1>1. /\ s \in Stream
        /\ ledger \in Nat
        /\ streamCount \in StreamIds
        /\ stream' = [stream EXCEPT ![streamCount] = s]
        /\ streamCount' = streamCount + 1
        /\ ledger' = ledger
    BY LimitsAssumption DEF OpenStream, Stream, IInv, TypeOK, CustodyTypeOK, StreamIds
  <1> HIDE DEF s
  <1>2. CustodyTypeOK'
    <2>1. d \in Nat
      BY LimitsAssumption DEF OpenStream
    <2> QED
      BY <2>1 DEF OpenStream, TransferIn, IncreaseLocked, IInv, TypeOK, CustodyTypeOK
  <1>3. streamByPayer' \in [Accounts -> SUBSET StreamIds]
    BY <1>1 DEF OpenStream, IInv, TypeOK
  <1>4. TypeOK'
    <2>1. streamCount' \in 0 .. MaxStreams
      BY <1>1, LimitsAssumption DEF StreamIds
    <2>2. stream' \in [StreamIds -> Stream \cup {NoStream}]
      BY <1>1 DEF IInv, TypeOK
    <2>3. ASSUME NEW i \in StreamIds
          PROVE  i < streamCount' <=> stream'[i] \in Stream
      <3>1. CASE i = streamCount
        BY <1>1, <3>1 DEF IInv, TypeOK, StreamIds
      <3>2. CASE i # streamCount
        <4>1. stream'[i] = stream[i]
          BY <1>1, <3>2 DEF IInv, TypeOK
        <4>2. i < streamCount' <=> i < streamCount
          BY <1>1, <3>2 DEF StreamIds
        <4> QED
          BY <4>1, <4>2 DEF IInv, TypeOK
      <3> QED
        BY <3>1, <3>2
    <2> QED
      BY <1>2, <1>3, <2>1, <2>2, <2>3 DEF TypeOK
  <1>5. ClaimedWithinAccrual'
    <2> SUFFICES ASSUME NEW i \in StreamIds, Exists(i)'
                 PROVE  /\ stream'[i].claimed <= stream'[i].deposited
                        /\ stream'[i].claimed <= stream'[i].rate_per_ledger
                                                  * (ledger' - stream'[i].start_ledger)
      BY DEF ClaimedWithinAccrual
    <2>1. CASE i = streamCount
      <3>1. stream'[i] = s
        BY <1>1, <2>1 DEF IInv, TypeOK
      <3>2. s.claimed = 0 /\ s.deposited \in Nat /\ s.start_ledger = ledger
            /\ s.rate_per_ledger \in Nat
        BY <1>1 DEF s, Stream
      <3>3. s.rate_per_ledger * (ledger - s.start_ledger) = 0
        BY <1>1, <3>2
      <3> QED
        BY <1>1, <3>1, <3>2, <3>3
    <2>2. CASE i # streamCount
      <3>1. stream'[i] = stream[i] /\ Exists(i)
        BY <1>1, <2>2 DEF IInv, TypeOK, Exists, StreamIds
      <3> QED
        BY <1>1, <3>1 DEF IInv, ClaimedWithinAccrual
    <2> QED
      BY <2>1, <2>2
  <1> QED
    BY <1>4, <1>5 DEF IInv

\* claim_stream pays at most what has accrued and keeps the invariant.
LEMMA ClaimPreserves ==
    ASSUME IInv, NEW id \in StreamIds, NEW a \in Accounts, ClaimStream(id, a)
    PROVE  IInv'
  <1> DEFINE n == ClaimableAt(stream[id], ledger)
             s == [stream[id] EXCEPT !.claimed = @ + n]
  <1>1. Exists(id)
    BY DEF ClaimStream
  <1>2. n \in Nat /\ stream[id] \in Stream /\ stream[id].token \in Tokens
    BY <1>1, ExistingStream DEF Stream
  <1>3. /\ s \in Stream
        /\ s.claimed <= s.deposited
        /\ s.claimed <= s.rate_per_ledger * (ledger - s.start_ledger)
    BY <1>1, <1>2, ExistingStream DEF Stream
  <1>4. stream' = [stream EXCEPT ![id] = s]
    BY DEF ClaimStream
  <1>5. CustodyTypeOK'
    <2>1. TransferOut(stream[id].token, n) /\ DecreaseLocked(stream[id].token, n)
          /\ UNCHANGED <<paused, ledger>> /\ CustodyTypeOK
      BY DEF ClaimStream, IInv, TypeOK
    <2> QED
      BY <1>2, <2>1, PaymentTypes DEF DecreaseLocked, CustodyTypeOK
  <1>6. /\ ledger' = ledger
        /\ streamCount' = streamCount
        /\ streamByPayer' \in [Accounts -> SUBSET StreamIds]
    BY DEF ClaimStream, IInv, TypeOK
  <1> QED
    BY <1>1, <1>3, <1>4, <1>5, <1>6, ReplaceRecord

\* top_up_stream only raises the deposit and keeps the invariant.
LEMMA TopUpPreserves ==
    ASSUME IInv, NEW id \in StreamIds, NEW a \in Accounts, NEW n \in Amounts,
           TopUpStream(id, a, n)
    PROVE  IInv'
  <1> DEFINE s == [stream[id] EXCEPT !.deposited = @ + n]
  <1>1. Exists(id) /\ n \in Nat
    BY AmountsAssumption DEF TopUpStream
  <1>2. stream[id] \in Stream /\ stream[id].token \in Tokens
    BY <1>1, ExistingStream DEF Stream
  <1>3. /\ s \in Stream
        /\ s.claimed <= s.deposited
        /\ s.claimed <= s.rate_per_ledger * (ledger - s.start_ledger)
    BY <1>1, <1>2, ExistingStream DEF Stream
  <1>4. stream' = [stream EXCEPT ![id] = s]
    BY DEF TopUpStream
  <1>5. CustodyTypeOK'
    BY <1>1, <1>2 DEF TopUpStream, IInv, TypeOK, CustodyTypeOK, TransferIn, IncreaseLocked
  <1>6. /\ ledger' = ledger
        /\ streamCount' = streamCount
        /\ streamByPayer' \in [Accounts -> SUBSET StreamIds]
    BY DEF TopUpStream, IInv, TypeOK
  <1> QED
    BY <1>1, <1>3, <1>4, <1>5, <1>6, ReplaceRecord

(***************************************************************************)
(* The settlement shared by close_stream and reject_stream: what goes to   *)
(* the recipient and what goes back to the payer add up to what was left.  *)
(***************************************************************************)
LEMMA SettlePays ==
    ASSUME IInv, NEW id \in StreamIds, Exists(id), Settle(id)
    PROVE  LET s == stream[id]
               n == s.deposited - s.claimed
           IN  /\ n \in Nat
               /\ DecreaseLocked(s.token, n)
               /\ IF n > 0 THEN TransferOut(s.token, n)
                           ELSE UNCHANGED <<balance, cached>>
  <1>1. /\ stream[id].deposited \in Nat /\ stream[id].claimed \in Nat
        /\ stream[id].claimed <= stream[id].deposited
        /\ ClaimableAt(stream[id], ledger) \in Nat
    BY ExistingStream DEF Stream
  <1>2. ClaimableAt(stream[id], ledger)
          + (stream[id].deposited
               - (stream[id].claimed + ClaimableAt(stream[id], ledger)))
        = stream[id].deposited - stream[id].claimed
    BY <1>1
  <1> QED
    BY <1>1, <1>2 DEF Settle

\* close_stream and reject_stream keep the invariant.
LEMMA SettlePreserves ==
    ASSUME IInv, NEW id \in StreamIds, Exists(id), Settle(id),
           UNCHANGED <<paused, ledger, streamCount>>,
           streamByPayer' \in [Accounts -> SUBSET StreamIds]
    PROVE  IInv'
  <1> DEFINE n == ClaimableAt(stream[id], ledger)
             drawn == [stream[id] EXCEPT !.claimed = @ + n]
             s == [drawn EXCEPT !.closed = TRUE]
             out == stream[id].deposited - stream[id].claimed
  <1>2. n \in Nat /\ stream[id] \in Stream /\ stream[id].token \in Tokens
    BY ExistingStream DEF Stream
  <1>3. /\ s \in Stream
        /\ s.claimed <= s.deposited
        /\ s.claimed <= s.rate_per_ledger * (ledger - s.start_ledger)
    <2>1. s \in Stream
      <3>1. drawn \in Stream
        BY <1>2 DEF Stream
      <3> HIDE DEF drawn
      <3> QED
        BY <3>1 DEF Stream
    <2>2. /\ s.claimed = stream[id].claimed + n
          /\ s.deposited = stream[id].deposited
          /\ s.rate_per_ledger = stream[id].rate_per_ledger
          /\ s.start_ledger = stream[id].start_ledger
      BY <1>2 DEF Stream
    <2>3. /\ stream[id].claimed + n <= stream[id].deposited
          /\ stream[id].claimed + n
               <= stream[id].rate_per_ledger * (ledger - stream[id].start_ledger)
      BY ExistingStream
    <2> HIDE DEF s, n
    <2> QED
      BY <2>1, <2>2, <2>3
  <1>4. stream' = [stream EXCEPT ![id] = s]
    BY DEF Settle
  <1>5. CustodyTypeOK'
    <2>1. /\ out \in Nat
          /\ DecreaseLocked(stream[id].token, out)
          /\ IF out > 0 THEN TransferOut(stream[id].token, out)
                        ELSE UNCHANGED <<balance, cached>>
          /\ CustodyTypeOK
      BY SettlePays DEF IInv, TypeOK
    <2> HIDE DEF out
    <2>2. balance' \in [Tokens -> Nat] /\ cached' \in [Tokens -> Nat \cup {NoCache}]
      BY <1>2, <2>1, PaymentTypes DEF CustodyTypeOK
    <2>3. locked' \in [Tokens -> Int]
      BY <1>2, <2>1 DEF DecreaseLocked, CustodyTypeOK
    <2> QED
      BY <2>1, <2>2, <2>3 DEF CustodyTypeOK
  <1> QED
    BY <1>3, <1>4, <1>5, ReplaceRecord

\* transfer_stream pays out what has accrued and keeps the invariant.
LEMMA TransferPreserves ==
    ASSUME IInv, NEW id \in StreamIds, NEW a \in Accounts, NEW b \in Accounts,
           TransferStream(id, a, b)
    PROVE  IInv'
  <1> DEFINE n == ClaimableAt(stream[id], ledger)
             drawn == [stream[id] EXCEPT !.claimed = @ + n]
             s == [drawn EXCEPT !.recipient = b]
  <1>1. Exists(id)
    BY DEF TransferStream
  <1>2. n \in Nat /\ stream[id] \in Stream /\ stream[id].token \in Tokens
    BY <1>1, ExistingStream DEF Stream
  <1>3. /\ s \in Stream
        /\ s.claimed <= s.deposited
        /\ s.claimed <= s.rate_per_ledger * (ledger - s.start_ledger)
    <2>1. s \in Stream
      <3>1. drawn \in Stream
        BY <1>2 DEF Stream
      <3> HIDE DEF drawn
      <3> QED
        BY <3>1 DEF Stream
    <2>2. /\ s.claimed = stream[id].claimed + n
          /\ s.deposited = stream[id].deposited
          /\ s.rate_per_ledger = stream[id].rate_per_ledger
          /\ s.start_ledger = stream[id].start_ledger
      BY <1>2 DEF Stream
    <2>3. /\ stream[id].claimed + n <= stream[id].deposited
          /\ stream[id].claimed + n
               <= stream[id].rate_per_ledger * (ledger - stream[id].start_ledger)
      BY <1>1, ExistingStream
    <2> HIDE DEF s, n
    <2> QED
      BY <2>1, <2>2, <2>3
  <1>4. stream' = [stream EXCEPT ![id] = s]
    BY DEF TransferStream
  <1>5. CustodyTypeOK'
    <2>1. /\ IF n > 0 THEN RawTransferOut(stream[id].token, n)
                      ELSE UNCHANGED <<balance, cached>>
          /\ UNCHANGED <<locked, paused, ledger>>
          /\ CustodyTypeOK
      BY DEF TransferStream, IInv, TypeOK
    <2> HIDE DEF n
    <2>2. balance' \in [Tokens -> Nat] /\ cached' \in [Tokens -> Nat \cup {NoCache}]
      BY <1>2, <2>1, PaymentTypes DEF CustodyTypeOK
    <2> QED
      BY <2>1, <2>2 DEF CustodyTypeOK
  <1>6. /\ ledger' = ledger
        /\ streamCount' = streamCount
        /\ streamByPayer' \in [Accounts -> SUBSET StreamIds]
    BY DEF TransferStream, IInv, TypeOK
  <1> QED
    BY <1>1, <1>3, <1>4, <1>5, <1>6, ReplaceRecord

\* Ledgers close, donations arrive, the breaker trips: no record changes.
LEMMA CustodyPreserves ==
    ASSUME IInv, CustodyNext, UNCHANGED streamVars
    PROVE  IInv'
  <1>1. CustodyTypeOK' /\ ledger \in Nat /\ ledger' \in Nat /\ ledger <= ledger'
    BY DonationsAssumption
       DEF CustodyNext, AdvanceLedger, Donate, SetPaused, IInv, TypeOK, CustodyTypeOK
  <1>2. TypeOK'
    BY <1>1 DEF streamVars, IInv, TypeOK
  <1>3. ClaimedWithinAccrual'
    <2> SUFFICES ASSUME NEW i \in StreamIds, Exists(i)'
                 PROVE  /\ stream'[i].claimed <= stream'[i].deposited
                        /\ stream'[i].claimed <= stream'[i].rate_per_ledger
                                                  * (ledger' - stream'[i].start_ledger)
      BY DEF ClaimedWithinAccrual
    <2>1. stream'[i] = stream[i] /\ Exists(i)
      BY DEF streamVars, Exists
    <2> DEFINE s == stream[i]
               x == ledger - s.start_ledger
               y == ledger' - s.start_ledger
    <2>2. /\ s \in Stream /\ s.claimed \in Nat /\ s.rate_per_ledger \in Nat
          /\ s.start_ledger \in Nat
          /\ s.claimed <= s.deposited /\ s.claimed <= s.rate_per_ledger * x
      BY <2>1, ExistingStream DEF Stream
    <2>3. x \in Int /\ y \in Int /\ x <= y
      BY <1>1, <2>2
    <2> HIDE DEF x, y
    <2>4. /\ s.rate_per_ledger * x <= s.rate_per_ledger * y
          /\ s.rate_per_ledger * x \in Int /\ s.rate_per_ledger * y \in Int
      BY <2>2, <2>3, AccrualMonotone
    <2>5. s.claimed <= s.rate_per_ledger * y
      BY <2>2, <2>4
    <2> QED
      BY <2>1, <2>2, <2>5 DEF y
  <1> QED
    BY <1>2, <1>3 DEF IInv

\* The invariant is inductive: every action of the module preserves it.
LEMMA NextInvariant == IInv /\ [Next]_vars => IInv'
  <1> SUFFICES ASSUME IInv, [Next]_vars PROVE IInv'
    OBVIOUS
  <1>1. ASSUME NEW t \in Tokens, NEW p \in Accounts, NEW r \in Accounts,
               NEW rate \in Amounts, NEW d \in Amounts, OpenStream(t, p, r, rate, d)
        PROVE  IInv'
    BY <1>1, OpenPreserves
  <1>2. ASSUME NEW id \in StreamIds, NEW a \in Accounts, ClaimStream(id, a)
        PROVE  IInv'
    BY <1>2, ClaimPreserves
  <1>3. ASSUME NEW id \in StreamIds, NEW a \in Accounts, CloseStream(id, a)
        PROVE  IInv'
    <2>1. /\ Exists(id) /\ Settle(id) /\ UNCHANGED <<paused, ledger, streamCount>>
          /\ streamByPayer' \in [Accounts -> SUBSET StreamIds]
      BY <1>3 DEF CloseStream, IInv, TypeOK
    <2> QED
      BY <2>1, SettlePreserves
  <1>4. ASSUME NEW id \in StreamIds, NEW a \in Accounts, RejectStream(id, a)
        PROVE  IInv'
    <2>1. /\ Exists(id) /\ Settle(id) /\ UNCHANGED <<paused, ledger, streamCount>>
          /\ streamByPayer' \in [Accounts -> SUBSET StreamIds]
      BY <1>4 DEF RejectStream, IInv, TypeOK
    <2> QED
      BY <2>1, SettlePreserves
  <1>5. ASSUME NEW id \in StreamIds, NEW a \in Accounts, NEW n \in Amounts,
               TopUpStream(id, a, n)
        PROVE  IInv'
    BY <1>5, TopUpPreserves
  <1>6. ASSUME NEW id \in StreamIds, NEW a \in Accounts, NEW b \in Accounts,
               TransferStream(id, a, b)
        PROVE  IInv'
    BY <1>6, TransferPreserves
  <1>7. CASE CustodyNext /\ UNCHANGED streamVars
    BY <1>7, CustodyPreserves
  <1>8. CASE UNCHANGED vars
    BY <1>8 DEF vars, custodyVars, streamVars, IInv, TypeOK, CustodyTypeOK,
       ClaimedWithinAccrual, Exists
  <1> QED
    BY <1>1, <1>2, <1>3, <1>4, <1>5, <1>6, <1>7, <1>8 DEF Next, StreamsNext

\* The invariant holds in every reachable state.
LEMMA Invariant == Spec => []IInv
  <1>1. Init => IInv
    BY InitInvariant
  <1>2. IInv /\ [Next]_vars => IInv'
    BY NextInvariant
  <1> QED
    BY <1>1, <1>2, PTL DEF Spec

(***************************************************************************)
(* Type correctness of streams.rs's state: ids below the counter hold      *)
(* well-formed records, no other id does, and every amount is a natural    *)
(* number.                                                                 *)
(***************************************************************************)
THEOREM TypeCorrect == Spec => []TypeOK
  <1>1. IInv => TypeOK
    BY DEF IInv
  <1> QED
    BY <1>1, Invariant, PTL

(***************************************************************************)
(* No interleaving of claims, top-ups, hand-overs and settlements ever     *)
(* pays a recipient more than was deposited or more than has accrued.      *)
(***************************************************************************)
THEOREM AccrualRespected == Spec => []ClaimedWithinAccrual
  <1>1. IInv => ClaimedWithinAccrual
    BY DEF IInv
  <1> QED
    BY <1>1, Invariant, PTL

-----------------------------------------------------------------------------
(***************************************************************************)
(* Action properties.  A step leaves all records alone, fills the next     *)
(* free slot, or replaces the record of one open stream.                   *)
(***************************************************************************)
LEMMA StepShape ==
    ASSUME IInv, [Next]_vars
    PROVE  \/ stream' = stream
           \/ \E s : stream' = [stream EXCEPT ![streamCount] = s]
           \/ \E id \in StreamIds : \E s :
                /\ ~stream[id].closed
                /\ stream' = [stream EXCEPT ![id] = s]
  <1>1. ASSUME NEW t \in Tokens, NEW p \in Accounts, NEW r \in Accounts,
               NEW rate \in Amounts, NEW d \in Amounts, OpenStream(t, p, r, rate, d)
        PROVE  \E s : stream' = [stream EXCEPT ![streamCount] = s]
    BY <1>1 DEF OpenStream
  <1>2. ASSUME NEW id \in StreamIds, NEW a \in Accounts, ClaimStream(id, a)
        PROVE  /\ ~stream[id].closed
               /\ \E s : stream' = [stream EXCEPT ![id] = s]
    <2>1. ClaimableAt(stream[id], ledger) # 0
      BY <1>2 DEF ClaimStream
    <2>2. ~stream[id].closed
      BY <2>1 DEF ClaimableAt
    <2> QED
      BY <1>2, <2>2 DEF ClaimStream
  <1>3. ASSUME NEW id \in StreamIds, NEW a \in Accounts,
               CloseStream(id, a) \/ RejectStream(id, a)
        PROVE  /\ ~stream[id].closed
               /\ \E s : stream' = [stream EXCEPT ![id] = s]
    BY <1>3 DEF CloseStream, RejectStream, Settle
  <1>4. ASSUME NEW id \in StreamIds, NEW a \in Accounts, NEW n \in Amounts,
               TopUpStream(id, a, n)
        PROVE  /\ ~stream[id].closed
               /\ \E s : stream' = [stream EXCEPT ![id] = s]
    BY <1>4 DEF TopUpStream
  <1>5. ASSUME NEW id \in StreamIds, NEW a \in Accounts, NEW b \in Accounts,
               TransferStream(id, a, b)
        PROVE  /\ ~stream[id].closed
               /\ \E s : stream' = [stream EXCEPT ![id] = s]
    BY <1>5 DEF TransferStream
  <1>6. CASE (CustodyNext /\ UNCHANGED streamVars) \/ UNCHANGED vars
    BY <1>6 DEF vars, streamVars
  <1> QED
    BY <1>1, <1>2, <1>3, <1>4, <1>5, <1>6 DEF Next, StreamsNext

(***************************************************************************)
(* A settled stream is settled for good: neither party, nor a late claim   *)
(* or hand-over, changes a closed record.                                  *)
(***************************************************************************)
THEOREM ClosedStaysClosed == Spec => ClosedIsFinal
  <1>1. IInv /\ [Next]_vars =>
          [\A id \in StreamIds :
             Exists(id) /\ stream[id].closed => stream'[id] = stream[id]]_vars
    <2> SUFFICES ASSUME IInv, [Next]_vars, NEW id \in StreamIds,
                        Exists(id), stream[id].closed
                 PROVE  stream'[id] = stream[id]
      OBVIOUS
    <2>1. id # streamCount /\ stream = [i \in StreamIds |-> stream[i]]
      BY DEF Exists, IInv, TypeOK, StreamIds
    <2> QED
      BY <2>1, StepShape
  <1> QED
    BY <1>1, Invariant, PTL DEF Spec, ClosedIsFinal

(***************************************************************************)
(* What can be drawn never shrinks when the ledger advances or the deposit *)
(* grows.                                                                  *)
(***************************************************************************)
LEMMA ClaimableMonotone ==
    ASSUME NEW s \in Stream, NEW l \in Nat, NEW m \in Nat, l <= m,
           NEW n \in Nat
    PROVE  ClaimableAt(s, l) <= ClaimableAt([s EXCEPT !.deposited = @ + n], m)
  <1> DEFINE s2 == [s EXCEPT !.deposited = @ + n]
             x == s.rate_per_ledger * (l - s.start_ledger)
             y == s.rate_per_ledger * (m - s.start_ledger)
  <1>1. /\ s2.rate_per_ledger = s.rate_per_ledger
        /\ s2.start_ledger = s.start_ledger
        /\ s2.claimed = s.claimed /\ s2.closed = s.closed
        /\ s2.deposited = s.deposited + n
    BY DEF Stream
  <1>2. /\ s.rate_per_ledger \in Nat /\ s.start_ledger \in Nat
        /\ s.claimed \in Nat /\ s.deposited \in Nat
    BY DEF Stream
  <1>3. l - s.start_ledger <= m - s.start_ledger
    BY <1>2
  <1>4. x \in Int /\ y \in Int /\ x <= y
    BY <1>2, <1>3, AccrualMonotone
  <1> HIDE DEF x, y, s2
  <1>5. ClaimableAt(s, l) = IF l <= s.start_ledger \/ s.closed THEN 0
            ELSE LET capped == IF x < s.deposited THEN x ELSE s.deposited
                 IN  IF capped > s.claimed THEN capped - s.claimed ELSE 0
    BY DEF ClaimableAt, x
  <1>6. ClaimableAt(s2, m) = IF m <= s.start_ledger \/ s.closed THEN 0
            ELSE LET capped == IF y < s.deposited + n THEN y ELSE s.deposited + n
                 IN  IF capped > s.claimed THEN capped - s.claimed ELSE 0
    BY <1>1 DEF ClaimableAt, y
  <1>7. ClaimableAt(s, l) <= ClaimableAt(s2, m)
    BY <1>2, <1>4, <1>5, <1>6
  <1> QED
    BY <1>7 DEF s2

(***************************************************************************)
(* A replaced record keeps what was earned if it does so for the record    *)
(* itself.                                                                 *)
(***************************************************************************)
LEMMA ReplacedEarned ==
    ASSUME IInv, ledger' = ledger, NEW id \in StreamIds, NEW s,
           stream' = [stream EXCEPT ![id] = s],
           Earned(id) <= s.claimed + ClaimableAt(s, ledger),
           NEW i \in StreamIds, Exists(i)
    PROVE  Earned(i) <= Earned(i)'
  <1>1. stream = [j \in StreamIds |-> stream[j]]
    BY DEF IInv, TypeOK
  <1>2. CASE i = id
    <2>1. stream'[i] = s
      BY <1>1, <1>2
    <2> QED
      BY <1>2, <2>1 DEF Earned
  <1>3. CASE i # id
    <2>1. stream'[i] = stream[i]
      BY <1>1, <1>3
    <2>2. Earned(i) \in Int
      BY ExistingStream DEF Earned, Stream
    <2>3. Earned(i)' = Earned(i)
      BY <2>1 DEF Earned
    <2> QED
      BY <2>2, <2>3
  <1> QED
    BY <1>2, <1>3

\* Paying out what has accrued, whatever else changes, keeps it earned.
LEMMA DrawnEarned ==
    ASSUME IInv, NEW id \in StreamIds, Exists(id), NEW s \in Stream,
           s.claimed = stream[id].claimed + ClaimableAt(stream[id], ledger),
           s.claimed <= s.deposited
    PROVE  Earned(id) <= s.claimed + ClaimableAt(s, ledger)
  <1>1. ledger \in Nat /\ s.claimed \in Nat
    BY DEF IInv, TypeOK, CustodyTypeOK, Stream
  <1>2. ClaimableAt(s, ledger) \in Nat
    BY <1>1, ClaimableBounds
  <1> QED
    BY <1>1, <1>2 DEF Earned

\* The record left behind by a step that pays out what has accrued.
LEMMA DrawnRecord ==
    ASSUME IInv, NEW id \in StreamIds, Exists(id)
    PROVE  LET s == [stream[id] EXCEPT !.claimed = @ + ClaimableAt(stream[id], ledger)]
           IN  /\ s \in Stream
               /\ s.claimed = stream[id].claimed + ClaimableAt(stream[id], ledger)
               /\ s.claimed <= s.deposited
               /\ s.deposited = stream[id].deposited
               /\ s.token = stream[id].token
               /\ s.closed = stream[id].closed
  <1> DEFINE n == ClaimableAt(stream[id], ledger)
  <1>1. /\ n \in Nat /\ stream[id] \in Stream
        /\ stream[id].claimed + n <= stream[id].deposited
    BY ExistingStream
  <1> HIDE DEF n
  <1>2. LET s == [stream[id] EXCEPT !.claimed = @ + n]
        IN  /\ s \in Stream
            /\ s.claimed = stream[id].claimed + n
            /\ s.claimed <= s.deposited
            /\ s.deposited = stream[id].deposited
            /\ s.token = stream[id].token
            /\ s.closed = stream[id].closed
    BY <1>1 DEF Stream
  <1> QED
    BY <1>2 DEF n

\* No step lowers what a recipient has received or can draw.
LEMMA EarnedStep ==
    ASSUME IInv, [Next]_vars, NEW i \in StreamIds, Exists(i)
    PROVE  Earned(i) <= Earned(i)'
  <1>0. /\ stream = [j \in StreamIds |-> stream[j]]
        /\ stream[i] \in Stream /\ ledger \in Nat
        /\ Earned(i) \in Int
    BY ExistingStream DEF IInv, TypeOK, Earned, Stream
  <1>1. ASSUME NEW t \in Tokens, NEW p \in Accounts, NEW r \in Accounts,
               NEW rate \in Amounts, NEW d \in Amounts, OpenStream(t, p, r, rate, d)
        PROVE  Earned(i) <= Earned(i)'
    <2>1. i # streamCount
      BY DEF Exists, IInv, TypeOK, StreamIds
    <2>2. stream'[i] = stream[i] /\ ledger' = ledger
      BY <1>0, <1>1, <2>1 DEF OpenStream
    <2> QED
      BY <1>0, <2>2 DEF Earned
  <1>2. ASSUME NEW id \in StreamIds, NEW a \in Accounts, ClaimStream(id, a)
        PROVE  Earned(i) <= Earned(i)'
    <2> DEFINE s == [stream[id] EXCEPT !.claimed = @ + ClaimableAt(stream[id], ledger)]
    <2>1. Exists(id) /\ ledger' = ledger /\ stream' = [stream EXCEPT ![id] = s]
      BY <1>2 DEF ClaimStream
    <2>2. Earned(id) <= s.claimed + ClaimableAt(s, ledger)
      BY <2>1, DrawnRecord, DrawnEarned
    <2> QED
      BY <2>1, <2>2, ReplacedEarned
  <1>3. ASSUME NEW id \in StreamIds, NEW a \in Accounts,
               CloseStream(id, a) \/ RejectStream(id, a)
        PROVE  Earned(i) <= Earned(i)'
    <2> DEFINE drawn == [stream[id] EXCEPT !.claimed = @ + ClaimableAt(stream[id], ledger)]
               s == [drawn EXCEPT !.closed = TRUE]
    <2>1. Exists(id) /\ ledger' = ledger /\ stream' = [stream EXCEPT ![id] = s]
      BY <1>3 DEF CloseStream, RejectStream, Settle
    <2>2. /\ drawn \in Stream /\ drawn.claimed <= drawn.deposited
          /\ drawn.claimed = stream[id].claimed + ClaimableAt(stream[id], ledger)
      BY <2>1, DrawnRecord
    <2> HIDE DEF drawn
    <2>3. /\ s \in Stream /\ s.claimed <= s.deposited /\ s.claimed = drawn.claimed
      BY <2>2 DEF Stream
    <2> HIDE DEF s
    <2>4. Earned(id) <= s.claimed + ClaimableAt(s, ledger)
      BY <2>1, <2>2, <2>3, DrawnEarned
    <2> QED
      BY <2>1, <2>4, ReplacedEarned
  <1>4. ASSUME NEW id \in StreamIds, NEW a \in Accounts, NEW n \in Amounts,
               TopUpStream(id, a, n)
        PROVE  Earned(i) <= Earned(i)'
    <2> DEFINE s == [stream[id] EXCEPT !.deposited = @ + n]
    <2>1. /\ Exists(id) /\ ledger' = ledger /\ stream' = [stream EXCEPT ![id] = s]
          /\ n \in Nat
      BY <1>4, AmountsAssumption DEF TopUpStream
    <2>2. stream[id] \in Stream /\ ClaimableAt(stream[id], ledger) \in Nat
      BY <2>1, ExistingStream
    <2>3. ClaimableAt(stream[id], ledger) <= ClaimableAt(s, ledger)
      BY <1>0, <2>1, <2>2, ClaimableMonotone
    <2>4. /\ s \in Stream /\ s.claimed = stream[id].claimed /\ s.claimed <= s.deposited
          /\ s.claimed \in Nat
      BY <2>1, <2>2, ExistingStream DEF Stream
    <2>5. ClaimableAt(s, ledger) \in Nat
      BY <1>0, <2>4, ClaimableBounds
    <2> HIDE DEF s
    <2>6. Earned(id) <= s.claimed + ClaimableAt(s, ledger)
      BY <2>2, <2>3, <2>4, <2>5 DEF Earned
    <2> QED
      BY <2>1, <2>6, ReplacedEarned
  <1>5. ASSUME NEW id \in StreamIds, NEW a \in Accounts, NEW b \in Accounts,
               TransferStream(id, a, b)
        PROVE  Earned(i) <= Earned(i)'
    <2> DEFINE drawn == [stream[id] EXCEPT !.claimed = @ + ClaimableAt(stream[id], ledger)]
               s == [drawn EXCEPT !.recipient = b]
    <2>1. Exists(id) /\ ledger' = ledger /\ stream' = [stream EXCEPT ![id] = s]
      BY <1>5 DEF TransferStream
    <2>2. /\ drawn \in Stream /\ drawn.claimed <= drawn.deposited
          /\ drawn.claimed = stream[id].claimed + ClaimableAt(stream[id], ledger)
      BY <2>1, DrawnRecord
    <2> HIDE DEF drawn
    <2>3. /\ s \in Stream /\ s.claimed <= s.deposited /\ s.claimed = drawn.claimed
      BY <2>2 DEF Stream
    <2> HIDE DEF s
    <2>4. Earned(id) <= s.claimed + ClaimableAt(s, ledger)
      BY <2>1, <2>2, <2>3, DrawnEarned
    <2> QED
      BY <2>1, <2>4, ReplacedEarned
  <1>6. CASE CustodyNext /\ UNCHANGED streamVars
    <2>1. stream' = stream /\ ledger' \in Nat /\ ledger <= ledger'
      BY <1>0, <1>6 DEF streamVars, CustodyNext, AdvanceLedger, Donate, SetPaused
    <2>2. [stream[i] EXCEPT !.deposited = @ + 0] = stream[i]
      BY <1>0 DEF Stream
    <2>3. ClaimableAt(stream[i], ledger) <= ClaimableAt(stream[i], ledger')
      <3>1. ClaimableAt(stream[i], ledger)
              <= ClaimableAt([stream[i] EXCEPT !.deposited = @ + 0], ledger')
        BY <1>0, <2>1, ClaimableMonotone
      <3> QED
        BY <2>2, <3>1
    <2>4. /\ stream[i].claimed \in Nat
          /\ ClaimableAt(stream[i], ledger) \in Nat
          /\ ClaimableAt(stream[i], ledger') \in Nat
      BY <1>0, <2>1, ExistingStream, ClaimableBounds DEF Stream
    <2> QED
      BY <2>1, <2>3, <2>4 DEF Earned
  <1>7. CASE UNCHANGED vars
    BY <1>0, <1>7 DEF vars, custodyVars, streamVars, Earned
  <1> QED
    BY <1>1, <1>2, <1>3, <1>4, <1>5, <1>6, <1>7 DEF Next, StreamsNext

(***************************************************************************)
(* What a recipient has earned is never taken back: received plus          *)
(* claimable is monotone under every call of either party.                 *)
(***************************************************************************)
THEOREM EarningsAreSafe == Spec => EarnedNeverShrinks
  <1>1. IInv /\ [Next]_vars =>
          [\A id \in StreamIds : Exists(id) => Earned(id) <= Earned(id)']_vars
    BY EarnedStep
  <1> QED
    BY <1>1, Invariant, PTL DEF Spec, EarnedNeverShrinks

-----------------------------------------------------------------------------
(***************************************************************************)
(* Refinement of Obligations.  The two lemmas that follow recognise an     *)
(* abstract step from its effect on what is owed.                          *)
(***************************************************************************)
LEMMA IncurStep ==
    ASSUME NEW id \in StreamIds, NEW t \in Tokens, NEW n \in Nat \ {0},
           AssetFn[id] \in {NoToken, t}, OwedFn \in [StreamIds -> Int],
           balance' = [balance EXCEPT ![t] = @ + n],
           OwedFn' = [OwedFn EXCEPT ![id] = @ + n],
           AssetFn' = [AssetFn EXCEPT ![id] = t]
    PROVE  Held!Next
  <1>1. OwedFn'[id] > OwedFn[id] /\ OwedFn'[id] - OwedFn[id] = n
    OBVIOUS
  <1>2. Held!Incur(id, t, n)
    BY DEF Held!Incur
  <1>3. Held!Incur(id, t, OwedFn'[id] - OwedFn[id])
    BY <1>1, <1>2
  <1> QED
    BY <1>1, <1>3 DEF Held!Next, Held!Move

\* A payment against one stream is a Discharge of its obligation.
LEMMA DischargeStep ==
    ASSUME NEW id \in StreamIds, NEW t \in Tokens, NEW n \in Nat \ {0},
           AssetFn[id] = t, OwedFn \in [StreamIds -> Int], n <= OwedFn[id],
           balance' = [balance EXCEPT ![t] = @ - n],
           OwedFn' = [OwedFn EXCEPT ![id] = @ - n],
           AssetFn' = AssetFn
    PROVE  Held!Next
  <1>1. OwedFn'[id] < OwedFn[id] /\ OwedFn[id] - OwedFn'[id] = n
    OBVIOUS
  <1>2. Held!Discharge(id, t, n)
    BY DEF Held!Discharge
  <1>3. Held!Discharge(id, t, OwedFn[id] - OwedFn'[id])
    BY <1>1, <1>2
  <1> QED
    BY <1>1, <1>3 DEF Held!Next, Held!Move

\* What the mapping makes of a replaced record.
LEMMA ReplacedOwed ==
    ASSUME IInv, NEW id \in StreamIds, Exists(id),
           NEW s, s.token = stream[id].token, stream' = [stream EXCEPT ![id] = s]
    PROVE  /\ AssetFn' = AssetFn
           /\ OwedFn' = [OwedFn EXCEPT ![id] =
                            IF s.closed THEN 0 ELSE s.deposited - s.claimed]
           /\ AssetFn[id] = stream[id].token
           /\ OwedFn[id] = IF stream[id].closed THEN 0
                           ELSE stream[id].deposited - stream[id].claimed
  <1>1. stream = [j \in StreamIds |-> stream[j]]
    BY DEF IInv, TypeOK
  <1>2. \A i \in StreamIds : stream'[i] = IF i = id THEN s ELSE stream[i]
    BY <1>1
  <1>3. AssetFn' = AssetFn
    BY <1>2 DEF AssetFn
  <1>4. OwedFn' = [OwedFn EXCEPT ![id] =
                     IF s.closed THEN 0 ELSE s.deposited - s.claimed]
    <2>1. OwedFn = [i \in StreamIds |-> OwedFn[i]]
          /\ OwedFn' = [i \in StreamIds |-> OwedFn'[i]]
      BY DEF OwedFn
    <2>2. \A i \in StreamIds : OwedFn'[i] =
            IF i = id THEN (IF s.closed THEN 0 ELSE s.deposited - s.claimed)
                      ELSE OwedFn[i]
      BY <1>2 DEF OwedFn, Owed
    <2> QED
      BY <2>1, <2>2, OnePlace
  <1> QED
    BY <1>3, <1>4 DEF OwedFn, Owed, AssetFn

\* What the mapping makes of a stream is a number.
LEMMA OwedType == IInv => OwedFn \in [StreamIds -> Int]
  <1> SUFFICES ASSUME IInv, NEW id \in StreamIds PROVE Owed(id) \in Int
    BY DEF OwedFn
  <1>1. stream[id] \in Stream \/ stream[id] = NoStream
    BY DEF IInv, TypeOK
  <1> QED
    BY <1>1 DEF Owed, Stream, NoStream

\* Every step of the streams is a step or a stutter of Obligations.
LEMMA RefineStep ==
    ASSUME IInv, [Next]_vars
    PROVE  [Held!Next]_(Held!vars)
  <1>0. OwedFn \in [StreamIds -> Int]
    BY OwedType
  <1>1. ASSUME NEW t \in Tokens, NEW p \in Accounts, NEW r \in Accounts,
               NEW rate \in Amounts, NEW d \in Amounts, OpenStream(t, p, r, rate, d)
        PROVE  Held!Next
    <2> DEFINE s == [payer |-> p, recipient |-> r, token |-> t,
                     rate_per_ledger |-> rate, deposited |-> d,
                     claimed |-> 0, start_ledger |-> ledger, closed |-> FALSE]
    <2>1. /\ stream' = [stream EXCEPT ![streamCount] = s]
          /\ streamCount \in StreamIds /\ d \in Nat \ {0}
          /\ stream = [j \in StreamIds |-> stream[j]]
          /\ balance' = [balance EXCEPT ![t] = @ + d]
      BY <1>1, LimitsAssumption
         DEF OpenStream, TransferIn, IInv, TypeOK, StreamIds
    <2>2. stream[streamCount] = NoStream
      <3>1. ~(streamCount < streamCount)
        BY <2>1 DEF StreamIds
      <3> QED
        BY <2>1, <3>1 DEF IInv, TypeOK
    <2>3. \A i \in StreamIds : stream'[i] = IF i = streamCount THEN s ELSE stream[i]
      BY <2>1
    <2>4. AssetFn[streamCount] = NoToken /\ OwedFn[streamCount] = 0
      BY <2>1, <2>2 DEF AssetFn, OwedFn, Owed, NoStream
    <2>5. AssetFn' = [AssetFn EXCEPT ![streamCount] = t]
      <3>1. AssetFn = [i \in StreamIds |-> AssetFn[i]]
            /\ AssetFn' = [i \in StreamIds |-> AssetFn'[i]]
        BY DEF AssetFn
      <3>2. \A i \in StreamIds : AssetFn'[i] = IF i = streamCount THEN t ELSE AssetFn[i]
        BY <2>3 DEF AssetFn
      <3> QED
        BY <2>1, <3>1, <3>2, OnePlace
    <2>6. OwedFn' = [OwedFn EXCEPT ![streamCount] = d]
      <3>1. OwedFn = [i \in StreamIds |-> OwedFn[i]]
            /\ OwedFn' = [i \in StreamIds |-> OwedFn'[i]]
        BY DEF OwedFn
      <3>2. \A i \in StreamIds : OwedFn'[i] = IF i = streamCount THEN d ELSE OwedFn[i]
        BY <2>1, <2>3 DEF OwedFn, Owed
      <3> QED
        BY <2>1, <3>1, <3>2, OnePlace
    <2>7. OwedFn' = [OwedFn EXCEPT ![streamCount] = @ + d]
      <3>1. OwedFn[streamCount] + d = d
        BY <2>1, <2>4
      <3> QED
        BY <2>6, <3>1
    <2> QED
      BY <1>0, <2>1, <2>4, <2>5, <2>7, IncurStep
  <1>2. ASSUME NEW id \in StreamIds, NEW a \in Accounts, ClaimStream(id, a)
        PROVE  Held!Next
    <2> DEFINE n == ClaimableAt(stream[id], ledger)
               t == stream[id].token
               s == [stream[id] EXCEPT !.claimed = @ + n]
    <2>1. /\ Exists(id) /\ n > 0 /\ stream' = [stream EXCEPT ![id] = s]
          /\ balance' = [balance EXCEPT ![t] = @ - n]
      BY <1>2 DEF ClaimStream, TransferOut
    <2>2. /\ n \in Nat \ {0} /\ t \in Tokens /\ ~stream[id].closed
          /\ stream[id].claimed \in Nat /\ stream[id].deposited \in Nat
          /\ stream[id].claimed + n <= stream[id].deposited
      BY <2>1, ExistingStream, ClaimableBounds DEF Stream
    <2>3. /\ s.token = t /\ s.closed = stream[id].closed
          /\ s.deposited = stream[id].deposited /\ s.claimed = stream[id].claimed + n
      BY <2>1, DrawnRecord
    <2> HIDE DEF s, n
    <2>4. /\ AssetFn' = AssetFn /\ AssetFn[id] = t
          /\ OwedFn' = [OwedFn EXCEPT ![id] = s.deposited - s.claimed]
          /\ OwedFn[id] = stream[id].deposited - stream[id].claimed
      BY <2>1, <2>2, <2>3, ReplacedOwed
    <2>5. n <= OwedFn[id] /\ s.deposited - s.claimed = OwedFn[id] - n
      BY <2>2, <2>3, <2>4
    <2>6. OwedFn' = [OwedFn EXCEPT ![id] = @ - n]
      BY <2>4, <2>5
    <2> QED
      BY <1>0, <2>1, <2>2, <2>4, <2>5, <2>6, DischargeStep
  <1>3. ASSUME NEW id \in StreamIds, NEW a \in Accounts,
               CloseStream(id, a) \/ RejectStream(id, a)
        PROVE  [Held!Next]_(Held!vars)
    <2> DEFINE drawn == [stream[id] EXCEPT !.claimed = @ + ClaimableAt(stream[id], ledger)]
               s == [drawn EXCEPT !.closed = TRUE]
               t == stream[id].token
               n == stream[id].deposited - stream[id].claimed
    <2>1. /\ Exists(id) /\ ~stream[id].closed /\ Settle(id)
          /\ stream' = [stream EXCEPT ![id] = s]
      BY <1>3 DEF CloseStream, RejectStream, Settle
    <2>2. drawn \in Stream /\ drawn.token = t
      BY <2>1, DrawnRecord
    <2> HIDE DEF drawn
    <2>3. s.token = t /\ s.closed = TRUE
      BY <2>2 DEF Stream
    <2> HIDE DEF s
    <2>4. /\ AssetFn' = AssetFn /\ AssetFn[id] = t
          /\ OwedFn' = [OwedFn EXCEPT ![id] = 0]
          /\ OwedFn[id] = n
      BY <2>1, <2>3, ReplacedOwed
    <2>5. /\ n \in Nat /\ t \in Tokens
          /\ IF n > 0 THEN TransferOut(t, n) ELSE UNCHANGED <<balance, cached>>
      BY <2>1, SettlePays, ExistingStream DEF Stream
    <2> HIDE DEF n, t
    <2>6. CASE n > 0
      <3>1. balance' = [balance EXCEPT ![t] = @ - n]
        BY <2>5, <2>6 DEF TransferOut
      <3>2. OwedFn' = [OwedFn EXCEPT ![id] = @ - n]
        BY <2>4, <2>5
      <3>3. n \in Nat \ {0} /\ n <= OwedFn[id]
        BY <2>4, <2>5, <2>6
      <3> QED
        BY <1>0, <2>4, <2>5, <3>1, <3>2, <3>3, DischargeStep
    <2>7. CASE n = 0
      <3>1. balance' = balance
        BY <2>5, <2>7
      <3>2. OwedFn' = OwedFn
        BY <1>0, <2>4, <2>7
      <3> QED
        BY <2>4, <3>1, <3>2 DEF Held!vars
    <2> QED
      BY <2>5, <2>6, <2>7
  <1>4. ASSUME NEW id \in StreamIds, NEW a \in Accounts, NEW n \in Amounts,
               TopUpStream(id, a, n)
        PROVE  Held!Next
    <2> DEFINE s == [stream[id] EXCEPT !.deposited = @ + n]
               t == stream[id].token
    <2>1. /\ Exists(id) /\ n \in Nat \ {0} /\ ~stream[id].closed
          /\ stream' = [stream EXCEPT ![id] = s]
          /\ balance' = [balance EXCEPT ![t] = @ + n]
      BY <1>4, AmountsAssumption DEF TopUpStream, TransferIn
    <2>2. /\ stream[id] \in Stream /\ t \in Tokens
          /\ stream[id].claimed \in Nat /\ stream[id].deposited \in Nat
      BY <2>1, ExistingStream DEF Stream
    <2>3. /\ s.token = t /\ s.closed = stream[id].closed
          /\ s.deposited = stream[id].deposited + n /\ s.claimed = stream[id].claimed
      BY <2>2 DEF Stream
    <2> HIDE DEF s
    <2>4. /\ AssetFn' = AssetFn /\ AssetFn[id] = t
          /\ OwedFn' = [OwedFn EXCEPT ![id] = s.deposited - s.claimed]
          /\ OwedFn[id] = stream[id].deposited - stream[id].claimed
      BY <2>1, <2>3, ReplacedOwed
    <2>5. s.deposited - s.claimed = OwedFn[id] + n
      BY <2>1, <2>2, <2>3, <2>4
    <2>6. OwedFn' = [OwedFn EXCEPT ![id] = @ + n]
      BY <2>4, <2>5
    <2>7. AssetFn' = [AssetFn EXCEPT ![id] = t]
      BY <2>4 DEF AssetFn
    <2> QED
      BY <1>0, <2>1, <2>2, <2>4, <2>6, <2>7, IncurStep
  <1>5. ASSUME NEW id \in StreamIds, NEW a \in Accounts, NEW b \in Accounts,
               TransferStream(id, a, b)
        PROVE  [Held!Next]_(Held!vars)
    <2> DEFINE n == ClaimableAt(stream[id], ledger)
               t == stream[id].token
               drawn == [stream[id] EXCEPT !.claimed = @ + n]
               s == [drawn EXCEPT !.recipient = b]
    <2>1. /\ Exists(id) /\ ~stream[id].closed /\ stream' = [stream EXCEPT ![id] = s]
          /\ IF n > 0 THEN RawTransferOut(t, n) ELSE UNCHANGED <<balance, cached>>
      BY <1>5 DEF TransferStream
    <2>2. /\ n \in Nat /\ t \in Tokens
          /\ stream[id].claimed \in Nat /\ stream[id].deposited \in Nat
          /\ stream[id].claimed + n <= stream[id].deposited
      BY <2>1, ExistingStream DEF Stream
    <2>3. /\ drawn \in Stream
          /\ drawn.token = t /\ drawn.closed = stream[id].closed
          /\ drawn.deposited = stream[id].deposited
          /\ drawn.claimed = stream[id].claimed + n
      BY <2>1, DrawnRecord
    <2> HIDE DEF drawn, n
    <2>4. /\ s.token = t /\ s.closed = stream[id].closed
          /\ s.deposited = stream[id].deposited /\ s.claimed = stream[id].claimed + n
      BY <2>3 DEF Stream
    <2> HIDE DEF s
    <2>5. /\ AssetFn' = AssetFn /\ AssetFn[id] = t
          /\ OwedFn' = [OwedFn EXCEPT ![id] = s.deposited - s.claimed]
          /\ OwedFn[id] = stream[id].deposited - stream[id].claimed
      BY <2>1, <2>4, ReplacedOwed
    <2>6. n <= OwedFn[id] /\ s.deposited - s.claimed = OwedFn[id] - n
      BY <2>2, <2>4, <2>5
    <2>7. CASE n > 0
      <3>1. balance' = [balance EXCEPT ![t] = @ - n]
        BY <2>1, <2>7 DEF RawTransferOut
      <3>2. OwedFn' = [OwedFn EXCEPT ![id] = @ - n]
        BY <2>5, <2>6
      <3>3. n \in Nat \ {0}
        BY <2>2, <2>7
      <3> QED
        BY <1>0, <2>2, <2>5, <2>6, <3>1, <3>2, <3>3, DischargeStep
    <2>8. CASE n = 0
      <3>1. balance' = balance
        BY <2>1, <2>8
      <3>2. OwedFn' = OwedFn
        BY <1>0, <2>5, <2>6, <2>8
      <3> QED
        BY <2>5, <3>1, <3>2 DEF Held!vars
    <2> QED
      BY <2>2, <2>7, <2>8
  <1>6. CASE CustodyNext /\ UNCHANGED streamVars
    <2>1. OwedFn' = OwedFn /\ AssetFn' = AssetFn
      BY <1>6 DEF streamVars, OwedFn, Owed, AssetFn
    <2>2. CASE balance' = balance
      BY <2>1, <2>2 DEF Held!vars
    <2>3. ASSUME NEW t \in Tokens, NEW n \in Donations, Donate(t, n)
          PROVE  Held!Next
      <3>1. /\ balance' = [balance EXCEPT ![t] = @ + n] /\ n \in Nat \ {0}
            /\ balance \in [Tokens -> Nat]
        BY <2>3, DonationsAssumption DEF Donate, IInv, TypeOK, CustodyTypeOK
      <3>2. balance'[t] - balance[t] = n
        BY <3>1
      <3>3. Held!Donate(t, n)
        BY <2>1, <3>1 DEF Held!Donate
      <3>4. Held!Donate(t, balance'[t] - balance[t])
        BY <3>2, <3>3
      <3> QED
        BY <3>4 DEF Held!Next
    <2> QED
      BY <1>6, <2>2, <2>3 DEF CustodyNext, AdvanceLedger, SetPaused
  <1>7. CASE UNCHANGED vars
    BY <1>7 DEF vars, custodyVars, streamVars, Held!vars, OwedFn, Owed, AssetFn
  <1> QED
    BY <1>1, <1>2, <1>3, <1>4, <1>5, <1>6, <1>7 DEF Next, StreamsNext

(***************************************************************************)
(* streams.rs keeps double entry: every token that enters belongs to the   *)
(* stream it was deposited for (or is a donation), and every token that    *)
(* leaves is debited from that stream, on every path.                      *)
(***************************************************************************)
THEOREM StreamsKeepDoubleEntry == Spec => BalanceFollowsObligations
  <1>1. Init => Held!Init
    BY DEF Init, CustodyInit, Held!Init, OwedFn, Owed, AssetFn, NoStream
  <1>2. IInv /\ [Next]_vars => [Held!Next]_(Held!vars)
    BY RefineStep
  <1> QED
    BY <1>1, <1>2, Invariant, PTL DEF Spec, BalanceFollowsObligations, Held!Spec

-----------------------------------------------------------------------------
(***************************************************************************)
(* The books balance.  What streams owe in a token follows the balance,    *)
(* because every step is an Incur, a Discharge or a Donate of Obligations; *)
(* the locked balance follows it too, except that a hand-over leaves it    *)
(* too high.                                                               *)
(***************************************************************************)
OwedCounted ==
    /\ OwedFn \in [StreamIds -> Nat]
    /\ \A id \in StreamIds : AssetFn[id] = NoToken => OwedFn[id] = 0
    /\ balance \in [Tokens -> Nat] /\ locked \in [Tokens -> Int]

LEMMA FinitelyManyStreams == IsFiniteSet(StreamIds)
  BY LimitsAssumption, FS_Interval DEF StreamIds

LEMMA OwedIsCounted == IInv => OwedCounted
  <1> SUFFICES ASSUME IInv PROVE OwedCounted
    OBVIOUS
  <1>1. ASSUME NEW id \in StreamIds
        PROVE  Owed(id) \in Nat /\ (stream[id].token = NoToken => Owed(id) = 0)
    <2>1. CASE stream[id] = NoStream
      BY <2>1 DEF Owed, NoStream
    <2>2. CASE stream[id] \in Stream
      <3>1. Exists(id) /\ stream[id].token \in Tokens
        BY <2>2 DEF IInv, TypeOK, Exists, Stream
      <3>2. stream[id].claimed <= stream[id].deposited
            /\ stream[id].claimed \in Nat /\ stream[id].deposited \in Nat
        BY <2>2, <3>1, ExistingStream DEF Stream
      <3> QED
        BY <3>1, <3>2, NoTokenAssumption DEF Owed
    <2> QED
      BY <2>1, <2>2 DEF IInv, TypeOK
  <1>2. OwedFn \in [StreamIds -> Nat]
        /\ \A id \in StreamIds : AssetFn[id] = NoToken => OwedFn[id] = 0
    BY <1>1 DEF OwedFn, AssetFn, Owed
  <1> QED
    BY <1>2 DEF OwedCounted, IInv, TypeOK, CustodyTypeOK

\* A step of Obligations, by what it does to the balance and to what is owed.
ObligationStep == [Held!Next]_(Held!vars)

LEMMA ObligationStepEffect ==
    ASSUME ObligationStep
    PROVE  \/ balance' = balance /\ OwedFn' = OwedFn /\ AssetFn' = AssetFn
           \/ \E t \in Tokens, id \in StreamIds :
                LET n == OwedFn'[id] - OwedFn[id]
                IN  /\ AssetFn[id] \in {NoToken, t}
                    /\ balance' = [balance EXCEPT ![t] = @ + n]
                    /\ OwedFn' = [OwedFn EXCEPT ![id] = @ + n]
                    /\ AssetFn' = [AssetFn EXCEPT ![id] = t]
           \/ \E t \in Tokens, id \in StreamIds :
                LET n == OwedFn[id] - OwedFn'[id]
                IN  /\ AssetFn[id] = t
                    /\ balance' = [balance EXCEPT ![t] = @ - n]
                    /\ OwedFn' = [OwedFn EXCEPT ![id] = @ - n]
                    /\ AssetFn' = AssetFn
           \/ \E t \in Tokens :
                LET n == balance'[t] - balance[t]
                IN  /\ n > 0
                    /\ balance' = [balance EXCEPT ![t] = @ + n]
                    /\ OwedFn' = OwedFn /\ AssetFn' = AssetFn
  BY DEF ObligationStep, Held!Next, Held!Move, Held!Incur, Held!Discharge, Held!Donate, Held!vars

LEMMA OwedFollowsBalance ==
    ASSUME OwedCounted, OwedCounted', ObligationStep, NEW u \in Tokens
    PROVE  \/ OwedIn(u)' = OwedIn(u) /\ balance'[u] >= balance[u]
           \/ OwedIn(u)' - OwedIn(u) = balance'[u] - balance[u]
  <1>1. /\ OwedFn \in [StreamIds -> Nat] /\ IsFiniteSet(StreamIds)
        /\ \A id \in StreamIds : AssetFn[id] = NoToken => OwedFn[id] = 0
        /\ OwedIn(u) \in Nat
    BY FinitelyManyStreams, OwedTotalType DEF OwedCounted, OwedIn
  <1>2. OwedFn' \in [StreamIds -> Nat] /\ balance \in [Tokens -> Nat] /\ balance' \in [Tokens -> Nat]
    BY DEF OwedCounted
  <1>3. OwedIn(u) = Total(OfToken(OwedFn, AssetFn, u))
        /\ OwedIn(u)' = Total(OfToken(OwedFn', AssetFn', u))
    BY DEF OwedIn
  <1>4. ASSUME OwedFn' = OwedFn, AssetFn' = AssetFn PROVE OwedIn(u)' = OwedIn(u)
    BY <1>3, <1>4
  <1>5. AssetFn = [i \in StreamIds |-> AssetFn[i]]
    BY DEF AssetFn
  <1>6. ASSUME NEW t \in Tokens, NEW id \in StreamIds, NEW d \in Int,
               balance' = [balance EXCEPT ![t] = @ + d],
               OwedFn' = [OwedFn EXCEPT ![id] = @ + d],
               AssetFn' = [AssetFn EXCEPT ![id] = t], AssetFn[id] = t \/ OwedFn[id] = 0
        PROVE  OwedIn(u)' - OwedIn(u) = balance'[u] - balance[u]
    <2>1. OneDebt(StreamIds, OwedFn, OwedFn', AssetFn, AssetFn', id, t)
      BY <1>1, <1>2, <1>6, <1>5 DEF OneDebt
    <2>2. OwedIn(u)' = OwedIn(u) + (IF u = t THEN OwedFn'[id] - OwedFn[id] ELSE 0)
      BY <1>3, <2>1, OwedMoves
    <2>3. OwedFn'[id] = OwedFn[id] + d
      BY <1>1, <1>6
    <2> QED
      BY <1>1, <1>2, <1>3, <1>6, <2>2, <2>3
  <1>7. ASSUME NEW t \in Tokens, NEW id \in StreamIds, AssetFn[id] \in {NoToken, t},
               NEW n, n = OwedFn'[id] - OwedFn[id],
               balance' = [balance EXCEPT ![t] = @ + n],
               OwedFn' = [OwedFn EXCEPT ![id] = @ + n],
               AssetFn' = [AssetFn EXCEPT ![id] = t]
        PROVE  OwedIn(u)' - OwedIn(u) = balance'[u] - balance[u]
    <2>1. n \in Int /\ (AssetFn[id] = t \/ OwedFn[id] = 0)
      BY <1>1, <1>2, <1>7
    <2> QED
      BY <1>6, <1>7, <2>1
  <1>8. ASSUME NEW t \in Tokens, NEW id \in StreamIds, AssetFn[id] = t,
               NEW n, n = OwedFn[id] - OwedFn'[id],
               balance' = [balance EXCEPT ![t] = @ - n],
               OwedFn' = [OwedFn EXCEPT ![id] = @ - n],
               AssetFn' = AssetFn
        PROVE  OwedIn(u)' - OwedIn(u) = balance'[u] - balance[u]
    <2>1. n \in Int /\ -n \in Int
      BY <1>1, <1>2, <1>8
    <2>2. balance' = [balance EXCEPT ![t] = @ + (-n)]
          /\ OwedFn' = [OwedFn EXCEPT ![id] = @ + (-n)]
      BY <1>1, <1>2, <1>8, <2>1
    <2>3. AssetFn' = [AssetFn EXCEPT ![id] = t]
      BY <1>5, <1>8
    <2> QED
      BY <1>6, <1>8, <2>1, <2>2, <2>3
  <1>9. ASSUME NEW t \in Tokens, NEW n, n = balance'[t] - balance[t], n > 0,
               balance' = [balance EXCEPT ![t] = @ + n],
               OwedFn' = OwedFn, AssetFn' = AssetFn
        PROVE  OwedIn(u)' = OwedIn(u) /\ balance'[u] >= balance[u]
    <2>1. n \in Int
      BY <1>2, <1>9
    <2> QED
      BY <1>2, <1>4, <1>9, <2>1
  <1> QED
    BY <1>2, <1>4, <1>7, <1>8, <1>9, ObligationStepEffect

\* The locked balance moves with the token balance, or grows more, except
\* where no stream is involved.
LEMMA LockedFollowsBalance ==
    ASSUME IInv, [Next]_vars, NEW u \in Tokens
    PROVE  \/ locked'[u] - locked[u] >= balance'[u] - balance[u]
           \/ locked'[u] = locked[u] /\ stream' = stream
  <1>1. balance \in [Tokens -> Nat] /\ locked \in [Tokens -> Int]
    BY DEF IInv, TypeOK, CustodyTypeOK
  <1>2. ASSUME NEW t \in Tokens, NEW n \in Nat,
               \/ TransferIn(t, n) /\ IncreaseLocked(t, n)
               \/ DecreaseLocked(t, n) /\ TransferOut(t, n)
        PROVE  locked'[u] - locked[u] = balance'[u] - balance[u]
    BY <1>1, <1>2 DEF TransferIn, IncreaseLocked, DecreaseLocked, TransferOut
  <1>3. ASSUME NEW t \in Tokens, NEW p \in Accounts, NEW r \in Accounts,
               NEW rate \in Amounts, NEW d \in Amounts, OpenStream(t, p, r, rate, d)
        PROVE  locked'[u] - locked[u] = balance'[u] - balance[u]
    <2>1. d \in Nat /\ TransferIn(t, d) /\ IncreaseLocked(t, d)
      BY <1>3, LimitsAssumption DEF OpenStream
    <2> QED
      BY <1>2, <2>1
  <1>4. ASSUME NEW id \in StreamIds, NEW a \in Accounts, ClaimStream(id, a)
        PROVE  locked'[u] - locked[u] = balance'[u] - balance[u]
    <2> DEFINE n == ClaimableAt(stream[id], ledger)
    <2>1. Exists(id) /\ DecreaseLocked(stream[id].token, n) /\ TransferOut(stream[id].token, n)
      BY <1>4 DEF ClaimStream
    <2>2. n \in Nat /\ stream[id].token \in Tokens
      BY <2>1, ExistingStream DEF Stream
    <2> HIDE DEF n
    <2> QED
      BY <1>2, <2>1, <2>2
  <1>5. ASSUME NEW id \in StreamIds, NEW a \in Accounts,
               CloseStream(id, a) \/ RejectStream(id, a)
        PROVE  locked'[u] - locked[u] = balance'[u] - balance[u]
    <2> DEFINE n == stream[id].deposited - stream[id].claimed
               t == stream[id].token
    <2>1. Exists(id) /\ Settle(id)
      BY <1>5 DEF CloseStream, RejectStream
    <2>2. /\ n \in Nat /\ t \in Tokens /\ DecreaseLocked(t, n)
          /\ IF n > 0 THEN TransferOut(t, n) ELSE UNCHANGED <<balance, cached>>
      BY <2>1, SettlePays, ExistingStream DEF Stream
    <2> HIDE DEF n, t
    <2>3. CASE n > 0
      BY <1>2, <2>2, <2>3
    <2>4. CASE n = 0
      BY <1>1, <2>2, <2>4 DEF DecreaseLocked
    <2> QED
      BY <2>2, <2>3, <2>4
  <1>6. ASSUME NEW id \in StreamIds, NEW a \in Accounts, NEW n \in Amounts,
               TopUpStream(id, a, n)
        PROVE  locked'[u] - locked[u] = balance'[u] - balance[u]
    <2>1. /\ Exists(id) /\ n \in Nat
          /\ TransferIn(stream[id].token, n) /\ IncreaseLocked(stream[id].token, n)
      BY <1>6, AmountsAssumption DEF TopUpStream
    <2>2. stream[id].token \in Tokens
      BY <2>1, ExistingStream DEF Stream
    <2> QED
      BY <1>2, <2>1, <2>2
  <1>7. ASSUME NEW id \in StreamIds, NEW a \in Accounts, NEW b \in Accounts,
               TransferStream(id, a, b)
        PROVE  locked'[u] = locked[u] /\ balance'[u] <= balance[u]
    <2> DEFINE n == ClaimableAt(stream[id], ledger)
               t == stream[id].token
    <2>1. /\ Exists(id) /\ locked' = locked
          /\ IF n > 0 THEN RawTransferOut(t, n) ELSE UNCHANGED <<balance, cached>>
      BY <1>7 DEF TransferStream
    <2>2. n \in Nat /\ t \in Tokens
      BY <2>1, ExistingStream DEF Stream
    <2> HIDE DEF n, t
    <2> QED
      BY <1>1, <2>1, <2>2 DEF RawTransferOut
  <1>8. CASE (CustodyNext /\ UNCHANGED streamVars) \/ UNCHANGED vars
    BY <1>8 DEF CustodyNext, AdvanceLedger, Donate, SetPaused, vars, custodyVars, streamVars
  <1>9. CASE locked'[u] = locked[u] /\ balance'[u] <= balance[u]
    <2>1. balance'[u] \in Int /\ balance[u] \in Int /\ locked[u] \in Int
      <3>1. IInv'
        BY NextInvariant
      <3> QED
        BY <1>1, <3>1 DEF IInv, TypeOK, CustodyTypeOK
    <2> QED
      BY <1>9, <2>1
  <1>10. CASE locked'[u] - locked[u] = balance'[u] - balance[u]
    <2>1. balance'[u] \in Int /\ balance[u] \in Int
      <3>1. IInv'
        BY NextInvariant
      <3> QED
        BY <1>1, <3>1 DEF IInv, TypeOK, CustodyTypeOK
    <2> QED
      BY <1>10, <2>1
  <1> QED
    BY <1>3, <1>4, <1>5, <1>6, <1>7, <1>8, <1>9, <1>10 DEF Next, StreamsNext

\* The two solvency bounds, kept together: each step moves both sides alike.
LEMMA SolvencyStep ==
    ASSUME IInv, [Next]_vars, StreamsSolvent, LockedCoversStreams
    PROVE  (StreamsSolvent /\ LockedCoversStreams)'
  <1>1. IInv'
    BY NextInvariant
  <1>2. OwedCounted /\ OwedCounted'
    BY <1>1, OwedIsCounted, PTL
  <1>3. ObligationStep
    BY RefineStep DEF ObligationStep
  <1>4. ASSUME NEW u \in Tokens
        PROVE  OwedIn(u)' <= balance'[u] /\ OwedIn(u)' <= locked'[u]
    <2>1. /\ OwedIn(u) <= balance[u] /\ OwedIn(u) <= locked[u]
      BY DEF StreamsSolvent, LockedCoversStreams
    <2>2. OwedIn(u) \in Nat /\ OwedIn(u)' \in Nat
      BY <1>2, FinitelyManyStreams, OwedTotalType DEF OwedCounted, OwedIn
    <2>3. /\ balance[u] \in Nat /\ balance'[u] \in Nat
          /\ locked[u] \in Int /\ locked'[u] \in Int
      BY <1>2 DEF OwedCounted
    <2>4. \/ OwedIn(u)' = OwedIn(u) /\ balance'[u] >= balance[u]
          \/ OwedIn(u)' - OwedIn(u) = balance'[u] - balance[u]
      BY <1>2, <1>3, OwedFollowsBalance
    <2>5. \/ locked'[u] - locked[u] >= balance'[u] - balance[u]
          \/ locked'[u] = locked[u] /\ OwedIn(u)' = OwedIn(u)
      <3>1. stream' = stream => OwedIn(u)' = OwedIn(u)
        <4> SUFFICES ASSUME stream' = stream PROVE OwedIn(u)' = OwedIn(u)
          OBVIOUS
        <4>1. OwedFn' = OwedFn /\ AssetFn' = AssetFn
          BY DEF OwedFn, Owed, AssetFn
        <4> QED
          BY <4>1 DEF OwedIn
      <3> QED
        BY <3>1, LockedFollowsBalance
    <2> QED
      BY <2>1, <2>2, <2>3, <2>4, <2>5
  <1> QED
    BY <1>4 DEF StreamsSolvent, LockedCoversStreams

-----------------------------------------------------------------------------
\* The payer index survives a call that closes a stream or leaves it open,
\* whether or not it also unlists it.
LEMMA ReplaceKeepsIndex ==
    ASSUME IInv, IndexConsistent, NEW id \in StreamIds, Exists(id),
           NEW s, stream' = [stream EXCEPT ![id] = s], streamCount' = streamCount,
           s.payer = stream[id].payer, stream[id].closed => s.closed,
           \/ streamByPayer' = streamByPayer
           \/ s.closed /\ streamByPayer' = [streamByPayer EXCEPT ![s.payer] = @ \ {id}]
    PROVE  IndexConsistent'
  <1>1. /\ stream = [i \in StreamIds |-> stream[i]]
        /\ streamByPayer \in [Accounts -> SUBSET StreamIds]
    BY DEF IInv, TypeOK
  <1>2. \A i \in StreamIds : stream'[i] = IF i = id THEN s ELSE stream[i]
    BY <1>1
  <1>3. \A i \in StreamIds : Exists(i)' <=> Exists(i)
    BY DEF Exists
  <1>4. \A p \in Accounts : StreamsOf(p)' = StreamsOf(p)
    BY <1>2, <1>3 DEF StreamsOf
  <1> SUFFICES ASSUME NEW p \in Accounts
               PROVE  /\ streamByPayer'[p] \subseteq StreamsOf(p)
                      /\ \A i \in StreamsOf(p) :
                           \/ stream'[i].closed
                           \/ i \in streamByPayer'[p]
                           \/ Cardinality(StreamsOf(p)) > MAX_USER_STREAMS
    BY <1>4 DEF IndexConsistent
  <1>5. streamByPayer'[p] \subseteq StreamsOf(p)
    BY <1>1 DEF IndexConsistent
  <1>6. ASSUME NEW i \in StreamsOf(p), ~stream'[i].closed, i \in streamByPayer[p]
        PROVE  i \in streamByPayer'[p]
    BY <1>1, <1>2, <1>6 DEF StreamsOf
  <1>7. ASSUME NEW i \in StreamsOf(p), stream[i].closed
        PROVE  stream'[i].closed
    BY <1>2, <1>7 DEF StreamsOf
  <1> QED
    BY <1>5, <1>6, <1>7 DEF IndexConsistent

\* open_stream lists the new stream unless the payer's index is full; then the
\* listed streams and the new one are more than an index holds.
LEMMA OpenKeepsIndex ==
    ASSUME IInv, IndexConsistent, NEW t \in Tokens, NEW p \in Accounts, NEW r \in Accounts,
           NEW rate \in Amounts, NEW d \in Amounts, OpenStream(t, p, r, rate, d)
    PROVE  IndexConsistent'
  <1> DEFINE s == [payer |-> p, recipient |-> r, token |-> t,
                   rate_per_ledger |-> rate, deposited |-> d,
                   claimed |-> 0, start_ledger |-> ledger, closed |-> FALSE]
             listed == Cardinality(streamByPayer[p]) < MAX_USER_STREAMS
  <1>1. /\ streamCount \in StreamIds /\ streamCount' = streamCount + 1
        /\ stream' = [stream EXCEPT ![streamCount] = s] /\ s.payer = p
        /\ streamByPayer' = IF listed THEN [streamByPayer EXCEPT ![p] = @ \cup {streamCount}]
                                      ELSE streamByPayer
    BY LimitsAssumption DEF OpenStream, IInv, TypeOK, StreamIds
  <1>2. /\ stream = [i \in StreamIds |-> stream[i]]
        /\ streamByPayer \in [Accounts -> SUBSET StreamIds]
        /\ streamCount \in Nat /\ streamCount < MaxStreams
    BY <1>1, LimitsAssumption DEF IInv, TypeOK, StreamIds
  <1> HIDE DEF s, listed
  <1>3. \A i \in StreamIds : stream'[i] = IF i = streamCount THEN s ELSE stream[i]
    BY <1>1, <1>2
  <1>4. \A i \in StreamIds : Exists(i)' <=> (Exists(i) \/ i = streamCount)
    BY <1>1, <1>2 DEF Exists, StreamIds
  <1>5. \A q \in Accounts : /\ StreamsOf(q)' = IF q = p THEN StreamsOf(q) \cup {streamCount}
                                                      ELSE StreamsOf(q)
                            /\ streamCount \notin StreamsOf(q)
    BY <1>1, <1>2, <1>3, <1>4 DEF StreamsOf, Exists
  <1>6. ASSUME NEW q \in Accounts
        PROVE  /\ streamByPayer[q] \subseteq StreamsOf(q)
               /\ IsFiniteSet(StreamsOf(q)) /\ Cardinality(StreamsOf(q)) \in Nat
               /\ Cardinality(streamByPayer[q]) <= Cardinality(StreamsOf(q))
    <2>1. IsFiniteSet(StreamIds)
      BY FinitelyManyStreams
    <2>2. streamByPayer[q] \subseteq StreamsOf(q) /\ StreamsOf(q) \subseteq StreamIds
      BY DEF IndexConsistent, StreamsOf
    <2>3. IsFiniteSet(StreamsOf(q))
      BY <2>1, <2>2, FS_Subset
    <2> QED
      BY <2>2, <2>3, FS_Subset, FS_CardinalityType
  <1>7. Cardinality(StreamsOf(p)') = Cardinality(StreamsOf(p)) + 1
    BY <1>5, <1>6, FS_AddElement
  <1>8. ~listed => Cardinality(StreamsOf(p)') > MAX_USER_STREAMS
    <2>1. IsFiniteSet(streamByPayer[p]) /\ Cardinality(streamByPayer[p]) \in Nat
      BY <1>6, FS_Subset, FS_CardinalityType
    <2> QED
      BY <1>6, <1>7, <2>1, LimitsAssumption DEF listed
  <1> SUFFICES ASSUME NEW q \in Accounts
               PROVE  /\ streamByPayer'[q] \subseteq StreamsOf(q)'
                      /\ \A i \in StreamsOf(q)' :
                           \/ stream'[i].closed
                           \/ i \in streamByPayer'[q]
                           \/ Cardinality(StreamsOf(q)') > MAX_USER_STREAMS
    BY DEF IndexConsistent
  <1>9. streamByPayer[q] \subseteq streamByPayer'[q] /\ streamByPayer'[q] \subseteq StreamsOf(q)'
    BY <1>1, <1>2, <1>5, <1>6
  <1>10. ASSUME NEW i \in StreamsOf(q)', i = streamCount
         PROVE  i \in streamByPayer'[q] \/ Cardinality(StreamsOf(q)') > MAX_USER_STREAMS
    <2>1. q = p
      BY <1>5, <1>10
    <2> QED
      BY <1>1, <1>2, <1>8, <1>10, <2>1
  <1>11. ASSUME NEW i \in StreamsOf(q)', i # streamCount
         PROVE  \/ stream'[i].closed
                \/ i \in streamByPayer'[q]
                \/ Cardinality(StreamsOf(q)') > MAX_USER_STREAMS
    <2>1. i \in StreamsOf(q) /\ stream'[i] = stream[i]
      BY <1>3, <1>5, <1>11 DEF StreamsOf
    <2>2. Cardinality(StreamsOf(q)) > MAX_USER_STREAMS => Cardinality(StreamsOf(q)') > MAX_USER_STREAMS
      BY <1>5, <1>6, <1>7, LimitsAssumption
    <2> QED
      BY <1>9, <2>1, <2>2 DEF IndexConsistent
  <1> QED
    BY <1>9, <1>10, <1>11

LEMMA IndexStep ==
    ASSUME IInv, [Next]_vars, IndexConsistent
    PROVE  IndexConsistent'
  <1>1. ASSUME NEW t \in Tokens, NEW p \in Accounts, NEW r \in Accounts,
               NEW rate \in Amounts, NEW d \in Amounts, OpenStream(t, p, r, rate, d)
        PROVE  IndexConsistent'
    BY <1>1, OpenKeepsIndex
  <1>2. ASSUME NEW id \in StreamIds, NEW a \in Accounts, ClaimStream(id, a)
        PROVE  IndexConsistent'
    <2> DEFINE s == [stream[id] EXCEPT !.claimed = @ + ClaimableAt(stream[id], ledger)]
    <2>1. /\ Exists(id) /\ stream' = [stream EXCEPT ![id] = s]
          /\ UNCHANGED <<streamCount, streamByPayer>>
      BY <1>2 DEF ClaimStream
    <2>2. s.payer = stream[id].payer /\ s.closed = stream[id].closed
      BY <2>1, ExistingStream DEF Stream
    <2> HIDE DEF s
    <2> QED
      BY <2>1, <2>2, ReplaceKeepsIndex
  <1>3. ASSUME NEW id \in StreamIds, NEW a \in Accounts,
               CloseStream(id, a) \/ RejectStream(id, a)
        PROVE  IndexConsistent'
    <2> DEFINE drawn == [stream[id] EXCEPT !.claimed = @ + ClaimableAt(stream[id], ledger)]
               s == [drawn EXCEPT !.closed = TRUE]
    <2>1. /\ Exists(id) /\ Settle(id) /\ streamCount' = streamCount
          /\ \/ streamByPayer' = streamByPayer
             \/ streamByPayer' = [streamByPayer EXCEPT ![stream[id].payer] = @ \ {id}]
      BY <1>3 DEF CloseStream, RejectStream
    <2>2. stream' = [stream EXCEPT ![id] = s]
      BY <2>1 DEF Settle
    <2>3. drawn \in Stream /\ drawn.payer = stream[id].payer
      BY <2>1, ExistingStream DEF Stream
    <2> HIDE DEF drawn
    <2>4. s.payer = stream[id].payer /\ s.closed = TRUE
      BY <2>3 DEF Stream
    <2> HIDE DEF s
    <2> QED
      BY <2>1, <2>2, <2>4, ReplaceKeepsIndex
  <1>4. ASSUME NEW id \in StreamIds, NEW a \in Accounts, NEW n \in Amounts,
               TopUpStream(id, a, n)
        PROVE  IndexConsistent'
    <2> DEFINE s == [stream[id] EXCEPT !.deposited = @ + n]
    <2>1. /\ Exists(id) /\ stream' = [stream EXCEPT ![id] = s]
          /\ UNCHANGED <<streamCount, streamByPayer>>
      BY <1>4 DEF TopUpStream
    <2>2. s.payer = stream[id].payer /\ s.closed = stream[id].closed
      BY <2>1, ExistingStream DEF Stream
    <2> HIDE DEF s
    <2> QED
      BY <2>1, <2>2, ReplaceKeepsIndex
  <1>5. ASSUME NEW id \in StreamIds, NEW a \in Accounts, NEW b \in Accounts,
               TransferStream(id, a, b)
        PROVE  IndexConsistent'
    <2> DEFINE drawn == [stream[id] EXCEPT !.claimed = @ + ClaimableAt(stream[id], ledger)]
               s == [drawn EXCEPT !.recipient = b]
    <2>1. /\ Exists(id) /\ stream' = [stream EXCEPT ![id] = s]
          /\ UNCHANGED <<streamCount, streamByPayer>>
      BY <1>5 DEF TransferStream
    <2>2. drawn \in Stream /\ drawn.payer = stream[id].payer /\ drawn.closed = stream[id].closed
      BY <2>1, ExistingStream DEF Stream
    <2> HIDE DEF drawn
    <2>3. s.payer = stream[id].payer /\ s.closed = stream[id].closed
      BY <2>2 DEF Stream
    <2> HIDE DEF s
    <2> QED
      BY <2>1, <2>3, ReplaceKeepsIndex
  <1>6. CASE (CustodyNext /\ UNCHANGED streamVars) \/ UNCHANGED vars
    BY <1>6 DEF vars, streamVars, IndexConsistent, Exists, StreamsOf
  <1> QED
    BY <1>1, <1>2, <1>3, <1>4, <1>5, <1>6 DEF Next, StreamsNext

LEMMA BooksInitially == Init => StreamBooksBalance
  <1> SUFFICES ASSUME Init PROVE StreamBooksBalance
    OBVIOUS
  <1>1. OwedCounted
    BY InitInvariant, OwedIsCounted
  <1>2. \A id \in StreamIds : OwedFn[id] = 0
    BY DEF Init, OwedFn, Owed, NoStream
  <1>3. \A t \in Tokens : OwedIn(t) = 0
    <2> SUFFICES ASSUME NEW t \in Tokens PROVE Total(OfToken(OwedFn, AssetFn, t)) = 0
      BY DEF OwedIn
    <2>1. /\ OfToken(OwedFn, AssetFn, t) \in [StreamIds -> Nat]
          /\ \A id \in StreamIds : OfToken(OwedFn, AssetFn, t)[id] = 0
      BY <1>1, <1>2, OfTokenType DEF OwedCounted
    <2> QED
      BY <2>1, TotalZero
  <1>4. StreamsSolvent /\ LockedCoversStreams
    BY <1>3 DEF Init, CustodyInit, StreamsSolvent, LockedCoversStreams
  <1>5. IndexConsistent
    BY DEF Init, IndexConsistent, StreamsOf, Exists, StreamIds
  <1> QED
    BY <1>4, <1>5 DEF StreamBooksBalance

(***************************************************************************)
(* Whatever was opened, topped up, claimed, handed over, rejected and      *)
(* closed, by any number of parties: the contract can pay every stream,    *)
(* unlocked funds are never streamed funds, and the payer index is true.   *)
(***************************************************************************)
THEOREM StreamsCanBePaid == Spec => []StreamBooksBalance
  <1>1. IInv /\ StreamBooksBalance /\ [Next]_vars => StreamBooksBalance'
    BY SolvencyStep, IndexStep DEF StreamBooksBalance
  <1> QED
    BY <1>1, BooksInitially, Invariant, PTL DEF Spec
=============================================================================
