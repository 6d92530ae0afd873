----------------------------- MODULE ServiceProofs -----------------------------
(***************************************************************************)
(* Safety of five backend services whose tasks race for rows of a table or *)
(* for a cache, for every number of processes, calls, ledgers, ticks,      *)
(* clients and faults.                                                     *)
(*                                                                         *)
(* The event indexer: every event up to a cursor is in the table, or was   *)
(* hidden by an RPC error taken for an empty page; of a poll under way the *)
(* range before it is covered, it saw every event of its own range that    *)
(* was not hidden, and a clean one has them all stored once its            *)
(* transaction is over.  Pending executions: one call owns a row past its claim.  The  *)
(* scheduled executor: a worker between its claim and the resolution holds *)
(* the lease stored in the row.  The txFunctions runner: the snapshot of a *)
(* tick keeps type and creation of its rows, cached prices were true when  *)
(* fetched, and every logging over the limit has a task that prunes it.    *)
(* The balance feed: a refresh that nobody raced finds the cache empty.    *)
(***************************************************************************)
EXTENDS EventIndexer, PendingExecutions, ScheduledExecutor, Turrets, BalanceFeed,
        FiniteSetTheorems, TLAPS

\* Every event up to the last ledger given is in the table or was hidden from a
\* poll by an error in place of a page.
Covered(last) ==
    \A n \in DOMAIN chain : n <= last /\ chain[n] # "empty" => n \in contractEvents \cup missed

CursorsCover ==
    /\ savedCursor <= LatestLedger /\ Covered(savedCursor)
    /\ \A i \in Indexers : cursor[i] <= LatestLedger /\ Covered(cursor[i])

\* A poll ranges over closed ledgers and everything before its start is covered.
PollsStartCovered ==
    \A i \in Indexers : poll[i] # NotPolling =>
        /\ poll[i].start <= poll[i].latest /\ poll[i].latest <= LatestLedger
        /\ Covered(poll[i].start - 1)

\* What a poll fetched is every event of its range that no error hid, and all of it
\* parsed if clean.
PollsSeeTheirRange ==
    \A i \in Indexers : poll[i] # NotPolling /\ poll[i].pc # "fetch" =>
        /\ poll[i].raw \subseteq DOMAIN chain
        /\ Events(poll[i].start, poll[i].latest) \subseteq poll[i].raw \cup missed
        /\ poll[i].clean => poll[i].raw = Parsed(poll[i].raw)
        /\ poll[i].clean /\ poll[i].pc # "store" => poll[i].raw \subseteq contractEvents

IndexerInv == IndexerTypeOK /\ CursorsCover /\ PollsStartCovered /\ PollsSeeTheirRange

--------------------------------------------------------------------------------
LEMMA ConstantsAreNat == MaxLedger \in Nat /\ MaxIndexerFaults \in Nat
BY IndexerAssumption

\* The closed ledgers are numbered without a gap (getLatestLedger).
LEMMA ClosedLedgers ==
    ASSUME IndexerTypeOK
    PROVE  LatestLedger \in 0 .. MaxLedger /\ DOMAIN chain = 1 .. LatestLedger
<1>1. PICK n \in 0 .. MaxLedger : chain \in [1 .. n -> {"empty", "event", "garbled"}]
  BY DEF IndexerTypeOK
<1>2. n \in Nat /\ DOMAIN chain = 1 .. n
  BY <1>1, ConstantsAreNat
<1>3. Cardinality(1 .. n) = n
  BY <1>2, FS_Interval
<1> QED
  BY <1>1, <1>2, <1>3 DEF LatestLedger

LEMMA IndexerInitially == IndexerInit => IndexerInv
<1> SUFFICES ASSUME IndexerInit PROVE IndexerInv
  OBVIOUS
<1> USE ConstantsAreNat
<1>1. DOMAIN chain = {} /\ 1 .. 0 = {}
  BY DEF IndexerInit
<1>2. IndexerTypeOK
  <2>1. chain \in [1 .. 0 -> {"empty", "event", "garbled"}]
    BY <1>1 DEF IndexerInit
  <2>2. \E n \in 0 .. MaxLedger : chain \in [1 .. n -> {"empty", "event", "garbled"}]
    <3>1. 0 \in 0 .. MaxLedger
      OBVIOUS
    <3> QED
      BY <3>1, <2>1
  <2>3. poll \in [Indexers -> Poll \cup {NotPolling}]
    BY DEF IndexerInit
  <2>4. /\ contractEvents \subseteq Ledgers /\ savedCursor \in 0 .. MaxLedger
        /\ cursor \in [Indexers -> 0 .. MaxLedger]
        /\ pushed \in [Ledgers -> 0 .. 2] /\ missed \subseteq Ledgers
        /\ indexerFaults \in 0 .. MaxIndexerFaults
    BY DEF IndexerInit
  <2> QED
    BY <2>2, <2>3, <2>4 DEF IndexerTypeOK
<1>3. LatestLedger \in Nat
  BY <1>2, ClosedLedgers, ConstantsAreNat
<1>4. CursorsCover
  BY <1>1, <1>3 DEF CursorsCover, Covered, IndexerInit
<1> QED
  BY <1>2, <1>4 DEF IndexerInv, PollsStartCovered, PollsSeeTheirRange, IndexerInit

--------------------------------------------------------------------------------
\* What is covered stays covered as the table grows over the same ledgers.
LEMMA CoverStays ==
    ASSUME UNCHANGED chain, contractEvents \subseteq contractEvents', missed \subseteq missed'
    PROVE  \A x \in Int : Covered(x) => Covered(x)'
BY DEF Covered

\* A record of a process that is polling.
LEMMA PollFields ==
    ASSUME IndexerTypeOK, NEW i \in Indexers, poll[i] # NotPolling
    PROVE  /\ poll[i] \in Poll
           /\ poll[i].start \in Ledgers /\ poll[i].latest \in Ledgers
           /\ poll[i].raw \subseteq Ledgers /\ poll[i].clean \in BOOLEAN
BY DEF IndexerTypeOK, Poll

LEMMA PollingHasPc ==
    ASSUME NEW i \in Indexers, poll[i].pc # "idle"
    PROVE  poll[i] # NotPolling
BY DEF NotPolling

\* The range of a poll whose events are all in the table, or hidden, extends the
\* cover.
LEMMA RangeIsCovered ==
    ASSUME IndexerTypeOK, NEW i \in Indexers, poll[i] # NotPolling,
           Covered(poll[i].start - 1),
           Events(poll[i].start, poll[i].latest) \subseteq contractEvents \cup missed
    PROVE  Covered(poll[i].latest)
<1>1. DOMAIN chain \subseteq Int
  BY ClosedLedgers
<1>2. poll[i].start \in Int /\ poll[i].latest \in Int
  BY PollFields DEF Ledgers
<1> SUFFICES ASSUME NEW n \in DOMAIN chain, n <= poll[i].latest, chain[n] # "empty"
             PROVE  n \in contractEvents \cup missed
  BY DEF Covered
<1>3. CASE n <= poll[i].start - 1
  BY <1>3 DEF Covered
<1>4. CASE ~ (n <= poll[i].start - 1)
  BY <1>1, <1>2, <1>4 DEF Events
<1> QED
  BY <1>3, <1>4

--------------------------------------------------------------------------------
(* Every step keeps the types. *)

LEMMA TypesAreKept == IndexerTypeOK /\ [IndexerNext]_indexerVars => IndexerTypeOK'
<1> SUFFICES ASSUME IndexerTypeOK, [IndexerNext]_indexerVars PROVE IndexerTypeOK'
  OBVIOUS
<1> USE ConstantsAreNat
<1>l. LatestLedger \in 0 .. MaxLedger /\ DOMAIN chain = 1 .. LatestLedger
  BY ClosedLedgers
<1>e. \A first, last \in Int : Events(first, last) \subseteq Ledgers
  BY <1>l DEF Events, Ledgers
<1>1. CASE CloseLedger
  <2>1. PICK kind \in {"empty", "event", "garbled"} :
          chain' = [n \in 1 .. LatestLedger + 1 |-> IF n \in DOMAIN chain THEN chain[n] ELSE kind]
    BY <1>1 DEF CloseLedger
  <2>2. \A n \in DOMAIN chain : chain[n] \in {"empty", "event", "garbled"}
    BY DEF IndexerTypeOK
  <2>3. LatestLedger + 1 \in 0 .. MaxLedger
    BY <1>1, <1>l DEF CloseLedger
  <2>4. chain' \in [1 .. LatestLedger + 1 -> {"empty", "event", "garbled"}]
    BY <2>1, <2>2
  <2> QED
    BY <1>1, <2>3, <2>4 DEF IndexerTypeOK, CloseLedger
<1>2. ASSUME NEW i \in Indexers, StartPoll(i) PROVE IndexerTypeOK'
  <2>1. PollStart(i) \in Ledgers /\ LatestLedger \in Ledgers
    BY <1>2, <1>l DEF StartPoll, PollStart, Ledgers, IndexerTypeOK
  <2>2. poll' \in [Indexers -> Poll \cup {NotPolling}]
    BY <1>2, <2>1 DEF StartPoll, IndexerTypeOK, Poll
  <2> QED
    BY <1>2, <2>2 DEF IndexerTypeOK, StartPoll
<1>f. ASSUME NEW i \in Indexers, poll[i].pc = "fetch", NEW raw \in SUBSET Ledgers,
             poll' = Fetched(i, raw)
      PROVE  poll' \in [Indexers -> Poll \cup {NotPolling}]
  <2>1. poll[i] \in Poll
    BY <1>f, PollFields, PollingHasPc
  <2>2. (raw = Parsed(raw)) \in BOOLEAN
    OBVIOUS
  <2> QED
    BY <1>f, <2>1, <2>2 DEF IndexerTypeOK, Poll, Fetched
<1>3. ASSUME NEW i \in Indexers, FetchEvents(i) PROVE IndexerTypeOK'
  <2>1. PICK last \in poll[i].latest .. LatestLedger : poll' = Fetched(i, Events(poll[i].start, last))
    BY <1>3 DEF FetchEvents
  <2>2. poll[i].start \in Int /\ last \in Int /\ poll[i].pc = "fetch"
    BY <1>3, <1>l, PollFields, PollingHasPc DEF FetchEvents, Ledgers
  <2>3. poll' \in [Indexers -> Poll \cup {NotPolling}]
    BY <2>1, <2>2, <1>e, <1>f
  <2> QED
    BY <1>3, <2>3 DEF IndexerTypeOK, FetchEvents
<1>c. ASSUME NEW i \in Indexers, FetchCutOff(i) PROVE IndexerTypeOK'
  <2>1. PICK last \in poll[i].start - 1 .. poll[i].latest - 1 :
          /\ poll' = Fetched(i, Events(poll[i].start, last))
          /\ missed' = missed \cup Events(last + 1, poll[i].latest)
    BY <1>c DEF FetchCutOff
  <2>2. poll[i].start \in Int /\ poll[i].latest \in Int /\ poll[i].pc = "fetch"
    BY <1>c, <1>l, PollFields, PollingHasPc DEF FetchCutOff, Ledgers
  <2>3. last \in Int /\ last + 1 \in Int
    BY <2>2
  <2>4. poll' \in [Indexers -> Poll \cup {NotPolling}]
    BY <2>1, <2>2, <2>3, <1>e, <1>f
  <2>5. missed' \subseteq Ledgers
    BY <2>1, <2>2, <2>3, <1>e DEF IndexerTypeOK
  <2>6. indexerFaults' \in 0 .. MaxIndexerFaults
    BY <1>c DEF FetchCutOff, IndexerFault, IndexerTypeOK
  <2> QED
    BY <1>c, <2>4, <2>5, <2>6 DEF IndexerTypeOK, FetchCutOff
<1>4. ASSUME NEW i \in Indexers, FetchFails(i) PROVE IndexerTypeOK'
  <2>1. indexerFaults' \in 0 .. MaxIndexerFaults
    BY <1>4 DEF FetchFails, IndexerFault, IndexerTypeOK
  <2>2. poll' \in [Indexers -> Poll \cup {NotPolling}]
    BY <1>4 DEF FetchFails, IndexerTypeOK
  <2> QED
    BY <1>4, <2>1, <2>2 DEF IndexerTypeOK, FetchFails
<1>5. ASSUME NEW i \in Indexers, StoreEvents(i) PROVE IndexerTypeOK'
  <2>1. poll[i] \in Poll /\ poll[i].latest \in Ledgers /\ poll[i].raw \subseteq Ledgers
        /\ poll[i].clean \in BOOLEAN
    BY <1>5, PollFields, PollingHasPc DEF StoreEvents
  <2> DEFINE rows == Parsed(poll[i].raw)
             clean == poll[i].clean /\ rows \cap contractEvents = {}
  <2>2. rows \subseteq Ledgers /\ clean \in BOOLEAN
    BY <2>1 DEF Parsed
  <2> HIDE DEF rows, clean
  <2>3. PICK c \in BOOLEAN : poll' = [poll EXCEPT ![i] = [@ EXCEPT !.pc = "notify", !.clean = c]]
    BY <1>5, <2>2 DEF StoreEvents, rows, clean
  <2>4. poll' \in [Indexers -> Poll \cup {NotPolling}]
    BY <2>1, <2>3 DEF IndexerTypeOK, Poll
  <2>5. contractEvents' \subseteq Ledgers /\ savedCursor' \in 0 .. MaxLedger
        /\ indexerFaults' \in 0 .. MaxIndexerFaults
    BY <1>5, <2>1, <2>2 DEF StoreEvents, rows, IndexerFault, IndexerTypeOK, Ledgers
  <2> QED
    BY <1>5, <2>4, <2>5 DEF IndexerTypeOK, StoreEvents
<1>6. ASSUME NEW i \in Indexers, NotifyEvents(i) PROVE IndexerTypeOK'
  <2>1. poll[i] \in Poll
    BY <1>6, PollFields, PollingHasPc DEF NotifyEvents
  <2>2. poll' \in [Indexers -> Poll \cup {NotPolling}]
    BY <1>6, <2>1 DEF NotifyEvents, IndexerTypeOK, Poll
  <2>3. pushed' \in [Ledgers -> 0 .. 2]
    BY <1>6 DEF NotifyEvents, IndexerTypeOK
  <2> QED
    BY <1>6, <2>2, <2>3 DEF IndexerTypeOK, NotifyEvents
<1>7. ASSUME NEW i \in Indexers, AdvanceCursor(i) PROVE IndexerTypeOK'
  <2>1. poll[i].latest \in 0 .. MaxLedger
    BY <1>7, PollFields, PollingHasPc DEF AdvanceCursor, Ledgers
  <2> QED
    BY <1>7, <2>1 DEF IndexerTypeOK, AdvanceCursor
<1>8. ASSUME NEW i \in Indexers, Restart(i) PROVE IndexerTypeOK'
  <2>1. PICK c \in 0 .. MaxLedger : cursor' = [cursor EXCEPT ![i] = c]
    BY <1>8 DEF Restart, IndexerTypeOK
  <2>2. cursor' \in [Indexers -> 0 .. MaxLedger]
    BY <2>1 DEF IndexerTypeOK
  <2>3. poll' \in [Indexers -> Poll \cup {NotPolling}]
    BY <1>8 DEF Restart, IndexerTypeOK
  <2>4. indexerFaults' \in 0 .. MaxIndexerFaults
    BY <1>8 DEF Restart, IndexerFault, IndexerTypeOK
  <2> QED
    BY <1>8, <2>2, <2>3, <2>4 DEF IndexerTypeOK, Restart
<1>9. CASE UNCHANGED indexerVars
  BY <1>9 DEF IndexerTypeOK, indexerVars
<1> QED
  BY <1>1, <1>2, <1>3, <1>c, <1>4, <1>5, <1>6, <1>7, <1>8, <1>9 DEF IndexerNext, IndexerStep

--------------------------------------------------------------------------------
(* Every step keeps the invariant.  One lemma per action that has something *)
(* to show; the parts about a poll go process by process.                   *)

PollIsSound(i) ==
    poll[i] # NotPolling =>
      /\ poll[i].start <= poll[i].latest /\ poll[i].latest <= LatestLedger
      /\ Covered(poll[i].start - 1)
      /\ poll[i].pc # "fetch" =>
           /\ poll[i].raw \subseteq DOMAIN chain
           /\ Events(poll[i].start, poll[i].latest) \subseteq poll[i].raw \cup missed
           /\ poll[i].clean => poll[i].raw = Parsed(poll[i].raw)
           /\ poll[i].clean /\ poll[i].pc # "store" => poll[i].raw \subseteq contractEvents

LEMMA PollByPoll ==
    (\A i \in Indexers : PollIsSound(i)) <=> PollsStartCovered /\ PollsSeeTheirRange
BY DEF PollIsSound, PollsStartCovered, PollsSeeTheirRange

\* A poll that does not move stays sound while the ledgers stay and the table grows.
LEMMA OtherPolls ==
    ASSUME IndexerTypeOK, UNCHANGED chain, contractEvents \subseteq contractEvents',
           missed \subseteq missed',
           NEW i \in Indexers, poll'[i] = poll[i], PollIsSound(i)
    PROVE  PollIsSound(i)'
<1>1. LatestLedger' = LatestLedger
  BY DEF LatestLedger
<1>2. \A a, b : Events(a, b)' = Events(a, b)
  BY DEF Events
<1>3. \A r : Parsed(r)' = Parsed(r)
  BY DEF Parsed
<1> SUFFICES ASSUME poll[i] # NotPolling PROVE PollIsSound(i)'
  BY DEF PollIsSound
<1>4. poll[i].start - 1 \in Int
  BY PollFields DEF Ledgers
<1>5. Covered(poll[i].start - 1)'
  BY <1>4, CoverStays DEF PollIsSound
<1> QED
  BY <1>1, <1>2, <1>3, <1>5 DEF PollIsSound

\* A closed ledger lies beyond every cursor and every poll (CloseLedger).
LEMMA ClosingKeepsInv ==
    ASSUME IndexerInv, IndexerTypeOK', CloseLedger
    PROVE  CursorsCover' /\ \A i \in Indexers : PollIsSound(i)'
<1>1. PICK kind \in {"empty", "event", "garbled"} :
        chain' = [n \in 1 .. LatestLedger + 1 |-> IF n \in DOMAIN chain THEN chain[n] ELSE kind]
  BY DEF CloseLedger
<1>2. LatestLedger \in Nat /\ DOMAIN chain = 1 .. LatestLedger
  BY ClosedLedgers, ConstantsAreNat DEF IndexerInv
<1>3. DOMAIN chain' = 1 .. LatestLedger + 1 /\ \A n \in DOMAIN chain : chain'[n] = chain[n]
  BY <1>1, <1>2
<1>4. LatestLedger' = LatestLedger + 1
  <2>1. Cardinality(1 .. LatestLedger + 1) = LatestLedger + 1
    BY <1>2, FS_Interval
  <2> QED
    BY <1>3, <2>1 DEF LatestLedger
<1>5. \A x \in Int : x <= LatestLedger /\ Covered(x) => Covered(x)'
  BY <1>2, <1>3 DEF Covered, CloseLedger
<1>6. CursorsCover'
  <2>1. savedCursor \in Int /\ \A i \in Indexers : cursor[i] \in Int
    BY ConstantsAreNat DEF IndexerInv, IndexerTypeOK
  <2> QED
    BY <2>1, <1>2, <1>4, <1>5 DEF IndexerInv, CursorsCover, CloseLedger
<1>7. ASSUME NEW i \in Indexers, poll[i] # NotPolling PROVE PollIsSound(i)'
  <2>1. poll[i].start \in Int /\ poll[i].latest \in Int /\ poll[i].start - 1 \in Int
    BY <1>7, PollFields DEF IndexerInv, Ledgers
  <2>2. PollIsSound(i)
    BY PollByPoll DEF IndexerInv
  <2>3. poll[i].start <= poll[i].latest /\ poll[i].latest <= LatestLedger
        /\ Covered(poll[i].start - 1)
    BY <1>7, <2>2 DEF PollIsSound
  <2>4. Events(poll[i].start, poll[i].latest)' = Events(poll[i].start, poll[i].latest)
    BY <2>1, <2>3, <1>2, <1>3 DEF Events, CloseLedger
  <2>5. \A r \in SUBSET DOMAIN chain : Parsed(r)' = Parsed(r)
    BY <1>3 DEF Parsed
  <2>6. Covered(poll[i].start - 1)'
    <3>1. poll[i].start - 1 <= LatestLedger
      BY <2>1, <2>3, <1>2
    <3>2. poll' = poll
      BY DEF CloseLedger
    <3> QED
      BY <1>5, <2>1, <2>3, <3>1, <3>2
  <2>7. /\ poll' = poll /\ contractEvents' = contractEvents /\ missed' = missed
        /\ poll[i].latest <= LatestLedger'
    BY <1>2, <1>4, <2>1, <2>3 DEF CloseLedger
  <2>8. poll[i].pc # "fetch" => poll[i].raw \subseteq DOMAIN chain
    BY <1>7, <2>2 DEF PollIsSound
  <2>9. poll[i].pc # "fetch" => poll[i].raw \subseteq DOMAIN chain' /\ Parsed(poll[i].raw)' = Parsed(poll[i].raw)
    BY <1>2, <1>3, <2>5, <2>7, <2>8
  <2> QED
    BY <1>7, <2>2, <2>3, <2>4, <2>6, <2>7, <2>9 DEF PollIsSound
<1> QED
  BY <1>6, <1>7 DEF PollIsSound, CloseLedger

\* The cursors and the polls after a step of process i that leaves the ledgers
\* alone, given that what i itself wrote is right.
LEMMA OwnStep ==
    ASSUME IndexerInv, UNCHANGED chain, contractEvents \subseteq contractEvents',
           missed \subseteq missed',
           NEW i \in Indexers, NEW p, poll' = [poll EXCEPT ![i] = p], PollIsSound(i)',
           NEW c \in 0 .. LatestLedger, cursor' = [cursor EXCEPT ![i] = c], Covered(c),
           savedCursor' \in 0 .. LatestLedger, Covered(savedCursor)'
    PROVE  CursorsCover' /\ \A j \in Indexers : PollIsSound(j)'
<1>1. LatestLedger' = LatestLedger /\ LatestLedger \in Nat
  BY ClosedLedgers, ConstantsAreNat DEF LatestLedger, IndexerInv
<1>2. \A j \in Indexers : cursor[j] \in Int /\ cursor[j] <= LatestLedger /\ Covered(cursor[j])
  BY ConstantsAreNat DEF IndexerInv, IndexerTypeOK, CursorsCover
<1>3. ASSUME NEW j \in Indexers PROVE (cursor[j] <= LatestLedger /\ Covered(cursor[j]))'
  <2>1. cursor'[j] = IF j = i THEN c ELSE cursor[j]
    BY DEF IndexerInv, IndexerTypeOK
  <2>2. c \in Int /\ c <= LatestLedger
    BY <1>1
  <2> QED
    BY <1>1, <1>2, <2>1, <2>2 DEF Covered
<1>4. CursorsCover'
  <2>1. savedCursor' <= LatestLedger'
    BY <1>1
  <2> QED
    BY <1>3, <2>1 DEF CursorsCover
<1>5. ASSUME NEW j \in Indexers PROVE PollIsSound(j)'
  <2>1. CASE j = i
    BY <2>1
  <2>2. CASE j # i
    <3>1. poll'[j] = poll[j]
      BY <2>2 DEF IndexerInv, IndexerTypeOK
    <3>2. PollIsSound(j) /\ IndexerTypeOK
      BY PollByPoll DEF IndexerInv
    <3> QED
      BY <3>1, <3>2, OtherPolls
  <2> QED
    BY <2>1, <2>2
<1> QED
  BY <1>4, <1>5

\* The step of a poll that leaves the cursors alone.
LEMMA CursorsRest ==
    ASSUME IndexerInv, UNCHANGED <<chain, cursor, savedCursor>>,
           contractEvents \subseteq contractEvents', missed \subseteq missed',
           NEW i \in Indexers, NEW p, poll' = [poll EXCEPT ![i] = p], PollIsSound(i)'
    PROVE  CursorsCover' /\ \A j \in Indexers : PollIsSound(j)'
<1>1. LatestLedger \in Nat
  BY ClosedLedgers, ConstantsAreNat DEF IndexerInv
<1>2. cursor[i] \in 0 .. LatestLedger /\ Covered(cursor[i]) /\ savedCursor \in 0 .. LatestLedger
      /\ Covered(savedCursor)
  BY <1>1, ConstantsAreNat DEF IndexerInv, IndexerTypeOK, CursorsCover
<1>3. cursor' = [cursor EXCEPT ![i] = cursor[i]]
  BY DEF IndexerInv, IndexerTypeOK
<1>4. savedCursor' \in 0 .. LatestLedger /\ Covered(savedCursor)'
  BY <1>1, <1>2, CoverStays
<1> QED
  BY <1>2, <1>3, <1>4, OwnStep

\* A poll starts after a cursor whose ledgers are covered (StartPoll).
LEMMA StartingKeepsInv ==
    ASSUME IndexerInv, NEW i \in Indexers, StartPoll(i)
    PROVE  CursorsCover' /\ \A j \in Indexers : PollIsSound(j)'
<1> DEFINE p == [pc |-> "fetch", start |-> PollStart(i), latest |-> LatestLedger,
                 raw |-> {}, clean |-> TRUE]
<1>1. poll' = [poll EXCEPT ![i] = p] /\ PollStart(i) <= LatestLedger
  BY DEF StartPoll
<1>2. UNCHANGED <<chain, contractEvents, missed, cursor, savedCursor>>
  BY DEF StartPoll
<1>3. Covered(cursor[i]) /\ cursor[i] \in Int /\ LatestLedger' = LatestLedger /\ LatestLedger \in Int
  <2>1. LatestLedger \in Int
    BY ClosedLedgers, ConstantsAreNat DEF IndexerInv
  <2>2. LatestLedger' = LatestLedger
    BY <1>2 DEF LatestLedger
  <2> QED
    BY <2>1, <2>2, ConstantsAreNat DEF IndexerInv, CursorsCover, IndexerTypeOK
<1>4. PollIsSound(i)'
  <2>1. poll'[i] = p
    BY <1>1 DEF IndexerInv, IndexerTypeOK
  <2>2. poll'[i].start = cursor[i] + 1 /\ poll'[i].latest = LatestLedger /\ poll'[i].pc = "fetch"
    BY <2>1 DEF PollStart
  <2>3. poll'[i].start - 1 = cursor[i]
    BY <1>3, <2>2
  <2>4. Covered(poll[i].start - 1)'
    BY <1>2, <1>3, <2>3 DEF Covered
  <2> QED
    BY <1>1, <1>3, <2>2, <2>4 DEF PollIsSound, PollStart
<1> QED
  BY <1>1, <1>2, <1>4, CursorsRest

\* What a poll goes on with is sound when no event of its range is left out that
\* is not counted as hidden (Fetched).
LEMMA FetchedIsSound ==
    ASSUME IndexerInv, NEW i \in Indexers, poll[i].pc = "fetch", NEW raw \in SUBSET DOMAIN chain,
           poll' = Fetched(i, raw), UNCHANGED <<chain, contractEvents, cursor, savedCursor>>,
           missed \subseteq missed',
           Events(poll[i].start, poll[i].latest) \subseteq raw \cup missed'
    PROVE  CursorsCover' /\ \A j \in Indexers : PollIsSound(j)'
<1> DEFINE p == [poll[i] EXCEPT !.pc = IF raw = {} THEN "advance" ELSE "store", !.raw = raw,
                                !.clean = raw = Parsed(raw)]
<1>1. poll' = [poll EXCEPT ![i] = p]
  BY DEF Fetched
<1>2. poll[i] # NotPolling /\ poll[i] \in Poll /\ PollIsSound(i)
  BY PollByPoll, PollFields, PollingHasPc DEF IndexerInv
<1>3. poll[i].start - 1 \in Int
  BY <1>2 DEF Poll, Ledgers
<1>4. PollIsSound(i)'
  <2>1. poll'[i] = p
    BY <1>1 DEF IndexerInv, IndexerTypeOK
  <2>2. /\ poll'[i].start = poll[i].start /\ poll'[i].latest = poll[i].latest
        /\ poll'[i].raw = raw /\ poll'[i].clean = (raw = Parsed(raw))
        /\ poll'[i].pc = IF raw = {} THEN "advance" ELSE "store"
    BY <1>2, <2>1 DEF Poll
  <2> HIDE DEF p
  <2>3. /\ Events(poll[i].start, poll[i].latest)' = Events(poll[i].start, poll[i].latest)
        /\ Parsed(poll[i].raw)' = Parsed(raw) /\ LatestLedger' = LatestLedger
    BY <2>2 DEF Events, Parsed, LatestLedger
  <2>4. Covered(poll[i].start - 1)'
    BY <1>2, <1>3, <2>2, CoverStays DEF PollIsSound, Covered
  <2> QED
    BY <1>2, <2>2, <2>3, <2>4 DEF PollIsSound
<1> QED
  BY <1>1, <1>4, CursorsRest

\* A poll gets every event of its range (FetchEvents).
LEMMA FetchingKeepsInv ==
    ASSUME IndexerInv, NEW i \in Indexers, FetchEvents(i)
    PROVE  CursorsCover' /\ \A j \in Indexers : PollIsSound(j)'
<1>1. PICK last \in poll[i].latest .. LatestLedger : poll' = Fetched(i, Events(poll[i].start, last))
  BY DEF FetchEvents
<1> DEFINE raw == Events(poll[i].start, last)
<1>2. UNCHANGED <<chain, contractEvents, cursor, savedCursor, missed>> /\ poll[i].pc = "fetch"
  BY DEF FetchEvents
<1>3. poll[i].start \in Int /\ poll[i].latest \in Int /\ LatestLedger \in Int /\ last \in Int
      /\ poll[i].latest <= last
  BY <1>2, PollFields, PollingHasPc, ClosedLedgers, ConstantsAreNat DEF IndexerInv, Ledgers
<1>4. raw \in SUBSET DOMAIN chain /\ Events(poll[i].start, poll[i].latest) \subseteq raw
  BY <1>3, ClosedLedgers DEF Events, IndexerInv
<1>5. poll' = Fetched(i, raw)
  BY <1>1
<1> HIDE DEF raw
<1> QED
  BY <1>2, <1>4, <1>5, FetchedIsSound

\* A poll gets the events of its range up to an error; the others count as hidden
\* (FetchCutOff).
LEMMA CuttingOffKeepsInv ==
    ASSUME IndexerInv, NEW i \in Indexers, FetchCutOff(i)
    PROVE  CursorsCover' /\ \A j \in Indexers : PollIsSound(j)'
<1>1. PICK last \in poll[i].start - 1 .. poll[i].latest - 1 :
        /\ poll' = Fetched(i, Events(poll[i].start, last))
        /\ missed' = missed \cup Events(last + 1, poll[i].latest)
  BY DEF FetchCutOff
<1> DEFINE raw == Events(poll[i].start, last)
<1>2. UNCHANGED <<chain, contractEvents, cursor, savedCursor>> /\ poll[i].pc = "fetch"
  BY DEF FetchCutOff
<1>3. poll[i].start \in Int /\ poll[i].latest \in Int
  BY <1>2, PollFields, PollingHasPc DEF IndexerInv, Ledgers
<1>4. last \in Int
  BY <1>3
<1>5. DOMAIN chain \subseteq Int
  BY ClosedLedgers DEF IndexerInv
<1>6. /\ raw \in SUBSET DOMAIN chain
      /\ Events(poll[i].start, poll[i].latest) \subseteq raw \cup Events(last + 1, poll[i].latest)
  BY <1>3, <1>4, <1>5 DEF Events
<1>7. poll' = Fetched(i, raw) /\ Events(poll[i].start, poll[i].latest) \subseteq raw \cup missed'
  BY <1>1, <1>6
<1> HIDE DEF raw
<1> QED
  BY <1>1, <1>2, <1>6, <1>7, FetchedIsSound

\* A poll that ends leaves nothing to show (FetchFails).
LEMMA FailingKeepsInv ==
    ASSUME IndexerInv, NEW i \in Indexers, FetchFails(i)
    PROVE  CursorsCover' /\ \A j \in Indexers : PollIsSound(j)'
<1>1. PollIsSound(i)'
  BY DEF PollIsSound, FetchFails, IndexerInv, IndexerTypeOK
<1> QED
  BY <1>1, CursorsRest DEF FetchFails

\* The transaction stores what was parsed and saves the cursor of a clean range
\* (StoreEvents), or is rolled back and leaves the range dirty.
LEMMA StoringKeepsInv ==
    ASSUME IndexerInv, NEW i \in Indexers, StoreEvents(i)
    PROVE  CursorsCover' /\ \A j \in Indexers : PollIsSound(j)'
<1> DEFINE rows == Parsed(poll[i].raw)
           clean == poll[i].clean /\ rows \cap contractEvents = {}
           p(c) == [poll[i] EXCEPT !.pc = "notify", !.clean = c]
<1>1. poll[i] # NotPolling /\ poll[i] \in Poll /\ PollIsSound(i) /\ poll[i].pc = "store"
  BY PollByPoll, PollFields, PollingHasPc DEF IndexerInv, StoreEvents
<1>2. UNCHANGED <<chain, cursor, missed>> /\ LatestLedger' = LatestLedger
  BY DEF StoreEvents, LatestLedger
<1>3. rows \subseteq poll[i].raw /\ clean \in BOOLEAN
  BY <1>1 DEF Parsed, Poll
<1>4. ASSUME NEW c \in BOOLEAN, poll' = [poll EXCEPT ![i] = p(c)], contractEvents \subseteq contractEvents',
             c => poll[i].clean /\ rows \subseteq contractEvents'
      PROVE  PollIsSound(i)'
  <2>1. poll'[i] = p(c)
    BY <1>4 DEF IndexerInv, IndexerTypeOK
  <2>2. /\ poll'[i].start = poll[i].start /\ poll'[i].latest = poll[i].latest
        /\ poll'[i].raw = poll[i].raw /\ poll'[i].clean = c /\ poll'[i].pc = "notify"
    BY <1>1, <2>1 DEF Poll
  <2>3. poll[i].start - 1 \in Int
    BY <1>1 DEF Poll, Ledgers
  <2>4. Covered(poll[i].start - 1)'
    BY <1>1, <1>2, <1>4, <2>2, <2>3 DEF PollIsSound, Covered
  <2>5. Events(poll[i].start, poll[i].latest)' = Events(poll[i].start, poll[i].latest)
        /\ Parsed(poll[i].raw)' = Parsed(poll[i].raw)
    BY <1>2, <2>2 DEF Events, Parsed
  <2>6. c => poll[i].raw = rows
    BY <1>1, <1>4 DEF PollIsSound
  <2> HIDE DEF p
  <2> QED
    BY <1>1, <1>2, <1>4, <2>2, <2>4, <2>5, <2>6 DEF PollIsSound
<1>5. CASE /\ contractEvents' = contractEvents \cup rows
           /\ savedCursor' = IF clean /\ rows # {} THEN poll[i].latest ELSE savedCursor
           /\ poll' = [poll EXCEPT ![i] = p(clean)]
  <2>1. PollIsSound(i)'
    <3> HIDE DEF rows, p
    <3> QED
      BY <1>3, <1>4, <1>5
  <2>2. cursor' = [cursor EXCEPT ![i] = cursor[i]] /\ cursor[i] \in 0 .. LatestLedger /\ Covered(cursor[i])
    BY <1>2, ClosedLedgers, ConstantsAreNat DEF IndexerInv, IndexerTypeOK, CursorsCover
  <2>3. savedCursor \in 0 .. LatestLedger /\ Covered(savedCursor)
    BY ClosedLedgers, ConstantsAreNat DEF IndexerInv, IndexerTypeOK, CursorsCover
  <2>4. CASE ~ (clean /\ rows # {})
    <3>1. savedCursor' = savedCursor
      BY <1>5, <2>4
    <3>2. savedCursor' \in 0 .. LatestLedger /\ Covered(savedCursor)'
      BY <1>2, <1>5, <2>3, <3>1 DEF Covered
    <3> HIDE DEF rows, clean, p
    <3> QED
      BY <1>2, <1>5, <2>1, <2>2, <3>2, OwnStep
  <2>5. CASE clean /\ rows # {}
    <3>1. savedCursor' = poll[i].latest
      BY <1>5, <2>5
    <3>2. poll[i].latest \in 0 .. LatestLedger /\ poll[i].start \in Int /\ poll[i].latest \in Int
      BY <1>1, ClosedLedgers, ConstantsAreNat DEF PollIsSound, Poll, Ledgers, IndexerInv
    <3>3. Events(poll[i].start, poll[i].latest) \subseteq contractEvents' \cup missed /\ Covered(poll[i].start - 1)
      BY <1>1, <1>5, <2>5 DEF PollIsSound
    <3>4. ASSUME NEW n \in DOMAIN chain, n <= poll[i].latest, chain[n] # "empty"
          PROVE  n \in contractEvents' \cup missed
      <4>1. n \in Int
        BY ClosedLedgers DEF IndexerInv
      <4>2. CASE n <= poll[i].start - 1
        BY <1>5, <3>3, <3>4, <4>2 DEF Covered
      <4>3. CASE ~ (n <= poll[i].start - 1)
        BY <3>2, <3>3, <3>4, <4>1, <4>3 DEF Events
      <4> QED
        BY <4>2, <4>3
    <3>5. Covered(savedCursor)' /\ savedCursor' \in 0 .. LatestLedger
      BY <1>2, <3>1, <3>2, <3>4 DEF Covered
    <3> HIDE DEF rows, clean, p
    <3> QED
      BY <1>2, <1>5, <2>1, <2>2, <3>5, OwnStep
  <2> QED
    BY <2>4, <2>5
<1>6. CASE /\ UNCHANGED <<contractEvents, savedCursor>>
           /\ poll' = [poll EXCEPT ![i] = p(FALSE)]
  <2>1. PollIsSound(i)'
    <3> HIDE DEF rows, p
    <3> QED
      BY <1>4, <1>6
  <2> HIDE DEF rows, p
  <2> QED
    BY <1>2, <1>6, <2>1, CursorsRest
<1> QED
  BY <1>5, <1>6 DEF StoreEvents

\* Notifying touches neither the table nor the cursors (NotifyEvents).
LEMMA NotifyingKeepsInv ==
    ASSUME IndexerInv, NEW i \in Indexers, NotifyEvents(i)
    PROVE  CursorsCover' /\ \A j \in Indexers : PollIsSound(j)'
<1> DEFINE p == [poll[i] EXCEPT !.pc = "advance"]
<1>1. poll[i] # NotPolling /\ poll[i] \in Poll /\ PollIsSound(i) /\ poll[i].pc = "notify"
  BY PollByPoll, PollFields, PollingHasPc DEF IndexerInv, NotifyEvents
<1>2. poll' = [poll EXCEPT ![i] = p]
      /\ UNCHANGED <<chain, contractEvents, cursor, savedCursor, missed>>
  BY DEF NotifyEvents
<1>3. PollIsSound(i)'
  <2>1. poll'[i] = p
    BY <1>2 DEF IndexerInv, IndexerTypeOK
  <2>2. /\ poll'[i].start = poll[i].start /\ poll'[i].latest = poll[i].latest
        /\ poll'[i].raw = poll[i].raw /\ poll'[i].clean = poll[i].clean
    BY <1>1, <2>1 DEF Poll
  <2>3. Covered(poll[i].start - 1)' /\ LatestLedger' = LatestLedger
        /\ Events(poll[i].start, poll[i].latest)' = Events(poll[i].start, poll[i].latest)
        /\ Parsed(poll[i].raw)' = Parsed(poll[i].raw)
    BY <1>1, <1>2, <2>2 DEF PollIsSound, Covered, Events, Parsed, LatestLedger
  <2> HIDE DEF p
  <2> QED
    BY <1>1, <1>2, <2>2, <2>3 DEF PollIsSound
<1> QED
  BY <1>2, <1>3, CursorsRest

\* A clean range has all its events stored when its end becomes the cursor, and
\* a range without events has none to store (AdvanceCursor).
LEMMA AdvancingKeepsInv ==
    ASSUME IndexerInv, NEW i \in Indexers, AdvanceCursor(i)
    PROVE  CursorsCover' /\ \A j \in Indexers : PollIsSound(j)'
<1>1. poll[i] # NotPolling /\ PollIsSound(i) /\ poll[i].pc = "advance" /\ poll[i].latest \in Nat
  BY PollByPoll, PollFields, PollingHasPc DEF IndexerInv, AdvanceCursor, Ledgers
<1>2. poll' = [poll EXCEPT ![i] = NotPolling] /\ UNCHANGED <<chain, contractEvents, missed>>
  BY DEF AdvanceCursor
<1>3. PollIsSound(i)'
  BY <1>2 DEF PollIsSound, IndexerInv, IndexerTypeOK
<1>4. LatestLedger \in Nat /\ LatestLedger' = LatestLedger /\ poll[i].latest \in 0 .. LatestLedger
  BY <1>1, <1>2, ClosedLedgers, ConstantsAreNat DEF IndexerInv, PollIsSound, LatestLedger
<1>5. poll[i].clean \/ poll[i].raw = {} => Covered(poll[i].latest)
  BY <1>1, RangeIsCovered DEF PollIsSound, IndexerInv
<1>6. savedCursor' \in 0 .. LatestLedger /\ Covered(savedCursor)'
  <2>1. savedCursor \in 0 .. LatestLedger /\ Covered(savedCursor)
    BY <1>4, ConstantsAreNat DEF IndexerInv, CursorsCover, IndexerTypeOK
  <2> QED
    BY <1>2, <1>4, <1>5, <2>1 DEF AdvanceCursor, Covered
<1>7. PICK c \in 0 .. LatestLedger : cursor' = [cursor EXCEPT ![i] = c] /\ Covered(c)
  <2>1. cursor[i] \in 0 .. LatestLedger /\ Covered(cursor[i])
    BY <1>4, ConstantsAreNat DEF IndexerInv, CursorsCover, IndexerTypeOK
  <2>2. CASE poll[i].clean
    BY <1>4, <1>5, <2>2 DEF AdvanceCursor
  <2>3. CASE ~ poll[i].clean
    BY <2>1, <2>3 DEF AdvanceCursor, IndexerInv, IndexerTypeOK
  <2> QED
    BY <2>2, <2>3
<1> QED
  BY <1>2, <1>3, <1>6, <1>7, OwnStep

\* A restarted process takes the saved cursor, or none (Restart).
LEMMA RestartingKeepsInv ==
    ASSUME IndexerInv, NEW i \in Indexers, Restart(i)
    PROVE  CursorsCover' /\ \A j \in Indexers : PollIsSound(j)'
<1>1. poll' = [poll EXCEPT ![i] = NotPolling] /\ UNCHANGED <<chain, contractEvents, savedCursor, missed>>
  BY DEF Restart
<1>2. PollIsSound(i)'
  BY <1>1 DEF PollIsSound, IndexerInv, IndexerTypeOK
<1>3. LatestLedger \in Nat /\ DOMAIN chain = 1 .. LatestLedger
  BY ClosedLedgers, ConstantsAreNat DEF IndexerInv
<1>4. savedCursor \in 0 .. LatestLedger /\ Covered(savedCursor) /\ Covered(0)
  BY <1>3, ConstantsAreNat DEF IndexerInv, CursorsCover, IndexerTypeOK, Covered
<1>5. PICK c \in {savedCursor, 0} : cursor' = [cursor EXCEPT ![i] = c]
  BY DEF Restart
<1>6. c \in 0 .. LatestLedger /\ Covered(c)
  BY <1>3, <1>4, <1>5
<1>7. savedCursor' \in 0 .. LatestLedger /\ Covered(savedCursor)'
  BY <1>1, <1>4 DEF Covered
<1> QED
  BY <1>1, <1>2, <1>5, <1>6, <1>7, OwnStep

--------------------------------------------------------------------------------
LEMMA InvIsKept == IndexerInv /\ [IndexerNext]_indexerVars => IndexerInv'
<1> SUFFICES ASSUME IndexerInv, [IndexerNext]_indexerVars PROVE IndexerInv'
  OBVIOUS
<1>1. IndexerTypeOK'
  BY TypesAreKept DEF IndexerInv
<1> SUFFICES CursorsCover' /\ \A j \in Indexers : PollIsSound(j)'
  BY <1>1 DEF IndexerInv, PollIsSound, PollsStartCovered, PollsSeeTheirRange
<1>2. CASE CloseLedger
  BY <1>1, <1>2, ClosingKeepsInv
<1>3. ASSUME NEW i \in Indexers, IndexerStep(i) \/ FetchFails(i) \/ FetchCutOff(i) \/ Restart(i)
      PROVE  CursorsCover' /\ \A j \in Indexers : PollIsSound(j)'
  BY <1>3, StartingKeepsInv, FetchingKeepsInv, CuttingOffKeepsInv, FailingKeepsInv,
     StoringKeepsInv, NotifyingKeepsInv, AdvancingKeepsInv, RestartingKeepsInv DEF IndexerStep
<1>4. CASE UNCHANGED indexerVars
  BY <1>4, PollByPoll DEF indexerVars, IndexerInv, CursorsCover, Covered, PollIsSound, LatestLedger,
     Events, Parsed
<1> QED
  BY <1>2, <1>3, <1>4 DEF IndexerNext

(* The tables, cursors and polls of the indexer stay well-typed             *)
(* (eventIndexer.js), for every number of processes, ledgers and faults.    *)
THEOREM IndexerIsWellTyped == IndexerSpec => []IndexerTypeOK
<1>1. IndexerInit => IndexerTypeOK
  BY IndexerInitially DEF IndexerInv
<1> QED
  BY <1>1, TypesAreKept, PTL DEF IndexerSpec

(* No event at or below a cursor is missing from the table, but for those   *)
(* an error answered in place of a page hid from getEvents: over anything   *)
(* else pollOnce moves a cursor only once it is stored, and what was hidden *)
(* is exactly the rest of the range of the poll that met the error.         *)
THEOREM CursorsSkipNothing == IndexerSpec => []NoEventSkipped
<1>1. IndexerInv => NoEventSkipped
  BY ConstantsAreNat DEF IndexerInv, CursorsCover, Covered, NoEventSkipped
<1> QED
  BY <1>1, IndexerInitially, InvIsKept, PTL DEF IndexerSpec

-----------------------------------------------------------------------------
(***************************************************************************)
(* Pending executions.  The guarded UPDATE makes one call the owner of a   *)
(* row: as long as that call is past its claim nobody else gets there, and *)
(* the row is in submitting or deleted.  A deleted row's id does not come  *)
(* back while a call still holds it.                                       *)
(***************************************************************************)
PendingSpec == PendingInit /\ [][PendingNext]_pendingVars

PastClaim(c, i) == submit[c].pc \in {"horizon", "accepted", "refused"} /\ submit[c].id = i

CallsAreTheOwners == \A c \in SubmitCalls : submit[c] # Quiet => submit[c].source = Owner

RowsHaveOneCall ==
    \A i \in PendingIds :
        /\ \A c \in SubmitCalls : PastClaim(c, i) =>
             /\ pending[i].status \in {"submitting", "none"}
             /\ submit[c].pc = "horizon" => horizon[i].count = 0
             /\ submit[c].pc = "accepted" => i \in landed
        /\ \A c, d \in SubmitCalls : PastClaim(c, i) /\ PastClaim(d, i) => c = d

RowsAreTrue ==
    \A i \in PendingIds :
        /\ pending[i].status = "awaiting_signature" =>
             horizon[i].count = 0 /\ \A c \in SubmitCalls : ~PastClaim(c, i)
        /\ pending[i].status = "submitted" => i \in landed
        /\ horizon[i].count <= 1 /\ horizon[i].sources \subseteq {Owner}

PendingInv == PendingTypeOK /\ CallsAreTheOwners /\ RowsHaveOneCall /\ RowsAreTrue

LEMMA PendingStarts == PendingInit => PendingInv
<1> SUFFICES ASSUME PendingInit PROVE PendingInv
  OBVIOUS
<1>1. PendingTypeOK
  <2>1. 0 \in 0 .. MaxChanges /\ FALSE \in BOOLEAN
    BY PendingAssumption
  <2>2. [count |-> 0, sources |-> {}] \in [count : Nat, sources : SUBSET Accounts]
    OBVIOUS
  <2>3. horizon \in [PendingIds -> [count : Nat, sources : SUBSET Accounts]]
    BY <2>2 DEF PendingInit
  <2>4. /\ pending \in [PendingIds -> PendingRow \cup {NoPending}]
        /\ schedStatus \in [Schedules -> RowStatus \cup {"none"}]
        /\ activeCronJobs \in [Backends -> SUBSET Schedules] /\ creating \in [Backends -> SUBSET Schedules]
    BY DEF PendingInit
  <2> QED
    BY <2>1, <2>3, <2>4 DEF PendingInit, PendingTypeOK
<1>2. CallsAreTheOwners /\ RowsHaveOneCall /\ RowsAreTrue
  BY DEF PendingInit, CallsAreTheOwners, RowsHaveOneCall, RowsAreTrue, PastClaim, Quiet, NoPending
<1> QED
  BY <1>1, <1>2 DEF PendingInv

\* Rows, calls and what Horizon saw, the part of the state the theorem is about.
rowVars == <<pending, submit, horizon, landed>>
RowsTypeOK ==
    /\ pending \in [PendingIds -> PendingRow \cup {NoPending}]
    /\ submit \in [SubmitCalls -> {Quiet} \cup
         [pc : {"claim", "horizon", "accepted", "refused"}, id : PendingIds, at : Backends, source : Accounts]]
    /\ horizon \in [PendingIds -> [count : Nat, sources : SUBSET Accounts]]
    /\ landed \subseteq PendingIds
RowsInv == RowsTypeOK /\ CallsAreTheOwners /\ RowsHaveOneCall /\ RowsAreTrue
RowsFinal == \A i \in PendingIds : pending[i].status \in {"submitted", "failed"} =>
                 pending'[i] \in {pending[i], NoPending}

LEMMA RowsInvIsPart == PendingInv => RowsInv
  BY DEF PendingInv, RowsInv, PendingTypeOK, RowsTypeOK

LEMMA RowsInvStays == ASSUME RowsInv, UNCHANGED rowVars PROVE RowsInv' /\ RowsFinal
  BY DEF RowsInv, rowVars, RowsTypeOK, CallsAreTheOwners, RowsHaveOneCall, RowsAreTrue, PastClaim, RowsFinal

\* A row appears under an id no call holds and Horizon has not seen.
LEMMA InsertKeepsRows ==
    ASSUME RowsInv, NEW b \in Backends, executing[b].schedule \in Schedules, ExecuteInsert(b)
    PROVE  RowsInv' /\ RowsFinal
<1>1. CASE UNCHANGED pending
  BY <1>1, RowsInvStays DEF ExecuteInsert, rowVars
<1>2. ASSUME NEW i \in UnusedIds,
             pending' = [pending EXCEPT ![i] = [status |-> "awaiting_signature", schedule |-> executing[b].schedule]]
      PROVE  RowsInv' /\ RowsFinal
  <2>1. /\ i \in PendingIds /\ pending[i] = NoPending /\ horizon[i].count = 0
        /\ \A c \in SubmitCalls : submit[c] = Quiet \/ submit[c].id # i
    BY <1>2 DEF UnusedIds
  <2>2. /\ RowsTypeOK /\ pending \in [PendingIds -> PendingRow \cup {NoPending}]
        /\ UNCHANGED <<submit, horizon, landed>>
    BY DEF RowsInv, RowsTypeOK, ExecuteInsert
  <2>3. \A j \in PendingIds : pending'[j] = IF j = i THEN [status |-> "awaiting_signature", schedule |-> executing[b].schedule]
                                            ELSE pending[j]
    BY <1>2, <2>2
  <2>4. [status |-> "awaiting_signature", schedule |-> executing[b].schedule] \in PendingRow
    BY DEF PendingRow
  <2>5. RowsTypeOK'
    BY <1>2, <2>2, <2>4 DEF RowsTypeOK
  <2>6. \A c \in SubmitCalls : ~PastClaim(c, i)
    BY <2>1 DEF PastClaim, Quiet
  <2>7. CallsAreTheOwners' /\ RowsHaveOneCall' /\ RowsAreTrue'
    BY <2>1, <2>2, <2>3, <2>6 DEF RowsInv, CallsAreTheOwners, RowsHaveOneCall, RowsAreTrue, PastClaim
  <2>8. RowsFinal
    BY <2>1, <2>3 DEF RowsFinal, NoPending
  <2> QED
    BY <2>5, <2>7, <2>8 DEF RowsInv
<1> QED
  BY <1>1, <1>2 DEF ExecuteInsert

LEMMA DeleteKeepsRows ==
    ASSUME RowsInv, NEW b \in Backends, NEW s \in Schedules, DeleteSchedule(b, s)
    PROVE  RowsInv' /\ RowsFinal
<1>1. /\ RowsTypeOK /\ UNCHANGED <<submit, horizon, landed>>
      /\ \A i \in PendingIds : pending'[i] \in {pending[i], NoPending}
      /\ pending' \in [PendingIds -> PendingRow \cup {NoPending}]
  BY DEF RowsInv, RowsTypeOK, DeleteSchedule
<1>2. RowsTypeOK'
  BY <1>1 DEF RowsTypeOK
<1>3. CallsAreTheOwners' /\ RowsHaveOneCall' /\ RowsAreTrue'
  BY <1>1 DEF RowsInv, CallsAreTheOwners, RowsHaveOneCall, RowsAreTrue, PastClaim, NoPending
<1> QED
  BY <1>1, <1>2, <1>3 DEF RowsInv, RowsFinal

LEMMA RestartKeepsRows ==
    ASSUME RowsInv, NEW b \in Backends, LoadActiveSchedules(b)
    PROVE  RowsInv' /\ RowsFinal
<1>1. /\ RowsTypeOK /\ UNCHANGED <<pending, horizon, landed>>
      /\ \A c \in SubmitCalls : submit'[c] \in {submit[c], Quiet}
  BY DEF RowsInv, RowsTypeOK, LoadActiveSchedules
<1>2. RowsTypeOK'
  BY <1>1 DEF RowsTypeOK, LoadActiveSchedules
<1>3. CallsAreTheOwners' /\ RowsHaveOneCall' /\ RowsAreTrue'
  BY <1>1 DEF RowsInv, CallsAreTheOwners, RowsHaveOneCall, RowsAreTrue, PastClaim, Quiet
<1> QED
  BY <1>1, <1>2, <1>3 DEF RowsInv, RowsFinal

LEMMA CheckKeepsRows ==
    ASSUME RowsInv, NEW c \in SubmitCalls, NEW b \in Backends, NEW i \in PendingIds,
           NEW by \in Accounts, NEW source \in Accounts, SubmitCheck(c, b, i, by, source)
    PROVE  RowsInv' /\ RowsFinal
<1> DEFINE new == [pc |-> "claim", id |-> i, at |-> b, source |-> source]
<1>1. /\ RowsTypeOK /\ UNCHANGED <<pending, horizon, landed>> /\ source = Owner
      /\ submit' = [submit EXCEPT ![c] = new]
  BY DEF RowsInv, SubmitCheck, Submittable
<1>2. \A d \in SubmitCalls : submit'[d] = IF d = c THEN new ELSE submit[d]
  BY <1>1 DEF RowsTypeOK
<1>3. RowsTypeOK'
  BY <1>1 DEF RowsTypeOK
<1>4. CallsAreTheOwners' /\ RowsHaveOneCall' /\ RowsAreTrue'
  BY <1>1, <1>2 DEF RowsInv, CallsAreTheOwners, RowsHaveOneCall, RowsAreTrue, PastClaim
<1> QED
  BY <1>1, <1>3, <1>4 DEF RowsInv, RowsFinal

\* A call past its check: its own row, and nobody else's, changes.
LEMMA CallIsTyped ==
    ASSUME RowsInv, NEW c \in SubmitCalls, submit[c].pc # "quiet"
    PROVE  /\ submit[c].pc \in {"claim", "horizon", "accepted", "refused"} /\ submit[c] # Quiet
           /\ submit[c].id \in PendingIds /\ submit[c].at \in Backends /\ submit[c].source = Owner
           /\ pending[submit[c].id] \in PendingRow \cup {NoPending}
<1>1. submit[c] # Quiet
  BY DEF Quiet
<1> QED
  BY <1>1 DEF RowsInv, RowsTypeOK, CallsAreTheOwners

LEMMA ClaimKeepsRows ==
    ASSUME RowsInv, NEW c \in SubmitCalls, SubmitClaim(c)
    PROVE  RowsInv' /\ RowsFinal
<1> DEFINE i == submit[c].id
<1>1. /\ RowsTypeOK /\ UNCHANGED <<horizon, landed>> /\ submit[c].pc = "claim"
  BY DEF RowsInv, SubmitClaim
<1>2. i \in PendingIds /\ submit[c] # Quiet /\ submit[c].source = Owner /\ submit[c].at \in Backends
      /\ pending[i] \in PendingRow \cup {NoPending}
  BY <1>1, CallIsTyped
<1>3. CASE ~Claimed(i)
  <2>1. UNCHANGED pending /\ submit' = [submit EXCEPT ![c] = Quiet]
    BY <1>3 DEF SubmitClaim
  <2>2. \A d \in SubmitCalls : submit'[d] = IF d = c THEN Quiet ELSE submit[d]
    BY <1>1, <2>1 DEF RowsTypeOK
  <2>3. RowsTypeOK'
    BY <1>1, <2>1 DEF RowsTypeOK
  <2>4. CallsAreTheOwners' /\ RowsHaveOneCall' /\ RowsAreTrue'
    BY <1>1, <2>1, <2>2 DEF RowsInv, CallsAreTheOwners, RowsHaveOneCall, RowsAreTrue, PastClaim, Quiet
  <2> QED
    BY <2>1, <2>3, <2>4 DEF RowsInv, RowsFinal
<1>4. CASE Claimed(i)
  <2> DEFINE row == [pending[i] EXCEPT !.status = "submitting"]
             call == [submit[c] EXCEPT !.pc = "horizon"]
  <2>1. pending' = [pending EXCEPT ![i] = row] /\ submit' = [submit EXCEPT ![c] = call]
    BY <1>4 DEF SubmitClaim
  <2>2. pending[i].status = "awaiting_signature" /\ pending[i] \in PendingRow
    BY <1>2, <1>4 DEF Claimed, NoPending
  <2>3. row \in PendingRow /\ row.status = "submitting"
    BY <2>2 DEF PendingRow
  <2>4. submit[c] \in [pc : {"claim", "horizon", "accepted", "refused"}, id : PendingIds, at : Backends, source : Accounts]
    BY <1>1, <1>2 DEF RowsTypeOK
  <2>5. /\ call \in [pc : {"claim", "horizon", "accepted", "refused"}, id : PendingIds, at : Backends, source : Accounts]
        /\ call.pc = "horizon" /\ call.id = i /\ call.source = Owner /\ call # Quiet
    BY <1>2, <2>4 DEF Quiet
  <2> HIDE DEF row, call, i
  <2>6. /\ \A j \in PendingIds : pending'[j] = IF j = i THEN row ELSE pending[j]
        /\ \A d \in SubmitCalls : submit'[d] = IF d = c THEN call ELSE submit[d]
    BY <1>1, <2>1 DEF RowsTypeOK
  <2>7. RowsTypeOK'
    BY <1>1, <2>1, <2>3, <2>5 DEF RowsTypeOK
  <2>8. horizon[i].count = 0 /\ \A d \in SubmitCalls : ~PastClaim(d, i)
    BY <1>2, <2>2 DEF RowsInv, RowsAreTrue
  <2>9. CallsAreTheOwners'
    BY <2>5, <2>6 DEF RowsInv, CallsAreTheOwners
  <2>10. \A d \in SubmitCalls, j \in PendingIds :
           PastClaim(d, j)' <=> (d = c /\ j = i) \/ (d # c /\ PastClaim(d, j))
    BY <2>5, <2>6 DEF PastClaim
  <2>11. RowsHaveOneCall' /\ RowsAreTrue'
    BY <1>1, <1>2, <2>3, <2>5, <2>6, <2>8, <2>10 DEF RowsInv, RowsHaveOneCall, RowsAreTrue
  <2>12. RowsFinal
    BY <2>2, <2>6 DEF RowsFinal
  <2> QED
    BY <2>7, <2>9, <2>11, <2>12 DEF RowsInv
<1> QED
  BY <1>3, <1>4

\* The one call of a row hands its transaction to Horizon, once.
LEMMA SubmissionKeepsRows ==
    ASSUME RowsInv, NEW c \in SubmitCalls, SubmitTransaction(c)
    PROVE  RowsInv' /\ RowsFinal
<1> DEFINE i == submit[c].id
<1>1. /\ RowsTypeOK /\ UNCHANGED pending /\ submit[c].pc = "horizon"
  BY DEF RowsInv, SubmitTransaction
<1>2. i \in PendingIds /\ submit[c] # Quiet /\ submit[c].source = Owner
  BY <1>1, CallIsTyped
<1>3. PICK pc \in {"accepted", "refused"} :
        /\ submit' = [submit EXCEPT ![c].pc = pc]
        /\ landed' \in {landed, landed \cup {i}} /\ (pc = "accepted" => i \in landed')
  BY DEF SubmitTransaction
<1> DEFINE call == [submit[c] EXCEPT !.pc = pc]
           seen == [count |-> horizon[i].count + 1, sources |-> horizon[i].sources \cup {submit[c].source}]
<1>4. submit' = [submit EXCEPT ![c] = call] /\ horizon' = [horizon EXCEPT ![i] = seen]
  BY <1>3 DEF SubmitTransaction
<1>5. submit[c] \in [pc : {"claim", "horizon", "accepted", "refused"}, id : PendingIds, at : Backends, source : Accounts]
  BY <1>1, <1>2 DEF RowsTypeOK
<1>6. /\ call \in [pc : {"claim", "horizon", "accepted", "refused"}, id : PendingIds, at : Backends, source : Accounts]
      /\ call.pc = pc /\ call.id = i /\ call.source = Owner /\ call # Quiet
  BY <1>2, <1>5 DEF Quiet
<1>7. PastClaim(c, i)
  BY <1>1 DEF PastClaim
<1>8. horizon[i].count = 0 /\ horizon[i].sources \subseteq {Owner} /\ pending[i].status \in {"submitting", "none"}
  BY <1>1, <1>2, <1>7 DEF RowsInv, RowsHaveOneCall, RowsAreTrue
<1>9. seen \in [count : Nat, sources : SUBSET Accounts] /\ seen.count = 1 /\ seen.sources \subseteq {Owner}
  BY <1>2, <1>8, PendingAssumption
<1> HIDE DEF call, seen, i
<1>10. /\ \A d \in SubmitCalls : submit'[d] = IF d = c THEN call ELSE submit[d]
       /\ \A j \in PendingIds : horizon'[j] = IF j = i THEN seen ELSE horizon[j]
  BY <1>1, <1>4 DEF RowsTypeOK
<1>11. RowsTypeOK'
  BY <1>1, <1>2, <1>3, <1>4, <1>6, <1>9 DEF RowsTypeOK
<1>12. CallsAreTheOwners'
  BY <1>6, <1>10 DEF RowsInv, CallsAreTheOwners
<1>13. \A d \in SubmitCalls, j \in PendingIds : PastClaim(d, j)' <=> PastClaim(d, j)
  BY <1>1, <1>3, <1>6, <1>7, <1>10 DEF PastClaim
<1>14. \A d \in SubmitCalls : PastClaim(d, i) => d = c
  BY <1>2, <1>7 DEF RowsInv, RowsHaveOneCall
<1>15. RowsHaveOneCall'
  <2> SUFFICES ASSUME NEW j \in PendingIds
               PROVE  /\ \A d \in SubmitCalls : PastClaim(d, j) =>
                            /\ pending[j].status \in {"submitting", "none"}
                            /\ submit'[d].pc = "horizon" => horizon'[j].count = 0
                            /\ submit'[d].pc = "accepted" => j \in landed'
                      /\ \A d, e \in SubmitCalls : PastClaim(d, j) /\ PastClaim(e, j) => d = e
    BY <1>1, <1>13 DEF RowsHaveOneCall
  <2>1. CASE j = i
    BY <1>3, <1>6, <1>8, <1>10, <1>14, <2>1
  <2>2. CASE j # i
    <3>1. \A d \in SubmitCalls : PastClaim(d, j) => d # c
      BY <1>7, <2>2 DEF PastClaim
    <3> QED
      BY <1>3, <1>10, <2>2, <3>1 DEF RowsInv, RowsHaveOneCall
  <2> QED
    BY <2>1, <2>2
<1>16. RowsAreTrue'
  BY <1>1, <1>3, <1>8, <1>9, <1>10, <1>13 DEF RowsInv, RowsAreTrue
<1> QED
  BY <1>1, <1>11, <1>12, <1>15, <1>16 DEF RowsInv, RowsFinal

\* The answer is written by the call that owns the row.
LEMMA AnswersKeepRows ==
    ASSUME RowsInv, NEW c \in SubmitCalls, SubmitAccepted(c) \/ SubmitRefused(c)
    PROVE  RowsInv' /\ RowsFinal
<1> DEFINE i == submit[c].id
<1>1. /\ RowsTypeOK /\ UNCHANGED <<horizon, landed>> /\ submit[c].pc \in {"accepted", "refused"}
      /\ submit' = [submit EXCEPT ![c] = Quiet]
  BY DEF RowsInv, SubmitAccepted, SubmitRefused
<1>2. i \in PendingIds /\ pending[i] \in PendingRow \cup {NoPending}
  BY <1>1, CallIsTyped
<1>3. PastClaim(c, i)
  BY <1>1 DEF PastClaim
<1>4. pending[i].status \in {"submitting", "none"} /\ (submit[c].pc = "accepted" => i \in landed)
      /\ \A d \in SubmitCalls : PastClaim(d, i) => d = c
  BY <1>2, <1>3 DEF RowsInv, RowsHaveOneCall
<1>5. PICK row \in PendingRow \cup {NoPending} :
        /\ pending' = [pending EXCEPT ![i] = row]
        /\ row = NoPending \/ row.status = "failed" \/ (row.status = "submitted" /\ i \in landed)
  <2>1. CASE pending[i] = NoPending
    BY <2>1 DEF SubmitAccepted, SubmitRefused, NoPending
  <2>2. CASE pending[i] \in PendingRow
    <3>1. pending[i].status = "submitting" /\ pending[i] # NoPending
      BY <1>4, <2>2 DEF PendingRow, NoPending
    <3>2. CASE SubmitAccepted(c)
      <4>1. pending' = [pending EXCEPT ![i] = [pending[i] EXCEPT !.status = "submitted"]] /\ submit[c].pc = "accepted"
        BY <3>1, <3>2 DEF SubmitAccepted
      <4>2. [pending[i] EXCEPT !.status = "submitted"] \in PendingRow
            /\ [pending[i] EXCEPT !.status = "submitted"].status = "submitted"
        BY <2>2 DEF PendingRow
      <4> QED
        BY <1>4, <4>1, <4>2
    <3>3. CASE SubmitRefused(c)
      <4>1. pending' = [pending EXCEPT ![i] = [pending[i] EXCEPT !.status = "failed"]]
        BY <3>1, <3>3 DEF SubmitRefused
      <4>2. [pending[i] EXCEPT !.status = "failed"] \in PendingRow
            /\ [pending[i] EXCEPT !.status = "failed"].status = "failed"
        BY <2>2 DEF PendingRow
      <4> QED
        BY <4>1, <4>2
    <3> QED
      BY <3>2, <3>3
  <2> QED
    BY <1>2, <2>1, <2>2
<1> HIDE DEF i
<1>6. /\ \A j \in PendingIds : pending'[j] = IF j = i THEN row ELSE pending[j]
      /\ \A d \in SubmitCalls : submit'[d] = IF d = c THEN Quiet ELSE submit[d]
  BY <1>1, <1>5 DEF RowsTypeOK
<1>7. RowsTypeOK'
  BY <1>1, <1>5 DEF RowsTypeOK
<1>8. CallsAreTheOwners'
  BY <1>6 DEF RowsInv, CallsAreTheOwners
<1>9. \A d \in SubmitCalls, j \in PendingIds : PastClaim(d, j)' <=> d # c /\ PastClaim(d, j)
  BY <1>6 DEF PastClaim, Quiet
<1>10. RowsHaveOneCall' /\ RowsAreTrue'
  BY <1>1, <1>2, <1>4, <1>5, <1>6, <1>9 DEF RowsInv, RowsHaveOneCall, RowsAreTrue, NoPending
<1>11. RowsFinal
  BY <1>2, <1>4, <1>6 DEF RowsFinal
<1> QED
  BY <1>7, <1>8, <1>10, <1>11 DEF RowsInv

-----------------------------------------------------------------------------
\* The tables the rows depend on: schedules, cron jobs and calls of the service.
LEMMA SchedulesStayTyped ==
    ASSUME PendingTypeOK, [PendingNext]_pendingVars
    PROVE  /\ schedStatus' \in [Schedules -> RowStatus \cup {"none"}]
           /\ activeCronJobs' \in [Backends -> SUBSET Schedules]
           /\ creating' \in [Backends -> SUBSET Schedules]
           /\ updating' \in [Backends -> {Quiet} \cup
                [pc : {"write", "read", "apply"}, schedule : Schedules, status : RowStatus]]
           /\ executing' \in [Backends -> {Quiet} \cup [pc : {"insert", "notify"}, schedule : Schedules]]
           /\ changes' \in 0 .. MaxChanges /\ restarted' \in BOOLEAN
<1> DEFINE Update == [pc : {"write", "read", "apply"}, schedule : Schedules, status : RowStatus]
           Run == [pc : {"insert", "notify"}, schedule : Schedules]
           Goal == /\ schedStatus' \in [Schedules -> RowStatus \cup {"none"}]
                   /\ activeCronJobs' \in [Backends -> SUBSET Schedules]
                   /\ creating' \in [Backends -> SUBSET Schedules]
                   /\ updating' \in [Backends -> {Quiet} \cup Update]
                   /\ executing' \in [Backends -> {Quiet} \cup Run]
                   /\ changes' \in 0 .. MaxChanges /\ restarted' \in BOOLEAN
<1>0. /\ schedStatus \in [Schedules -> RowStatus \cup {"none"}]
      /\ activeCronJobs \in [Backends -> SUBSET Schedules] /\ creating \in [Backends -> SUBSET Schedules]
      /\ updating \in [Backends -> {Quiet} \cup Update] /\ executing \in [Backends -> {Quiet} \cup Run]
      /\ changes \in 0 .. MaxChanges /\ restarted \in BOOLEAN
  BY DEF PendingTypeOK
<1> SUFFICES Goal
  OBVIOUS
<1> HIDE DEF Update, Run
<1>1. ASSUME NEW b \in Backends, NEW s \in Schedules,
             CreateCheck(b, s) \/ CreateInsert(b, s)
      PROVE  Goal
  BY <1>0, <1>1 DEF CreateCheck, CreateInsert, RegisterCronJob, RowStatus
<1>2. ASSUME NEW b \in Backends, NEW s \in Schedules, UpdateRead(b, s)
      PROVE  Goal
  <2>1. \A status \in RowStatus : [pc |-> "write", schedule |-> s, status |-> status] \in Update
    BY DEF Update
  <2> QED
    BY <1>0, <1>2, <2>1, PendingAssumption DEF UpdateRead, Change
<1>3. ASSUME NEW b \in Backends, NEW s \in Schedules, DeleteSchedule(b, s)
      PROVE  Goal
  BY <1>0, <1>3, PendingAssumption DEF DeleteSchedule, UnregisterCronJob, Change
<1>4. ASSUME NEW b \in Backends, NEW s \in Schedules, ExecuteRead(b, s)
      PROVE  Goal
  <2>1. [pc |-> "insert", schedule |-> s] \in Run
    BY DEF Run
  <2> QED
    BY <1>0, <1>4, <2>1 DEF ExecuteRead
<1>5. ASSUME NEW b \in Backends, UpdateWrite(b) \/ UpdateReread(b) \/ UpdateApply(b)
      PROVE  Goal
  <2>1. updating[b] \in Update /\ updating[b].schedule \in Schedules /\ updating[b].status \in RowStatus
    BY <1>0, <1>5 DEF Update, UpdateWrite, UpdateReread, UpdateApply, Quiet
  <2>2. CASE UpdateWrite(b)
    <3>1. [updating[b] EXCEPT !.pc = "read"] \in Update
      BY <2>1 DEF Update
    <3> QED
      BY <1>0, <2>1, <2>2, <3>1 DEF UpdateWrite
  <2>3. CASE UpdateReread(b)
    <3>1. schedStatus[updating[b].schedule] # "none" =>
            [updating[b] EXCEPT !.pc = "apply", !.status = schedStatus[updating[b].schedule]] \in Update
      BY <1>0, <2>1 DEF Update
    <3> QED
      BY <1>0, <2>3, <3>1 DEF UpdateReread
  <2>4. CASE UpdateApply(b)
    BY <1>0, <2>1, <2>4 DEF UpdateApply, RegisterCronJob, UnregisterCronJob
  <2> QED
    BY <1>5, <2>2, <2>3, <2>4
<1>6. ASSUME NEW b \in Backends, ExecuteInsert(b) \/ ExecuteNotify(b)
      PROVE  Goal
  <2>1. executing[b] \in Run
    BY <1>0, <1>6 DEF ExecuteInsert, ExecuteNotify, Quiet
  <2>2. [executing[b] EXCEPT !.pc = "notify"] \in Run
    BY <2>1 DEF Run
  <2> QED
    BY <1>0, <1>6, <2>2 DEF ExecuteInsert, ExecuteNotify
<1>7. ASSUME NEW b \in Backends, LoadActiveSchedules(b)
      PROVE  Goal
  BY <1>0, <1>7, PendingAssumption DEF LoadActiveSchedules, ActiveSchedules, Change
<1>8. ASSUME NEW c \in SubmitCalls, NEW b \in Backends, NEW i \in PendingIds,
             NEW by \in Accounts, NEW source \in Accounts, SubmitCheck(c, b, i, by, source)
      PROVE  Goal
  BY <1>0, <1>8 DEF SubmitCheck
<1>9. ASSUME NEW c \in SubmitCalls, SubmitStep(c)
      PROVE  Goal
  <2>1. UNCHANGED <<schedStatus, activeCronJobs, creating, updating, executing, changes, restarted>>
    BY <1>9 DEF SubmitStep, SubmitClaim, SubmitTransaction, SubmitAccepted, SubmitRefused
  <2> QED
    BY <1>0, <2>1
<1>10. ASSUME UNCHANGED pendingVars PROVE Goal
  BY <1>0, <1>10 DEF pendingVars
<1> QED
  BY <1>1, <1>2, <1>3, <1>4, <1>5, <1>6, <1>7, <1>8, <1>9, <1>10 DEF PendingNext

LEMMA PendingStays ==
    PendingInv /\ [PendingNext]_pendingVars => PendingInv' /\ [RowsFinal]_pendingVars
<1> SUFFICES ASSUME PendingInv, [PendingNext]_pendingVars
             PROVE  PendingInv' /\ RowsFinal
  OBVIOUS
<1>0. RowsInv
  BY RowsInvIsPart
<1>1. ASSUME NEW b \in Backends, NEW s \in Schedules,
             CreateCheck(b, s) \/ CreateInsert(b, s) \/ UpdateRead(b, s) \/ ExecuteRead(b, s)
      PROVE  RowsInv' /\ RowsFinal
  BY <1>0, <1>1, RowsInvStays DEF CreateCheck, CreateInsert, UpdateRead, ExecuteRead, rowVars
<1>2. ASSUME NEW b \in Backends, UpdateWrite(b) \/ UpdateReread(b) \/ UpdateApply(b) \/ ExecuteNotify(b)
      PROVE  RowsInv' /\ RowsFinal
  BY <1>0, <1>2, RowsInvStays DEF UpdateWrite, UpdateReread, UpdateApply, ExecuteNotify, rowVars
<1>3. ASSUME NEW b \in Backends, ExecuteInsert(b)
      PROVE  RowsInv' /\ RowsFinal
  <2>1. executing[b].schedule \in Schedules
    BY <1>3 DEF PendingInv, PendingTypeOK, ExecuteInsert, Quiet
  <2> QED
    BY <1>0, <1>3, <2>1, InsertKeepsRows
<1>4. ASSUME NEW c \in SubmitCalls, SubmitStep(c)
      PROVE  RowsInv' /\ RowsFinal
  BY <1>0, <1>4, ClaimKeepsRows, SubmissionKeepsRows, AnswersKeepRows DEF SubmitStep
<1>5. ASSUME UNCHANGED pendingVars PROVE RowsInv' /\ RowsFinal
  <2>1. UNCHANGED rowVars
    BY <1>5 DEF pendingVars, rowVars
  <2> QED
    BY <1>0, <2>1, RowsInvStays
<1>6. ASSUME NEW b \in Backends, NEW s \in Schedules, DeleteSchedule(b, s) PROVE RowsInv' /\ RowsFinal
  BY <1>0, <1>6, DeleteKeepsRows
<1>7. ASSUME NEW b \in Backends, LoadActiveSchedules(b) PROVE RowsInv' /\ RowsFinal
  BY <1>0, <1>7, RestartKeepsRows
<1>8. ASSUME NEW c \in SubmitCalls, NEW b \in Backends, NEW i \in PendingIds,
             NEW by \in Accounts, NEW source \in Accounts, SubmitCheck(c, b, i, by, source)
      PROVE  RowsInv' /\ RowsFinal
  BY <1>0, <1>8, CheckKeepsRows
<1>9. RowsInv' /\ RowsFinal
  BY <1>1, <1>2, <1>3, <1>4, <1>5, <1>6, <1>7, <1>8 DEF PendingNext
<1>10. PendingTypeOK'
  BY <1>9, SchedulesStayTyped DEF PendingInv, PendingTypeOK, RowsInv, RowsTypeOK
<1> QED
  BY <1>9, <1>10 DEF PendingInv, RowsInv

(***************************************************************************)
(* For every number of processes, schedules, calls, deletions and          *)
(* restarts: one transaction, of the owner, is handed to Horizon for a     *)
(* pending execution, submitted means that it landed, and a resolved row   *)
(* does not move.                                                          *)
(***************************************************************************)
THEOREM ExecutionsAreSafe == PendingSpec => PendingExecutionsAreSafe
<1>1. PendingInit => PendingInv
  BY PendingStarts
<1>2. PendingInv /\ [PendingNext]_pendingVars => PendingInv' /\ [RowsFinal]_pendingVars
  BY PendingStays
<1>3. PendingInv => SubmittedOnce /\ OwnTransactionsOnly /\ SubmittedIsOnLedger
  BY DEF PendingInv, RowsAreTrue, SubmittedOnce, OwnTransactionsOnly, SubmittedIsOnLedger
<1>4. [RowsFinal]_pendingVars =>
        [\A i \in PendingIds : pending[i].status \in {"submitted", "failed"} =>
            pending'[i] \in {pending[i], NoPending}]_pendingVars
  BY DEF RowsFinal
<1> QED
  BY <1>1, <1>2, <1>3, <1>4, PTL DEF PendingSpec, PendingExecutionsAreSafe, ResolvedPendingIsFinal

-----------------------------------------------------------------------------
(***************************************************************************)
(* The executor's claims.  A worker between its claim and the resolution   *)
(* holds the lease that is stored in the row, and no time passes it by     *)
(* unless submissions may outlast their lease; so nobody else's claim can  *)
(* meet a row that is claimed with an expired lease.                       *)
(***************************************************************************)
OwnersHoldTheLease ==
    \A w \in Workers : OwnsClaim(w) =>
        /\ execution[worker[w].id].status = "pending"
        /\ execution[worker[w].id].execution_status = "claimed"
        /\ execution[worker[w].id].lease = worker[w].lease
        /\ worker[w].lease > 0

ClaimersHaveALease == \A w \in Workers : worker[w].pc = "claim" => worker[w].lease > 0

\* A first attempt starts at 0; a retry starts at what its row says.
Fits(r) ==
    /\ r.attempt < MAX_RETRIES
    /\ \A item \in r.todo : item.attempt < MAX_RETRIES
    /\ r.kind = "due" => r.attempt = 0
    /\ r.pc = "next" => r.kind = "retry"

AttemptsFit ==
    /\ \A id \in ExecutionIds : IsPending(id) => execution[id].attempt_number < MAX_RETRIES
    /\ \A w \in Workers : worker[w] # Idle => Fits(worker[w])

ClaimInv == OwnersHoldTheLease /\ OneOwner /\ ClaimersHaveALease /\ AttemptsFit
ExecutorInv == TypeOK /\ ClaimInv

LEMMA ExecutorNumbers ==
    /\ MAX_RETRIES \in Nat /\ MAX_RETRIES > 1 /\ LeaseTicks \in Nat /\ LeaseTicks > 0
    /\ RetryTicks \in Nat /\ MaxRuns \in Nat /\ MaxRuns > 0 /\ MaxManual \in Nat /\ MaxFaults \in Nat
    /\ 1 \in ExecutionIds /\ RunIds \subseteq ExecutionIds
  BY ExecutorAssumption DEF ExecutionIds, RunIds

LEMMA ExecutorStarts == Init => ExecutorInv
<1> SUFFICES ASSUME Init PROVE ExecutorInv
  OBVIOUS
<1>1. TypeOK
  BY ExecutorNumbers DEF Init, TypeOK
<1>2. ClaimInv
  BY DEF Init, ClaimInv, OwnersHoldTheLease, OneOwner, ClaimersHaveALease, AttemptsFit, OwnsClaim, IsPending,
         Idle, NoExecution
<1> QED
  BY <1>1, <1>2 DEF ExecutorInv

LEMMA WorkerIsBusy ==
    ASSUME TypeOK, NEW w \in Workers, worker[w].pc # "idle"
    PROVE  /\ worker[w] \in Busy /\ worker[w] # Idle
           /\ worker[w].kind \in {"due", "retry"} /\ worker[w].id \in ExecutionIds
           /\ worker[w].attempt \in Nat /\ worker[w].lease \in 0 .. LeaseTicks
           /\ worker[w].locked \in BOOLEAN /\ worker[w].outcome \in Outcomes \cup {"none", "lost"}
           /\ worker[w].todo \in SUBSET [id : ExecutionIds, attempt : Nat]
<1>1. worker[w] \in Busy
  BY DEF TypeOK, Idle
<1> QED
  BY <1>1 DEF Busy, Idle

\* What a worker does to itself keeps who owns what, if it becomes nobody's owner.
RowsStayResolved ==
    \A id \in ExecutionIds : execution[id].status \in {"submitted", "failed"} =>
        execution'[id].status = execution[id].status

\* What a worker does to itself keeps who owns what, if it becomes nobody's owner.
LEMMA WorkerMoves ==
    ASSUME ExecutorInv, NEW w \in Workers, NEW r \in Busy \cup {Idle},
           DOMAIN worker' = Workers,
           \A v \in Workers : worker'[v] = IF v = w THEN r ELSE worker[v],
           UNCHANGED <<execution, submissions>>,
           schedule' \in [status : {"active", "paused", "failed"}, run : 1 .. MaxRuns + 1, due : BOOLEAN, cron : BOOLEAN],
           redis' \in [ExecutionIds -> 0 .. LeaseTicks], faults' \in 0 .. MaxFaults,
           notified' \in SUBSET ExecutionIds,
           r # Idle => Fits(r),
           r.pc = "claim" => r.lease > 0,
           r.pc \in {"submit", "finalize"} =>
               OwnsClaim(w) /\ r.id = worker[w].id /\ r.lease = worker[w].lease
    PROVE  ExecutorInv' /\ RowsStayResolved
<1>1. ExecutionIds' = ExecutionIds /\ \A v \in Workers : worker[v] \in Busy \cup {Idle}
  BY DEF ExecutionIds, ExecutorInv, TypeOK
<1>2. OwnersHoldTheLease' /\ OneOwner'
  BY DEF ExecutorInv, ClaimInv, OwnersHoldTheLease, OneOwner, OwnsClaim
<1>3. ClaimersHaveALease' /\ AttemptsFit'
  BY DEF ExecutorInv, ClaimInv, ClaimersHaveALease, AttemptsFit, IsPending
<1>4. TypeOK'
  BY <1>1 DEF ExecutorInv, TypeOK
<1> QED
  BY <1>2, <1>3, <1>4 DEF ClaimInv, ExecutorInv, RowsStayResolved

-----------------------------------------------------------------------------
LEMMA CyclesKeepClaims ==
    ASSUME ExecutorInv, NEW w \in Workers, StartCycle(w) \/ Sweep(w) \/ NextRetry(w)
    PROVE  ExecutorInv' /\ RowsStayResolved
<1> DEFINE old == worker[w]
<1>1. TypeOK /\ AttemptsFit /\ DOMAIN worker = Workers
  BY DEF ExecutorInv, ClaimInv, TypeOK
<1>2. UNCHANGED <<schedule, execution, redis, faults, submissions, notified>>
  BY DEF StartCycle, Sweep, NextRetry
<1>3. \E r \in Busy \cup {Idle} :
        /\ worker' = [worker EXCEPT ![w] = r]
        /\ r # Idle => Fits(r)
        /\ r.pc \notin {"claim", "submit", "finalize"}
  <2>1. CASE StartCycle(w)
    <3> DEFINE r == [pc |-> IF Due THEN "lock" ELSE "sweep", kind |-> "due",
                     id |-> IF Due THEN schedule.run ELSE 1, attempt |-> 0,
                     lease |-> 0, locked |-> FALSE, outcome |-> "none", todo |-> {}]
    <3>1. r \in Busy
      BY ExecutorNumbers DEF Busy, Due
    <3>2. Fits(r) /\ r.pc \notin {"claim", "submit", "finalize"}
      BY ExecutorNumbers DEF Fits
    <3>3. worker' = [worker EXCEPT ![w] = r]
      BY <2>1 DEF StartCycle
    <3> QED
      BY <3>1, <3>2, <3>3
  <2>2. CASE Sweep(w)
    <3> DEFINE items == {[id |-> id, attempt |-> execution[id].attempt_number] :
                          id \in {i \in ExecutionIds : Exists(i) /\ RetryDue(i)}}
               r == [old EXCEPT !.pc = "next", !.kind = "retry", !.todo = items]
    <3>1. old \in Busy /\ old # Idle /\ old.attempt < MAX_RETRIES
      BY <1>1, <2>2, WorkerIsBusy DEF Sweep, AttemptsFit, Fits
    <3>2. \A id \in ExecutionIds : Exists(id) /\ RetryDue(id) =>
            execution[id].attempt_number \in Nat /\ execution[id].attempt_number < MAX_RETRIES
      BY <1>1, ExecutorNumbers DEF Exists, RetryDue, AttemptsFit, TypeOK, Execution
    <3>3. items \in SUBSET [id : ExecutionIds, attempt : Nat] /\ \A item \in items : item.attempt < MAX_RETRIES
      BY <3>2
    <3> HIDE DEF items
    <3>4. r \in Busy /\ Fits(r) /\ r.pc = "next"
      BY <3>1, <3>3 DEF Busy, Fits
    <3>5. worker' = [worker EXCEPT ![w] = r]
      BY <1>1, <2>2 DEF Sweep, items
    <3> QED
      BY <3>3, <3>4, <3>5
  <2>3. CASE NextRetry(w)
    <3>1. old \in Busy /\ old # Idle /\ old.todo \in SUBSET [id : ExecutionIds, attempt : Nat]
          /\ (\A item \in old.todo : item.attempt < MAX_RETRIES) /\ old.kind = "retry"
      BY <1>1, <2>3, WorkerIsBusy DEF NextRetry, AttemptsFit, Fits
    <3>2. CASE worker' = [worker EXCEPT ![w] = Idle]
      <4>1. Idle \in Busy \cup {Idle} /\ Idle.pc = "idle"
        BY DEF Idle
      <4> QED
        BY <3>2, <4>1
    <3>3. ASSUME NEW item \in old.todo,
                 worker' = [worker EXCEPT ![w] = [old EXCEPT !.pc = "lock", !.id = item.id, !.attempt = item.attempt,
                                                             !.outcome = "none", !.locked = FALSE,
                                                             !.todo = old.todo \ {item}]]
          PROVE  \E r \in Busy :
                   /\ worker' = [worker EXCEPT ![w] = r]
                   /\ Fits(r)
                   /\ r.pc \notin {"claim", "submit", "finalize"}
      <4> DEFINE r == [old EXCEPT !.pc = "lock", !.id = item.id, !.attempt = item.attempt,
                                  !.outcome = "none", !.locked = FALSE, !.todo = old.todo \ {item}]
      <4>1. r \in Busy /\ Fits(r) /\ r.pc = "lock"
        BY <3>1 DEF Busy, Fits
      <4> QED
        BY <3>1, <3>3, <4>1
    <3>4. \/ worker' = [worker EXCEPT ![w] = Idle]
          \/ \E item \in old.todo :
               worker' = [worker EXCEPT ![w] = [old EXCEPT !.pc = "lock", !.id = item.id, !.attempt = item.attempt,
                                                           !.outcome = "none", !.locked = FALSE,
                                                           !.todo = old.todo \ {item}]]
      <4>1. CASE worker' = [worker EXCEPT ![w] = Idle]
        BY <4>1
      <4>2. ASSUME NEW item \in old.todo,
                   worker' = [worker EXCEPT ![w].pc = "lock", ![w].id = item.id, ![w].attempt = item.attempt,
                                            ![w].outcome = "none", ![w].locked = FALSE,
                                            ![w].todo = worker[w].todo \ {item}]
            PROVE  worker' = [worker EXCEPT ![w] = [old EXCEPT !.pc = "lock", !.id = item.id, !.attempt = item.attempt,
                                                           !.outcome = "none", !.locked = FALSE,
                                                           !.todo = old.todo \ {item}]]
        BY <1>1, <4>2
      <4> QED
        BY <2>3, <4>1, <4>2 DEF NextRetry
    <3> QED
      BY <3>2, <3>3, <3>4
  <2> QED
    BY <2>1, <2>2, <2>3
<1> QED
  BY <1>1, <1>2, <1>3, WorkerMoves DEF TypeOK

\* The lock is a first gate only: a worker leaves it with a fresh lease.
LEMMA LocksKeepClaims ==
    ASSUME ExecutorInv, NEW w \in Workers, AcquireLock(w)
    PROVE  ExecutorInv' /\ RowsStayResolved
<1> DEFINE old == worker[w]
<1>1. TypeOK /\ AttemptsFit /\ DOMAIN worker = Workers
  BY DEF ExecutorInv, ClaimInv, TypeOK
<1>2. UNCHANGED <<schedule, execution, faults, submissions, notified>>
  BY DEF AcquireLock
<1>3. /\ old \in Busy /\ old # Idle /\ old.id \in ExecutionIds /\ Fits(old)
  BY <1>1, WorkerIsBusy DEF AcquireLock, AttemptsFit
<1>4. redis' \in [ExecutionIds -> 0 .. LeaseTicks]
  BY <1>1, <1>3, ExecutorNumbers DEF AcquireLock, TypeOK
<1>5. \E r \in Busy :
        /\ worker' = [worker EXCEPT ![w] = r]
        /\ Fits(r)
        /\ r.pc = "claim" => r.lease > 0
        /\ r.pc \notin {"submit", "finalize"}
  <2> DEFINE claims(held) == [old EXCEPT !.pc = "claim", !.lease = LeaseTicks, !.locked = held]
             rests == [old EXCEPT !.pc = Rest(w)]
  <2>1. ASSUME NEW held \in BOOLEAN
        PROVE  /\ claims(held) \in Busy /\ Fits(claims(held))
               /\ claims(held).lease > 0 /\ claims(held).pc = "claim"
    <3>1. LeaseTicks \in 0 .. LeaseTicks /\ LeaseTicks > 0
      BY ExecutorNumbers
    <3> QED
      BY <1>3, <3>1 DEF Busy, Fits
  <2>2. rests \in Busy /\ Fits(rests) /\ rests.pc \in {"sweep", "next"}
    BY <1>3 DEF Busy, Rest, Fits
  <2>3. \/ worker' = [worker EXCEPT ![w] = claims(old.locked)]
        \/ worker' = [worker EXCEPT ![w] = claims(TRUE)]
        \/ worker' = [worker EXCEPT ![w] = rests]
    <3>1. CASE worker' = [worker EXCEPT ![w].pc = "claim", ![w].lease = LeaseTicks]
      BY <1>1, <1>3, <3>1 DEF Busy
    <3>2. CASE worker' = [worker EXCEPT ![w].pc = "claim", ![w].locked = TRUE, ![w].lease = LeaseTicks]
      BY <1>1, <1>3, <3>2 DEF Busy
    <3>3. CASE Goto(w, Rest(w))
      BY <1>1, <3>3 DEF Goto
    <3> QED
      BY <3>1, <3>2, <3>3 DEF AcquireLock
  <2>4. old.locked \in BOOLEAN
    BY <1>3 DEF Busy
  <2> HIDE DEF claims, rests
  <2> QED
    BY <1>3, <2>1, <2>2, <2>3, <2>4
<1> QED
  BY <1>1, <1>2, <1>4, <1>5, WorkerMoves DEF TypeOK

\* A worker that only turns to another step of its cycle, as nobody's owner
\* afterwards unless it was one of the same row before.
LEMMA TurnsKeepClaims ==
    ASSUME ExecutorInv, NEW w \in Workers, worker[w].pc # "idle",
           NEW pc \in {"sweep", "next", "finalize", "release", "mark", "notify"},
           NEW outcome \in Outcomes \cup {"none", "lost"},
           worker' = [worker EXCEPT ![w] = [worker[w] EXCEPT !.pc = pc, !.outcome = outcome]],
           UNCHANGED <<execution, submissions>>,
           schedule' \in [status : {"active", "paused", "failed"}, run : 1 .. MaxRuns + 1, due : BOOLEAN, cron : BOOLEAN],
           redis' \in [ExecutionIds -> 0 .. LeaseTicks], faults' \in 0 .. MaxFaults,
           notified' \in SUBSET ExecutionIds,
           pc = "finalize" => OwnsClaim(w), pc = "next" => worker[w].kind = "retry"
    PROVE  ExecutorInv' /\ RowsStayResolved
<1> DEFINE r == [worker[w] EXCEPT !.pc = pc, !.outcome = outcome]
<1>1. TypeOK /\ AttemptsFit /\ DOMAIN worker = Workers
  BY DEF ExecutorInv, ClaimInv, TypeOK
<1>2. worker[w] \in Busy /\ Fits(worker[w])
  BY <1>1, WorkerIsBusy DEF AttemptsFit
<1>3. /\ r \in Busy /\ r.pc = pc /\ Fits(r)
      /\ r.id = worker[w].id /\ r.lease = worker[w].lease
  BY <1>2 DEF Busy, Fits
<1> HIDE DEF r
<1>4. DOMAIN worker' = Workers /\ \A v \in Workers : worker'[v] = IF v = w THEN r ELSE worker[v]
  BY <1>1 DEF r
<1> QED
  BY <1>2, <1>3, <1>4, WorkerMoves

LEMMA NextRunIsTyped ==
    ASSUME schedule \in [status : {"active", "paused", "failed"}, run : 1 .. MaxRuns + 1, due : BOOLEAN, cron : BOOLEAN]
    PROVE  NextRun \in [status : {"active", "paused", "failed"}, run : 1 .. MaxRuns + 1, due : BOOLEAN, cron : BOOLEAN]
<1> DEFINE next == IF schedule.run > MaxRuns THEN schedule.run ELSE schedule.run + 1
<1>1. next \in 1 .. MaxRuns + 1
  BY ExecutorNumbers
<1>2. NextRun = [schedule EXCEPT !.run = next, !.due = FALSE]
  BY DEF NextRun
<1> HIDE DEF next
<1> QED
  BY <1>1, <1>2

LEMMA TurningKeepsClaims ==
    ASSUME ExecutorInv, NEW w \in Workers,
           LoseClaim(w) \/ (\E outcome \in Outcomes : SubmitReturns(w, outcome))
             \/ Release(w) \/ Mark(w) \/ NotifyFailure(w)
    PROVE  ExecutorInv' /\ RowsStayResolved
<1> DEFINE old == worker[w]
<1>1. TypeOK /\ DOMAIN worker = Workers /\ Rest(w) = (IF old.kind = "due" THEN "sweep" ELSE "next")
  BY DEF ExecutorInv, TypeOK, Rest
<1>2. /\ old.pc # "idle" /\ old \in Busy /\ old.id \in ExecutionIds
      /\ old.outcome \in Outcomes \cup {"none", "lost"} /\ old.kind \in {"due", "retry"}
  BY <1>1, WorkerIsBusy DEF LoseClaim, SubmitReturns, Release, Mark, NotifyFailure
<1>3. /\ UNCHANGED <<execution, submissions, faults>>
      /\ schedule' \in [status : {"active", "paused", "failed"}, run : 1 .. MaxRuns + 1, due : BOOLEAN, cron : BOOLEAN]
      /\ redis' \in [ExecutionIds -> 0 .. LeaseTicks] /\ notified' \in SUBSET ExecutionIds
  <2>1. /\ schedule \in [status : {"active", "paused", "failed"}, run : 1 .. MaxRuns + 1, due : BOOLEAN, cron : BOOLEAN]
        /\ redis \in [ExecutionIds -> 0 .. LeaseTicks] /\ notified \in SUBSET ExecutionIds
    BY <1>1 DEF TypeOK
  <2>2. CASE Mark(w)
    <3>1. NextRun \in [status : {"active", "paused", "failed"}, run : 1 .. MaxRuns + 1, due : BOOLEAN, cron : BOOLEAN]
      BY <2>1, NextRunIsTyped
    <3>2. schedule' = NextRun \/ schedule' = [schedule EXCEPT !.status = "failed"]
      BY <2>2 DEF Mark
    <3> QED
      BY <2>1, <2>2, <3>1, <3>2 DEF Mark
  <2>3. CASE Release(w)
    BY <1>2, <2>1, <2>3, ExecutorNumbers DEF Release
  <2>4. CASE LoseClaim(w) \/ (\E outcome \in Outcomes : SubmitReturns(w, outcome)) \/ NotifyFailure(w)
    BY <1>2, <2>1, <2>4 DEF LoseClaim, SubmitReturns, NotifyFailure
  <2> QED
    BY <2>2, <2>3, <2>4
<1>4. \E pc \in {"sweep", "next", "finalize", "release", "mark", "notify"}, outcome \in Outcomes \cup {"none", "lost"} :
        /\ worker' = [worker EXCEPT ![w] = [old EXCEPT !.pc = pc, !.outcome = outcome]]
        /\ pc = "finalize" => OwnsClaim(w)
        /\ pc = "next" => old.kind = "retry"
  <2>1. \A pc : Goto(w, pc) => worker' = [worker EXCEPT ![w] = [old EXCEPT !.pc = pc, !.outcome = old.outcome]]
    BY <1>1, <1>2 DEF Goto, Busy
  <2>2. CASE LoseClaim(w)
    <3> DEFINE pc == IF old.locked THEN "release" ELSE Rest(w)
    <3>1. worker' = [worker EXCEPT ![w] = [old EXCEPT !.pc = pc, !.outcome = "lost"]]
      BY <1>1, <2>2 DEF LoseClaim
    <3>2. pc \in {"sweep", "next", "release"} /\ (pc = "next" => old.kind = "retry")
      BY <1>1, <1>2
    <3> QED
      BY <3>1, <3>2
  <2>3. ASSUME NEW outcome \in Outcomes, SubmitReturns(w, outcome)
        PROVE  /\ worker' = [worker EXCEPT ![w] = [old EXCEPT !.pc = "finalize", !.outcome = outcome]]
               /\ OwnsClaim(w)
    BY <1>1, <2>3 DEF SubmitReturns, OwnsClaim
  <2>4. CASE Release(w)
    <3>1. PICK pc \in {"sweep", "next", "mark"} : Goto(w, pc) /\ (pc = "next" => old.kind = "retry")
      BY <1>1, <1>2, <2>4 DEF Release
    <3>2. worker' = [worker EXCEPT ![w] = [old EXCEPT !.pc = pc, !.outcome = old.outcome]]
      BY <2>1, <3>1
    <3> QED
      BY <1>2, <3>1, <3>2
  <2>5. CASE Mark(w)
    <3>1. PICK pc \in {"sweep", "next", "notify"} : Goto(w, pc) /\ (pc = "next" => old.kind = "retry")
      BY <1>1, <1>2, <2>5 DEF Mark
    <3>2. worker' = [worker EXCEPT ![w] = [old EXCEPT !.pc = pc, !.outcome = old.outcome]]
      BY <2>1, <3>1
    <3> QED
      BY <1>2, <3>1, <3>2
  <2>6. CASE NotifyFailure(w)
    <3>1. PICK pc \in {"sweep", "next"} : Goto(w, pc) /\ (pc = "next" => old.kind = "retry")
      BY <1>1, <1>2, <2>6 DEF NotifyFailure
    <3>2. worker' = [worker EXCEPT ![w] = [old EXCEPT !.pc = pc, !.outcome = old.outcome]]
      BY <2>1, <3>1
    <3> QED
      BY <1>2, <3>1, <3>2
  <2> QED
    BY <2>2, <2>3, <2>4, <2>5, <2>6
<1>5. faults' \in 0 .. MaxFaults
  BY <1>1, <1>3 DEF TypeOK
<1> QED
  BY <1>2, <1>3, <1>4, <1>5, TurnsKeepClaims

LEMMA FaultsKeepClaims ==
    ASSUME ExecutorInv, NEW w \in Workers, Crash(w) \/ DatabaseError(w)
    PROVE  ExecutorInv' /\ RowsStayResolved
<1> DEFINE old == worker[w]
<1>1. TypeOK /\ DOMAIN worker = Workers /\ Rest(w) = (IF old.kind = "due" THEN "sweep" ELSE "next")
  BY DEF ExecutorInv, TypeOK, Rest
<1>2. UNCHANGED <<schedule, execution, redis, submissions, notified>> /\ faults' \in 0 .. MaxFaults
  BY <1>1, ExecutorNumbers DEF Crash, DatabaseError, TypeOK
<1>3. CASE worker' = [worker EXCEPT ![w] = Idle]
  <2>1. Idle \in Busy \cup {Idle} /\ Idle.pc = "idle"
    BY DEF Idle
  <2>2. DOMAIN worker' = Workers /\ \A v \in Workers : worker'[v] = IF v = w THEN Idle ELSE worker[v]
    BY <1>1, <1>3
  <2> QED
    BY <1>1, <1>2, <2>1, <2>2, WorkerMoves DEF TypeOK
<1>4. CASE worker' # [worker EXCEPT ![w] = Idle]
  <2>1. DatabaseError(w) /\ old.pc \in {"sweep", "claim", "finalize", "mark"}
    BY <1>4 DEF Crash, DatabaseError
  <2>2. old \in Busy /\ old.outcome \in Outcomes \cup {"none", "lost"} /\ old.kind \in {"due", "retry"}
    BY <1>1, <2>1, WorkerIsBusy
  <2>3. \E pc \in {"sweep", "next", "release"}, outcome \in Outcomes \cup {"none", "lost"} :
          /\ worker' = [worker EXCEPT ![w] = [old EXCEPT !.pc = pc, !.outcome = outcome]]
          /\ pc = "next" => old.kind = "retry"
    <3>1. CASE Goto(w, Rest(w))
      <4>1. worker' = [worker EXCEPT ![w] = [old EXCEPT !.pc = Rest(w), !.outcome = old.outcome]]
        BY <1>1, <2>2, <3>1 DEF Goto, Busy
      <4> QED
        BY <1>1, <2>2, <4>1
    <3>2. CASE worker' = [worker EXCEPT ![w].pc = "release", ![w].outcome = "lost"]
      <4>1. worker' = [worker EXCEPT ![w] = [old EXCEPT !.pc = "release", !.outcome = "lost"]]
        BY <1>1, <3>2
      <4> QED
        BY <4>1
    <3> QED
      BY <1>4, <2>1, <3>1, <3>2 DEF DatabaseError
  <2>4. /\ schedule' \in [status : {"active", "paused", "failed"}, run : 1 .. MaxRuns + 1, due : BOOLEAN, cron : BOOLEAN]
        /\ redis' \in [ExecutionIds -> 0 .. LeaseTicks] /\ notified' \in SUBSET ExecutionIds
    BY <1>1, <1>2 DEF TypeOK
  <2>5. PICK pc \in {"sweep", "next", "release"}, outcome \in Outcomes \cup {"none", "lost"} :
          /\ worker' = [worker EXCEPT ![w] = [old EXCEPT !.pc = pc, !.outcome = outcome]]
          /\ pc = "next" => old.kind = "retry"
    BY <2>3
  <2> QED
    BY <1>2, <2>1, <2>4, <2>5, TurnsKeepClaims
<1> QED
  BY <1>3, <1>4

-----------------------------------------------------------------------------
\* One row changes, together with the worker that changes it.
LEMMA RowMoves ==
    ASSUME ExecutorInv, NEW w \in Workers,
           NEW r \in Busy, NEW id \in ExecutionIds, NEW row \in Execution,
           DOMAIN worker' = Workers, DOMAIN execution' = ExecutionIds,
           \A v \in Workers : worker'[v] = IF v = w THEN r ELSE worker[v],
           \A i \in ExecutionIds : execution'[i] = IF i = id THEN row ELSE execution[i],
           UNCHANGED <<schedule, redis, faults, notified>>,
           submissions' \in [ExecutionIds -> 0 .. MAX_RETRIES + MaxFaults + 1],
           \A v \in Workers \ {w} : OwnsClaim(v) => worker[v].id # id,
           row.status = "pending" => row.attempt_number < MAX_RETRIES,
           execution[id].status \in {"submitted", "failed"} => row.status = execution[id].status,
           Fits(r), r.pc # "claim",
           r.pc \in {"submit", "finalize"} =>
               /\ r.id = id /\ row.status = "pending" /\ row.execution_status = "claimed"
               /\ row.lease = r.lease /\ r.lease > 0
    PROVE  ExecutorInv' /\ RowsStayResolved
<1>1. /\ ExecutionIds' = ExecutionIds /\ \A v \in Workers : worker[v] \in Busy \cup {Idle}
      /\ \A i \in ExecutionIds : execution[i] \in Execution \cup {NoExecution}
  BY DEF ExecutionIds, ExecutorInv, TypeOK
<1>2. \A v \in Workers : worker[v].pc \in {"submit", "finalize"} => worker[v].id \in ExecutionIds
  BY <1>1, WorkerIsBusy DEF ExecutorInv
<1>3. OwnersHoldTheLease'
  BY <1>1, <1>2 DEF ExecutorInv, ClaimInv, OwnersHoldTheLease, OwnsClaim
<1>4. OneOwner'
  BY DEF ExecutorInv, ClaimInv, OneOwner, OwnsClaim
<1>5. ClaimersHaveALease'
  BY DEF ExecutorInv, ClaimInv, ClaimersHaveALease
<1>6. AttemptsFit'
  BY <1>1 DEF ExecutorInv, ClaimInv, AttemptsFit, IsPending
<1>7. TypeOK'
  <2>1. (\A v \in Workers : worker'[v] \in Busy \cup {Idle})
        /\ (\A i \in ExecutionIds : execution'[i] \in Execution \cup {NoExecution})
    BY <1>1
  <2> QED
    BY <1>1, <2>1 DEF ExecutorInv, TypeOK
<1>8. RowsStayResolved
  BY DEF RowsStayResolved
<1> QED
  BY <1>3, <1>4, <1>5, <1>6, <1>7, <1>8 DEF ClaimInv, ExecutorInv

LEMMA ClaimKeepsClaims ==
    ASSUME ExecutorInv, NEW w \in Workers, Claim(w)
    PROVE  ExecutorInv' /\ RowsStayResolved
<1> DEFINE old == worker[w]
           id == old.id
           row == IF old.kind = "due"
                  THEN [status |-> "pending", execution_status |-> "claimed",
                        attempt_number |-> 1, lease |-> old.lease, retry |-> 0]
                  ELSE [execution[id] EXCEPT !.execution_status = "claimed", !.lease = old.lease]
           r == [old EXCEPT !.pc = "submit"]
<1>1. TypeOK /\ AttemptsFit /\ DOMAIN worker = Workers /\ DOMAIN execution = ExecutionIds
  BY DEF ExecutorInv, ClaimInv, TypeOK
<1>2. /\ old.pc = "claim" /\ old \in Busy /\ id \in ExecutionIds /\ old.lease \in 0 .. LeaseTicks /\ old.lease > 0
      /\ Fits(old)
  BY <1>1, WorkerIsBusy DEF Claim, AttemptsFit, ExecutorInv, ClaimInv, ClaimersHaveALease
<1>3. /\ old.kind = "due" => execution[id] = NoExecution
      /\ old.kind # "due" => /\ execution[id].status = "pending" /\ execution[id] \in Execution
                             /\ \/ execution[id].execution_status = "null"
                                \/ execution[id].lease = 0
  BY <1>1, <1>2 DEF Claim, Wins, Exists, Reclaimable, IsPending, TypeOK, NoExecution
<1>4. row \in Execution /\ row.status = "pending" /\ row.execution_status = "claimed" /\ row.lease = old.lease
  <2>1. 0 \in 0 .. RetryTicks /\ 1 \in 1 .. MAX_RETRIES
    BY ExecutorNumbers
  <2>2. CASE old.kind = "due"
    BY <1>2, <2>1, <2>2 DEF Execution
  <2>3. CASE old.kind # "due"
    <3>1. row = [execution[id] EXCEPT !.execution_status = "claimed", !.lease = old.lease]
      BY <2>3
    <3>2. execution[id] \in Execution /\ execution[id].status = "pending"
      BY <1>3, <2>3
    <3> HIDE DEF row, id
    <3> QED
      BY <1>2, <3>1, <3>2 DEF Execution
  <2> QED
    BY <2>2, <2>3
<1>5. row.attempt_number < MAX_RETRIES
  BY <1>1, <1>2, <1>3, ExecutorNumbers DEF Execution, AttemptsFit, IsPending
<1>6. r \in Busy /\ r.pc = "submit" /\ r.id = id /\ r.lease = old.lease /\ Fits(r)
  BY <1>2 DEF Busy, Fits
<1>7. \A v \in Workers \ {w} : OwnsClaim(v) => worker[v].id # id
  BY <1>3 DEF ExecutorInv, ClaimInv, OwnersHoldTheLease, NoExecution
<1>8. worker' = [worker EXCEPT ![w] = r] /\ execution' = [execution EXCEPT ![id] = row]
  BY <1>1 DEF Claim, Goto
<1>9. submissions' \in [ExecutionIds -> 0 .. MAX_RETRIES + MaxFaults + 1]
  BY <1>1, <1>2, ExecutorNumbers DEF Claim, TypeOK, Counted
<1>10. UNCHANGED <<schedule, redis, faults, notified>>
  BY DEF Claim
<1>11. execution[id].status \notin {"submitted", "failed"}
  BY <1>3 DEF NoExecution
<1> HIDE DEF r, row, id
<1>12. /\ DOMAIN worker' = Workers /\ DOMAIN execution' = ExecutionIds
       /\ \A v \in Workers : worker'[v] = IF v = w THEN r ELSE worker[v]
       /\ \A i \in ExecutionIds : execution'[i] = IF i = id THEN row ELSE execution[i]
  BY <1>1, <1>8
<1>13. id \in ExecutionIds
  BY <1>2 DEF id
<1>14. r.lease > 0 /\ r.pc # "claim"
  BY <1>2, <1>6
<1> HIDE DEF old
<1> QED
  BY <1>4, <1>5, <1>6, <1>7, <1>9, <1>10, <1>11, <1>12, <1>13, <1>14, RowMoves

\* Only the owner of a claim resolves it, although the UPDATE names no owner.
LEMMA FinalizeKeepsClaims ==
    ASSUME ExecutorInv, NEW w \in Workers, Finalize(w)
    PROVE  ExecutorInv' /\ RowsStayResolved
<1> DEFINE old == worker[w]
           id == old.id
           e == execution[id]
           row == CASE old.outcome = "success" ->
                         [e EXCEPT !.status = "submitted", !.execution_status = "executed", !.lease = 0]
                    [] Requeues(w) ->
                         [e EXCEPT !.status = "pending", !.execution_status = "null",
                                   !.attempt_number = NextAttempt(w), !.lease = 0, !.retry = RetryTicks]
                    [] OTHER ->
                         [e EXCEPT !.status = "failed", !.execution_status = "failed",
                                   !.attempt_number = NextAttempt(w), !.lease = 0]
           r == [old EXCEPT !.pc = "release"]
<1>1. TypeOK /\ AttemptsFit /\ DOMAIN worker = Workers /\ DOMAIN execution = ExecutionIds
  BY DEF ExecutorInv, ClaimInv, TypeOK
<1>2. OwnsClaim(w) /\ old \in Busy /\ id \in ExecutionIds /\ old.attempt \in Nat /\ Fits(old)
  BY <1>1, WorkerIsBusy DEF Finalize, OwnsClaim, AttemptsFit
<1>3. e \in Execution /\ e.status = "pending"
  BY <1>1, <1>2 DEF ExecutorInv, ClaimInv, OwnersHoldTheLease, TypeOK, NoExecution
<1>4. /\ NextAttempt(w) \in 1 .. MAX_RETRIES
      /\ Requeues(w) => NextAttempt(w) < MAX_RETRIES
  BY <1>2, ExecutorNumbers DEF NextAttempt, Requeues, Fits
<1>5. RetryTicks \in 0 .. RetryTicks /\ 0 \in 0 .. LeaseTicks
  BY ExecutorNumbers
<1>6. row \in Execution /\ (row.status = "pending" => row.attempt_number < MAX_RETRIES)
  <2>1. CASE old.outcome = "success"
    <3>1. row = [e EXCEPT !.status = "submitted", !.execution_status = "executed", !.lease = 0]
      BY <2>1 DEF Requeues
    <3> HIDE DEF row, e
    <3> QED
      BY <1>3, <1>5, <3>1 DEF Execution
  <2>2. CASE old.outcome # "success" /\ Requeues(w)
    <3>1. row = [e EXCEPT !.status = "pending", !.execution_status = "null",
                          !.attempt_number = NextAttempt(w), !.lease = 0, !.retry = RetryTicks]
      BY <2>2
    <3> HIDE DEF row, e
    <3> QED
      BY <1>3, <1>4, <1>5, <2>2, <3>1 DEF Execution
  <2>3. CASE old.outcome # "success" /\ ~Requeues(w)
    <3>1. row = [e EXCEPT !.status = "failed", !.execution_status = "failed",
                          !.attempt_number = NextAttempt(w), !.lease = 0]
      BY <2>3
    <3> HIDE DEF row, e
    <3> QED
      BY <1>3, <1>4, <1>5, <3>1 DEF Execution
  <2> QED
    BY <2>1, <2>2, <2>3
<1>7. r \in Busy /\ r.pc = "release" /\ Fits(r)
  BY <1>2 DEF Busy, Fits
<1>8. \A v \in Workers \ {w} : OwnsClaim(v) => worker[v].id # id
  BY <1>2 DEF ExecutorInv, ClaimInv, OneOwner
<1>9. worker' = [worker EXCEPT ![w] = r] /\ execution' = [execution EXCEPT ![id] = row]
  BY <1>1 DEF Finalize, Goto
<1>10. UNCHANGED <<schedule, redis, faults, submissions, notified>>
  BY DEF Finalize
<1>11. submissions' \in [ExecutionIds -> 0 .. MAX_RETRIES + MaxFaults + 1]
  BY <1>1, <1>10 DEF TypeOK
<1> HIDE DEF r, row
<1>12. /\ DOMAIN worker' = Workers /\ DOMAIN execution' = ExecutionIds
       /\ \A v \in Workers : worker'[v] = IF v = w THEN r ELSE worker[v]
       /\ \A i \in ExecutionIds : execution'[i] = IF i = id THEN row ELSE execution[i]
  BY <1>1, <1>9
<1>13. execution[id].status \notin {"submitted", "failed"}
  BY <1>3
<1> HIDE DEF id, e
<1>14. id \in ExecutionIds
  BY <1>2 DEF id
<1> HIDE DEF old
<1> QED
  BY <1>6, <1>7, <1>8, <1>10, <1>11, <1>12, <1>13, <1>14, RowMoves

\* A run by hand inserts a row nobody claims.
LEMMA ExecuteNowKeepsClaims ==
    ASSUME ExecutorInv, NEW id \in ExecutionIds, NEW outcome \in Outcomes, ExecuteNow(id, outcome)
    PROVE  ExecutorInv' /\ RowsStayResolved
<1> DEFINE row == [status |-> IF outcome = "success" THEN "submitted" ELSE "pending",
                   execution_status |-> "null", attempt_number |-> 1, lease |-> 0,
                   retry |-> IF outcome = "retryable" THEN RetryTicks ELSE 0]
<1>1. TypeOK /\ DOMAIN execution = ExecutionIds /\ ExecutionIds' = ExecutionIds
  BY DEF ExecutorInv, TypeOK, ExecutionIds
<1>2. execution[id] = NoExecution /\ UNCHANGED <<schedule, redis, worker, faults, notified>>
  BY DEF ExecuteNow, Exists
<1>3. row \in Execution /\ row.attempt_number = 1 /\ 1 < MAX_RETRIES
  BY ExecutorNumbers DEF Execution
<1>4. execution' = [execution EXCEPT ![id] = row]
  BY DEF ExecuteNow
<1> HIDE DEF row
<1>5. /\ DOMAIN execution' = ExecutionIds
      /\ \A i \in ExecutionIds : execution'[i] = IF i = id THEN row ELSE execution[i]
  BY <1>1, <1>4
<1>6. submissions' \in [ExecutionIds -> 0 .. MAX_RETRIES + MaxFaults + 1]
  BY <1>1, ExecutorNumbers DEF ExecuteNow, TypeOK
<1>7. \A v \in Workers : OwnsClaim(v) => worker[v].id # id /\ worker[v].id \in ExecutionIds
  BY <1>1, <1>2, WorkerIsBusy DEF ExecutorInv, ClaimInv, OwnersHoldTheLease, OwnsClaim, NoExecution
<1>8. OwnersHoldTheLease' /\ OneOwner' /\ ClaimersHaveALease'
  BY <1>2, <1>5, <1>7 DEF ExecutorInv, ClaimInv, OwnersHoldTheLease, OneOwner, ClaimersHaveALease, OwnsClaim
<1>9. AttemptsFit'
  BY <1>1, <1>2, <1>3, <1>5 DEF ExecutorInv, ClaimInv, AttemptsFit, Fits, IsPending, Idle
<1>10. TypeOK'
  BY <1>1, <1>2, <1>3, <1>5, <1>6 DEF TypeOK
<1>11. RowsStayResolved
  BY <1>2, <1>5 DEF RowsStayResolved, NoExecution
<1> QED
  BY <1>8, <1>9, <1>10, <1>11 DEF ClaimInv, ExecutorInv

LEMMA LessStays ==
    ASSUME NEW m \in Nat, NEW n \in 0 .. m
    PROVE  Less(n) \in 0 .. m
  BY DEF Less

\* Time passes row and owner alike; without overruns it never takes the
\* lease of a worker that still holds its claim, or is about to take it.
LEMMA TickKeepsClaims ==
    ASSUME ~MayOverrun, ExecutorInv, Tick
    PROVE  ExecutorInv' /\ RowsStayResolved
<1>1. TypeOK /\ DOMAIN worker = Workers /\ DOMAIN execution = ExecutionIds
  BY DEF ExecutorInv, TypeOK
<1>2. /\ ExecutionIds' = ExecutionIds
      /\ \A n \in 0 .. LeaseTicks : Less(n) \in 0 .. LeaseTicks
      /\ \A n \in 0 .. RetryTicks : Less(n) \in 0 .. RetryTicks
  BY LessStays, ExecutorNumbers DEF ExecutionIds
<1>3. \A w \in Workers :
        /\ worker[w] = Idle => worker'[w] = Idle
        /\ worker[w] # Idle => /\ worker[w] \in Busy
                               /\ worker'[w] = [worker[w] EXCEPT !.lease = Less(worker[w].lease)]
  BY <1>1 DEF Tick, TypeOK
<1>4. \A id \in ExecutionIds :
        /\ execution[id] = NoExecution => execution'[id] = NoExecution
        /\ execution[id] # NoExecution =>
             /\ execution[id] \in Execution
             /\ execution'[id] = [execution[id] EXCEPT !.lease = Less(execution[id].lease),
                                                       !.retry = Less(execution[id].retry)]
  BY <1>1 DEF Tick, TypeOK, Exists
<1>5. \A w \in Workers :
        /\ worker'[w] \in Busy \cup {Idle}
        /\ worker'[w].pc = worker[w].pc
        /\ worker[w].pc # "idle" =>
             /\ worker'[w].id = worker[w].id /\ worker'[w].lease = Less(worker[w].lease)
        /\ Fits(worker[w]) /\ worker[w] # Idle => Fits(worker'[w])
        /\ worker'[w] # Idle => worker[w] # Idle
  <2> SUFFICES ASSUME NEW w \in Workers
               PROVE  /\ worker'[w] \in Busy \cup {Idle}
                      /\ worker'[w].pc = worker[w].pc
                      /\ worker[w].pc # "idle" =>
                           /\ worker'[w].id = worker[w].id /\ worker'[w].lease = Less(worker[w].lease)
                      /\ Fits(worker[w]) /\ worker[w] # Idle => Fits(worker'[w])
                      /\ worker'[w] # Idle => worker[w] # Idle
    OBVIOUS
  <2>1. CASE worker[w] = Idle
    BY <1>3, <2>1 DEF Idle
  <2>2. CASE worker[w] # Idle
    <3> DEFINE old == worker[w]
    <3>1. old \in Busy /\ old # Idle /\ worker'[w] = [old EXCEPT !.lease = Less(old.lease)]
      BY <1>3, <2>2
    <3> HIDE DEF old
    <3>2. old.lease \in 0 .. LeaseTicks
      BY <3>1 DEF Busy
    <3>3. Less(old.lease) \in 0 .. LeaseTicks
      BY <1>2, <3>2
    <3>4. /\ worker'[w] \in Busy /\ worker'[w].pc = old.pc /\ worker'[w].id = old.id
          /\ worker'[w].lease = Less(old.lease) /\ (Fits(old) => Fits(worker'[w]))
      BY <3>1, <3>3 DEF Busy, Fits
    <3> QED
      BY <2>2, <3>4 DEF old
  <2> QED
    BY <2>1, <2>2
<1>6. \A id \in ExecutionIds :
        /\ execution'[id] \in Execution \cup {NoExecution}
        /\ execution'[id].status = execution[id].status
        /\ execution[id].status = "pending" =>
             /\ execution'[id].execution_status = execution[id].execution_status
             /\ execution'[id].attempt_number = execution[id].attempt_number
             /\ execution'[id].lease = Less(execution[id].lease)
  <2> SUFFICES ASSUME NEW id \in ExecutionIds
               PROVE  /\ execution'[id] \in Execution \cup {NoExecution}
                      /\ execution'[id].status = execution[id].status
                      /\ execution[id].status = "pending" =>
                           /\ execution'[id].execution_status = execution[id].execution_status
                           /\ execution'[id].attempt_number = execution[id].attempt_number
                           /\ execution'[id].lease = Less(execution[id].lease)
    OBVIOUS
  <2>1. CASE execution[id] = NoExecution
    <3>1. execution'[id] = NoExecution
      BY <1>4, <2>1
    <3> QED
      BY <2>1, <3>1 DEF NoExecution
  <2>2. CASE execution[id] # NoExecution
    <3> DEFINE e == execution[id]
    <3>1. e \in Execution /\ execution'[id] = [e EXCEPT !.lease = Less(e.lease), !.retry = Less(e.retry)]
      BY <1>4, <2>2
    <3> HIDE DEF e
    <3>2. e.lease \in 0 .. LeaseTicks /\ e.retry \in 0 .. RetryTicks
      BY <3>1 DEF Execution
    <3>3. Less(e.lease) \in 0 .. LeaseTicks /\ Less(e.retry) \in 0 .. RetryTicks
      BY <1>2, <3>2
    <3>4. /\ execution'[id] \in Execution /\ execution'[id].status = e.status
          /\ execution'[id].execution_status = e.execution_status
          /\ execution'[id].attempt_number = e.attempt_number /\ execution'[id].lease = Less(e.lease)
      BY <3>1, <3>3 DEF Execution
    <3> QED
      BY <3>4 DEF e
  <2> QED
    BY <2>1, <2>2
<1>7. \A w \in Workers : worker[w].pc \in {"claim", "submit", "finalize"} =>
        worker[w].id \in ExecutionIds /\ worker[w].lease \in 0 .. LeaseTicks /\ Less(worker[w].lease) > 0
  <2>1. \A w \in Workers : worker[w].pc \in {"claim", "submit", "finalize"} =>
          worker[w].id \in ExecutionIds /\ worker[w].lease \in 0 .. LeaseTicks /\ worker[w].lease > 1
    BY <1>1, WorkerIsBusy DEF Tick
  <2> QED
    BY <2>1 DEF Less
<1>8. OwnersHoldTheLease' /\ OneOwner' /\ ClaimersHaveALease'
  BY <1>5, <1>6, <1>7 DEF ExecutorInv, ClaimInv, OwnersHoldTheLease, OneOwner, ClaimersHaveALease, OwnsClaim
<1>9. AttemptsFit'
  BY <1>2, <1>5, <1>6 DEF ExecutorInv, ClaimInv, AttemptsFit, IsPending
<1>10. redis' \in [ExecutionIds -> 0 .. LeaseTicks]
  <2>1. redis' = [id \in ExecutionIds |-> Less(redis[id])] /\ redis \in [ExecutionIds -> 0 .. LeaseTicks]
    BY <1>1 DEF Tick, TypeOK
  <2>2. \A id \in ExecutionIds : Less(redis[id]) \in 0 .. LeaseTicks
    BY <1>2, <2>1
  <2> QED
    BY <2>1, <2>2
<1>11. TypeOK'
  BY <1>1, <1>2, <1>5, <1>6, <1>10 DEF Tick, TypeOK
<1>12. RowsStayResolved
  BY <1>6 DEF RowsStayResolved
<1> QED
  BY <1>8, <1>9, <1>11, <1>12 DEF ClaimInv, ExecutorInv

\* What the clock, the cron job and the owner do to the schedule.
LEMMA ScheduleKeepsClaims ==
    ASSUME ExecutorInv,
           BecomeDue \/ CronFires \/ CronAdvances \/ (\E status \in {"active", "paused"} : OwnerSetsStatus(status))
             \/ UNCHANGED vars
    PROVE  ExecutorInv' /\ RowsStayResolved
<1> DEFINE ScheduleRows == [status : {"active", "paused", "failed"}, run : 1 .. MaxRuns + 1, due : BOOLEAN, cron : BOOLEAN]
<1>1. schedule \in ScheduleRows /\ TypeOK
  BY DEF ExecutorInv, TypeOK
<1>2. NextRun \in ScheduleRows
  BY <1>1, NextRunIsTyped
<1>3. schedule' \in ScheduleRows /\ UNCHANGED <<execution, redis, worker, faults, submissions, notified>>
  BY <1>1, <1>2 DEF BecomeDue, CronFires, CronAdvances, OwnerSetsStatus, vars
<1>4. ClaimInv' /\ RowsStayResolved
  BY <1>3 DEF ExecutorInv, ClaimInv, OwnersHoldTheLease, OneOwner, ClaimersHaveALease, AttemptsFit, Fits,
              OwnsClaim, IsPending, RowsStayResolved, ExecutionIds, Idle
<1>5. TypeOK'
  BY <1>1, <1>3 DEF TypeOK, ExecutionIds, Busy, Idle, Execution, NoExecution
<1> QED
  BY <1>4, <1>5 DEF ExecutorInv

LEMMA ExecutorStays ==
    ASSUME ~MayOverrun, ExecutorInv, [Next]_vars
    PROVE  ExecutorInv' /\ RowsStayResolved
<1>1. ASSUME NEW w \in Workers, WorkerStep(w) \/ Crash(w) \/ DatabaseError(w)
      PROVE  ExecutorInv' /\ RowsStayResolved
  <2>1. CASE StartCycle(w) \/ Sweep(w) \/ NextRetry(w)
    BY <2>1, CyclesKeepClaims
  <2>2. CASE AcquireLock(w)
    BY <2>2, LocksKeepClaims
  <2>3. CASE Claim(w)
    BY <2>3, ClaimKeepsClaims
  <2>4. CASE Finalize(w)
    BY <2>4, FinalizeKeepsClaims
  <2>5. CASE LoseClaim(w) \/ (\E outcome \in Outcomes : SubmitReturns(w, outcome))
               \/ Release(w) \/ Mark(w) \/ NotifyFailure(w)
    BY <2>5, TurningKeepsClaims
  <2>6. CASE Crash(w) \/ DatabaseError(w)
    BY <2>6, FaultsKeepClaims
  <2> QED
    BY <1>1, <2>1, <2>2, <2>3, <2>4, <2>5, <2>6 DEF WorkerStep
<1>2. CASE Tick
  BY <1>2, TickKeepsClaims
<1>3. CASE \E id \in ExecutionIds, outcome \in Outcomes : ExecuteNow(id, outcome)
  BY <1>3, ExecuteNowKeepsClaims
<1>4. CASE BecomeDue \/ CronFires \/ CronAdvances \/ (\E status \in {"active", "paused"} : OwnerSetsStatus(status))
             \/ UNCHANGED vars
  BY <1>4, ScheduleKeepsClaims
<1> QED
  BY <1>1, <1>2, <1>3, <1>4 DEF Next

(***************************************************************************)
(* The claims of the executor: as long as a submission stays within its    *)
(* lease, at most one worker is between the claim of an execution and its  *)
(* resolution, whatever crashes, database errors and Redis outages there   *)
(* are, and what was resolved stays resolved (claimExecution, claimRetry   *)
(* and finalizeClaim of scheduledExecutor.js).                             *)
(***************************************************************************)
THEOREM ClaimsStayOwned ==
    ASSUME ~MayOverrun
    PROVE  Spec => ClaimsAreOwned
<1>1. Init => ExecutorInv
  BY ExecutorStarts
<1>2. ExecutorInv /\ [Next]_vars => ExecutorInv'
  BY ExecutorStays
<1>3. ExecutorInv /\ [Next]_vars => RowsStayResolved
  BY ExecutorStays
<1>4. ExecutorInv => OneOwner
  BY DEF ExecutorInv, ClaimInv
<1>5. RowsStayResolved =>
        \A id \in ExecutionIds : execution[id].status \in {"submitted", "failed"} =>
            execution'[id].status = execution[id].status
  BY DEF RowsStayResolved
<1> QED
  BY <1>1, <1>2, <1>3, <1>4, <1>5, PTL DEF Spec, ClaimsAreOwned, ResolvedIsFinal

--------------------------------------------------------------------------------
(***************************************************************************)
(* The runner of txFunctions.                                              *)
(***************************************************************************)
LEMMA TurretNumbers ==
    /\ CACHE_TTL \in Nat \ {0} /\ IntervalMinutes \in Nat \ {0} /\ CooldownMinutes \in Nat \ {0}
    /\ ReleaseAfter \in Nat \ {0} /\ RecheckAfter \in Nat \ {0}
    /\ PROVIDER_TIMEOUT \in Nat /\ MaxHistory \in Nat /\ MaxTurretTime \in Nat /\ MaxLogs \in Nat /\ MaxTurretFaults \in Nat
    /\ Providers \subseteq Nat /\ Providers # {} /\ IsFiniteSet(Providers) /\ IsFiniteSet(Tasks)
BY TurretsAssumption DEF Tasks

\* The n oldest rows are n rows, if there are as many.
LEMMA OldestCount ==
    ASSUME NEW S \in SUBSET Nat, IsFiniteSet(S), NEW n \in Nat, n <= Cardinality(S)
    PROVE  Cardinality(Oldest(S, n)) \in Nat /\ Cardinality(Oldest(S, n)) >= n
<1> DEFINE old == Oldest(S, n)
           rest == S \ old
           below(r) == {q \in S : q < r}
           rank == [r \in rest |-> Cardinality(below(r))]
           high == n .. Cardinality(S) - 1
<1>1. old \subseteq S /\ IsFiniteSet(old) /\ Cardinality(old) \in Nat /\ Cardinality(S) \in Nat
  BY FS_Subset, FS_CardinalityType DEF Oldest
<1>2. \A r \in S : /\ IsFiniteSet(below(r)) /\ Cardinality(below(r)) \in Nat
                   /\ Cardinality(below(r)) < Cardinality(S)
  <2> SUFFICES ASSUME NEW r \in S
               PROVE  /\ IsFiniteSet(below(r)) /\ Cardinality(below(r)) \in Nat
                      /\ Cardinality(below(r)) < Cardinality(S)
    OBVIOUS
  <2>1. below(r) \in SUBSET S /\ below(r) # S
    OBVIOUS
  <2> HIDE DEF below
  <2>2. /\ IsFiniteSet(below(r)) /\ Cardinality(below(r)) <= Cardinality(S)
        /\ Cardinality(S) # Cardinality(below(r))
    BY <2>1, FS_Subset
  <2> QED
    BY <1>1, <2>2, FS_CardinalityType
<1>3. SUFFICES ASSUME Cardinality(old) < n PROVE FALSE
  BY <1>1
<1>4. IsFiniteSet(rest) /\ Cardinality(rest) = Cardinality(S) - Cardinality(old)
  <2>1. S \cap old = old
    BY <1>1
  <2> QED
    BY <2>1, FS_Difference
<1>5. IsFiniteSet(high) /\ Cardinality(high) = Cardinality(S) - n
  <2>1. n \in Int /\ Cardinality(S) - 1 \in Int
    BY <1>1
  <2>2. IsFiniteSet(high) /\ Cardinality(high) =
          IF n > Cardinality(S) - 1 THEN 0 ELSE (Cardinality(S) - 1) - n + 1
    BY <2>1, FS_Interval
  <2> QED
    BY <1>1, <2>2
<1>6. rank \in [rest -> high]
  <2> SUFFICES ASSUME NEW r \in rest PROVE Cardinality(below(r)) \in high
    OBVIOUS
  <2>1. r \in S /\ ~(Cardinality(below(r)) < n)
    BY DEF Oldest
  <2>2. Cardinality(below(r)) \in Nat /\ Cardinality(below(r)) < Cardinality(S)
    BY <1>2, <2>1
  <2> HIDE DEF below
  <2> QED
    BY <1>1, <2>1, <2>2
<1>7. Cardinality(high) < Cardinality(rest)
  BY <1>1, <1>3, <1>4, <1>5
<1>8. PICK x, y \in rest : x # y /\ rank[x] = rank[y]
  <2> HIDE DEF rank, high, rest
  <2> QED
    BY <1>4, <1>5, <1>6, <1>7, FS_PigeonHole
<1>9. ASSUME NEW a \in S, NEW b \in S, a < b PROVE Cardinality(below(a)) # Cardinality(below(b))
  <2>0. a \in Nat /\ b \in Nat /\ a \in below(b) /\ a \notin below(a)
    BY <1>9
  <2>1. below(a) \in SUBSET below(b) /\ below(a) # below(b)
    <3>1. \A q \in S : q < a => q < b
      BY <1>9, <2>0
    <3>2. below(a) \subseteq below(b)
      BY <3>1
    <3> HIDE DEF below
    <3> QED
      BY <2>0, <3>2
  <2>2. IsFiniteSet(below(b))
    BY <1>2
  <2> HIDE DEF below
  <2> QED
    BY <2>1, <2>2, FS_Subset
<1>10. x \in S /\ y \in S /\ Cardinality(below(x)) = Cardinality(below(y))
  BY <1>8
<1>11. x < y \/ y < x
  BY <1>8, <1>10
<1> HIDE DEF below
<1> QED
  BY <1>9, <1>10, <1>11

\* All rows are among the n oldest if there are fewer.
LEMMA AllAreOldest ==
    ASSUME NEW S \in SUBSET Nat, IsFiniteSet(S), NEW n \in Nat, Cardinality(S) < n
    PROVE  Oldest(S, n) = S
<1> SUFFICES ASSUME NEW r \in S PROVE Cardinality({q \in S : q < r}) < n
  BY DEF Oldest
<1>1. /\ Cardinality({q \in S : q < r}) <= Cardinality(S) /\ Cardinality(S) \in Nat
      /\ Cardinality({q \in S : q < r}) \in Nat
  BY FS_Subset, FS_CardinalityType
<1> QED
  BY <1>1

\* A finite set of providers has a first one.
LEMMA FirstProvider ==
    ASSUME NEW S \in SUBSET Nat, IsFiniteSet(S), S # {}
    PROVE  Min(S) \in S
<1>1. Cardinality(S) \in Nat /\ Cardinality(S) # 0
  BY FS_CardinalityType, FS_EmptySet
<1>2. Cardinality(Oldest(S, 1)) >= 1 /\ Cardinality(Oldest(S, 1)) \in Nat
  BY <1>1, OldestCount
<1>3. Oldest(S, 1) # {}
  BY <1>2, FS_EmptySet
<1>4. PICK r \in S : Cardinality({q \in S : q < r}) < 1
  BY <1>3 DEF Oldest
<1>5. IsFiniteSet({q \in S : q < r}) /\ Cardinality({q \in S : q < r}) \in Nat
  BY FS_Subset, FS_CardinalityType
<1>6. Cardinality({q \in S : q < r}) = 0
  BY <1>4, <1>5
<1>7. {q \in S : q < r} = {}
  BY <1>5, <1>6, FS_EmptySet
<1>8. \A q \in S : r <= q
  BY <1>7
<1> QED
  BY <1>8 DEF Min

-----------------------------------------------------------------------------
Moment == 0 .. MaxTurretTime
NoRow == [status |-> "none"]
Row == [status : {"active", "paused", "completed"}, type : Types, created : Moment,
        next : Nat, lastExecuted : Moment \cup {Never}]
Item == [id : TxFunctions, row : Row]
Decision == [executed : BOOLEAN, status : {"keep", "completed"}, next : Nat]

NextTask == [at : {"next"}, todo : SUBSET Item]
ProbeTask == [at : {"probe", "answer"}, item : Item, todo : SUBSET Item, now : Moment, provider : Nat,
              asked : Moment, low : BOOLEAN]
WriteTask == [at : {"write"}, id : TxFunctions, todo : SUBSET Item, new : Decision,
              decidedAt : Moment]
LogTask == [at : {"fail", "log", "count"}, id : TxFunctions, todo : SUBSET Item]
SelectTask == [at : {"select"}, id : TxFunctions, todo : SUBSET Item, excess : Nat]
DeleteTask == [at : {"delete"}, id : TxFunctions, todo : SUBSET Item, rows : SUBSET (1 .. MaxLogs)]
TurretTaskSet == {TurretIdle} \cup NextTask \cup ProbeTask \cup WriteTask \cup LogTask
                   \cup SelectTask \cup DeleteTask

\* The rows a tick has still to evaluate.
Left(k) == IF k = TurretIdle THEN {}
           ELSE IF k.at \in {"probe", "answer"} THEN k.todo \cup {k.item} ELSE k.todo

TurretTypes ==
    /\ deployments \in [TxFunctions -> Row \cup {NoRow}]
    /\ turretTask \in [Tasks -> TurretTaskSet]
    /\ logs \in [TxFunctions -> SUBSET (1 .. MaxLogs)] /\ lastLog \in 0 .. MaxLogs
    /\ feed \in [Providers -> [low : BOOLEAN, fetchedAt : Moment \cup {Never}]]
    /\ turretClock \in Moment /\ lastLow \in Moment \cup {Never}
    /\ turretFaults \in Nat /\ marketLow \in BOOLEAN /\ ticksOverlapped \in BOOLEAN

\* What a snapshot may rely on: the type and the time of creation never change.
SnapshotsHold ==
    \A t \in Tasks : \A item \in Left(turretTask[t]) :
        /\ item.id \in Deployed
        /\ item.row.type = deployments[item.id].type
        /\ item.row.created = deployments[item.id].created

PricesAreTrue ==
    /\ marketLow => lastLow = turretClock
    /\ lastLow # Never => lastLow <= turretClock
    /\ \A p \in Providers : feed[p].low /\ feed[p].fetchedAt # Never =>
          lastLow # Never /\ feed[p].fetchedAt <= lastLow + PROVIDER_TIMEOUT

\* A price under way was true after it was asked for.
ProbeIsDue(k) ==
    /\ k.now <= turretClock /\ k.item.row.next <= k.now /\ k.asked <= turretClock
    /\ k.at = "answer" /\ k.low => lastLow # Never /\ k.asked <= lastLow

ProbesAreDue ==
    \A t \in Tasks : turretTask[t].at \in {"probe", "answer"} => ProbeIsDue(turretTask[t])

\* What a decision that is about to be written says.
DecisionHolds(k, row, low) ==
    /\ row.type = "dca" => /\ k.new.executed /\ k.new.status = "keep"
                           /\ k.new.next = k.decidedAt + IntervalMinutes
    /\ row.type = "stop_loss" => /\ k.new.status = "keep"
                                 /\ k.new.executed => /\ low # Never
                                                      /\ k.decidedAt - low < CACHE_TTL + PROVIDER_TIMEOUT
    /\ row.type = "escrow_time" => /\ k.new.status = "completed" => k.new.executed
                                   /\ k.new.executed => k.decidedAt >= row.created + ReleaseAfter
    /\ row.type = "escrow_manual" => ~k.new.executed /\ k.new.status = "keep"

DecisionsHold ==
    \A t \in Tasks : turretTask[t].at = "write" =>
        /\ turretTask[t].id \in Deployed
        /\ DecisionHolds(turretTask[t], deployments[turretTask[t].id], lastLow)

RowSound(row) ==
    /\ row.type = "dca" /\ row.lastExecuted # Never =>
          row.next >= row.lastExecuted + IntervalMinutes
    /\ row.type = "escrow_time" /\ row.lastExecuted # Never =>
          row.lastExecuted >= row.created + ReleaseAfter
    /\ row.status = "completed" => row.type = "escrow_time" /\ row.lastExecuted # Never
    /\ row.type = "escrow_manual" => row.lastExecuted = Never

RowsSound == \A d \in Deployed : RowSound(deployments[d])

\* A tick that runs alone sees the rows as they are.
AloneSound(k, rows) ==
    /\ \A item \in Left(k) : /\ item.row.next = rows[item.id].next
                             /\ item.row.lastExecuted = rows[item.id].lastExecuted
    /\ \A i, j \in Left(k) : i.id = j.id => i = j
    /\ k.at \in {"probe", "answer"} => k.item \notin k.todo
    /\ k.at = "write" =>
         /\ \A item \in k.todo : item.id # k.id
         /\ rows[k.id].type = "dca" /\ rows[k.id].lastExecuted # Never =>
              k.decidedAt - rows[k.id].lastExecuted >= IntervalMinutes

TicksAlone ==
    ~ticksOverlapped =>
        /\ \A t, u \in TurretTicks : t = u \/ turretTask[t] = TurretIdle \/ turretTask[u] = TurretIdle
        /\ \A t \in TurretTicks : AloneSound(turretTask[t], deployments)

\* The tasks that will still remove more than v rows of d's history, or have not counted.
Pruning(d, v) ==
    {t \in Tasks : LET k == turretTask[t] IN
        \/ k.at = "count" /\ k.id = d
        \/ k.at = "select" /\ k.id = d /\ k.excess > v
        \/ k.at = "delete" /\ k.id = d /\ Cardinality(k.rows \cap logs[d]) > v}

HistoryPruned ==
    turretFaults = 0 => \A d \in TxFunctions, v \in Nat :
        Cardinality(logs[d]) <= MaxHistory + v + Cardinality(Pruning(d, v))

TurretsInv ==
    /\ TurretTypes /\ SnapshotsHold /\ PricesAreTrue /\ ProbesAreDue /\ DecisionsHold /\ RowsSound
    /\ TicksAlone /\ HistoryPruned

-----------------------------------------------------------------------------
\* What a task is, by its program counter.
LEMMA TaskShape ==
    ASSUME NEW k \in TurretTaskSet
    PROVE  /\ k.at \in {"idle", "next", "probe", "answer", "write", "fail", "log", "count", "select", "delete"}
           /\ k.at = "idle" <=> k = TurretIdle
           /\ k.at = "next" => k \in NextTask
           /\ k.at \in {"probe", "answer"} => k \in ProbeTask
           /\ k.at = "write" => k \in WriteTask
           /\ k.at \in {"fail", "log", "count"} => k \in LogTask
           /\ k.at = "select" => k \in SelectTask
           /\ k.at = "delete" => k \in DeleteTask
BY DEF TurretTaskSet, TurretIdle, NextTask, ProbeTask, WriteTask, LogTask, SelectTask, DeleteTask

LEMMA LeftItems ==
    ASSUME NEW k \in TurretTaskSet
    PROVE  /\ Left(k) \in SUBSET Item
           /\ k.at = "idle" => Left(k) = {}
           /\ k.at # "idle" => k.todo \in SUBSET Item /\ k.todo \subseteq Left(k)
           /\ k.at \notin {"idle", "probe", "answer"} => Left(k) = k.todo
           /\ k.at \in {"probe", "answer"} => Left(k) = k.todo \cup {k.item} /\ k.item \in Item
           /\ k.at \notin {"idle", "next", "probe", "answer"} => k.id \in TxFunctions
<1>1. k.at # "idle" => k.todo \in SUBSET Item
  BY TaskShape DEF NextTask, ProbeTask, WriteTask, LogTask, SelectTask, DeleteTask
<1>2. k.at \in {"probe", "answer"} => k.item \in Item
  BY TaskShape DEF ProbeTask
<1>3. k.at \notin {"idle", "next", "probe", "answer"} => k.id \in TxFunctions
  BY TaskShape DEF WriteTask, LogTask, SelectTask, DeleteTask
<1> QED
  BY <1>1, <1>2, <1>3, TaskShape DEF Left

LEMMA ResumeShape ==
    ASSUME NEW todo \in SUBSET Item
    PROVE  /\ Resume(todo) \in TurretTaskSet
           /\ Resume(todo).at \in {"idle", "next"}
           /\ Left(Resume(todo)) = todo
<1>1. CASE todo = {}
  BY <1>1 DEF Resume, TurretTaskSet, TurretIdle, Left
<1>2. CASE todo # {}
  <2>1. Resume(todo) = [at |-> "next", todo |-> todo]
    BY <1>2 DEF Resume
  <2>2. Resume(todo) \in NextTask
    BY <2>1 DEF NextTask
  <2>3. Resume(todo) # TurretIdle
    BY <2>1 DEF TurretIdle
  <2> QED
    BY <2>1, <2>2, <2>3 DEF TurretTaskSet, Left
<1> QED
  BY <1>1, <1>2

LEMMA ToLogShape ==
    ASSUME NEW d \in TxFunctions, NEW todo \in SUBSET Item
    PROVE  /\ ToLog(d, todo) \in TurretTaskSet
           /\ ToLog(d, todo).at = "log" /\ ToLog(d, todo).id = d /\ ToLog(d, todo).todo = todo
           /\ Left(ToLog(d, todo)) = todo
<1>1. ToLog(d, todo) \in LogTask
  BY DEF ToLog, LogTask
<1>2. ToLog(d, todo) # TurretIdle
  BY DEF ToLog, TurretIdle
<1> QED
  BY <1>1, <1>2 DEF ToLog, TurretTaskSet, Left

LEMMA FailShape ==
    ASSUME NEW d \in TxFunctions, NEW todo \in SUBSET Item, NEW k,
           k = [at |-> "fail", id |-> d, todo |-> todo]
    PROVE  k \in TurretTaskSet /\ k.at = "fail" /\ Left(k) = todo
<1>1. k \in LogTask
  BY DEF LogTask
<1>2. k # TurretIdle
  BY DEF TurretIdle
<1> QED
  BY <1>1, <1>2 DEF TurretTaskSet, Left

LEMMA WriteShape ==
    ASSUME NEW k \in WriteTask
    PROVE  k \in TurretTaskSet /\ k.at = "write" /\ Left(k) = k.todo
<1>1. k.at = "write" /\ k # TurretIdle
  BY DEF WriteTask, TurretIdle
<1> QED
  BY <1>1 DEF TurretTaskSet, Left

LEMMA DeployedRow ==
    ASSUME TurretTypes, NEW d \in Deployed
    PROVE  d \in TxFunctions /\ deployments[d] \in Row
<1>1. d \in TxFunctions /\ deployments[d].status # "none"
  BY DEF Deployed
<1>2. deployments[d] \in Row \cup {NoRow}
  BY <1>1 DEF TurretTypes
<1> QED
  BY <1>1, <1>2 DEF NoRow

LEMMA TaskOf ==
    ASSUME TurretTypes, NEW t \in Tasks
    PROVE  turretTask[t] \in TurretTaskSet
BY DEF TurretTypes

-----------------------------------------------------------------------------
(***************************************************************************)
(* The parts of the invariant one by one: what a step has to show.         *)
(***************************************************************************)
RowsKept ==
    \A d \in Deployed : /\ d \in Deployed'
                        /\ deployments'[d].type = deployments[d].type
                        /\ deployments'[d].created = deployments[d].created

LEMMA SnapshotsKept ==
    ASSUME SnapshotsHold, RowsKept,
           \A u \in Tasks : Left(turretTask'[u]) \subseteq Left(turretTask[u])
    PROVE  SnapshotsHold'
<1> SUFFICES ASSUME NEW t \in Tasks, NEW item \in Left(turretTask'[t])
             PROVE  /\ item.id \in Deployed'
                    /\ item.row.type = deployments'[item.id].type
                    /\ item.row.created = deployments'[item.id].created
  BY DEF SnapshotsHold, Left
<1>1. item \in Left(turretTask[t])
  OBVIOUS
<1>2. /\ item.id \in Deployed
      /\ item.row.type = deployments[item.id].type
      /\ item.row.created = deployments[item.id].created
  BY <1>1 DEF SnapshotsHold
<1> QED
  BY <1>2 DEF RowsKept

LowKept == lastLow # Never => lastLow' # Never /\ lastLow' >= lastLow

LEMMA DecisionsKept ==
    ASSUME TurretTypes, lastLow' \in Moment \cup {Never}, DecisionsHold, RowsKept, LowKept,
           \A u \in Tasks : turretTask'[u].at = "write" =>
               \/ turretTask'[u] = turretTask[u]
               \/ /\ turretTask'[u].id \in Deployed'
                  /\ DecisionHolds(turretTask'[u], deployments'[turretTask'[u].id], lastLow')
    PROVE  DecisionsHold'
<1> SUFFICES ASSUME NEW t \in Tasks, turretTask'[t].at = "write",
                    turretTask'[t] = turretTask[t]
             PROVE  /\ turretTask'[t].id \in Deployed'
                    /\ DecisionHolds(turretTask'[t], deployments'[turretTask'[t].id], lastLow')
  BY DEF DecisionsHold
<1> DEFINE k == turretTask[t]
           row == deployments[k.id]
           row2 == deployments'[k.id]
<1>1. k.id \in Deployed /\ DecisionHolds(k, row, lastLow) /\ k \in WriteTask
  BY TaskOf, TaskShape DEF DecisionsHold
<1>2. k.id \in Deployed' /\ row2.type = row.type /\ row2.created = row.created
  BY <1>1 DEF RowsKept
<1>3. k.decidedAt \in Int /\ CACHE_TTL + PROVIDER_TIMEOUT \in Int
  BY <1>1, TurretNumbers DEF WriteTask, Moment
<1>4. lastLow # Never => lastLow \in Int /\ lastLow' \in Int /\ lastLow' # Never /\ lastLow' >= lastLow
  BY TurretNumbers DEF TurretTypes, Moment, LowKept, Never
<1>5. lastLow # Never /\ k.decidedAt - lastLow < CACHE_TTL + PROVIDER_TIMEOUT =>
          lastLow' # Never /\ k.decidedAt - lastLow' < CACHE_TTL + PROVIDER_TIMEOUT
  BY <1>3, <1>4
<1>6. turretTask'[t] = k
  OBVIOUS
<1> HIDE DEF k, row, row2
<1>7. DecisionHolds(k, row2, lastLow')
  BY <1>1, <1>2, <1>5 DEF DecisionHolds
<1> QED
  BY <1>2, <1>6, <1>7 DEF row2

\* A row as a tick that runs alone knows it.
SameRow(rows, rows2, d) == /\ rows2[d].type = rows[d].type
                           /\ rows2[d].next = rows[d].next
                           /\ rows2[d].lastExecuted = rows[d].lastExecuted

LEMMA AloneKept ==
    ASSUME NEW k, NEW rows, NEW rows2, AloneSound(k, rows),
           \A item \in Left(k) : SameRow(rows, rows2, item.id),
           k.at = "write" => SameRow(rows, rows2, k.id)
    PROVE  AloneSound(k, rows2)
<1>1. \A item \in Left(k) : /\ item.row.next = rows2[item.id].next
                            /\ item.row.lastExecuted = rows2[item.id].lastExecuted
  BY DEF AloneSound, SameRow
<1>2. CASE k.at = "write"
  BY <1>1, <1>2 DEF AloneSound, SameRow
<1>3. CASE k.at # "write"
  BY <1>1, <1>3 DEF AloneSound
<1> QED
  BY <1>2, <1>3

LEMMA IdleIsAlone == \A rows : AloneSound(TurretIdle, rows)
BY DEF AloneSound, TurretIdle, Left

\* A request or the environment takes a step, and no tick does.
LEMMA NoTickMoves ==
    ASSUME TurretTypes, SnapshotsHold, DecisionsHold, TicksAlone,
           UNCHANGED ticksOverlapped,
           \A u \in TurretTicks : turretTask'[u] = turretTask[u],
           \A d \in Deployed : SameRow(deployments, deployments', d)
    PROVE  TicksAlone'
<1> SUFFICES ASSUME ~ticksOverlapped
             PROVE  /\ \A t, u \in TurretTicks :
                         t = u \/ turretTask'[t] = TurretIdle \/ turretTask'[u] = TurretIdle
                    /\ \A t \in TurretTicks : AloneSound(turretTask'[t], deployments')
  BY DEF TicksAlone
<1>1. \A t, u \in TurretTicks : t = u \/ turretTask'[t] = TurretIdle \/ turretTask'[u] = TurretIdle
  BY DEF TicksAlone
<1>2. ASSUME NEW t \in TurretTicks PROVE AloneSound(turretTask[t], deployments')
  <2> DEFINE k == turretTask[t]
  <2>1. AloneSound(k, deployments) /\ t \in Tasks
    BY DEF TicksAlone, Tasks
  <2>2. \A item \in Left(k) : item.id \in Deployed
    BY <2>1 DEF SnapshotsHold
  <2>3. k.at = "write" => k.id \in Deployed
    BY <2>1 DEF DecisionsHold
  <2> HIDE DEF k
  <2> QED
    BY <2>1, <2>2, <2>3, AloneKept DEF k
<1> QED
  BY <1>1, <1>2

\* A tick takes a step.
LEMMA TickMoves ==
    ASSUME TurretTypes, TicksAlone, NEW t \in TurretTicks, NEW k, Go(t, k),
           turretTask[t] # TurretIdle, UNCHANGED ticksOverlapped,
           ~ticksOverlapped => AloneSound(k, deployments')
    PROVE  TicksAlone'
<1> SUFFICES ASSUME ~ticksOverlapped
             PROVE  /\ \A x, u \in TurretTicks :
                         x = u \/ turretTask'[x] = TurretIdle \/ turretTask'[u] = TurretIdle
                    /\ \A x \in TurretTicks : AloneSound(turretTask'[x], deployments')
  BY DEF TicksAlone
<1>1. \A u \in TurretTicks : turretTask'[u] = IF u = t THEN k ELSE turretTask[u]
  BY DEF Go, TurretTypes, Tasks
<1>2. \A u \in TurretTicks : u = t \/ turretTask[u] = TurretIdle
  BY DEF TicksAlone
<1> QED
  BY <1>1, <1>2, IdleIsAlone

\* A step of a task, seen task by task.
LEMMA OneTaskMoves ==
    ASSUME TurretTypes, NEW t \in Tasks, NEW k, Go(t, k)
    PROVE  \A u \in Tasks : turretTask'[u] = IF u = t THEN k ELSE turretTask[u]
BY DEF Go, TurretTypes

(***************************************************************************)
(* A task goes on without touching rows or prices: it logs, prunes, gives  *)
(* up, skips a row or asks the next provider.                              *)
(***************************************************************************)
TaskGoesOn(t, k) ==
    LET old == turretTask[t] IN
        /\ Go(t, k)
        /\ old # TurretIdle /\ k.at # "write" /\ Left(k) \subseteq Left(old)
        /\ k.at \in {"probe", "answer"} =>
             /\ ProbeIsDue(k)
             /\ \/ old.at \in {"probe", "answer"} /\ k.item = old.item /\ k.todo = old.todo
                \/ k.item \notin k.todo
        /\ UNCHANGED <<deployments, feed, turretClock, marketLow, lastLow, ticksOverlapped>>

LEMMA GoingOnKeeps ==
    ASSUME TurretTypes, SnapshotsHold, PricesAreTrue, ProbesAreDue, DecisionsHold, RowsSound,
           TicksAlone, NEW t \in Tasks, NEW k \in TurretTaskSet, TaskGoesOn(t, k)
    PROVE  /\ SnapshotsHold' /\ PricesAreTrue' /\ ProbesAreDue' /\ DecisionsHold' /\ RowsSound'
           /\ TicksAlone'
<1> DEFINE old == turretTask[t]
<1>1. /\ Go(t, k) /\ old # TurretIdle /\ k.at # "write" /\ Left(k) \subseteq Left(old)
      /\ k.at \in {"probe", "answer"} =>
           /\ ProbeIsDue(k)
           /\ \/ old.at \in {"probe", "answer"} /\ k.item = old.item /\ k.todo = old.todo
              \/ k.item \notin k.todo
  BY DEF TaskGoesOn
<1>2. /\ deployments' = deployments /\ feed' = feed /\ turretClock' = turretClock
      /\ marketLow' = marketLow /\ lastLow' = lastLow /\ ticksOverlapped' = ticksOverlapped
  BY DEF TaskGoesOn
<1>3. \A u \in Tasks : turretTask'[u] = IF u = t THEN k ELSE turretTask[u]
  BY <1>1, OneTaskMoves
<1>4. RowsKept /\ LowKept
  <2>1. Deployed' = Deployed
    BY <1>2 DEF Deployed
  <2>2. lastLow # Never => lastLow >= lastLow
    BY DEF TurretTypes, Moment, Never
  <2> QED
    BY <1>2, <2>1, <2>2 DEF RowsKept, LowKept
<1>5. SnapshotsHold'
  BY <1>1, <1>3, <1>4, SnapshotsKept
<1>6. PricesAreTrue'
  BY <1>2 DEF PricesAreTrue, Never
<1>7. ProbesAreDue'
  BY <1>1, <1>2, <1>3 DEF ProbesAreDue, ProbeIsDue, Never
<1>8. DecisionsHold'
  <2>1. \A u \in Tasks : turretTask'[u].at = "write" => turretTask'[u] = turretTask[u]
    BY <1>1, <1>3
  <2>2. lastLow' \in Moment \cup {Never}
    BY <1>2 DEF TurretTypes
  <2> QED
    BY <1>4, <2>1, <2>2, DecisionsKept
<1>9. RowsSound'
  BY <1>2 DEF RowsSound, RowSound, Deployed, Never
<1>10. TicksAlone'
  <2>1. CASE t \in TurretTicks
    <3>1. ASSUME ~ticksOverlapped PROVE AloneSound(k, deployments')
      <4>1. AloneSound(old, deployments)
        BY <2>1, <3>1 DEF TicksAlone
      <4>2. /\ \A item \in Left(k) : /\ item.row.next = deployments'[item.id].next
                                     /\ item.row.lastExecuted = deployments'[item.id].lastExecuted
            /\ \A i, j \in Left(k) : i.id = j.id => i = j
        BY <1>1, <1>2, <4>1 DEF AloneSound
      <4>3. k.at \in {"probe", "answer"} => k.item \notin k.todo
        BY <1>1, <4>1 DEF AloneSound
      <4> QED
        BY <1>1, <4>2, <4>3 DEF AloneSound
    <3> HIDE DEF old
    <3> QED
      BY <1>1, <1>2, <2>1, <3>1, TickMoves DEF old
  <2>2. CASE t \notin TurretTicks
    <3>1. \A u \in TurretTicks : turretTask'[u] = turretTask[u]
      BY <1>3, <2>2 DEF Tasks
    <3>2. \A d \in Deployed : SameRow(deployments, deployments', d)
      BY <1>2 DEF SameRow
    <3> QED
      BY <1>2, <3>1, <3>2, NoTickMoves
  <2> QED
    BY <2>1, <2>2
<1> QED
  BY <1>5, <1>6, <1>7, <1>8, <1>9, <1>10

-----------------------------------------------------------------------------
(***************************************************************************)
(* The history.  A task that has counted n rows too many will delete n     *)
(* rows, unless others delete them first; Pruning(d, v) counts the tasks   *)
(* that still make a difference once v rows are gone.                      *)
(***************************************************************************)
LEMMA HistorySets ==
    ASSUME TurretTypes, NEW d \in TxFunctions
    PROVE  /\ logs[d] \in SUBSET (1 .. MaxLogs)
           /\ IsFiniteSet(logs[d]) /\ Cardinality(logs[d]) \in Nat
           /\ \A v : /\ Pruning(d, v) \in SUBSET Tasks /\ IsFiniteSet(Pruning(d, v))
                     /\ Cardinality(Pruning(d, v)) \in Nat
<1>1. logs[d] \in SUBSET (1 .. MaxLogs)
  BY DEF TurretTypes
<1>2. IsFiniteSet(1 .. MaxLogs)
  BY TurretNumbers, FS_Interval
<1>3. IsFiniteSet(logs[d]) /\ Cardinality(logs[d]) \in Nat
  BY <1>1, <1>2, FS_Subset, FS_CardinalityType
<1>4. \A v : Pruning(d, v) \in SUBSET Tasks
  BY DEF Pruning
<1>5. \A v : IsFiniteSet(Pruning(d, v)) /\ Cardinality(Pruning(d, v)) \in Nat
  BY <1>4, TurretNumbers, FS_Subset, FS_CardinalityType
<1> QED
  BY <1>1, <1>3, <1>4, <1>5

LEMMA HistorySetsNext ==
    ASSUME TurretTypes', NEW d \in TxFunctions
    PROVE  /\ logs'[d] \in SUBSET (1 .. MaxLogs)
           /\ IsFiniteSet(logs'[d]) /\ Cardinality(logs'[d]) \in Nat
           /\ \A v : /\ Pruning(d, v)' \in SUBSET Tasks /\ IsFiniteSet(Pruning(d, v)')
                     /\ Cardinality(Pruning(d, v)') \in Nat
<1>1. logs'[d] \in SUBSET (1 .. MaxLogs)
  BY DEF TurretTypes
<1>2. IsFiniteSet(1 .. MaxLogs)
  BY TurretNumbers, FS_Interval
<1>3. IsFiniteSet(logs'[d]) /\ Cardinality(logs'[d]) \in Nat
  BY <1>1, <1>2, FS_Subset, FS_CardinalityType
<1>4. \A v : Pruning(d, v)' \in SUBSET Tasks
  BY DEF Pruning
<1>5. \A v : IsFiniteSet(Pruning(d, v)') /\ Cardinality(Pruning(d, v)') \in Nat
  BY <1>4, TurretNumbers, FS_Subset, FS_CardinalityType
<1> QED
  BY <1>1, <1>3, <1>4, <1>5

\* A task prunes in d after v rows.
Prunes(k, rows, d, v) ==
    \/ k.at = "count" /\ k.id = d
    \/ k.at = "select" /\ k.id = d /\ k.excess > v
    \/ k.at = "delete" /\ k.id = d /\ Cardinality(k.rows \cap rows) > v

LEMMA PruningTasks ==
    \A d, v : /\ Pruning(d, v) = {t \in Tasks : Prunes(turretTask[t], logs[d], d, v)}
              /\ Pruning(d, v)' = {t \in Tasks : Prunes(turretTask'[t], logs'[d], d, v)}
BY DEF Pruning, Prunes

\* No row is added and no task that prunes moves.
LEMMA NothingPruned ==
    ASSUME TurretTypes, HistoryPruned, UNCHANGED <<logs, turretFaults>>,
           \A u \in Tasks : \/ turretTask'[u] = turretTask[u]
                            \/ /\ turretTask[u].at \notin {"count", "select", "delete"}
                               /\ turretTask'[u].at \notin {"count", "select", "delete"}
    PROVE  HistoryPruned'
<1>1. \A d, v : Pruning(d, v)' = Pruning(d, v)
  BY PruningTasks DEF Prunes
<1>2. \A d, v : Cardinality(Pruning(d, v))' = Cardinality(Pruning(d, v))
  BY <1>1
<1> QED
  BY <1>2 DEF HistoryPruned

\* One task moves, and it loses no pruning.
LEMMA PruningGrows ==
    ASSUME TurretTypes, TurretTypes', NEW t \in Tasks, NEW k, Go(t, k), NEW d \in TxFunctions,
           NEW v, NEW w, logs[d] \subseteq logs'[d] , v <= w, v \in Nat, w \in Nat,
           Prunes(turretTask[t], logs[d], d, w) => Prunes(k, logs'[d], d, v)
    PROVE  /\ Pruning(d, w) \subseteq Pruning(d, v)'
           /\ Cardinality(Pruning(d, w)) <= Cardinality(Pruning(d, v)')
<1>1. \A u \in Tasks : turretTask'[u] = IF u = t THEN k ELSE turretTask[u]
  BY OneTaskMoves
<1>2. ASSUME NEW u \in Tasks, Prunes(turretTask[u], logs[d], d, w)
      PROVE  Prunes(turretTask'[u], logs'[d], d, v)
  <2>1. CASE u = t
    BY <1>1, <1>2, <2>1
  <2>2. CASE u # t
    <3> DEFINE j == turretTask[u]
    <3>1. turretTask'[u] = j /\ j \in TurretTaskSet
      BY <1>1, <2>2, TaskOf
    <3>2. CASE j.at = "count"
      BY <1>2, <3>1, <3>2 DEF Prunes
    <3>3. CASE j.at = "select"
      <4>1. j.excess \in Nat
        BY <3>1, <3>3, TaskShape DEF SelectTask
      <4> QED
        BY <1>2, <3>1, <3>3, <4>1 DEF Prunes
    <3>4. CASE j.at = "delete"
      <4>1. IsFiniteSet(logs'[d])
        BY HistorySetsNext
      <4>2. IsFiniteSet(j.rows \cap logs'[d])
        BY <4>1, FS_Intersection
      <4>3. j.rows \cap logs[d] \in SUBSET (j.rows \cap logs'[d])
        OBVIOUS
      <4>4. /\ Cardinality(j.rows \cap logs[d]) <= Cardinality(j.rows \cap logs'[d])
            /\ IsFiniteSet(j.rows \cap logs[d])
        BY <4>2, <4>3, FS_Subset
      <4>5. Cardinality(j.rows \cap logs[d]) \in Nat /\ Cardinality(j.rows \cap logs'[d]) \in Nat
        BY <4>2, <4>4, FS_CardinalityType
      <4>6. Cardinality(j.rows \cap logs[d]) > w /\ j.id = d
        BY <1>2, <3>4 DEF Prunes
      <4>7. Cardinality(j.rows \cap logs'[d]) > v
        BY <4>4, <4>5, <4>6
      <4> QED
        BY <3>1, <3>4, <4>6, <4>7 DEF Prunes
    <3> QED
      BY <1>2, <3>2, <3>3, <3>4 DEF Prunes
  <2> QED
    BY <2>1, <2>2
<1>3. Pruning(d, w) \subseteq Pruning(d, v)'
  BY <1>2, PruningTasks
<1>4. IsFiniteSet(Pruning(d, v)')
  BY HistorySetsNext
<1> QED
  BY <1>3, <1>4, FS_Subset

LEMMA InsertPrunes ==
    ASSUME TurretTypes, TurretTypes', HistoryPruned, NEW t \in Tasks, InsertLog(t)
    PROVE  HistoryPruned'
<1> DEFINE k == turretTask[t]
           k2 == [k EXCEPT !.at = "count"]
<1>1. /\ k.at = "log" /\ Go(t, k2) /\ turretFaults' = turretFaults
      /\ logs' = [logs EXCEPT ![k.id] = @ \cup {lastLog + 1}]
  BY DEF InsertLog
<1>2. k \in LogTask
  BY <1>1, TaskOf, TaskShape
<1>3. k2.at = "count" /\ k2.id = k.id /\ k.id \in TxFunctions
  BY <1>2 DEF LogTask
<1> HIDE DEF k2
<1> SUFFICES ASSUME turretFaults = 0, NEW d \in TxFunctions, NEW v \in Nat
             PROVE  Cardinality(logs'[d]) <= MaxHistory + v + Cardinality(Pruning(d, v)')
  BY <1>1 DEF HistoryPruned
<1>4. /\ Cardinality(logs[d]) <= MaxHistory + v + Cardinality(Pruning(d, v))
      /\ MaxHistory \in Nat
  BY TurretNumbers DEF HistoryPruned
<1>5. /\ IsFiniteSet(logs[d]) /\ Cardinality(logs[d]) \in Nat
      /\ IsFiniteSet(Pruning(d, v)) /\ Cardinality(Pruning(d, v)) \in Nat
  BY HistorySets
<1>6. IsFiniteSet(Pruning(d, v)') /\ Cardinality(Pruning(d, v)') \in Nat
      /\ Cardinality(logs'[d]) \in Nat
  BY HistorySetsNext
<1>7. ~Prunes(k, logs[d], d, v)
  BY <1>1 DEF Prunes
<1>8. logs[d] \subseteq logs'[d]
  BY <1>1, <1>3 DEF TurretTypes
<1>9. v <= v
  OBVIOUS
<1>10. /\ Pruning(d, v) \subseteq Pruning(d, v)'
       /\ Cardinality(Pruning(d, v)) <= Cardinality(Pruning(d, v)')
  BY <1>1, <1>7, <1>8, <1>9, PruningGrows
<1>11. CASE d # k.id
  <2>1. logs'[d] = logs[d]
    BY <1>1, <1>11 DEF TurretTypes
  <2> QED
    BY <1>4, <1>5, <1>6, <1>10, <2>1
<1>12. CASE d = k.id
  <2>1. logs'[d] = logs[d] \cup {lastLog + 1}
    BY <1>1, <1>12 DEF TurretTypes
  <2>2. Cardinality(logs'[d]) <= Cardinality(logs[d]) + 1
    <3>1. Cardinality(logs[d] \cup {lastLog + 1}) =
            IF lastLog + 1 \in logs[d] THEN Cardinality(logs[d]) ELSE Cardinality(logs[d]) + 1
      BY <1>5, FS_AddElement
    <3> QED
      BY <1>5, <2>1, <3>1
  <2>3. t \notin Pruning(d, v)
    BY <1>7, PruningTasks
  <2>4. t \in Pruning(d, v)'
    <3>1. turretTask'[t] = k2
      BY <1>1, OneTaskMoves
    <3>2. Prunes(turretTask'[t], logs'[d], d, v)
      BY <1>3, <1>12, <3>1 DEF Prunes
    <3> QED
      BY <3>2, PruningTasks
  <2>5. Cardinality(Pruning(d, v) \cup {t}) = Cardinality(Pruning(d, v)) + 1
    BY <1>5, <2>3, FS_AddElement
  <2>6. Pruning(d, v) \cup {t} \in SUBSET (Pruning(d, v)')
    BY <1>10, <2>4
  <2>7. Cardinality(Pruning(d, v) \cup {t}) <= Cardinality(Pruning(d, v)')
    BY <1>6, <2>6, FS_Subset
  <2> QED
    BY <1>4, <1>5, <1>6, <2>2, <2>5, <2>7
<1> QED
  BY <1>11, <1>12

LEMMA CountPrunes ==
    ASSUME TurretTypes, TurretTypes', HistoryPruned, NEW t \in Tasks, CountLogs(t)
    PROVE  HistoryPruned'
<1> DEFINE k == turretTask[t]
           n == Excess(k.id)
           k2 == IF n = 0 THEN Resume(k.todo)
                 ELSE [at |-> "select", id |-> k.id, todo |-> k.todo, excess |-> n]
<1>1. k.at = "count" /\ Go(t, k2) /\ turretFaults' = turretFaults /\ logs' = logs
  BY DEF CountLogs
<1>2. k \in LogTask
  BY <1>1, TaskOf, TaskShape
<1>3. k.id \in TxFunctions
  BY <1>2 DEF LogTask
<1> SUFFICES ASSUME turretFaults = 0, NEW d \in TxFunctions, NEW v \in Nat
             PROVE  Cardinality(logs'[d]) <= MaxHistory + v + Cardinality(Pruning(d, v)')
  BY <1>1 DEF HistoryPruned
<1>4. /\ Cardinality(logs[d]) <= MaxHistory + v + Cardinality(Pruning(d, v))
      /\ MaxHistory \in Nat
  BY TurretNumbers DEF HistoryPruned
<1>5. Cardinality(logs[d]) \in Nat /\ Cardinality(Pruning(d, v)) \in Nat
  BY HistorySets
<1>6. Cardinality(Pruning(d, v)') \in Nat
  BY HistorySetsNext
<1>7. n = (IF Cardinality(logs[k.id]) > MaxHistory
           THEN Cardinality(logs[k.id]) - MaxHistory ELSE 0)
      /\ Cardinality(logs[k.id]) \in Nat
  BY <1>3, HistorySets DEF Excess
<1> HIDE DEF n
<1>8. CASE d = k.id /\ n <= v
  BY <1>1, <1>4, <1>6, <1>7, <1>8
<1>9. CASE ~(d = k.id /\ n <= v)
  <2>1. Prunes(k, logs[d], d, v) => Prunes(k2, logs'[d], d, v)
    <3>1. ASSUME d = k.id PROVE n # 0 /\ n > v
      BY <1>4, <1>7, <1>9, <3>1
    <3>2. ASSUME Prunes(k, logs[d], d, v) PROVE d = k.id
      BY <3>2 DEF Prunes
    <3>3. ASSUME d = k.id PROVE Prunes(k2, logs'[d], d, v)
      BY <3>1, <3>3 DEF Prunes
    <3> QED
      BY <3>2, <3>3
  <2>2. logs[d] \subseteq logs'[d] /\ v <= v
    BY <1>1
  <2> HIDE DEF k2
  <2>3. Cardinality(Pruning(d, v)) <= Cardinality(Pruning(d, v)')
    BY <1>1, <2>1, <2>2, PruningGrows
  <2> QED
    BY <1>1, <1>4, <1>5, <1>6, <2>3
<1> QED
  BY <1>8, <1>9

LEMMA SelectPrunes ==
    ASSUME TurretTypes, TurretTypes', HistoryPruned, NEW t \in Tasks, SelectOldest(t)
    PROVE  HistoryPruned'
<1> DEFINE k == turretTask[t]
           rows == Oldest(logs[k.id], k.excess)
           k2 == [at |-> "delete", id |-> k.id, todo |-> k.todo, rows |-> rows]
<1>1. k.at = "select" /\ Go(t, k2) /\ turretFaults' = turretFaults /\ logs' = logs
  BY DEF SelectOldest
<1>2. k \in SelectTask
  BY <1>1, TaskOf, TaskShape
<1>3. k.id \in TxFunctions /\ k.excess \in Nat
  BY <1>2 DEF SelectTask
<1>4. k2.at = "delete" /\ k2.id = k.id /\ k2.rows = rows
  OBVIOUS
<1> HIDE DEF k2
<1> SUFFICES ASSUME turretFaults = 0, NEW d \in TxFunctions, NEW v \in Nat
             PROVE  Cardinality(logs'[d]) <= MaxHistory + v + Cardinality(Pruning(d, v)')
  BY <1>1 DEF HistoryPruned
<1>5. /\ Cardinality(logs[d]) <= MaxHistory + v + Cardinality(Pruning(d, v))
      /\ MaxHistory \in Nat
  BY TurretNumbers DEF HistoryPruned
<1>6. /\ Cardinality(logs[d]) \in Nat /\ Cardinality(Pruning(d, v)) \in Nat
      /\ IsFiniteSet(logs[d]) /\ logs[d] \in SUBSET (1 .. MaxLogs)
  BY HistorySets
<1>7. Cardinality(Pruning(d, v)') \in Nat
  BY HistorySetsNext
<1>8. CASE Cardinality(logs[d]) <= v
  BY <1>1, <1>5, <1>6, <1>7, <1>8
<1>9. CASE Cardinality(logs[d]) > v
  <2>1. ASSUME Prunes(k, logs[d], d, v) PROVE Prunes(k2, logs'[d], d, v)
    <3>1. k.id = d /\ k.excess > v
      BY <1>1, <2>1 DEF Prunes
    <3>2. rows \cap logs[d] = rows
      BY <3>1 DEF Oldest
    <3>3. logs[d] \in SUBSET Nat
      BY <1>6, TurretNumbers
    <3>4. Cardinality(rows) > v
      <4>1. CASE k.excess <= Cardinality(logs[d])
        <5>1. Cardinality(rows) \in Nat /\ Cardinality(rows) >= k.excess
          BY <1>3, <1>6, <3>1, <3>3, <4>1, OldestCount
        <5> HIDE DEF rows
        <5> QED
          BY <1>3, <3>1, <5>1
      <4>2. CASE ~(k.excess <= Cardinality(logs[d]))
        <5>1. Cardinality(logs[d]) < k.excess
          BY <1>3, <1>6, <4>2
        <5>2. rows = logs[d]
          BY <1>3, <1>6, <3>1, <3>3, <5>1, AllAreOldest
        <5> QED
          BY <1>9, <5>2
      <4> QED
        BY <4>1, <4>2
    <3> HIDE DEF rows
    <3> QED
      BY <1>1, <1>4, <3>1, <3>2, <3>4 DEF Prunes
  <2>2. logs[d] \subseteq logs'[d] /\ v <= v
    BY <1>1
  <2>3. Cardinality(Pruning(d, v)) <= Cardinality(Pruning(d, v)')
    BY <1>1, <2>1, <2>2, PruningGrows
  <2> QED
    BY <1>1, <1>5, <1>6, <1>7, <2>3
<1> QED
  BY <1>6, <1>8, <1>9


LEMMA DeletePrunes ==
    ASSUME TurretTypes, TurretTypes', HistoryPruned, NEW t \in Tasks, DeleteLogs(t)
    PROVE  HistoryPruned'
<1> DEFINE k == turretTask[t]
           k2 == Resume(k.todo)
<1>1. /\ k.at = "delete" /\ Go(t, k2) /\ turretFaults' = turretFaults
      /\ logs' = [logs EXCEPT ![k.id] = @ \ k.rows]
  BY DEF DeleteLogs
<1>2. k \in DeleteTask
  BY <1>1, TaskOf, TaskShape
<1>3. k.id \in TxFunctions /\ k.todo \in SUBSET Item
  BY <1>2 DEF DeleteTask
<1> HIDE DEF k2
<1> SUFFICES ASSUME turretFaults = 0, NEW d \in TxFunctions, NEW v \in Nat
             PROVE  Cardinality(logs'[d]) <= MaxHistory + v + Cardinality(Pruning(d, v)')
  BY <1>1 DEF HistoryPruned
<1>4. \A w \in Nat : Cardinality(logs[d]) <= MaxHistory + w + Cardinality(Pruning(d, w))
  BY DEF HistoryPruned
<1>5. /\ IsFiniteSet(logs[d]) /\ Cardinality(logs[d]) \in Nat /\ MaxHistory \in Nat
      /\ \A w : IsFiniteSet(Pruning(d, w)) /\ Cardinality(Pruning(d, w)) \in Nat
  BY HistorySets, TurretNumbers
<1>6. IsFiniteSet(Pruning(d, v)') /\ Cardinality(Pruning(d, v)') \in Nat
      /\ Cardinality(logs'[d]) \in Nat
  BY HistorySetsNext
<1>7. CASE d # k.id
  <2>1. logs'[d] = logs[d]
    BY <1>1, <1>7 DEF TurretTypes
  <2>2. ~Prunes(k, logs[d], d, v)
    BY <1>1, <1>7 DEF Prunes
  <2>3. logs[d] \subseteq logs'[d] /\ v <= v
    BY <2>1
  <2>4. Cardinality(Pruning(d, v)) <= Cardinality(Pruning(d, v)')
    BY <1>1, <2>2, <2>3, PruningGrows
  <2>5. Cardinality(logs[d]) <= MaxHistory + v + Cardinality(Pruning(d, v))
    BY <1>4
  <2>6. Cardinality(Pruning(d, v)) \in Nat
    BY <1>5
  <2> QED
    BY <1>5, <1>6, <2>1, <2>4, <2>5, <2>6
<1>8. CASE d = k.id
  <2> DEFINE gone == logs[d] \cap k.rows
             n == Cardinality(gone)
  <2>1. logs'[d] = logs[d] \ k.rows
    BY <1>1, <1>8 DEF TurretTypes
  <2>2. IsFiniteSet(gone) /\ n \in Nat
    BY <1>5, FS_Subset, FS_CardinalityType
  <2>3. Cardinality(logs'[d]) = Cardinality(logs[d]) - n
    BY <1>5, <2>1, FS_Difference
  <2>4. \A u \in Tasks : turretTask'[u] = IF u = t THEN k2 ELSE turretTask[u]
    BY <1>1, OneTaskMoves
  <2>5. ASSUME NEW u \in Tasks, Prunes(turretTask[u], logs[d], d, v + n)
        PROVE  Prunes(turretTask'[u], logs'[d], d, v)
    <3> DEFINE j == turretTask[u]
    <3>1. u # t
      <4>1. k.rows \cap logs[d] = gone
        OBVIOUS
      <4>2. ~(n > v + n)
        BY <2>2
      <4> HIDE DEF gone, n
      <4>3. ~Prunes(k, logs[d], d, v + n)
        BY <1>1, <4>1, <4>2 DEF Prunes, n
      <4> QED
        BY <2>5, <4>3
    <3>2. turretTask'[u] = j /\ j \in TurretTaskSet
      BY <2>4, <3>1, TaskOf
    <3> HIDE DEF gone, n
    <3>3. CASE j.at = "count"
      BY <2>5, <3>2, <3>3 DEF Prunes
    <3>4. CASE j.at = "select"
      <4>1. j.excess \in Nat
        BY <3>2, <3>4, TaskShape DEF SelectTask
      <4>2. j.excess > v + n /\ j.id = d
        BY <2>5, <3>4 DEF Prunes
      <4>3. j.excess > v
        BY <2>2, <4>1, <4>2
      <4> QED
        BY <3>2, <3>4, <4>2, <4>3 DEF Prunes
    <3>5. CASE j.at = "delete"
      <4> DEFINE old == j.rows \cap logs[d]
                 new == j.rows \cap logs'[d]
      <4>1. new = old \ gone
        BY <2>1 DEF gone
      <4>2. IsFiniteSet(old) /\ Cardinality(old) \in Nat
        BY <1>5, FS_Subset, FS_CardinalityType
      <4>3. Cardinality(old) > v + n /\ j.id = d
        BY <2>5, <3>5 DEF Prunes
      <4> HIDE DEF old, new
      <4>4. IsFiniteSet(new) /\ Cardinality(new) = Cardinality(old) - Cardinality(old \cap gone)
        BY <4>1, <4>2, FS_Difference
      <4>5. old \cap gone \in SUBSET gone
        OBVIOUS
      <4>6. Cardinality(old \cap gone) <= n /\ Cardinality(old \cap gone) \in Nat
        BY <2>2, <4>5, FS_Subset, FS_CardinalityType DEF n
      <4>7. Cardinality(new) > v
        BY <2>2, <4>2, <4>3, <4>4, <4>6
      <4> QED
        BY <3>2, <3>5, <4>3, <4>7 DEF Prunes, new
    <3> QED
      BY <2>5, <3>3, <3>4, <3>5 DEF Prunes
  <2> HIDE DEF gone, n
  <2>6. Pruning(d, v + n) \in SUBSET (Pruning(d, v)')
    BY <2>5, PruningTasks
  <2>7. Cardinality(Pruning(d, v + n)) <= Cardinality(Pruning(d, v)')
    BY <1>6, <2>6, FS_Subset
  <2>8. v + n \in Nat
    BY <2>2
  <2>9. /\ Cardinality(logs[d]) <= MaxHistory + (v + n) + Cardinality(Pruning(d, v + n))
        /\ Cardinality(Pruning(d, v + n)) \in Nat
    BY <1>4, <1>5, <2>8
  <2> QED
    BY <1>5, <1>6, <2>2, <2>3, <2>7, <2>9
<1> QED
  BY <1>7, <1>8

\* A step that fails counts as a fault, and the bound is on histories without one.
LEMMA FaultyHistory ==
    ASSUME turretFaults \in Nat, turretFaults' = turretFaults + 1
    PROVE  HistoryPruned'
<1>1. turretFaults' # 0
  OBVIOUS
<1> QED
  BY <1>1 DEF HistoryPruned

-----------------------------------------------------------------------------
(***************************************************************************)
(* The log of an execution, and the steps a tick takes without a price.    *)
(***************************************************************************)
LEMMA InsertKeeps ==
    ASSUME TurretsInv, NEW t \in Tasks, InsertLog(t)
    PROVE  TurretsInv'
<1> DEFINE k == turretTask[t]
           k2 == [k EXCEPT !.at = "count"]
<1>1. /\ k.at = "log" /\ Go(t, k2) /\ lastLog < MaxLogs /\ lastLog' = lastLog + 1
      /\ logs' = [logs EXCEPT ![k.id] = @ \cup {lastLog + 1}]
      /\ UNCHANGED <<deployments, feed, turretClock, marketLow, lastLow, ticksOverlapped, turretFaults>>
  BY DEF InsertLog
<1>2. TurretTypes /\ k \in LogTask /\ k # TurretIdle
  BY <1>1, TaskOf, TaskShape DEF TurretsInv
<1>3. k2 \in LogTask /\ k2.at = "count" /\ k2.todo = k.todo
  BY <1>2 DEF LogTask
<1>4. k2 \in TurretTaskSet
  BY <1>3 DEF TurretTaskSet
<1>5. k.id \in TxFunctions
  BY <1>2 DEF LogTask
<1> HIDE DEF k2
<1>6. Left(k2) \subseteq Left(k)
  BY <1>1, <1>2, <1>3, <1>4, LeftItems DEF TurretTaskSet
<1>7. TurretTypes'
  <2>1. turretTask' \in [Tasks -> TurretTaskSet]
    BY <1>1, <1>2, <1>4 DEF Go, TurretTypes
  <2>2. lastLog + 1 \in 1 .. MaxLogs /\ lastLog' \in 0 .. MaxLogs
    BY <1>1, <1>2, TurretNumbers DEF TurretTypes
  <2>3. logs' \in [TxFunctions -> SUBSET (1 .. MaxLogs)]
    BY <1>1, <1>2, <1>5, <2>2 DEF TurretTypes
  <2> QED
    BY <1>1, <1>2, <2>1, <2>2, <2>3 DEF TurretTypes, Never
<1>8. TaskGoesOn(t, k2)
  BY <1>1, <1>2, <1>3, <1>6 DEF TaskGoesOn
<1>9. HistoryPruned'
  BY <1>2, <1>7, InsertPrunes DEF TurretsInv
<1> QED
  BY <1>4, <1>7, <1>8, <1>9, GoingOnKeeps DEF TurretsInv

\* The typing of a step that moves one task and nothing that is stored.
LEMMA GoingOnTypes ==
    ASSUME TurretTypes, NEW t \in Tasks, NEW k \in TurretTaskSet, Go(t, k),
           logs' \in [TxFunctions -> SUBSET (1 .. MaxLogs)], turretFaults' \in Nat,
           feed' \in [Providers -> [low : BOOLEAN, fetchedAt : Moment \cup {Never}]],
           UNCHANGED <<deployments, lastLog, turretClock, marketLow, lastLow, ticksOverlapped>>
    PROVE  TurretTypes'
<1>1. turretTask' \in [Tasks -> TurretTaskSet]
  BY DEF Go, TurretTypes
<1> QED
  BY <1>1 DEF TurretTypes, Never

LEMMA CountKeeps ==
    ASSUME TurretsInv, NEW t \in Tasks, CountLogs(t)
    PROVE  TurretsInv'
<1> DEFINE k == turretTask[t]
           n == Excess(k.id)
           sel == [at |-> "select", id |-> k.id, todo |-> k.todo, excess |-> n]
           k2 == IF n = 0 THEN Resume(k.todo) ELSE sel
<1>1. /\ k.at = "count" /\ Go(t, k2)
      /\ UNCHANGED <<deployments, logs, lastLog, feed, turretClock, marketLow, lastLow,
                     ticksOverlapped, turretFaults>>
  BY DEF CountLogs
<1>2. TurretTypes /\ k \in LogTask /\ k # TurretIdle /\ k \in TurretTaskSet
  BY <1>1, TaskOf, TaskShape DEF TurretsInv
<1>3. k.id \in TxFunctions /\ k.todo \in SUBSET Item
  BY <1>2 DEF LogTask
<1>4. Left(k) = k.todo
  BY <1>1, <1>2, LeftItems
<1>5. n \in Nat
  <2>1. Cardinality(logs[k.id]) \in Nat /\ MaxHistory \in Nat
    BY <1>2, <1>3, HistorySets, TurretNumbers
  <2> QED
    BY <2>1 DEF Excess
<1>6. k2 \in TurretTaskSet /\ k2.at \in {"idle", "next", "select"} /\ Left(k2) \subseteq Left(k)
  <2>1. CASE n = 0
    <3>1. k2 = Resume(k.todo)
      BY <2>1
    <3> HIDE DEF k2
    <3> QED
      BY <1>3, <1>4, <3>1, ResumeShape
  <2>2. CASE n # 0
    <3>1. k2 = sel
      BY <2>2
    <3>2. sel \in SelectTask /\ sel.at = "select" /\ sel.todo = k.todo
      BY <1>3, <1>5 DEF SelectTask
    <3> HIDE DEF k2, sel
    <3>3. sel \in TurretTaskSet
      BY <3>2 DEF TurretTaskSet
    <3>4. Left(sel) = k.todo
      BY <3>2, <3>3, LeftItems
    <3> QED
      BY <1>4, <3>1, <3>2, <3>3, <3>4
  <2> QED
    BY <2>1, <2>2
<1> HIDE DEF k2
<1>7. TurretTypes'
  <2>1. /\ logs' \in [TxFunctions -> SUBSET (1 .. MaxLogs)] /\ turretFaults' \in Nat
        /\ feed' \in [Providers -> [low : BOOLEAN, fetchedAt : Moment \cup {Never}]]
    BY <1>1, <1>2 DEF TurretTypes
  <2> QED
    BY <1>1, <1>2, <1>6, <2>1, GoingOnTypes
<1>8. TaskGoesOn(t, k2)
  BY <1>1, <1>2, <1>6 DEF TaskGoesOn
<1>9. HistoryPruned'
  BY <1>2, <1>7, CountPrunes DEF TurretsInv
<1> QED
  BY <1>6, <1>7, <1>8, <1>9, GoingOnKeeps DEF TurretsInv

LEMMA SelectKeeps ==
    ASSUME TurretsInv, NEW t \in Tasks, SelectOldest(t)
    PROVE  TurretsInv'
<1> DEFINE k == turretTask[t]
           rows == Oldest(logs[k.id], k.excess)
           k2 == [at |-> "delete", id |-> k.id, todo |-> k.todo, rows |-> rows]
<1>1. /\ k.at = "select" /\ Go(t, k2)
      /\ UNCHANGED <<deployments, logs, lastLog, feed, turretClock, marketLow, lastLow,
                     ticksOverlapped, turretFaults>>
  BY DEF SelectOldest
<1>2. TurretTypes /\ k \in SelectTask /\ k # TurretIdle /\ k \in TurretTaskSet
  BY <1>1, TaskOf, TaskShape DEF TurretsInv
<1>3. k.id \in TxFunctions /\ k.todo \in SUBSET Item
  BY <1>2 DEF SelectTask
<1>4. Left(k) = k.todo
  BY <1>1, <1>2, LeftItems
<1>5. rows \in SUBSET (1 .. MaxLogs)
  <2>1. logs[k.id] \in SUBSET (1 .. MaxLogs)
    BY <1>2, <1>3 DEF TurretTypes
  <2> QED
    BY <2>1 DEF Oldest
<1> HIDE DEF rows
<1>6. k2 \in DeleteTask /\ k2.at = "delete" /\ k2.todo = k.todo
  BY <1>3, <1>5 DEF DeleteTask
<1> HIDE DEF k2
<1>7. k2 \in TurretTaskSet
  BY <1>6 DEF TurretTaskSet
<1>8. Left(k2) \subseteq Left(k)
  BY <1>4, <1>6, <1>7, LeftItems
<1>9. TurretTypes'
  <2>1. /\ logs' \in [TxFunctions -> SUBSET (1 .. MaxLogs)] /\ turretFaults' \in Nat
        /\ feed' \in [Providers -> [low : BOOLEAN, fetchedAt : Moment \cup {Never}]]
    BY <1>1, <1>2 DEF TurretTypes
  <2> QED
    BY <1>1, <1>2, <1>7, <2>1, GoingOnTypes
<1>10. TaskGoesOn(t, k2)
  BY <1>1, <1>2, <1>6, <1>8 DEF TaskGoesOn
<1>11. HistoryPruned'
  BY <1>2, <1>9, SelectPrunes DEF TurretsInv
<1> QED
  BY <1>7, <1>9, <1>10, <1>11, GoingOnKeeps DEF TurretsInv

LEMMA DeleteKeeps ==
    ASSUME TurretsInv, NEW t \in Tasks, DeleteLogs(t)
    PROVE  TurretsInv'
<1> DEFINE k == turretTask[t]
           k2 == Resume(k.todo)
<1>1. /\ k.at = "delete" /\ Go(t, k2) /\ logs' = [logs EXCEPT ![k.id] = @ \ k.rows]
      /\ UNCHANGED <<deployments, lastLog, feed, turretClock, marketLow, lastLow,
                     ticksOverlapped, turretFaults>>
  BY DEF DeleteLogs
<1>2. TurretTypes /\ k \in DeleteTask /\ k # TurretIdle /\ k \in TurretTaskSet
  BY <1>1, TaskOf, TaskShape DEF TurretsInv
<1>3. k.id \in TxFunctions /\ k.todo \in SUBSET Item
  BY <1>2 DEF DeleteTask
<1>4. Left(k) = k.todo
  BY <1>1, <1>2, LeftItems
<1> HIDE DEF k2
<1>5. k2 \in TurretTaskSet /\ k2.at \in {"idle", "next"} /\ Left(k2) \subseteq Left(k)
  BY <1>3, <1>4, ResumeShape DEF k2
<1>6. TurretTypes'
  <2>1. /\ logs' \in [TxFunctions -> SUBSET (1 .. MaxLogs)] /\ turretFaults' \in Nat
        /\ feed' \in [Providers -> [low : BOOLEAN, fetchedAt : Moment \cup {Never}]]
    BY <1>1, <1>2, <1>3 DEF TurretTypes
  <2> QED
    BY <1>1, <1>2, <1>5, <2>1, GoingOnTypes
<1>7. TaskGoesOn(t, k2)
  BY <1>1, <1>2, <1>5 DEF TaskGoesOn
<1>8. HistoryPruned'
  BY <1>2, <1>6, DeletePrunes DEF TurretsInv
<1> QED
  BY <1>5, <1>6, <1>7, <1>8, GoingOnKeeps DEF TurretsInv


\* A step of a task that writes nothing at all and prunes nothing.
LEMMA QuietStep ==
    ASSUME TurretsInv, NEW t \in Tasks, NEW k \in TurretTaskSet, TaskGoesOn(t, k),
           UNCHANGED <<logs, lastLog>>, turretFaults' \in Nat,
           \/ turretFaults' = turretFaults + 1
           \/ /\ turretFaults' = turretFaults
              /\ turretTask[t].at \notin {"count", "select", "delete"}
              /\ k.at \notin {"count", "select", "delete"}
    PROVE  TurretsInv'
<1>1. /\ Go(t, k) /\ TurretTypes
      /\ UNCHANGED <<deployments, feed, turretClock, marketLow, lastLow, ticksOverlapped>>
  BY DEF TaskGoesOn, TurretsInv
<1>2. TurretTypes'
  <2>1. /\ logs' \in [TxFunctions -> SUBSET (1 .. MaxLogs)]
        /\ feed' \in [Providers -> [low : BOOLEAN, fetchedAt : Moment \cup {Never}]]
    BY <1>1 DEF TurretTypes
  <2> QED
    BY <1>1, <2>1, GoingOnTypes
<1>3. HistoryPruned'
  <2>1. CASE turretFaults' = turretFaults + 1
    BY <1>1, <2>1, FaultyHistory DEF TurretTypes
  <2>2. CASE turretFaults' # turretFaults + 1
    <3>1. \A u \in Tasks : turretTask'[u] = IF u = t THEN k ELSE turretTask[u]
      BY <1>1, OneTaskMoves
    <3>2. \A u \in Tasks : \/ turretTask'[u] = turretTask[u]
                           \/ /\ turretTask[u].at \notin {"count", "select", "delete"}
                              /\ turretTask'[u].at \notin {"count", "select", "delete"}
      BY <2>2, <3>1
    <3> QED
      BY <1>1, <2>2, <3>2, NothingPruned DEF TurretsInv
  <2> QED
    BY <2>1, <2>2
<1> QED
  BY <1>2, <1>3, GoingOnKeeps DEF TurretsInv

LEMMA EvaluationFailsKeeps ==
    ASSUME TurretsInv, NEW t \in Tasks, EvaluationFails(t)
    PROVE  TurretsInv'
<1> DEFINE k == turretTask[t]
           k2 == ToLog(k.id, k.todo)
<1>1. /\ k.at = "fail" /\ Go(t, k2)
      /\ UNCHANGED <<deployments, logs, lastLog, feed, turretClock, marketLow, lastLow,
                     ticksOverlapped, turretFaults>>
  BY DEF EvaluationFails
<1>2. TurretTypes /\ k \in LogTask /\ k # TurretIdle /\ k \in TurretTaskSet
  BY <1>1, TaskOf, TaskShape DEF TurretsInv
<1>3. k.id \in TxFunctions /\ k.todo \in SUBSET Item
  BY <1>2 DEF LogTask
<1>4. Left(k) = k.todo
  BY <1>1, <1>2, LeftItems
<1> HIDE DEF k2
<1>5. k2 \in TurretTaskSet /\ k2.at = "log" /\ Left(k2) \subseteq Left(k)
  BY <1>3, <1>4, ToLogShape DEF k2
<1>6. TaskGoesOn(t, k2)
  BY <1>1, <1>2, <1>5 DEF TaskGoesOn
<1>7. turretFaults' \in Nat
  BY <1>1, <1>2 DEF TurretTypes
<1> QED
  BY <1>1, <1>5, <1>6, <1>7, QuietStep

LEMMA WriteFailsKeeps ==
    ASSUME TurretsInv, NEW t \in Tasks, WriteFails(t)
    PROVE  TurretsInv'
<1> DEFINE k == turretTask[t]
           k2 == [at |-> "fail", id |-> k.id, todo |-> k.todo]
<1>1. /\ k.at = "write" /\ Go(t, k2) /\ turretFaults' = turretFaults + 1
      /\ UNCHANGED <<deployments, logs, lastLog, feed, turretClock, marketLow, lastLow,
                     ticksOverlapped>>
  BY DEF WriteFails
<1>2. TurretTypes /\ k \in WriteTask /\ k # TurretIdle /\ k \in TurretTaskSet
  BY <1>1, TaskOf, TaskShape DEF TurretsInv
<1>3. k.id \in TxFunctions /\ k.todo \in SUBSET Item
  BY <1>2 DEF WriteTask
<1>4. Left(k) = k.todo
  BY <1>1, <1>2, LeftItems
<1>5. k2 \in TurretTaskSet /\ k2.at = "fail" /\ Left(k2) \subseteq Left(k)
  BY <1>3, <1>4, FailShape
<1> HIDE DEF k2
<1>6. TaskGoesOn(t, k2)
  BY <1>1, <1>2, <1>5 DEF TaskGoesOn
<1>7. turretFaults' \in Nat
  BY <1>1, <1>2 DEF TurretTypes
<1> QED
  BY <1>1, <1>5, <1>6, <1>7, QuietStep

\* A probe that asks the next provider is one of the same row.
LEMMA ProbeAsksNext ==
    ASSUME NEW k \in ProbeTask, turretClock \in Moment
    PROVE  LET n == ToProbe(k.item, k.todo, k.now, k.provider + 1)
           IN  /\ n \in ProbeTask /\ n.at = "probe" /\ n.asked = turretClock
               /\ n.item = k.item /\ n.todo = k.todo /\ n.now = k.now
<1>1. k.provider + 1 \in Nat /\ k.item \in Item /\ k.todo \in SUBSET Item /\ k.now \in Moment
  BY DEF ProbeTask
<1> QED
  BY <1>1 DEF ProbeTask, ToProbe

\* A probe whose price was read, and how it looks.
ReadAs(k, low) == [k EXCEPT !.at = "answer", !.low = low]

LEMMA ProbeIsRead ==
    ASSUME NEW k \in ProbeTask, NEW low \in BOOLEAN
    PROVE  /\ ReadAs(k, low) \in ProbeTask /\ ReadAs(k, low).at = "answer"
           /\ ReadAs(k, low).low = low /\ ReadAs(k, low).asked = k.asked
           /\ ReadAs(k, low).item = k.item /\ ReadAs(k, low).todo = k.todo
           /\ ReadAs(k, low).now = k.now
BY DEF ProbeTask, ReadAs

LEMMA ReadIsDue ==
    ASSUME NEW k \in ProbeTask, NEW low \in BOOLEAN, ProbeIsDue(k), turretClock # Never,
           low => lastLow = turretClock
    PROVE  ProbeIsDue(ReadAs(k, low))
<1>1. PICK r : r = ReadAs(k, low)
  OBVIOUS
<1>2. r.low = low /\ r.asked = k.asked /\ r.item = k.item /\ r.now = k.now
  BY <1>1, ProbeIsRead
<1>3. r.asked <= turretClock /\ r.now <= turretClock /\ r.item.row.next <= r.now
  BY <1>2 DEF ProbeIsDue
<1>4. CASE low = FALSE
  BY <1>2, <1>3, <1>4, <1>1 DEF ProbeIsDue
<1>5. CASE low = TRUE
  <2>1. lastLow = turretClock
    BY <1>5
  <2> QED
    BY <1>1, <1>3, <2>1 DEF ProbeIsDue
<1> QED
  BY <1>4, <1>5

LEMMA ProbeFailsKeeps ==
    ASSUME TurretsInv, NEW t \in Tasks, ProbeFails(t)
    PROVE  TurretsInv'
<1> DEFINE k == turretTask[t]
           give == [at |-> "fail", id |-> k.item.id, todo |-> k.todo]
           next == ToProbe(k.item, k.todo, k.now, k.provider + 1)
           k2 == IF k.provider = Max(Providers) THEN give ELSE next
<1>1. /\ k.at \in {"probe", "answer"} /\ Go(t, k2) /\ turretFaults' = turretFaults + 1
      /\ UNCHANGED <<deployments, logs, lastLog, feed, turretClock, marketLow, lastLow,
                     ticksOverlapped>>
  BY DEF ProbeFails
<1>2. TurretTypes /\ k \in ProbeTask /\ k # TurretIdle /\ k \in TurretTaskSet
  BY <1>1, TaskOf, TaskShape DEF TurretsInv
<1>3. k.item \in Item /\ k.todo \in SUBSET Item /\ k.item.id \in TxFunctions
  BY <1>2 DEF ProbeTask, Item
<1>4. Left(k) = k.todo \cup {k.item}
  BY <1>1, <1>2, LeftItems
<1>5. ProbeIsDue(k) /\ turretClock \in Moment /\ turretClock <= turretClock
  BY <1>1, <1>2 DEF TurretsInv, ProbesAreDue, TurretTypes, Moment
<1>6. /\ k2 \in TurretTaskSet /\ k2.at \in {"fail", "probe"} /\ Left(k2) \subseteq Left(k)
      /\ k2.at = "probe" => k2.item = k.item /\ k2.todo = k.todo /\ ProbeIsDue(k2)
  <2>1. CASE k.provider = Max(Providers)
    <3>1. k2 = give
      BY <2>1
    <3>2. give \in TurretTaskSet /\ give.at = "fail" /\ Left(give) \subseteq Left(k)
      BY <1>3, <1>4, FailShape
    <3> HIDE DEF k2, give
    <3> QED
      BY <3>1, <3>2
  <2>2. CASE k.provider # Max(Providers)
    <3>1. k2 = next
      BY <2>2
    <3>2. /\ next \in ProbeTask /\ next.at = "probe" /\ next.asked = turretClock
          /\ next.item = k.item /\ next.todo = k.todo /\ next.now = k.now
      <4> HIDE DEF k
      <4> QED
        BY <1>2, <1>5, ProbeAsksNext
    <3> HIDE DEF k2, next
    <3>3. next \in TurretTaskSet
      BY <3>2 DEF TurretTaskSet
    <3>4. Left(next) = k.todo \cup {k.item}
      BY <3>2, <3>3, LeftItems
    <3>5. ProbeIsDue(next)
      BY <1>5, <3>2 DEF ProbeIsDue
    <3> QED
      BY <1>4, <3>1, <3>2, <3>3, <3>4, <3>5
  <2> QED
    BY <2>1, <2>2
<1> HIDE DEF k2
<1>7. TaskGoesOn(t, k2)
  BY <1>1, <1>2, <1>6 DEF TaskGoesOn
<1>8. turretFaults' \in Nat
  BY <1>1, <1>2 DEF TurretTypes
<1> QED
  BY <1>1, <1>6, <1>7, <1>8, QuietStep

\* A price that is read is true at that moment, after it was asked for.
LEMMA PriceReadKeeps ==
    ASSUME TurretsInv, NEW t \in Tasks, PriceRead(t)
    PROVE  TurretsInv'
<1> DEFINE k == turretTask[t]
           k2 == [k EXCEPT !.at = "answer", !.low = marketLow]
<1>1. /\ k.at = "probe" /\ Go(t, k2)
      /\ UNCHANGED <<deployments, logs, lastLog, feed, turretClock, marketLow, lastLow,
                     ticksOverlapped, turretFaults>>
  BY DEF PriceRead
<1>2. TurretTypes /\ k \in ProbeTask /\ k # TurretIdle /\ k \in TurretTaskSet
  BY <1>1, TaskOf, TaskShape DEF TurretsInv
<1>3. /\ ProbeIsDue(k) /\ marketLow \in BOOLEAN /\ turretClock # Never
      /\ (marketLow => lastLow = turretClock)
  BY <1>1, <1>2, TurretNumbers DEF TurretsInv, ProbesAreDue, PricesAreTrue, TurretTypes, Moment, Never
<1>4. /\ k2 \in ProbeTask /\ k2.at = "answer" /\ k2.low = marketLow /\ k2.asked = k.asked
      /\ k2.item = k.item /\ k2.todo = k.todo /\ k2.now = k.now
  <2>1. PICK low \in BOOLEAN : low = marketLow
    BY <1>3
  <2>2. k2 = ReadAs(k, low)
    BY <2>1 DEF ReadAs
  <2> HIDE DEF k, k2
  <2> QED
    BY <1>2, <2>1, <2>2, ProbeIsRead
<1> HIDE DEF k2
<1>5. k2 \in TurretTaskSet
  BY <1>4 DEF TurretTaskSet
<1>6. Left(k2) \subseteq Left(k)
  BY <1>1, <1>2, <1>4, <1>5, LeftItems
<1>7. ProbeIsDue(k2)
  <2>1. PICK low \in BOOLEAN : low = marketLow
    BY <1>3
  <2>2. k2 = ReadAs(k, low)
    BY <2>1 DEF ReadAs, k2
  <2>3. low => lastLow = turretClock
    BY <1>3, <2>1
  <2> HIDE DEF k
  <2> QED
    BY <1>2, <1>3, <2>2, <2>3, ReadIsDue
<1>8. TaskGoesOn(t, k2)
  BY <1>1, <1>2, <1>4, <1>6, <1>7 DEF TaskGoesOn
<1>9. turretFaults' \in Nat
  BY <1>1, <1>2 DEF TurretTypes
<1> QED
  BY <1>1, <1>4, <1>5, <1>8, <1>9, QuietStep

-----------------------------------------------------------------------------
(***************************************************************************)
(* A tick takes up a row: it skips one that is not due, decides with a     *)
(* cached price, or asks for one.                                          *)
(***************************************************************************)
\* The decision on a row, type by type.
LEMMA DecidedDca ==
    ASSUME NEW row, NEW now, NEW low, row.type = "dca"
    PROVE  Decided(row, now, low) =
             [executed |-> TRUE, status |-> "keep", next |-> turretClock + IntervalMinutes]
BY DEF Decided, EscrowIsDue

LEMMA DecidedStopLoss ==
    ASSUME NEW row, NEW now, row.type = "stop_loss"
    PROVE  /\ Decided(row, now, TRUE) =
                [executed |-> TRUE, status |-> "keep", next |-> turretClock + CooldownMinutes]
           /\ Decided(row, now, FALSE) =
                [executed |-> FALSE, status |-> "keep", next |-> turretClock + RecheckAfter]
<1>1. Decided(row, now, TRUE) =
        [executed |-> TRUE, status |-> "keep", next |-> turretClock + CooldownMinutes]
  BY DEF Decided, EscrowIsDue
<1>2. Decided(row, now, FALSE) =
        [executed |-> FALSE, status |-> "keep", next |-> turretClock + RecheckAfter]
  BY DEF Decided, EscrowIsDue
<1> QED
  BY <1>1, <1>2

LEMMA DecidedEscrow ==
    ASSUME NEW row, NEW now, NEW low \in BOOLEAN, row.type \in {"escrow_time", "escrow_manual"}
    PROVE  Decided(row, now, low) =
             IF EscrowIsDue(row, now)
             THEN [executed |-> TRUE, status |-> "completed", next |-> row.next]
             ELSE [executed |-> FALSE, status |-> "keep", next |-> row.next]
<1>1. CASE EscrowIsDue(row, now)
  BY <1>1 DEF Decided
<1>2. CASE ~EscrowIsDue(row, now)
  BY <1>2 DEF Decided
<1> QED
  BY <1>1, <1>2

\* A decision has its type.
LEMMA DecidedType ==
    ASSUME TurretTypes, NEW row \in Row, NEW now, NEW low \in BOOLEAN
    PROVE  Decided(row, now, low) \in Decision
<1>1. row.type \in Types /\ row.next \in Nat
  BY DEF Row
<1>2. /\ turretClock + IntervalMinutes \in Nat /\ turretClock + CooldownMinutes \in Nat
      /\ turretClock + RecheckAfter \in Nat
  BY TurretNumbers DEF TurretTypes, Moment
<1>3. CASE row.type = "dca"
  <2>1. Decided(row, now, low) =
          [executed |-> TRUE, status |-> "keep", next |-> turretClock + IntervalMinutes]
    BY <1>3, DecidedDca
  <2> QED
    BY <1>2, <2>1 DEF Decision
<1>4. CASE row.type = "stop_loss"
  <2>1. CASE low = TRUE
    <3>1. Decided(row, now, low) =
            [executed |-> TRUE, status |-> "keep", next |-> turretClock + CooldownMinutes]
      BY <1>4, <2>1, DecidedStopLoss, Zenon
    <3> QED
      BY <1>2, <3>1 DEF Decision
  <2>2. CASE low = FALSE
    <3>1. Decided(row, now, low) =
            [executed |-> FALSE, status |-> "keep", next |-> turretClock + RecheckAfter]
      BY <1>4, <2>2, DecidedStopLoss, Zenon
    <3> QED
      BY <1>2, <3>1 DEF Decision
  <2> QED
    BY <2>1, <2>2
<1>5. CASE row.type \in {"escrow_time", "escrow_manual"}
  <2>1. Decided(row, now, low) =
          IF EscrowIsDue(row, now) THEN [executed |-> TRUE, status |-> "completed", next |-> row.next]
          ELSE [executed |-> FALSE, status |-> "keep", next |-> row.next]
    BY <1>5, DecidedEscrow
  <2> QED
    BY <1>1, <2>1 DEF Decision
<1> QED
  BY <1>1, <1>3, <1>4, <1>5 DEF Types

\* The write of a decision has its type.
LEMMA ToWriteShape ==
    ASSUME TurretTypes, NEW item \in Item, NEW todo \in SUBSET Item, NEW now, NEW low \in BOOLEAN,
           NEW k, k = ToWrite(item, todo, now, low)
    PROVE  /\ k \in WriteTask /\ k \in TurretTaskSet /\ k.at = "write" /\ Left(k) = todo
           /\ k.id = item.id /\ k.todo = todo /\ k.decidedAt = turretClock
           /\ k.new = Decided(item.row, now, low)
<1>1. item.row \in Row /\ item.id \in TxFunctions
  BY DEF Item
<1>2. Decided(item.row, now, low) \in Decision
  BY <1>1, DecidedType
<1>3. turretClock \in Moment
  BY DEF TurretTypes
<1>4. /\ k \in WriteTask /\ k.id = item.id /\ k.todo = todo /\ k.decidedAt = turretClock
      /\ k.new = Decided(item.row, now, low)
  BY <1>1, <1>2, <1>3 DEF ToWrite, WriteTask
<1> QED
  BY <1>4, WriteShape

\* What is decided with a price that was true at a moment still fresh.
LEMMA DecisionIsDue ==
    ASSUME TurretTypes, NEW item \in Item, NEW todo \in SUBSET Item, NEW now \in Moment,
           NEW low \in BOOLEAN, NEW k, k = ToWrite(item, todo, now, low), now <= turretClock,
           low => lastLow # Never /\ turretClock - lastLow < CACHE_TTL + PROVIDER_TIMEOUT,
           NEW row, row.type = item.row.type, row.created = item.row.created
    PROVE  DecisionHolds(k, row, lastLow)
<1>1. /\ k.decidedAt = turretClock /\ k.new = Decided(item.row, now, low)
  BY ToWriteShape
<1>2. item.row.type \in Types /\ item.row.created \in Moment
  BY DEF Item, Row
<1> DEFINE r == item.row
<1>3. CASE r.type = "dca"
  <2>1. /\ k.new.executed /\ k.new.status = "keep"
        /\ k.new.next = turretClock + IntervalMinutes
    BY <1>1, <1>3, DecidedDca
  <2> QED
    BY <1>1, <1>3, <2>1 DEF DecisionHolds
<1>4. CASE r.type = "stop_loss"
  <2>1. k.new.status = "keep" /\ (k.new.executed <=> low)
    <3>1. CASE low = TRUE
      <4>1. k.new = [executed |-> TRUE, status |-> "keep", next |-> turretClock + CooldownMinutes]
        BY <1>1, <1>4, <3>1, DecidedStopLoss, Zenon
      <4> QED
        BY <3>1, <4>1
    <3>2. CASE low = FALSE
      <4>1. k.new = [executed |-> FALSE, status |-> "keep", next |-> turretClock + RecheckAfter]
        BY <1>1, <1>4, <3>2, DecidedStopLoss, Zenon
      <4> QED
        BY <3>2, <4>1
    <3> QED
      BY <3>1, <3>2
  <2> QED
    BY <1>1, <1>4, <2>1 DEF DecisionHolds
<1>5. CASE r.type = "escrow_time"
  <2>1. /\ k.new.status = "completed" => k.new.executed
        /\ k.new.executed => EscrowIsDue(r, now)
    <3>1. CASE EscrowIsDue(r, now)
      BY <1>1, <1>5, <3>1, DecidedEscrow
    <3>2. CASE ~EscrowIsDue(r, now)
      BY <1>1, <1>5, <3>2, DecidedEscrow
    <3> QED
      BY <3>1, <3>2
  <2>2. k.new.executed => turretClock >= r.created + ReleaseAfter
    BY <1>2, <2>1, TurretNumbers DEF EscrowIsDue, TurretTypes, Moment
  <2> QED
    BY <1>1, <1>5, <2>1, <2>2 DEF DecisionHolds
<1>6. CASE r.type = "escrow_manual"
  <2>1. ~EscrowIsDue(r, now)
    BY <1>6 DEF EscrowIsDue
  <2>2. ~k.new.executed /\ k.new.status = "keep"
    BY <1>1, <1>6, <2>1, DecidedEscrow
  <2> QED
    BY <1>6, <2>2 DEF DecisionHolds
<1> QED
  BY <1>2, <1>3, <1>4, <1>5, <1>6 DEF Types


\* A tick decides on a row it had left, with a price it may rely on.
LEMMA TickDecides ==
    ASSUME TurretsInv, NEW t \in TurretTicks, NEW item \in Left(turretTask[t]),
           NEW todo \in SUBSET Left(turretTask[t]), ~ticksOverlapped => item \notin todo,
           NEW now \in Moment, NEW low \in BOOLEAN, NEW k, k = ToWrite(item, todo, now, low),
           Go(t, k), now <= turretClock, item.row.next <= turretClock,
           low => lastLow # Never /\ turretClock - lastLow < CACHE_TTL + PROVIDER_TIMEOUT,
           turretTask[t].at \in {"next", "answer"},
           feed' \in [Providers -> [low : BOOLEAN, fetchedAt : Moment \cup {Never}]], PricesAreTrue',
           UNCHANGED <<deployments, logs, lastLog, turretClock, marketLow, lastLow, ticksOverlapped,
                       turretFaults>>
    PROVE  TurretsInv'
<1> DEFINE old == turretTask[t]
           row == deployments[item.id]
<1>1. TurretTypes /\ t \in Tasks /\ old \in TurretTaskSet /\ old # TurretIdle
  BY TaskOf, TaskShape DEF TurretsInv, Tasks
<1>2. Left(old) \in SUBSET Item
  BY <1>1, LeftItems
<1>3. /\ item \in Item /\ todo \in SUBSET Item
      /\ item.id \in Deployed /\ item.row.type = row.type /\ item.row.created = row.created
  BY <1>1, <1>2 DEF TurretsInv, SnapshotsHold
<1>4. /\ k \in WriteTask /\ k \in TurretTaskSet /\ k.at = "write" /\ Left(k) = todo
      /\ k.id = item.id /\ k.todo = todo /\ k.decidedAt = turretClock
  BY <1>1, <1>3, ToWriteShape
<1>5. DecisionHolds(k, row, lastLow)
  BY <1>1, <1>3, DecisionIsDue
<1>6. \A u \in Tasks : turretTask'[u] = IF u = t THEN k ELSE turretTask[u]
  BY <1>1, OneTaskMoves
<1>7. TurretTypes'
  <2>1. logs' \in [TxFunctions -> SUBSET (1 .. MaxLogs)] /\ turretFaults' \in Nat
    BY <1>1 DEF TurretTypes
  <2> QED
    BY <1>1, <1>4, <2>1, GoingOnTypes
<1>8. RowsKept /\ LowKept
  <2>1. Deployed' = Deployed
    BY DEF Deployed
  <2>2. lastLow # Never => lastLow >= lastLow
    BY <1>1 DEF TurretTypes, Moment, Never
  <2> QED
    BY <2>1, <2>2 DEF RowsKept, LowKept, Never
<1>9. SnapshotsHold'
  <2>1. \A u \in Tasks : Left(turretTask'[u]) \subseteq Left(turretTask[u])
    BY <1>4, <1>6
  <2> QED
    BY <1>8, <2>1, SnapshotsKept DEF TurretsInv
<1>10. ProbesAreDue'
  BY <1>4, <1>6 DEF TurretsInv, ProbesAreDue, ProbeIsDue, Never
<1>11. DecisionsHold'
  <2>1. lastLow' \in Moment \cup {Never}
    BY <1>1 DEF TurretTypes
  <2>2. Deployed' = Deployed
    BY DEF Deployed
  <2>3. \A u \in Tasks : turretTask'[u].at = "write" =>
               \/ turretTask'[u] = turretTask[u]
               \/ /\ turretTask'[u].id \in Deployed'
                  /\ DecisionHolds(turretTask'[u], deployments'[turretTask'[u].id], lastLow')
    <3> HIDE DEF old
    <3> SUFFICES ASSUME NEW u \in Tasks, u = t
                 PROVE  /\ turretTask'[u].id \in Deployed'
                        /\ DecisionHolds(turretTask'[u], deployments'[turretTask'[u].id], lastLow')
      BY <1>6
    <3>1. turretTask'[u] = k
      BY <1>6
    <3> QED
      BY <1>3, <1>4, <1>5, <2>2, <3>1
  <2> QED
    BY <1>1, <1>8, <2>1, <2>3, DecisionsKept DEF TurretsInv
<1>12. RowsSound'
  BY DEF TurretsInv, RowsSound, RowSound, Deployed, Never
<1>13. TicksAlone'
  <2>1. ASSUME ~ticksOverlapped PROVE AloneSound(k, deployments')
    <3>1. AloneSound(old, deployments)
      BY <2>1 DEF TurretsInv, TicksAlone
    <3>2. /\ \A i \in Left(k) : /\ i.row.next = deployments'[i.id].next
                                /\ i.row.lastExecuted = deployments'[i.id].lastExecuted
          /\ \A i, j \in Left(k) : i.id = j.id => i = j
      BY <1>4, <3>1 DEF AloneSound
    <3>3. \A i \in todo : i.id # item.id
      BY <2>1, <3>1 DEF AloneSound
    <3>4. item.row.next = row.next
      BY <3>1 DEF AloneSound
    <3>5. ASSUME row.type = "dca", row.lastExecuted # Never
          PROVE  turretClock - row.lastExecuted >= IntervalMinutes
      <4>1. row.next >= row.lastExecuted + IntervalMinutes
        BY <1>3, <3>5 DEF TurretsInv, RowsSound, RowSound
      <4>2. row \in Row
        BY <1>1, <1>3, DeployedRow
      <4>3. row.next \in Nat /\ row.lastExecuted \in Nat /\ turretClock \in Nat /\ IntervalMinutes \in Nat
        BY <1>1, <3>5, <4>2, TurretNumbers DEF Row, TurretTypes, Moment
      <4> QED
        BY <3>4, <4>1, <4>3
    <3> HIDE DEF old
    <3> QED
      BY <1>4, <3>2, <3>3, <3>5 DEF AloneSound
  <2> HIDE DEF old
  <2> QED
    BY <1>1, <2>1, TickMoves DEF TurretsInv, old
<1>14. HistoryPruned'
  <2>1. \A u \in Tasks : \/ turretTask'[u] = turretTask[u]
                         \/ /\ turretTask[u].at \notin {"count", "select", "delete"}
                            /\ turretTask'[u].at \notin {"count", "select", "delete"}
    BY <1>4, <1>6
  <2> QED
    BY <1>1, <2>1, NothingPruned DEF TurretsInv
<1> QED
  BY <1>7, <1>9, <1>10, <1>11, <1>12, <1>13, <1>14 DEF TurretsInv

LEMMA EvaluateNextKeeps ==
    ASSUME TurretsInv, NEW t \in TurretTicks, NEW item, EvaluateNext(t, item)
    PROVE  TurretsInv'
<1> DEFINE k == turretTask[t]
           todo == k.todo \ {item}
           fresh == {p \in Providers : IsCacheFresh(p)}
           probe == ToProbe(item, todo, turretClock, Min(Providers))
<1>1. /\ k.at = "next" /\ item \in k.todo
      /\ Go(t, IF turretClock < item.row.next THEN Resume(todo)
               ELSE IF fresh # {} THEN ToWrite(item, todo, turretClock, feed[Min(fresh)].low)
               ELSE probe)
      /\ UNCHANGED <<deployments, logs, lastLog, feed, turretClock, marketLow, lastLow,
                     ticksOverlapped, turretFaults>>
  BY DEF EvaluateNext
<1>2. TurretTypes /\ t \in Tasks /\ k \in TurretTaskSet /\ k # TurretIdle
  BY <1>1, TaskOf, TaskShape DEF TurretsInv, Tasks
<1>3. Left(k) = k.todo /\ k.todo \in SUBSET Item
  BY <1>1, <1>2, LeftItems
<1>4. item \in Item /\ item \in Left(k) /\ todo \in SUBSET Item /\ todo \subseteq Left(k) /\ item \notin todo
  BY <1>1, <1>3
<1>5. turretFaults' \in Nat /\ turretClock \in Moment /\ item.row.next \in Nat
  BY <1>1, <1>2, <1>4 DEF TurretTypes, Item, Row
<1>6. CASE turretClock < item.row.next
  <2> DEFINE k2 == Resume(todo)
  <2>1. Go(t, k2)
    BY <1>1, <1>6
  <2>2. k2 \in TurretTaskSet /\ k2.at \in {"idle", "next"} /\ Left(k2) = todo
    BY <1>4, ResumeShape
  <2> HIDE DEF k2
  <2>3. TaskGoesOn(t, k2)
    BY <1>1, <1>2, <1>4, <2>1, <2>2 DEF TaskGoesOn
  <2> QED
    BY <1>1, <1>2, <1>5, <2>2, <2>3, QuietStep
<1>7. CASE ~(turretClock < item.row.next) /\ fresh # {}
  <2> DEFINE p == Min(fresh)
             k2 == ToWrite(item, todo, turretClock, feed[p].low)
  <2>1. Go(t, k2)
    BY <1>1, <1>7
  <2>2. p \in fresh
    <3>1. IsFiniteSet(fresh) /\ fresh \in SUBSET Nat
      BY TurretNumbers, FS_Subset
    <3> HIDE DEF fresh
    <3> QED
      BY <1>7, <3>1, FirstProvider
  <2>3. /\ p \in Providers /\ feed[p].fetchedAt # Never /\ turretClock - feed[p].fetchedAt < CACHE_TTL
    BY <2>2 DEF IsCacheFresh
  <2>4. feed[p].low \in BOOLEAN /\ feed[p].fetchedAt \in Moment
    BY <1>2, <2>3 DEF TurretTypes
  <2> HIDE DEF p, fresh
  <2>5. feed[p].low => lastLow # Never /\ turretClock - lastLow < CACHE_TTL + PROVIDER_TIMEOUT
    <3>1. feed[p].low => lastLow # Never /\ feed[p].fetchedAt <= lastLow + PROVIDER_TIMEOUT
      BY <2>3 DEF TurretsInv, PricesAreTrue
    <3>2. lastLow # Never => lastLow \in Int
      BY <1>2 DEF TurretTypes, Moment
    <3>3. feed[p].fetchedAt \in Int /\ turretClock \in Int /\ CACHE_TTL \in Int
          /\ PROVIDER_TIMEOUT \in Int
      BY <1>5, <2>4, TurretNumbers DEF Moment
    <3> QED
      BY <2>3, <3>1, <3>2, <3>3
  <2>6. /\ feed' \in [Providers -> [low : BOOLEAN, fetchedAt : Moment \cup {Never}]]
        /\ PricesAreTrue'
    <3>1. feed' \in [Providers -> [low : BOOLEAN, fetchedAt : Moment \cup {Never}]]
      BY <1>1, <1>2 DEF TurretTypes
    <3>2. PricesAreTrue'
      BY <1>1 DEF TurretsInv, PricesAreTrue, Never
    <3> QED
      BY <3>1, <3>2
  <2>7. turretClock <= turretClock /\ item.row.next <= turretClock
    BY <1>5, <1>7 DEF Moment
  <2> HIDE DEF k, todo
  <2> QED
    BY <1>1, <1>4, <1>5, <2>1, <2>4, <2>5, <2>6, <2>7, TickDecides DEF k
<1>8. CASE ~(turretClock < item.row.next) /\ fresh = {}
  <2>1. Go(t, probe)
    BY <1>1, <1>8
  <2>2. Min(Providers) \in Nat
    BY TurretNumbers, FirstProvider
  <2>3. /\ probe \in ProbeTask /\ probe.at = "probe" /\ probe.item = item /\ probe.todo = todo
        /\ probe.now = turretClock /\ probe.asked = turretClock
    BY <1>4, <1>5, <2>2 DEF ProbeTask, ToProbe
  <2> HIDE DEF probe
  <2>4. probe \in TurretTaskSet
    BY <2>3 DEF TurretTaskSet
  <2>5. Left(probe) \subseteq Left(k)
    BY <1>4, <2>3, <2>4, LeftItems
  <2>6. turretClock <= turretClock /\ item.row.next <= turretClock
    BY <1>5, <1>8 DEF Moment
  <2>7. ProbeIsDue(probe)
    BY <2>3, <2>6 DEF ProbeIsDue
  <2>8. TaskGoesOn(t, probe)
    BY <1>1, <1>2, <1>4, <2>1, <2>3, <2>5, <2>7 DEF TaskGoesOn
  <2> QED
    BY <1>1, <1>2, <1>5, <2>3, <2>4, <2>8, QuietStep
<1> QED
  BY <1>6, <1>7, <1>8

LEMMA ProbeAnsweredKeeps ==
    ASSUME TurretsInv, NEW t \in TurretTicks, ProbeAnswered(t)
    PROVE  TurretsInv'
<1> DEFINE k == turretTask[t]
           item == k.item
           todo == k.todo
           k2 == ToWrite(item, todo, k.now, k.low)
<1>1. /\ k.at = "answer" /\ turretClock - k.asked <= PROVIDER_TIMEOUT /\ Go(t, k2)
      /\ feed' = [feed EXCEPT ![k.provider] = [low |-> k.low, fetchedAt |-> turretClock]]
      /\ UNCHANGED <<deployments, logs, lastLog, turretClock, marketLow, lastLow,
                     ticksOverlapped, turretFaults>>
  BY DEF ProbeAnswered
<1>2. TurretTypes /\ t \in Tasks /\ k \in TurretTaskSet /\ k \in ProbeTask
  BY <1>1, TaskOf, TaskShape DEF TurretsInv, Tasks
<1>3. Left(k) = todo \cup {item} /\ k.now \in Moment /\ k.asked \in Moment /\ k.low \in BOOLEAN
  BY <1>1, <1>2, LeftItems DEF ProbeTask
<1>4. ProbeIsDue(k)
  BY <1>1, <1>2 DEF TurretsInv, ProbesAreDue
<1>5. /\ turretClock \in Moment /\ lastLow \in Moment \cup {Never}
      /\ turretClock \in Int /\ k.asked \in Int /\ turretClock # Never
      /\ CACHE_TTL \in Nat \ {0} /\ PROVIDER_TIMEOUT \in Nat
  BY <1>2, <1>3, TurretNumbers DEF TurretTypes, Moment, Never
<1>6. item.row.next <= turretClock /\ k.now <= turretClock
  <2>1. item.row.next \in Nat /\ k.now \in Nat
    BY <1>2, <1>3 DEF ProbeTask, Item, Row, Moment
  <2> QED
    BY <1>4, <1>5, <2>1 DEF ProbeIsDue
<1>7. k.low => lastLow # Never /\ lastLow \in Int /\ k.asked <= lastLow
  BY <1>1, <1>4, <1>5 DEF ProbeIsDue, Moment
<1>8. k.low => /\ lastLow # Never /\ turretClock <= lastLow + PROVIDER_TIMEOUT
               /\ turretClock - lastLow < CACHE_TTL + PROVIDER_TIMEOUT
  BY <1>1, <1>5, <1>7
<1>9. ~ticksOverlapped => item \notin todo
  BY <1>1 DEF TurretsInv, TicksAlone, AloneSound
<1>10. feed' \in [Providers -> [low : BOOLEAN, fetchedAt : Moment \cup {Never}]]
  BY <1>1, <1>2, <1>3, <1>5 DEF TurretTypes
<1>11. PricesAreTrue'
  <2>1. /\ marketLow' => lastLow' = turretClock'
        /\ lastLow' # Never => lastLow' <= turretClock'
    BY <1>1 DEF TurretsInv, PricesAreTrue
  <2>2. ASSUME NEW p \in Providers, feed'[p].low, feed'[p].fetchedAt # Never
        PROVE  lastLow' # Never /\ feed'[p].fetchedAt <= lastLow' + PROVIDER_TIMEOUT
    <3>1. CASE p = k.provider
      <4>1. feed'[p] = [low |-> k.low, fetchedAt |-> turretClock]
        BY <1>1, <1>2, <3>1 DEF TurretTypes
      <4>2. k.low /\ feed'[p].fetchedAt = turretClock
        BY <2>2, <4>1
      <4> QED
        BY <1>1, <1>8, <4>2
    <3>2. CASE p # k.provider
      <4>1. feed'[p] = feed[p]
        BY <1>1, <1>2, <3>2 DEF TurretTypes
      <4> QED
        BY <1>1, <2>2, <4>1 DEF TurretsInv, PricesAreTrue
    <3> QED
      BY <3>1, <3>2
  <2> QED
    BY <2>1, <2>2 DEF PricesAreTrue, Never
<1>12. item \in Left(k) /\ todo \in SUBSET Left(k)
  BY <1>3
<1> HIDE DEF k, item, todo
<1> QED
  BY <1>1, <1>3, <1>6, <1>8, <1>9, <1>10, <1>11, <1>12, TickDecides DEF k


\* The timer: the snapshot is of the rows as they are.
LEMMA StartTickKeeps ==
    ASSUME TurretsInv, NEW t \in TurretTicks, StartTick(t)
    PROVE  TurretsInv'
<1> DEFINE k == Resume(ActiveRows)
<1>1. /\ turretTask[t] = TurretIdle /\ Go(t, k)
      /\ ticksOverlapped' = (ticksOverlapped \/ \E u \in TurretTicks \ {t} : turretTask[u] # TurretIdle)
      /\ UNCHANGED <<deployments, logs, lastLog, feed, turretClock, marketLow, lastLow, turretFaults>>
  BY DEF StartTick
<1>2. TurretTypes /\ t \in Tasks /\ turretTask[t].at = "idle"
  BY <1>1 DEF TurretsInv, Tasks, TurretIdle
<1>3. ASSUME NEW item \in ActiveRows
      PROVE  item \in Item /\ item.id \in Deployed /\ item.row = deployments[item.id]
             /\ item = [id |-> item.id, row |-> deployments[item.id]]
  <2>1. PICK d \in Deployed : item = [id |-> d, row |-> deployments[d]]
    BY <1>3 DEF ActiveRows
  <2>2. d \in TxFunctions /\ deployments[d] \in Row
    BY <1>2, DeployedRow
  <2> QED
    BY <2>1, <2>2 DEF Item
<1>4. ActiveRows \in SUBSET Item
  BY <1>3
<1> HIDE DEF k
<1>5. k \in TurretTaskSet /\ k.at \in {"idle", "next"} /\ Left(k) = ActiveRows
  BY <1>4, ResumeShape DEF k
<1>6. \A u \in Tasks : turretTask'[u] = IF u = t THEN k ELSE turretTask[u]
  BY <1>1, <1>2, OneTaskMoves
<1>7. TurretTypes'
  <2>1. turretTask' \in [Tasks -> TurretTaskSet]
    BY <1>1, <1>2, <1>5 DEF Go, TurretTypes
  <2>2. ticksOverlapped' \in BOOLEAN
    BY <1>1, <1>2 DEF TurretTypes
  <2> QED
    BY <1>1, <1>2, <2>1, <2>2 DEF TurretTypes, Never
<1>8. Deployed' = Deployed
  BY <1>1 DEF Deployed
<1>9. SnapshotsHold'
  <2> SUFFICES ASSUME NEW u \in Tasks, NEW item \in Left(turretTask'[u])
               PROVE  /\ item.id \in Deployed
                      /\ item.row.type = deployments[item.id].type
                      /\ item.row.created = deployments[item.id].created
    BY <1>1, <1>8 DEF SnapshotsHold, Left
  <2>1. CASE u = t
    BY <1>3, <1>5, <1>6, <2>1
  <2>2. CASE u # t
    BY <1>6, <2>2 DEF TurretsInv, SnapshotsHold
  <2> QED
    BY <2>1, <2>2
<1>10. PricesAreTrue'
  BY <1>1 DEF TurretsInv, PricesAreTrue, Never
<1>11. ProbesAreDue'
  BY <1>1, <1>5, <1>6 DEF TurretsInv, ProbesAreDue, ProbeIsDue, Never
<1>12. DecisionsHold'
  <2>1. \A u \in Tasks : turretTask'[u].at = "write" => turretTask'[u] = turretTask[u]
    BY <1>5, <1>6
  <2>2. RowsKept
    BY <1>1, <1>8 DEF RowsKept
  <2>3. LowKept /\ lastLow' \in Moment \cup {Never}
    BY <1>1, <1>2 DEF LowKept, TurretTypes, Moment, Never
  <2> QED
    BY <1>2, <2>1, <2>2, <2>3, DecisionsKept DEF TurretsInv
<1>13. RowsSound'
  BY <1>1 DEF TurretsInv, RowsSound, RowSound, Deployed, Never
<1>14. TicksAlone'
  <2> SUFFICES ASSUME ~ticksOverlapped'
               PROVE  /\ \A x, u \in TurretTicks :
                           x = u \/ turretTask'[x] = TurretIdle \/ turretTask'[u] = TurretIdle
                      /\ \A x \in TurretTicks : AloneSound(turretTask'[x], deployments')
    BY DEF TicksAlone
  <2>1. \A u \in TurretTicks : u # t => turretTask[u] = TurretIdle
    BY <1>1
  <2>2. \A u \in TurretTicks : turretTask'[u] = IF u = t THEN k ELSE TurretIdle
    BY <1>6, <2>1 DEF Tasks
  <2>3. AloneSound(k, deployments')
    <3>1. \A item \in Left(k) : /\ item.row.next = deployments'[item.id].next
                                /\ item.row.lastExecuted = deployments'[item.id].lastExecuted
      BY <1>1, <1>3, <1>5
    <3>2. \A i, j \in Left(k) : i.id = j.id => i = j
      BY <1>3, <1>5
    <3> QED
      BY <1>5, <3>1, <3>2 DEF AloneSound
  <2> QED
    BY <2>2, <2>3, IdleIsAlone
<1>15. HistoryPruned'
  <2>1. \A u \in Tasks : \/ turretTask'[u] = turretTask[u]
                         \/ /\ turretTask[u].at \notin {"count", "select", "delete"}
                            /\ turretTask'[u].at \notin {"count", "select", "delete"}
    BY <1>2, <1>5, <1>6
  <2> QED
    BY <1>1, <1>2, <2>1, NothingPruned DEF TurretsInv
<1> QED
  BY <1>7, <1>9, <1>10, <1>11, <1>12, <1>13, <1>14, <1>15 DEF TurretsInv

-----------------------------------------------------------------------------
(***************************************************************************)
(* The steps that write a row.                                             *)
(***************************************************************************)
\* What the update of a row leaves in it.
LEMMA WrittenRow ==
    ASSUME TurretTypes, NEW row \in Row, NEW k \in WriteTask, NEW r, r = Written(row, k.new, k.decidedAt),
           RowSound(row), DecisionHolds(k, row, lastLow)
    PROVE  r \in Row /\ r.type = row.type /\ r.created = row.created /\ RowSound(r)
<1> DEFINE new == k.new
           at == k.decidedAt
<1>1. new \in Decision /\ at \in Moment
  BY DEF WriteTask
<1>2. new.executed \in BOOLEAN /\ new.status \in {"keep", "completed"} /\ new.next \in Nat
  BY <1>1 DEF Decision
<1>3. at \in Nat /\ at # Never /\ IntervalMinutes \in Nat /\ ReleaseAfter \in Nat
  BY <1>1, TurretNumbers DEF Moment, Never
<1>4. r = [row EXCEPT !.next = new.next, !.lastExecuted = IF new.executed THEN at ELSE row.lastExecuted,
                      !.status = IF new.status = "keep" THEN row.status ELSE new.status]
  BY DEF Written
<1> HIDE DEF new, at
<1>5. /\ r.type = row.type /\ r.created = row.created /\ r.next = new.next
      /\ r.lastExecuted = (IF new.executed THEN at ELSE row.lastExecuted)
      /\ r.status = (IF new.status = "keep" THEN row.status ELSE new.status)
  BY <1>4 DEF Row
<1>6. r \in Row
  <2>1. (IF new.executed THEN at ELSE row.lastExecuted) \in Moment \cup {Never}
    BY <1>1, <1>2 DEF Row
  <2>2. (IF new.status = "keep" THEN row.status ELSE new.status) \in {"active", "paused", "completed"}
    BY <1>2 DEF Row
  <2> QED
    BY <1>2, <1>4, <2>1, <2>2 DEF Row
<1>7. row.type \in Types
  BY DEF Row
<1>8. /\ row.type = "dca" => new.executed /\ new.status = "keep" /\ new.next = at + IntervalMinutes
      /\ row.type = "stop_loss" => new.status = "keep"
      /\ row.type = "escrow_time" => /\ new.status = "completed" => new.executed
                                     /\ new.executed => at >= row.created + ReleaseAfter
      /\ row.type = "escrow_manual" => ~new.executed /\ new.status = "keep"
  BY DEF DecisionHolds, new, at
<1>9. r.type = "dca" /\ r.lastExecuted # Never => r.next >= r.lastExecuted + IntervalMinutes
  BY <1>3, <1>5, <1>8
<1>10. r.type = "escrow_time" /\ r.lastExecuted # Never => r.lastExecuted >= r.created + ReleaseAfter
  BY <1>5, <1>8 DEF RowSound
<1>11. r.status = "completed" => r.type = "escrow_time" /\ r.lastExecuted # Never
  <2>1. CASE new.status = "keep"
    BY <1>3, <1>5, <2>1 DEF RowSound
  <2>2. CASE new.status # "keep"
    BY <1>2, <1>3, <1>5, <1>7, <1>8, <2>2 DEF Types
  <2> QED
    BY <2>1, <2>2
<1>12. r.type = "escrow_manual" => r.lastExecuted = Never
  BY <1>5, <1>8 DEF RowSound
<1> QED
  BY <1>5, <1>6, <1>9, <1>10, <1>11, <1>12 DEF RowSound

\* A row is written and a task moves: what all such steps share.
LEMMA RowStep ==
    ASSUME TurretsInv, NEW d \in TxFunctions, NEW r \in Row, RowSound(r),
           d \in Deployed => r.type = deployments[d].type /\ r.created = deployments[d].created,
           deployments' = [deployments EXCEPT ![d] = r],
           NEW t \in Tasks, NEW k \in TurretTaskSet, Go(t, k), k.at \in {"idle", "next", "log"},
           Left(k) \subseteq Left(turretTask[t]),
           turretTask[t].at \notin {"count", "select", "delete"},
           UNCHANGED <<logs, lastLog, feed, turretClock, marketLow, lastLow, ticksOverlapped, turretFaults>>
    PROVE  /\ TurretTypes' /\ SnapshotsHold' /\ PricesAreTrue' /\ ProbesAreDue' /\ DecisionsHold'
           /\ RowsSound' /\ HistoryPruned'
<1>1. TurretTypes
  BY DEF TurretsInv
<1>2. \A u \in Tasks : turretTask'[u] = IF u = t THEN k ELSE turretTask[u]
  BY <1>1, OneTaskMoves
<1>3. \A e \in TxFunctions : deployments'[e] = IF e = d THEN r ELSE deployments[e]
  BY <1>1 DEF TurretTypes
<1>4. Deployed' = Deployed \cup {d}
  <2>1. r.status # "none"
    BY DEF Row
  <2> QED
    BY <1>3, <2>1 DEF Deployed
<1>5. RowsKept
  <2>1. \A e \in Deployed : e \in TxFunctions
    BY DEF Deployed
  <2> QED
    BY <1>3, <1>4, <2>1 DEF RowsKept
<1>6. TurretTypes'
  <2>1. turretTask' \in [Tasks -> TurretTaskSet]
    BY <1>1 DEF Go, TurretTypes
  <2>2. deployments' \in [TxFunctions -> Row \cup {NoRow}]
    BY <1>1 DEF TurretTypes
  <2> QED
    BY <1>1, <2>1, <2>2 DEF TurretTypes, Never
<1>7. SnapshotsHold'
  <2>1. \A u \in Tasks : Left(turretTask'[u]) \subseteq Left(turretTask[u])
    BY <1>2
  <2> QED
    BY <1>5, <2>1, SnapshotsKept DEF TurretsInv
<1>8. PricesAreTrue'
  BY DEF TurretsInv, PricesAreTrue, Never
<1>9. ProbesAreDue'
  BY <1>2 DEF TurretsInv, ProbesAreDue, ProbeIsDue, Never
<1>10. DecisionsHold'
  <2>1. \A u \in Tasks : turretTask'[u].at = "write" => turretTask'[u] = turretTask[u]
    BY <1>2
  <2>2. LowKept /\ lastLow' \in Moment \cup {Never}
    BY <1>1 DEF LowKept, TurretTypes, Moment, Never
  <2> QED
    BY <1>1, <1>5, <2>1, <2>2, DecisionsKept DEF TurretsInv
<1>11. RowsSound'
  <2> SUFFICES ASSUME NEW e \in Deployed' PROVE RowSound(deployments'[e])
    BY DEF RowsSound, RowSound, Never
  <2>1. CASE e = d
    BY <1>3, <2>1
  <2>2. CASE e # d
    <3>1. e \in Deployed /\ e \in TxFunctions
      BY <1>4, <2>2 DEF Deployed
    <3> QED
      BY <1>3, <2>2, <3>1 DEF TurretsInv, RowsSound
  <2> QED
    BY <2>1, <2>2
<1>12. HistoryPruned'
  <2>1. \A u \in Tasks : \/ turretTask'[u] = turretTask[u]
                         \/ /\ turretTask[u].at \notin {"count", "select", "delete"}
                            /\ turretTask'[u].at \notin {"count", "select", "delete"}
    BY <1>2
  <2> QED
    BY <1>1, <2>1, NothingPruned DEF TurretsInv
<1> QED
  BY <1>6, <1>7, <1>8, <1>9, <1>10, <1>11, <1>12

LEMMA WriteKeeps ==
    ASSUME TurretsInv, NEW t \in TurretTicks, WriteEvaluation(t)
    PROVE  TurretsInv'
<1> DEFINE k == turretTask[t]
           d == k.id
           row == deployments[d]
           r == Written(row, k.new, k.decidedAt)
           k2 == IF k.new.executed THEN ToLog(k.id, k.todo) ELSE Resume(k.todo)
<1>1. /\ k.at = "write" /\ Go(t, k2)
      /\ deployments' = [deployments EXCEPT ![d] = Written(@, k.new, k.decidedAt)]
      /\ UNCHANGED <<logs, lastLog, feed, turretClock, marketLow, lastLow, ticksOverlapped, turretFaults>>
  BY DEF WriteEvaluation
<1>2. TurretTypes /\ t \in Tasks /\ k \in TurretTaskSet /\ k \in WriteTask /\ k # TurretIdle
  BY <1>1, TaskOf, TaskShape DEF TurretsInv, Tasks
<1>3. d \in Deployed /\ DecisionHolds(k, row, lastLow)
  BY <1>1, <1>2 DEF TurretsInv, DecisionsHold
<1>4. d \in TxFunctions /\ row \in Row /\ RowSound(row) /\ k.todo \in SUBSET Item
  BY <1>2, <1>3, DeployedRow DEF TurretsInv, RowsSound, WriteTask
<1>5. Left(k) = k.todo
  BY <1>1, <1>2, LeftItems
<1>6. r \in Row /\ r.type = row.type /\ r.created = row.created /\ RowSound(r)
  BY <1>2, <1>3, <1>4, WrittenRow
<1>7. deployments' = [deployments EXCEPT ![d] = r]
  BY <1>1, <1>2, <1>4 DEF TurretTypes
<1>8. k2 \in TurretTaskSet /\ k2.at \in {"idle", "next", "log"} /\ Left(k2) = k.todo
  <2>1. CASE k.new.executed
    <3>1. k2 = ToLog(d, k.todo)
      BY <2>1
    <3> HIDE DEF k2, k, d
    <3> QED
      BY <1>4, <3>1, ToLogShape
  <2>2. CASE ~k.new.executed
    <3>1. k2 = Resume(k.todo)
      BY <2>2
    <3> HIDE DEF k2, k
    <3> QED
      BY <1>4, <3>1, ResumeShape
  <2> QED
    BY <2>1, <2>2
<1> HIDE DEF k2, r
<1>9. /\ TurretTypes' /\ SnapshotsHold' /\ PricesAreTrue' /\ ProbesAreDue' /\ DecisionsHold'
      /\ RowsSound' /\ HistoryPruned'
  BY <1>1, <1>2, <1>3, <1>4, <1>5, <1>6, <1>7, <1>8, RowStep
<1>10. TicksAlone'
  <2>1. ASSUME ~ticksOverlapped PROVE AloneSound(k2, deployments')
    <3>1. AloneSound(k, deployments)
      BY <2>1 DEF TurretsInv, TicksAlone
    <3>2. \A item \in k.todo : item.id # d /\ item.id \in TxFunctions
      BY <1>1, <1>4, <3>1 DEF AloneSound, Item
    <3>3. \A item \in k.todo : deployments'[item.id] = deployments[item.id]
      BY <1>2, <1>7, <3>2 DEF TurretTypes
    <3>4. /\ \A item \in k.todo : /\ item.row.next = deployments'[item.id].next
                                  /\ item.row.lastExecuted = deployments'[item.id].lastExecuted
          /\ \A i, j \in k.todo : i.id = j.id => i = j
      BY <1>5, <3>1, <3>3 DEF AloneSound
    <3> HIDE DEF k
    <3> QED
      BY <1>8, <3>4 DEF AloneSound
  <2> HIDE DEF k
  <2> QED
    BY <1>1, <1>2, <2>1, TickMoves DEF TurretsInv, k
<1> QED
  BY <1>9, <1>10 DEF TurretsInv

\* A request is no tick, so what ticks know of other rows stays true.
LEMMA RequestStep ==
    ASSUME TurretsInv, NEW c \in TurretCalls, turretTask[c] = TurretIdle, NEW d \in TxFunctions,
           NEW r \in Row, RowSound(r), deployments' = [deployments EXCEPT ![d] = r],
           d \in Deployed => SameRow(deployments, deployments', d) /\ r.created = deployments[d].created,
           Go(c, ToLog(d, {})),
           UNCHANGED <<logs, lastLog, feed, turretClock, marketLow, lastLow, ticksOverlapped, turretFaults>>
    PROVE  TurretsInv'
<1> DEFINE k == ToLog(d, {})
<1>1. TurretTypes /\ c \in Tasks /\ c \notin TurretTicks /\ turretTask[c].at = "idle"
  BY TurretsAssumption DEF TurretsInv, Tasks, TurretIdle
<1>2. k \in TurretTaskSet /\ k.at = "log" /\ Left(k) = {}
  BY ToLogShape
<1> HIDE DEF k
<1>3. deployments'[d] = r
  BY <1>1 DEF TurretTypes
<1>4. d \in Deployed => r.type = deployments[d].type /\ r.created = deployments[d].created
  BY <1>3 DEF SameRow
<1>5. Go(c, k) /\ Left(k) \subseteq Left(turretTask[c])
  BY <1>2 DEF k
<1>6. /\ TurretTypes' /\ SnapshotsHold' /\ PricesAreTrue' /\ ProbesAreDue' /\ DecisionsHold'
      /\ RowsSound' /\ HistoryPruned'
  BY <1>1, <1>2, <1>4, <1>5, RowStep
<1>7. TicksAlone'
  <2>1. \A u \in TurretTicks : turretTask'[u] = turretTask[u]
    BY <1>1, <1>5, OneTaskMoves DEF Tasks
  <2>2. ASSUME NEW e \in Deployed PROVE SameRow(deployments, deployments', e)
    <3>1. CASE e = d
      BY <3>1
    <3>2. CASE e # d
      <4>1. deployments'[e] = deployments[e]
        BY <1>1, <3>2 DEF TurretTypes, Deployed
      <4> QED
        BY <4>1 DEF SameRow
    <3> QED
      BY <3>1, <3>2
  <2> QED
    BY <1>1, <2>1, <2>2, NoTickMoves DEF TurretsInv
<1> QED
  BY <1>6, <1>7 DEF TurretsInv

LEMMA DeployKeeps ==
    ASSUME TurretsInv, NEW c \in TurretCalls, NEW d \in TxFunctions, NEW type \in Types,
           DeployTxFunction(c, d, type)
    PROVE  TurretsInv'
<1> DEFINE r == [status |-> "active", type |-> type, created |-> turretClock,
                 next |-> FirstRun(type), lastExecuted |-> Never]
<1>1. /\ turretTask[c] = TurretIdle /\ d \notin Deployed
      /\ deployments' = [deployments EXCEPT ![d] = r] /\ Go(c, ToLog(d, {}))
      /\ UNCHANGED <<logs, lastLog, feed, turretClock, marketLow, lastLow, ticksOverlapped, turretFaults>>
  BY DEF DeployTxFunction
<1>2. turretClock \in Moment /\ turretClock \in Nat
  BY DEF TurretsInv, TurretTypes, Moment
<1>3. FirstRun(type) \in Nat
  <2>1. CASE type = "dca"
    BY <1>2, <2>1, TurretNumbers DEF FirstRun
  <2>2. CASE type = "stop_loss"
    BY <1>2, <2>2, TurretNumbers DEF FirstRun
  <2>3. CASE type = "escrow_time"
    BY <1>2, <2>3, TurretNumbers DEF FirstRun
  <2>4. CASE type = "escrow_manual"
    BY <1>2, <2>4, TurretNumbers DEF FirstRun
  <2> QED
    BY <2>1, <2>2, <2>3, <2>4 DEF Types
<1>4. r \in Row /\ r.lastExecuted = Never /\ r.status = "active"
  BY <1>2, <1>3 DEF Row
<1> HIDE DEF r
<1>5. RowSound(r)
  BY <1>4 DEF RowSound
<1> QED
  BY <1>1, <1>4, <1>5, RequestStep

LEMMA SetStatusKeeps ==
    ASSUME TurretsInv, NEW c \in TurretCalls, NEW d \in TxFunctions, NEW status \in {"active", "paused"},
           SetDeploymentStatus(c, d, status)
    PROVE  TurretsInv'
<1> DEFINE row == deployments[d]
           r == [row EXCEPT !.status = status]
<1>1. /\ turretTask[c] = TurretIdle /\ d \in Deployed
      /\ deployments' = [deployments EXCEPT ![d].status = status] /\ Go(c, ToLog(d, {}))
      /\ UNCHANGED <<logs, lastLog, feed, turretClock, marketLow, lastLow, ticksOverlapped, turretFaults>>
  BY DEF SetDeploymentStatus
<1>2. TurretTypes /\ row \in Row /\ RowSound(row)
  BY <1>1, DeployedRow DEF TurretsInv, RowsSound
<1>3. deployments' = [deployments EXCEPT ![d] = r] /\ deployments'[d] = r
  BY <1>1, <1>2 DEF TurretTypes
<1>4. /\ r \in Row /\ r.type = row.type /\ r.created = row.created /\ r.next = row.next
      /\ r.lastExecuted = row.lastExecuted /\ r.status = status
  BY <1>2 DEF Row
<1> HIDE DEF r
<1>5. RowSound(r)
  BY <1>2, <1>4 DEF RowSound
<1>6. SameRow(deployments, deployments', d)
  BY <1>3, <1>4 DEF SameRow
<1> QED
  BY <1>1, <1>3, <1>4, <1>5, <1>6, RequestStep


-----------------------------------------------------------------------------
(***************************************************************************)
(* Time, the market and a restart.                                         *)
(***************************************************************************)
\* Rows and tasks stay as they are; the market is never forgotten.
LEMMA MarketStep ==
    ASSUME TurretsInv, turretClock' \in Moment, turretClock' >= turretClock, marketLow' \in BOOLEAN,
           lastLow' \in Moment \cup {Never}, LowKept, PricesAreTrue',
           UNCHANGED <<deployments, logs, lastLog, feed, turretTask, ticksOverlapped, turretFaults>>
    PROVE  TurretsInv'
<1>1. TurretTypes /\ Deployed' = Deployed
  BY DEF TurretsInv, Deployed
<1>2. TurretTypes'
  BY <1>1 DEF TurretTypes, Never
<1>3. RowsKept
  BY <1>1 DEF RowsKept
<1>4. SnapshotsHold'
  BY <1>3, SnapshotsKept DEF TurretsInv
<1>5. ProbesAreDue'
  <2> SUFFICES ASSUME NEW t \in Tasks, turretTask[t].at \in {"probe", "answer"}
               PROVE  ProbeIsDue(turretTask[t])'
    BY DEF ProbesAreDue, ProbeIsDue, Never
  <2> DEFINE k == turretTask[t]
  <2>1. k \in ProbeTask /\ ProbeIsDue(k)
    BY <1>1, TaskOf, TaskShape DEF TurretsInv, ProbesAreDue
  <2>2. k.now \in Int /\ k.asked \in Int /\ turretClock \in Int /\ turretClock' \in Int
    BY <1>1, <2>1 DEF ProbeTask, Moment, TurretTypes
  <2>3. lastLow # Never => lastLow \in Int /\ lastLow' \in Int /\ lastLow' # Never /\ lastLow' >= lastLow
    BY <1>1 DEF TurretTypes, Moment, LowKept
  <2> HIDE DEF k
  <2>4. k' = k /\ k.now <= turretClock' /\ k.asked <= turretClock'
    BY <2>1, <2>2 DEF ProbeIsDue, k
  <2>5. k.at = "answer" /\ k.low => lastLow' # Never /\ k.asked <= lastLow'
    BY <2>1, <2>2, <2>3 DEF ProbeIsDue
  <2>6. ProbeIsDue(k)'
    BY <2>1, <2>4, <2>5 DEF ProbeIsDue, Never
  <2> QED
    BY <2>6 DEF k
<1>6. DecisionsHold'
  BY <1>1, <1>3, DecisionsKept DEF TurretsInv
<1>7. RowsSound'
  BY DEF TurretsInv, RowsSound, RowSound, Deployed, Never
<1>8. TicksAlone'
  <2>1. \A d \in Deployed : SameRow(deployments, deployments', d)
    BY DEF SameRow
  <2> QED
    BY <1>1, <2>1, NoTickMoves DEF TurretsInv
<1>9. HistoryPruned'
  BY <1>1, NothingPruned DEF TurretsInv
<1> QED
  BY <1>2, <1>4, <1>5, <1>6, <1>7, <1>8, <1>9 DEF TurretsInv

LEMMA TimeKeeps ==
    ASSUME TurretsInv, TurretTimePasses
    PROVE  TurretsInv'
<1>1. /\ turretClock < MaxTurretTime /\ turretClock' = turretClock + 1
      /\ lastLow' = IF marketLow THEN turretClock + 1 ELSE lastLow
      /\ UNCHANGED <<deployments, logs, lastLog, feed, turretTask, marketLow, ticksOverlapped, turretFaults>>
  BY DEF TurretTimePasses
<1>2. /\ turretClock \in Moment /\ lastLow \in Moment \cup {Never} /\ marketLow \in BOOLEAN
      /\ \A p \in Providers : feed[p].fetchedAt \in Moment \cup {Never}
  BY DEF TurretsInv, TurretTypes
<1>3. turretClock' \in Moment /\ turretClock' >= turretClock /\ turretClock' # Never /\ turretClock \in Nat
  BY <1>1, <1>2, TurretNumbers DEF Moment, Never
<1>4. /\ lastLow # Never => lastLow <= turretClock /\ lastLow \in Nat
      /\ marketLow => lastLow = turretClock
  BY <1>2 DEF TurretsInv, PricesAreTrue, Moment
<1>5. lastLow' \in Moment \cup {Never}
  BY <1>1, <1>2, <1>3
<1>6. LowKept
  <2>1. CASE marketLow
    BY <1>1, <1>3, <1>4, <2>1 DEF LowKept, Never
  <2>2. CASE ~marketLow
    BY <1>1, <1>4, <2>2 DEF LowKept, Never
  <2> QED
    BY <2>1, <2>2
<1>7. PricesAreTrue'
  <2>1. marketLow' => lastLow' = turretClock'
    BY <1>1
  <2>2. lastLow' # Never => lastLow' <= turretClock'
    <3>1. CASE marketLow
      BY <1>1, <1>3, <3>1
    <3>2. CASE ~marketLow
      BY <1>1, <1>3, <1>4, <3>2
    <3> QED
      BY <3>1, <3>2
  <2>3. ASSUME NEW p \in Providers, feed[p].low, feed[p].fetchedAt # Never
        PROVE  lastLow' # Never /\ feed[p].fetchedAt <= lastLow' + PROVIDER_TIMEOUT
    <3>1. lastLow # Never /\ feed[p].fetchedAt <= lastLow + PROVIDER_TIMEOUT
      BY <2>3 DEF TurretsInv, PricesAreTrue
    <3>2. feed[p].fetchedAt \in Nat
      BY <1>2, <2>3 DEF Moment
    <3>3. lastLow' # Never /\ lastLow' >= lastLow
      BY <1>6, <3>1 DEF LowKept
    <3>4. lastLow' \in Nat /\ PROVIDER_TIMEOUT \in Nat
      BY <1>5, <3>3, TurretNumbers DEF Moment
    <3> QED
      BY <1>4, <3>1, <3>2, <3>3, <3>4
  <2> QED
    BY <1>1, <2>1, <2>2, <2>3 DEF PricesAreTrue, Never
<1> QED
  BY <1>1, <1>2, <1>3, <1>5, <1>6, <1>7, MarketStep

LEMMA PriceKeeps ==
    ASSUME TurretsInv, PriceMoves
    PROVE  TurretsInv'
<1>1. /\ marketLow' = ~marketLow
      /\ lastLow' = IF marketLow THEN lastLow ELSE turretClock
      /\ UNCHANGED <<deployments, logs, lastLog, feed, turretTask, turretClock, ticksOverlapped, turretFaults>>
  BY DEF PriceMoves
<1>2. /\ turretClock \in Moment /\ lastLow \in Moment \cup {Never} /\ marketLow \in BOOLEAN
      /\ \A p \in Providers : feed[p].fetchedAt \in Moment \cup {Never}
  BY DEF TurretsInv, TurretTypes
<1>3. turretClock' \in Moment /\ turretClock' >= turretClock /\ turretClock # Never /\ turretClock \in Nat
      /\ marketLow' \in BOOLEAN
  BY <1>1, <1>2, TurretNumbers DEF Moment, Never
<1>4. lastLow # Never => lastLow <= turretClock /\ lastLow \in Nat
  BY <1>2 DEF TurretsInv, PricesAreTrue, Moment
<1>5. lastLow' \in Moment \cup {Never}
  BY <1>1, <1>2
<1>6. LowKept
  <2>1. CASE marketLow
    BY <1>1, <1>4, <2>1 DEF LowKept, Never
  <2>2. CASE ~marketLow
    BY <1>1, <1>3, <1>4, <2>2 DEF LowKept, Never
  <2> QED
    BY <2>1, <2>2
<1>7. PricesAreTrue'
  <2>1. marketLow' => lastLow' = turretClock'
    BY <1>1, <1>2
  <2>2. lastLow' # Never => lastLow' <= turretClock'
    <3>1. CASE marketLow
      BY <1>1, <1>4, <3>1
    <3>2. CASE ~marketLow
      BY <1>1, <1>3, <3>2
    <3> QED
      BY <3>1, <3>2
  <2>3. ASSUME NEW p \in Providers, feed[p].low, feed[p].fetchedAt # Never
        PROVE  lastLow' # Never /\ feed[p].fetchedAt <= lastLow' + PROVIDER_TIMEOUT
    <3>1. lastLow # Never /\ feed[p].fetchedAt <= lastLow + PROVIDER_TIMEOUT
      BY <2>3 DEF TurretsInv, PricesAreTrue
    <3>2. feed[p].fetchedAt \in Nat
      BY <1>2, <2>3 DEF Moment
    <3>3. lastLow' # Never /\ lastLow' >= lastLow
      BY <1>6, <3>1 DEF LowKept
    <3>4. lastLow' \in Nat /\ PROVIDER_TIMEOUT \in Nat
      BY <1>5, <3>3, TurretNumbers DEF Moment
    <3> QED
      BY <1>4, <3>1, <3>2, <3>3, <3>4
  <2> QED
    BY <1>1, <2>1, <2>2, <2>3 DEF PricesAreTrue, Never
<1> QED
  BY <1>1, <1>2, <1>3, <1>5, <1>6, <1>7, MarketStep

\* The state in which nothing is under way and no price is cached.
LEMMA RestartKeeps ==
    ASSUME TurretsInv, RestartTurrets
    PROVE  TurretsInv'
<1>1. /\ turretFaults' = turretFaults + 1
      /\ feed' = [p \in Providers |-> [low |-> FALSE, fetchedAt |-> Never]]
      /\ turretTask' = [t \in Tasks |-> TurretIdle]
      /\ UNCHANGED <<deployments, logs, lastLog, turretClock, marketLow, lastLow, ticksOverlapped>>
  BY DEF RestartTurrets
<1>2. TurretTypes /\ \A u \in Tasks : turretTask'[u] = TurretIdle
  BY <1>1 DEF TurretsInv
<1>3. TurretIdle.at = "idle" /\ Left(TurretIdle) = {} /\ TurretIdle \in TurretTaskSet
  BY DEF TurretIdle, Left, TurretTaskSet
<1>4. TurretTypes'
  <2>1. turretTask' \in [Tasks -> TurretTaskSet]
    BY <1>1, <1>3
  <2>2. feed' \in [Providers -> [low : BOOLEAN, fetchedAt : Moment \cup {Never}]]
    BY <1>1
  <2> QED
    BY <1>1, <1>2, <2>1, <2>2 DEF TurretTypes, Never
<1>5. SnapshotsHold' /\ ProbesAreDue' /\ DecisionsHold'
  <2>1. SnapshotsHold'
    BY <1>2, <1>3 DEF SnapshotsHold, Left
  <2>2. ProbesAreDue'
    BY <1>2, <1>3 DEF ProbesAreDue
  <2>3. DecisionsHold'
    BY <1>2, <1>3 DEF DecisionsHold
  <2> QED
    BY <2>1, <2>2, <2>3
<1>6. PricesAreTrue'
  <2>1. \A p \in Providers : feed'[p].fetchedAt = Never
    BY <1>1
  <2> QED
    BY <1>1, <2>1 DEF TurretsInv, PricesAreTrue, Never
<1>7. RowsSound'
  BY <1>1 DEF TurretsInv, RowsSound, RowSound, Deployed, Never
<1>8. TicksAlone'
  <2>1. \A u \in TurretTicks : turretTask'[u] = TurretIdle
    BY <1>2 DEF Tasks
  <2>2. \A u \in TurretTicks : AloneSound(turretTask'[u], deployments')
    BY <2>1, IdleIsAlone
  <2> QED
    BY <2>1, <2>2 DEF TicksAlone
<1>9. HistoryPruned'
  BY <1>1, <1>2, FaultyHistory DEF TurretTypes
<1> QED
  BY <1>4, <1>5, <1>6, <1>7, <1>8, <1>9 DEF TurretsInv

-----------------------------------------------------------------------------
LEMMA TurretsStart == TurretsInit => TurretsInv
<1> SUFFICES ASSUME TurretsInit PROVE TurretsInv
  OBVIOUS
<1>1. /\ deployments = [d \in TxFunctions |-> [status |-> "none"]]
      /\ logs = [d \in TxFunctions |-> {}] /\ lastLog = 0
      /\ feed = [p \in Providers |-> [low |-> FALSE, fetchedAt |-> Never]]
      /\ turretTask = [t \in Tasks |-> TurretIdle]
      /\ turretClock = 0 /\ marketLow = FALSE /\ lastLow = Never
      /\ ticksOverlapped = FALSE /\ turretFaults = 0
  BY DEF TurretsInit
<1>2. Deployed = {} /\ \A u \in Tasks : turretTask[u] = TurretIdle
  BY <1>1 DEF Deployed
<1>3. TurretIdle.at = "idle" /\ Left(TurretIdle) = {} /\ TurretIdle \in TurretTaskSet
  BY DEF TurretIdle, Left, TurretTaskSet
<1>4. TurretTypes
  <2>1. turretTask \in [Tasks -> TurretTaskSet]
    BY <1>1, <1>3
  <2>2. feed \in [Providers -> [low : BOOLEAN, fetchedAt : Moment \cup {Never}]]
    BY <1>1
  <2>3. deployments \in [TxFunctions -> Row \cup {NoRow}]
    BY <1>1 DEF NoRow
  <2>4. turretClock \in Moment /\ lastLog \in 0 .. MaxLogs
    BY <1>1, TurretNumbers DEF Moment
  <2> QED
    BY <1>1, <2>1, <2>2, <2>3, <2>4 DEF TurretTypes
<1>5. SnapshotsHold /\ ProbesAreDue /\ DecisionsHold
  BY <1>2, <1>3 DEF SnapshotsHold, ProbesAreDue, DecisionsHold
<1>6. PricesAreTrue
  BY <1>1 DEF PricesAreTrue
<1>7. RowsSound
  BY <1>2 DEF RowsSound
<1>8. TicksAlone
  BY <1>2, IdleIsAlone DEF TicksAlone, Tasks
<1>9. HistoryPruned
  <2> SUFFICES ASSUME NEW d \in TxFunctions, NEW v \in Nat
               PROVE  Cardinality(logs[d]) <= MaxHistory + v + Cardinality(Pruning(d, v))
    BY DEF HistoryPruned
  <2>1. Cardinality(logs[d]) = 0
    BY <1>1, FS_EmptySet
  <2>2. Cardinality(Pruning(d, v)) \in Nat /\ MaxHistory \in Nat
    BY <1>4, HistorySets, TurretNumbers
  <2> QED
    BY <2>1, <2>2
<1> QED
  BY <1>4, <1>5, <1>6, <1>7, <1>8, <1>9 DEF TurretsInv

LEMMA TurretsStutter ==
    ASSUME TurretsInv, UNCHANGED turretVars
    PROVE  TurretsInv'
<1>1. UNCHANGED <<deployments, logs, lastLog, feed, turretTask, turretClock, marketLow, lastLow,
                  ticksOverlapped, turretFaults>>
  BY DEF turretVars
<1>2. /\ turretClock' \in Moment /\ turretClock' >= turretClock /\ marketLow' \in BOOLEAN
      /\ lastLow' \in Moment \cup {Never}
  BY <1>1 DEF TurretsInv, TurretTypes, Moment
<1>3. LowKept
  BY <1>1 DEF LowKept, TurretsInv, TurretTypes, Moment, Never
<1>4. PricesAreTrue'
  BY <1>1 DEF TurretsInv, PricesAreTrue, Never
<1> QED
  BY <1>1, <1>2, <1>3, <1>4, MarketStep

LEMMA TurretsStep ==
    ASSUME TurretsInv, [TurretsNext]_turretVars
    PROVE  TurretsInv'
<1>1. ASSUME NEW c \in TurretCalls, NEW d \in TxFunctions, NEW type \in Types,
             DeployTxFunction(c, d, type)
      PROVE  TurretsInv'
  BY <1>1, DeployKeeps
<1>2. ASSUME NEW c \in TurretCalls, NEW d \in TxFunctions, NEW status \in {"active", "paused"},
             SetDeploymentStatus(c, d, status)
      PROVE  TurretsInv'
  BY <1>2, SetStatusKeeps
<1>3. ASSUME NEW t \in Tasks, InsertLog(t) \/ CountLogs(t) \/ SelectOldest(t) \/ DeleteLogs(t)
      PROVE  TurretsInv'
  BY <1>3, InsertKeeps, CountKeeps, SelectKeeps, DeleteKeeps
<1>4. ASSUME NEW t \in TurretTicks, StartTick(t) PROVE TurretsInv'
  BY <1>4, StartTickKeeps
<1>5. ASSUME NEW t \in TurretTicks, ProbeAnswered(t) PROVE TurretsInv'
  BY <1>5, ProbeAnsweredKeeps
<1>6. ASSUME NEW t \in TurretTicks, ProbeFails(t) PROVE TurretsInv'
  BY <1>6, ProbeFailsKeeps DEF Tasks
<1>7. ASSUME NEW t \in TurretTicks, WriteEvaluation(t) PROVE TurretsInv'
  BY <1>7, WriteKeeps
<1>8. ASSUME NEW t \in TurretTicks, WriteFails(t) PROVE TurretsInv'
  BY <1>8, WriteFailsKeeps DEF Tasks
<1>9. ASSUME NEW t \in TurretTicks, EvaluationFails(t) PROVE TurretsInv'
  BY <1>9, EvaluationFailsKeeps DEF Tasks
<1>p. ASSUME NEW t \in TurretTicks, PriceRead(t) PROVE TurretsInv'
  BY <1>p, PriceReadKeeps DEF Tasks
<1>10. ASSUME NEW t \in TurretTicks, NEW item \in turretTask[t].todo, EvaluateNext(t, item)
       PROVE  TurretsInv'
  BY <1>10, EvaluateNextKeeps
<1>11. ASSUME TurretTimePasses \/ PriceMoves \/ RestartTurrets PROVE TurretsInv'
  BY <1>11, TimeKeeps, PriceKeeps, RestartKeeps
<1>12. ASSUME UNCHANGED turretVars PROVE TurretsInv'
  BY <1>12, TurretsStutter
<1> QED
  BY <1>1, <1>2, <1>3, <1>4, <1>5, <1>6, <1>7, <1>8, <1>9, <1>p, <1>10, <1>11, <1>12
     DEF TurretsNext

\* The invariant says what the runner promises.
LEMMA TurretsPromise ==
    ASSUME TurretsInv
    PROVE  RunsAreDue
<1>1. TurretTypes
  BY DEF TurretsInv
<1>2. StopLossWasTrue
  <2> SUFFICES ASSUME NEW t \in TurretTicks, turretTask[t].at = "write",
                      deployments[turretTask[t].id].type = "stop_loss", turretTask[t].new.executed
               PROVE  lastLow # Never /\ turretTask[t].decidedAt - lastLow < CACHE_TTL + PROVIDER_TIMEOUT
    BY DEF StopLossWasTrue
  <2> QED
    BY DEF TurretsInv, DecisionsHold, DecisionHolds, Tasks
<1>3. ReleaseWaitsForLock
  BY DEF TurretsInv, RowsSound, RowSound, ReleaseWaitsForLock
<1>4. RunsAreSpaced
  BY DEF TurretsInv, TicksAlone, AloneSound, RunsAreSpaced
<1>5. HistoryIsBounded
  <2> SUFFICES ASSUME turretFaults = 0, NEW d \in TxFunctions
               PROVE  Cardinality(logs[d]) <= MaxHistory +
                        Cardinality({t \in Tasks : /\ turretTask[t].at \in {"count", "select", "delete"}
                                                   /\ turretTask[t].id = d})
    BY DEF HistoryIsBounded
  <2> DEFINE all == {t \in Tasks : /\ turretTask[t].at \in {"count", "select", "delete"}
                                   /\ turretTask[t].id = d}
  <2>1. Pruning(d, 0) \in SUBSET all
    BY DEF Pruning
  <2>2. IsFiniteSet(all)
    BY TurretNumbers, FS_Subset
  <2> HIDE DEF all
  <2>3. Cardinality(Pruning(d, 0)) <= Cardinality(all) /\ Cardinality(all) \in Nat
    BY <2>1, <2>2, FS_Subset, FS_CardinalityType
  <2>4. /\ Cardinality(logs[d]) <= MaxHistory + 0 + Cardinality(Pruning(d, 0))
        /\ Cardinality(logs[d]) \in Nat /\ Cardinality(Pruning(d, 0)) \in Nat /\ MaxHistory \in Nat
    BY <1>1, HistorySets, TurretNumbers DEF TurretsInv, HistoryPruned
  <2> QED
    BY <2>3, <2>4 DEF all
<1> QED
  BY <1>2, <1>3, <1>4, <1>5 DEF RunsAreDue

(***************************************************************************)
(* turretsService.js: for any number of ticks and requests that overlap,   *)
(* any providers, limits and clocks, a stop-loss fires only on a price     *)
(* that was true within the cache's lifetime and the timeout of a request  *)
(* (a price is stamped when it arrives), a release waits for its time      *)
(* lock, a DCA order keeps its interval while ticks do not overlap, and    *)
(* until a fault the history of a deployment exceeds its limit by no more  *)
(* rows than there are loggings about to prune it.                         *)
(***************************************************************************)
THEOREM DeploymentsRunWhenDue == TurretsSpec => []RunsAreDue
<1>1. TurretsInv /\ [TurretsNext]_turretVars => TurretsInv'
  BY TurretsStep
<1> QED
  BY TurretsStart, <1>1, TurretsPromise, PTL DEF TurretsSpec

-----------------------------------------------------------------------------
(***************************************************************************)
(* The balance feed.  A refresh that dropped the cache after a payment and *)
(* was not raced finds it empty until it reads, so it goes to Horizon.     *)
(***************************************************************************)
Jobs == [FeedJobs -> Job \cup {NoJob}]
CacheIsEmpty == lruEntry = NotCached /\ (redisReady => redisEntry = NotCached)
UpToDate(x, ledger, empty) ==
    x # NoJob => /\ x.since <= ledger
                 /\ x.pc \in {"set", "send"} /\ ~x.raced => x.balance >= x.since
                 /\ x.pc = "get" /\ ~x.raced /\ x.since # 0 => empty

FeedInv ==
    /\ BalanceFeedTypeOK
    /\ horizonEvents <= ledgerBalance
    /\ \A r \in Refreshes : UpToDate(job[r], ledgerBalance, CacheIsEmpty)

LEMMA FeedNumbers ==
    /\ MaxPaymentsMade \in Nat /\ MaxEntries \in Nat /\ MaxFeedFaults \in Nat
    /\ Balances \subseteq Nat /\ 0 \in Balances
    /\ \A b \in Balances : [ttl |-> ACCOUNT_CACHE_TTL, balance |-> b] \in Cached
    /\ \A e \in Cached : [e EXCEPT !.ttl = DEFAULT_TTL] \in Cached
    /\ \A e \in Cached \cup {NotCached} : Older(e) \in Cached \cup {NotCached}
    /\ Older(NotCached) = NotCached
    /\ NotCached \notin Cached
    /\ \A e \in Cached : e.balance \in Balances
<1>1. MaxPaymentsMade \in Nat /\ MaxEntries \in Nat /\ MaxFeedFaults \in Nat
  BY BalanceFeedAssumption
<1>2. Balances \subseteq Nat /\ 0 \in Balances
  BY <1>1 DEF Balances
<1>3. ACCOUNT_CACHE_TTL \in Nat \ {0} /\ DEFAULT_TTL \in Nat \ {0}
  BY BalanceFeedAssumption
<1> DEFINE Top == IF ACCOUNT_CACHE_TTL > DEFAULT_TTL THEN ACCOUNT_CACHE_TTL ELSE DEFAULT_TTL
<1>4. Top \in Nat /\ ACCOUNT_CACHE_TTL \in 1 .. Top /\ DEFAULT_TTL \in 1 .. Top
  BY <1>3
<1>5. Cached = [ttl : 1 .. Top, balance : Balances]
  BY DEF Cached
<1> HIDE DEF Top
<1>6. \A b \in Balances : [ttl |-> ACCOUNT_CACHE_TTL, balance |-> b] \in Cached
  BY <1>4, <1>5
<1>7. \A e \in Cached : [e EXCEPT !.ttl = DEFAULT_TTL] \in Cached
  BY <1>4, <1>5
<1>8. NotCached.ttl = 0 /\ Older(NotCached) = NotCached
  BY DEF NotCached, Older
<1>9. \A e \in Cached : e.ttl \in 1 .. Top /\ e.balance \in Balances
  BY <1>5
<1>10. NotCached \notin Cached
  BY <1>4, <1>8, <1>9
<1>11. ASSUME NEW e \in Cached PROVE Older(e) \in Cached \cup {NotCached}
  <2>1. CASE e.ttl <= 1
    BY <2>1 DEF Older
  <2>2. CASE ~(e.ttl <= 1)
    <3>1. e.ttl \in 1 .. Top
      BY <1>9
    <3>2. e.ttl - 1 \in 1 .. Top
      BY <1>4, <2>2, <3>1
    <3>3. [e EXCEPT !.ttl = e.ttl - 1] \in Cached
      BY <1>5, <3>2
    <3> QED
      BY <2>2, <3>3 DEF Older
  <2> QED
    BY <2>1, <2>2
<1> QED
  BY <1>1, <1>2, <1>6, <1>7, <1>8, <1>9, <1>10, <1>11

LEMMA JobShapes ==
    /\ NoJob.pc = "idle" /\ NoJob \notin Job
    /\ \A x \in Job : /\ x.balance \in Balances /\ x.since \in Balances /\ x.raced \in BOOLEAN
                      /\ x.pc \in {"del", "get", "load", "set", "send"}
<1>1. NoJob.pc = "idle"
  BY DEF NoJob
<1>2. \A x \in Job : /\ x.balance \in Balances /\ x.since \in Balances /\ x.raced \in BOOLEAN
                     /\ x.pc \in {"del", "get", "load", "set", "send"}
  BY DEF Job
<1> QED
  BY <1>1, <1>2

\* What the steps of a read make of its record.
LEMMA JobMoves ==
    ASSUME NEW x \in Job
    PROVE  /\ [x EXCEPT !.pc = "load"] \in Job
           /\ [x EXCEPT !.pc = "load"].since = x.since /\ [x EXCEPT !.pc = "load"].pc = "load"
           /\ [x EXCEPT !.pc = "send"] \in Job
           /\ [x EXCEPT !.pc = "send"].since = x.since /\ [x EXCEPT !.pc = "send"].pc = "send"
           /\ [x EXCEPT !.pc = "send"].balance = x.balance /\ [x EXCEPT !.pc = "send"].raced = x.raced
           /\ [x EXCEPT !.raced = TRUE] \in Job
           /\ [x EXCEPT !.raced = TRUE].since = x.since /\ [x EXCEPT !.raced = TRUE].pc = x.pc
           /\ [x EXCEPT !.raced = TRUE].raced = TRUE
           /\ [x EXCEPT !.pending = TRUE] \in Job
           /\ [x EXCEPT !.pending = TRUE].since = x.since /\ [x EXCEPT !.pending = TRUE].pc = x.pc
           /\ [x EXCEPT !.pending = TRUE].balance = x.balance
           /\ [x EXCEPT !.pending = TRUE].raced = x.raced
  BY DEF Job

LEMMA JobReads ==
    ASSUME NEW x \in Job, NEW b \in Balances, NEW pc \in {"set", "send"}
    PROVE  LET y == [x EXCEPT !.pc = pc, !.balance = b] IN
           y \in Job /\ y.pc = pc /\ y.balance = b /\ y.since = x.since /\ y.raced = x.raced
  BY DEF Job

LEMMA JobDrops ==
    ASSUME NEW x \in Job, NEW b \in Balances
    PROVE  LET y == [x EXCEPT !.pc = "get", !.since = b, !.raced = FALSE] IN
           y \in Job /\ y.pc = "get" /\ y.since = b
  BY DEF Job

LEMMA JobStarts ==
    ASSUME BalanceFeedTypeOK
    PROVE  /\ Reading \in Job /\ Reading.since = 0 /\ Reading.pc = "get"
           /\ Refreshing \in Job /\ Refreshing.since = 0 /\ Refreshing.pc = "del"
<1>1. streamEntry.id \in 0 .. MaxEntries /\ 0 \in 0 .. MaxEntries
  BY FeedNumbers DEF BalanceFeedTypeOK
<1>2. Reading \in Job /\ Reading.since = 0 /\ Reading.pc = "get"
  BY <1>1, FeedNumbers DEF Reading, Job
<1>3. Refreshing \in Job /\ Refreshing.since = 0 /\ Refreshing.pc = "del"
  BY <1>1, FeedNumbers DEF Refreshing, Reading, Job
<1> QED
  BY <1>2, <1>3

LEMMA FeedTypes ==
    ASSUME BalanceFeedTypeOK
    PROVE  /\ job \in Jobs
           /\ \A j \in FeedJobs : job[j] = NoJob \/ job[j] \in Job
           /\ \A j \in FeedJobs : job[j].pc # "idle" => job[j] \in Job
           /\ ledgerBalance \in Balances /\ ledgerBalance \in Nat /\ horizonEvents \in Nat
           /\ Refreshes \subseteq FeedJobs /\ Clients \subseteq FeedJobs /\ Readers \subseteq FeedJobs
<1>1. job \in Jobs /\ ledgerBalance \in Balances
  BY DEF BalanceFeedTypeOK, Jobs
<1>2. \A j \in FeedJobs : job[j] = NoJob \/ job[j] \in Job
  BY <1>1 DEF Jobs
<1>3. horizonEvents \in Nat /\ ledgerBalance \in Nat
  BY <1>1, FeedNumbers DEF BalanceFeedTypeOK
<1>4. Refreshes \subseteq FeedJobs /\ Clients \subseteq FeedJobs /\ Readers \subseteq FeedJobs
  BY DEF FeedJobs
<1> QED
  BY <1>1, <1>2, <1>3, <1>4, JobShapes

\* A step in which the ledger only grows and the cache is not filled.
LEMMA FeedStays ==
    ASSUME FeedInv, BalanceFeedTypeOK', horizonEvents' <= ledgerBalance',
           ledgerBalance <= ledgerBalance',
           \A r \in Refreshes : \/ job'[r] = job[r] /\ (CacheIsEmpty => CacheIsEmpty')
                                \/ UpToDate(job'[r], ledgerBalance', CacheIsEmpty')
    PROVE  FeedInv'
<1>1. BalanceFeedTypeOK /\ ledgerBalance \in Nat
  BY FeedTypes DEF FeedInv
<1>2. ledgerBalance' \in Nat
  BY FeedNumbers DEF BalanceFeedTypeOK
<1>3. ASSUME NEW r \in Refreshes PROVE UpToDate(job'[r], ledgerBalance', CacheIsEmpty')
  <2> SUFFICES ASSUME job'[r] = job[r], CacheIsEmpty => CacheIsEmpty', job[r] # NoJob
               PROVE  UpToDate(job'[r], ledgerBalance', CacheIsEmpty')
    BY DEF UpToDate
  <2>1. UpToDate(job[r], ledgerBalance, CacheIsEmpty)
    BY DEF FeedInv
  <2>2. job[r].since \in Nat
    BY <1>1, FeedTypes, JobShapes, FeedNumbers
  <2> QED
    BY <1>1, <1>2, <2>1, <2>2 DEF UpToDate
<1> QED
  BY <1>3 DEF FeedInv

\* One job changes.
LEMMA JobChanges ==
    ASSUME BalanceFeedTypeOK, NEW j \in FeedJobs, NEW x \in Job \cup {NoJob},
           job' = [job EXCEPT ![j] = x]
    PROVE  job' \in Jobs /\ job'[j] = x /\ \A d \in FeedJobs \ {j} : job'[d] = job[d]
  BY FeedTypes DEF Jobs

LEMMA FeedStart == BalanceFeedInit => FeedInv
<1> SUFFICES ASSUME BalanceFeedInit PROVE FeedInv
  OBVIOUS
<1>1. job \in Jobs /\ \A j \in FeedJobs : job[j] = NoJob
  BY DEF BalanceFeedInit, Jobs
<1>2. streamEntry \in [id : 0 .. MaxEntries, subscribers : SUBSET Clients]
  BY FeedNumbers DEF BalanceFeedInit
<1>3. clientBalance \in [Clients -> Balances \cup {-1}]
  BY DEF BalanceFeedInit
<1>4. BalanceFeedTypeOK
  BY <1>1, <1>2, <1>3, FeedNumbers DEF BalanceFeedInit, BalanceFeedTypeOK, Jobs
<1>5. \A r \in Refreshes : job[r] = NoJob
  BY <1>1, FeedTypes DEF FeedJobs
<1> QED
  BY <1>4, <1>5 DEF BalanceFeedInit, FeedInv, UpToDate

\* A raced refresh is allowed any answer.
LEMMA RacedStays ==
    ASSUME NEW jobs \in Jobs
    PROVE  /\ Raced(jobs) \in Jobs
           /\ \A r \in Refreshes : \A ledger, old, empty :
                UpToDate(jobs[r], ledger, old) => UpToDate(Raced(jobs)[r], ledger, empty)
<1>1. ASSUME NEW j \in FeedJobs, jobs[j].pc = "get"
      PROVE  jobs[j] \in Job
  BY <1>1, JobShapes DEF Jobs
<1>2. \A j \in FeedJobs : Raced(jobs)[j] =
        IF j \in Refreshes /\ jobs[j].pc = "get" THEN [jobs[j] EXCEPT !.raced = TRUE] ELSE jobs[j]
  BY DEF Raced
<1>3. Raced(jobs) \in Jobs
  <2>1. \A j \in FeedJobs : Raced(jobs)[j] \in Job \cup {NoJob}
    <3> SUFFICES ASSUME NEW j \in FeedJobs PROVE Raced(jobs)[j] \in Job \cup {NoJob}
      OBVIOUS
    <3>1. CASE j \in Refreshes /\ jobs[j].pc = "get"
      BY <1>1, <1>2, <3>1, JobMoves
    <3>2. CASE ~(j \in Refreshes /\ jobs[j].pc = "get")
      BY <1>2, <3>2 DEF Jobs
    <3> QED
      BY <3>1, <3>2
  <2>2. Raced(jobs) = [j \in FeedJobs |-> Raced(jobs)[j]]
    BY DEF Raced
  <2> QED
    BY <2>1, <2>2 DEF Jobs
<1>4. ASSUME NEW r \in Refreshes, NEW ledger, NEW old, NEW empty, UpToDate(jobs[r], ledger, old)
      PROVE  UpToDate(Raced(jobs)[r], ledger, empty)
  <2>1. r \in FeedJobs
    BY DEF FeedJobs
  <2>2. CASE jobs[r].pc = "get"
    <3> DEFINE x == jobs[r]
               y == [x EXCEPT !.raced = TRUE]
    <3>1. x \in Job /\ Raced(jobs)[r] = y
      BY <1>1, <1>2, <2>1, <2>2
    <3>2. y.since = x.since /\ y.pc = "get" /\ y.raced
      BY <2>2, <3>1, JobMoves
    <3>3. x.since <= ledger
      BY <1>4, <3>1, JobShapes DEF UpToDate
    <3> HIDE DEF x, y
    <3> QED
      BY <3>1, <3>2, <3>3 DEF UpToDate
  <2>3. CASE jobs[r].pc # "get"
    <3>1. Raced(jobs)[r] = jobs[r]
      BY <1>2, <2>1, <2>3
    <3> QED
      BY <1>4, <2>3, <3>1 DEF UpToDate
  <2> QED
    BY <2>2, <2>3
<1> QED
  BY <1>3, <1>4

LEMMA PaymentKeeps ==
    ASSUME FeedInv, PaymentMade
    PROVE  FeedInv'
<1>1. BalanceFeedTypeOK /\ horizonEvents <= ledgerBalance
  BY DEF FeedInv
<1>2. /\ ledgerBalance \in Nat /\ horizonEvents \in Nat
      /\ ledgerBalance < MaxPaymentsMade /\ ledgerBalance' = ledgerBalance + 1
      /\ horizonEvents' \in {horizonEvents, horizonEvents + 1}
  BY <1>1, FeedTypes DEF PaymentMade
<1>3. ledgerBalance' \in Balances /\ horizonEvents' \in 0 .. MaxPaymentsMade
      /\ horizonEvents' <= ledgerBalance' /\ ledgerBalance <= ledgerBalance'
  BY <1>1, <1>2, FeedNumbers DEF Balances
<1>4. BalanceFeedTypeOK'
  BY <1>1, <1>3 DEF PaymentMade, BalanceFeedTypeOK
<1> QED
  BY <1>3, <1>4, FeedStays DEF PaymentMade, CacheIsEmpty

LEMMA FlapKeeps ==
    ASSUME FeedInv, RedisFlaps
    PROVE  FeedInv'
<1>1. BalanceFeedTypeOK /\ job \in Jobs
  BY FeedTypes DEF FeedInv
<1>2. job' = Raced(job) /\ redisReady' \in BOOLEAN
  BY DEF RedisFlaps
<1>3. feedFaults' \in 0 .. MaxFeedFaults
  BY <1>1, FeedNumbers DEF RedisFlaps, FeedFault, BalanceFeedTypeOK
<1>4. BalanceFeedTypeOK'
  BY <1>1, <1>2, <1>3, RacedStays DEF RedisFlaps, BalanceFeedTypeOK, Jobs
<1>5. \A r \in Refreshes : UpToDate(job'[r], ledgerBalance, CacheIsEmpty')
  BY <1>1, <1>2, RacedStays DEF FeedInv
<1> QED
  BY <1>4, <1>5 DEF RedisFlaps, FeedInv

LEMMA AgeingKeeps ==
    ASSUME FeedInv, TimePasses
    PROVE  FeedInv'
<1>1. BalanceFeedTypeOK /\ ledgerBalance \in Nat /\ horizonEvents <= ledgerBalance
  BY FeedTypes DEF FeedInv
<1>2. redisEntry' \in Cached \cup {NotCached} /\ lruEntry' \in Cached \cup {NotCached}
  BY <1>1, FeedNumbers DEF TimePasses, BalanceFeedTypeOK
<1>3. BalanceFeedTypeOK'
  BY <1>1, <1>2 DEF TimePasses, BalanceFeedTypeOK
<1>4. CacheIsEmpty => CacheIsEmpty'
  BY FeedNumbers DEF TimePasses, CacheIsEmpty
<1> QED
  BY <1>1, <1>3, <1>4, FeedStays DEF TimePasses

\* A step of one job that leaves the caches and the ledger alone.
LEMMA OneJobKeeps ==
    ASSUME FeedInv, NEW j \in FeedJobs, NEW x \in Job \cup {NoJob}, job' = [job EXCEPT ![j] = x],
           UNCHANGED <<ledgerBalance, redisReady, redisEntry, lruEntry, refreshedAt>>,
           streamEntry' \in [id : 0 .. MaxEntries, subscribers : SUBSET Clients],
           horizonEvents' \in 0 .. horizonEvents,
           clientBalance' \in [Clients -> Balances \cup {-1}],
           feedFaults' \in 0 .. MaxFeedFaults,
           j \in Refreshes => UpToDate(x, ledgerBalance, CacheIsEmpty)
    PROVE  FeedInv'
<1>1. BalanceFeedTypeOK /\ ledgerBalance \in Nat /\ horizonEvents \in Nat /\ horizonEvents <= ledgerBalance
  BY FeedTypes DEF FeedInv
<1>2. job' \in Jobs /\ job'[j] = x /\ \A d \in FeedJobs \ {j} : job'[d] = job[d]
  BY <1>1, JobChanges
<1>3. horizonEvents' \in 0 .. MaxPaymentsMade /\ horizonEvents' <= ledgerBalance'
  BY <1>1, FeedNumbers DEF BalanceFeedTypeOK
<1>4. BalanceFeedTypeOK'
  BY <1>1, <1>2, <1>3 DEF BalanceFeedTypeOK, Jobs
<1>5. CacheIsEmpty' = CacheIsEmpty
  BY DEF CacheIsEmpty
<1>6. \A r \in Refreshes : r # j => job'[r] = job[r]
  BY <1>2 DEF FeedJobs
<1>7. \A r \in Refreshes : UpToDate(job'[r], ledgerBalance', CacheIsEmpty')
  BY <1>2, <1>5, <1>6 DEF FeedInv
<1> QED
  BY <1>3, <1>4, <1>7 DEF FeedInv

LEMMA ReaderKeeps ==
    ASSUME FeedInv, NEW r \in Readers, StartReader(r)
    PROVE  FeedInv'
<1>1. BalanceFeedTypeOK /\ r \in FeedJobs /\ horizonEvents \in Nat
  BY FeedTypes DEF FeedInv
<1>2. Reading \in Job /\ Reading.since = 0 /\ Reading.pc = "get"
  BY <1>1, JobStarts
<1>3. UpToDate(Reading, ledgerBalance, CacheIsEmpty)
  BY <1>1, <1>2, FeedTypes DEF UpToDate
<1>4. horizonEvents \in 0 .. horizonEvents
  BY <1>1
<1> QED
  BY <1>1, <1>2, <1>3, <1>4, OneJobKeeps DEF StartReader, BalanceFeedTypeOK

LEMMA GetKeeps ==
    ASSUME FeedInv, NEW j \in FeedJobs, CacheGet(j)
    PROVE  FeedInv'
<1> DEFINE inRedis == redisReady /\ redisEntry # NotCached
           hit == IF inRedis THEN redisEntry ELSE lruEntry
           x == IF hit = NotCached THEN [job[j] EXCEPT !.pc = "load"]
                ELSE [job[j] EXCEPT !.pc = "send", !.balance = hit.balance]
<1>1. BalanceFeedTypeOK /\ ledgerBalance \in Nat /\ horizonEvents <= ledgerBalance /\ job \in Jobs
  BY FeedTypes DEF FeedInv
<1>2. job[j].pc = "get" /\ job[j] \in Job
  BY <1>1, FeedTypes DEF CacheGet
<1>3. job' = [job EXCEPT ![j] = x]
  BY <1>1 DEF CacheGet, Jobs
<1>4. hit = NotCached \/ hit.balance \in Balances
  BY <1>1, FeedNumbers DEF BalanceFeedTypeOK
<1>5. redisEntry' \in Cached \cup {NotCached}
  BY <1>1, FeedNumbers DEF CacheGet, BalanceFeedTypeOK
<1>6. CacheIsEmpty => CacheIsEmpty' /\ hit = NotCached
  BY DEF CacheGet, CacheIsEmpty
<1> HIDE DEF inRedis, hit
<1>7. /\ x \in Job /\ x.since = job[j].since
      /\ hit = NotCached => x.pc = "load"
      /\ hit # NotCached => x.pc = "send" /\ x.balance = hit.balance /\ x.raced = job[j].raced
  <2>1. CASE hit = NotCached
    BY <1>2, <2>1, JobMoves
  <2>2. CASE hit # NotCached
    BY <1>2, <1>4, <2>2, JobReads
  <2> QED
    BY <2>1, <2>2
<1> HIDE DEF x
<1>8. job' \in Jobs /\ job'[j] = x /\ \A d \in FeedJobs \ {j} : job'[d] = job[d]
  BY <1>1, <1>3, <1>7, JobChanges
<1>9. BalanceFeedTypeOK'
  BY <1>1, <1>5, <1>8 DEF CacheGet, BalanceFeedTypeOK, Jobs
<1>10. ASSUME j \in Refreshes PROVE UpToDate(x, ledgerBalance, CacheIsEmpty')
  <2>1. /\ job[j].since <= ledgerBalance /\ job[j].since \in Nat
        /\ ~job[j].raced /\ job[j].since # 0 => CacheIsEmpty
    BY <1>2, <1>10, JobShapes, FeedNumbers DEF FeedInv, UpToDate
  <2>2. CASE hit = NotCached
    BY <1>7, <2>1, <2>2 DEF UpToDate
  <2>3. CASE hit # NotCached
    <3>1. x.balance \in Nat /\ x.pc = "send" /\ (~x.raced => x.since = 0)
      BY <1>4, <1>6, <1>7, <2>1, <2>3, FeedNumbers
    <3> QED
      BY <1>7, <2>1, <3>1 DEF UpToDate
  <2> QED
    BY <2>2, <2>3
<1>11. \A r \in Refreshes : r # j => job'[r] = job[r]
  BY <1>8 DEF FeedJobs
<1>12. \A r \in Refreshes : \/ job'[r] = job[r] /\ (CacheIsEmpty => CacheIsEmpty')
                            \/ UpToDate(job'[r], ledgerBalance, CacheIsEmpty')
  BY <1>6, <1>8, <1>10, <1>11
<1>13. UNCHANGED <<ledgerBalance, horizonEvents>>
  BY DEF CacheGet
<1> QED
  BY <1>1, <1>9, <1>12, <1>13, FeedStays

LEMMA LoadKeeps ==
    ASSUME FeedInv, NEW j \in FeedJobs, LoadAccount(j)
    PROVE  FeedInv'
<1> DEFINE x == [job[j] EXCEPT !.pc = "set", !.balance = ledgerBalance]
<1>1. BalanceFeedTypeOK /\ ledgerBalance \in Balances /\ horizonEvents \in Nat
  BY FeedTypes DEF FeedInv
<1>2. job[j].pc = "load" /\ job[j] \in Job
  BY <1>1, FeedTypes DEF LoadAccount
<1>3. job' = [job EXCEPT ![j] = x]
  BY <1>1, FeedTypes DEF LoadAccount, Jobs
<1>4. x \in Job /\ x.pc = "set" /\ x.balance = ledgerBalance /\ x.since = job[j].since
  BY <1>1, <1>2, JobReads
<1> HIDE DEF x
<1>5. ASSUME j \in Refreshes PROVE UpToDate(x, ledgerBalance, CacheIsEmpty)
  <2>1. job[j].since <= ledgerBalance
    BY <1>2, <1>5, JobShapes DEF FeedInv, UpToDate
  <2> QED
    BY <1>1, <1>4, <2>1, FeedNumbers DEF UpToDate
<1>6. horizonEvents \in 0 .. horizonEvents
  BY <1>1
<1> QED
  BY <1>1, <1>3, <1>4, <1>5, <1>6, OneJobKeeps DEF LoadAccount, BalanceFeedTypeOK

LEMMA SetKeeps ==
    ASSUME FeedInv, NEW j \in FeedJobs, CacheSet(j)
    PROVE  FeedInv'
<1> DEFINE x == [job[j] EXCEPT !.pc = "send"]
           js == [job EXCEPT ![j] = x]
           e == [ttl |-> ACCOUNT_CACHE_TTL, balance |-> job[j].balance]
<1>1. BalanceFeedTypeOK /\ job \in Jobs
  BY FeedTypes DEF FeedInv
<1>2. job[j].pc = "set" /\ job[j] \in Job
  BY <1>1, FeedTypes DEF CacheSet
<1>3. job' = Raced(js)
  BY <1>1 DEF CacheSet, Jobs
<1>4. /\ x \in Job /\ x.since = job[j].since /\ x.pc = "send"
      /\ x.balance = job[j].balance /\ x.raced = job[j].raced
  BY <1>2, JobMoves
<1> HIDE DEF x
<1>5. js \in Jobs /\ js[j] = x /\ \A d \in FeedJobs \ {j} : js[d] = job[d]
  BY <1>1, <1>4 DEF Jobs
<1> HIDE DEF js
<1>6. ASSUME NEW r \in Refreshes PROVE UpToDate(js[r], ledgerBalance, CacheIsEmpty)
  <2>1. r \in FeedJobs /\ UpToDate(job[r], ledgerBalance, CacheIsEmpty)
    BY DEF FeedJobs, FeedInv
  <2>2. CASE r = j
    BY <1>2, <1>4, <1>5, <2>1, <2>2, JobShapes DEF UpToDate
  <2>3. CASE r # j
    BY <1>5, <2>1, <2>3
  <2> QED
    BY <2>2, <2>3
<1>7. job' \in Jobs /\ \A r \in Refreshes : UpToDate(job'[r], ledgerBalance, CacheIsEmpty')
  BY <1>3, <1>5, <1>6, RacedStays
<1>8. e \in Cached
  BY <1>2, JobShapes, FeedNumbers
<1>9. redisEntry' \in {e, redisEntry} /\ lruEntry' = e
  BY DEF CacheSet
<1> HIDE DEF e
<1>10. BalanceFeedTypeOK'
  BY <1>1, <1>7, <1>8, <1>9 DEF CacheSet, BalanceFeedTypeOK, Jobs
<1> QED
  BY <1>7, <1>10 DEF CacheSet, FeedInv

LEMMA AnswerKeeps ==
    ASSUME FeedInv, NEW j \in Clients \cup Readers, ReaderAnswers(j) \/ SendSeed(j),
           clientBalance' \in [Clients -> Balances \cup {-1}]
    PROVE  FeedInv'
<1>1. BalanceFeedTypeOK /\ j \in FeedJobs /\ horizonEvents \in Nat
  BY FeedTypes DEF FeedInv
<1>2. horizonEvents \in 0 .. horizonEvents
  BY <1>1
<1>3. /\ job' = [job EXCEPT ![j] = NoJob]
      /\ UNCHANGED <<ledgerBalance, redisReady, redisEntry, lruEntry, refreshedAt, streamEntry,
                     horizonEvents, feedFaults>>
  BY DEF ReaderAnswers, SendSeed
<1>4. UpToDate(NoJob, ledgerBalance, CacheIsEmpty)
  BY DEF UpToDate
<1> QED
  BY <1>1, <1>2, <1>3, <1>4, OneJobKeeps DEF BalanceFeedTypeOK

LEMMA ReaderAnswersKeeps ==
    ASSUME FeedInv, NEW r \in Readers, ReaderAnswers(r)
    PROVE  FeedInv'
<1>1. clientBalance' \in [Clients -> Balances \cup {-1}]
  BY DEF FeedInv, BalanceFeedTypeOK, ReaderAnswers
<1> QED
  BY <1>1, AnswerKeeps

LEMMA SeedKeeps ==
    ASSUME FeedInv, NEW c \in Clients, SendSeed(c)
    PROVE  FeedInv'
<1>1. BalanceFeedTypeOK /\ c \in FeedJobs /\ job[c].pc = "send"
  BY FeedTypes DEF FeedInv, SendSeed
<1>2. job[c].balance \in Balances
  BY <1>1, FeedTypes, JobShapes
<1>3. clientBalance' \in [Clients -> Balances \cup {-1}]
  BY <1>1, <1>2 DEF BalanceFeedTypeOK, SendSeed
<1> QED
  BY <1>3, AnswerKeeps

LEMMA SubscribeKeeps ==
    ASSUME FeedInv, NEW c \in Clients, Subscribe(c)
    PROVE  FeedInv'
<1>1. BalanceFeedTypeOK /\ c \in FeedJobs /\ horizonEvents \in Nat
  BY FeedTypes DEF FeedInv
<1>2. Reading \in Job /\ UpToDate(Reading, ledgerBalance, CacheIsEmpty)
  BY <1>1, JobStarts, FeedTypes DEF UpToDate
<1>3. horizonEvents \in 0 .. horizonEvents
  BY <1>1
<1>4. streamEntry.id \in 0 .. MaxEntries /\ streamEntry.subscribers \subseteq Clients
  BY <1>1 DEF BalanceFeedTypeOK
<1>5. streamEntry' \in [id : 0 .. MaxEntries, subscribers : SUBSET Clients]
  BY <1>4, FeedNumbers DEF Subscribe
<1>6. clientBalance' \in [Clients -> Balances \cup {-1}]
  BY <1>1 DEF BalanceFeedTypeOK, Subscribe
<1> QED
  BY <1>1, <1>2, <1>3, <1>5, <1>6, OneJobKeeps DEF Subscribe, BalanceFeedTypeOK

LEMMA UnsubscribeKeeps ==
    ASSUME FeedInv, NEW c \in Clients, Unsubscribe(c)
    PROVE  FeedInv'
<1>1. BalanceFeedTypeOK /\ ledgerBalance \in Nat /\ horizonEvents <= ledgerBalance
  BY FeedTypes DEF FeedInv
<1>2. streamEntry' \in [id : 0 .. MaxEntries, subscribers : SUBSET Clients]
  BY <1>1 DEF BalanceFeedTypeOK, Unsubscribe
<1>3. horizonEvents' \in {0, horizonEvents} /\ 0 \in 0 .. MaxPaymentsMade
  BY FeedNumbers DEF Unsubscribe
<1>4. UNCHANGED <<ledgerBalance, redisReady, redisEntry, lruEntry, job, clientBalance, refreshedAt, feedFaults>>
  BY DEF Unsubscribe
<1>5. BalanceFeedTypeOK'
  BY <1>1, <1>2, <1>3, <1>4 DEF BalanceFeedTypeOK
<1>6. horizonEvents' <= ledgerBalance' /\ ledgerBalance <= ledgerBalance'
  BY <1>1, <1>3, <1>4
<1> QED
  BY <1>4, <1>5, <1>6, FeedStays DEF CacheIsEmpty

LEMMA AskedAgainStays ==
    ASSUME NEW x \in Job, NEW ledger, NEW empty, UpToDate(x, ledger, empty)
    PROVE  /\ [x EXCEPT !.pending = TRUE] \in Job
           /\ UpToDate([x EXCEPT !.pending = TRUE], ledger, empty)
<1> DEFINE y == [x EXCEPT !.pending = TRUE]
<1>1. y \in Job /\ y.since = x.since /\ y.pc = x.pc /\ y.balance = x.balance /\ y.raced = x.raced
  BY JobMoves
<1> HIDE DEF y
<1>2. UpToDate(y, ledger, empty)
  BY <1>1, JobShapes DEF UpToDate
<1> QED
  BY <1>1, <1>2 DEF y

LEMMA RefreshingIsFresh ==
    ASSUME FeedInv
    PROVE  Refreshing \in Job /\ UpToDate(Refreshing, ledgerBalance, CacheIsEmpty)
<1>1. BalanceFeedTypeOK
  BY DEF FeedInv
<1>2. ledgerBalance \in Nat
  BY <1>1, FeedTypes
<1> QED
  BY <1>1, <1>2, JobStarts DEF UpToDate

LEMMA ReportKeeps ==
    ASSUME FeedInv, PaymentReported
    PROVE  FeedInv'
<1>1. BalanceFeedTypeOK /\ horizonEvents \in Nat /\ horizonEvents > 0 /\ job \in Jobs
  BY FeedTypes DEF FeedInv, PaymentReported
<1>2. horizonEvents' \in 0 .. horizonEvents
  BY <1>1 DEF PaymentReported
<1>3. UNCHANGED <<ledgerBalance, redisReady, redisEntry, lruEntry, streamEntry, clientBalance, refreshedAt, feedFaults>>
  BY DEF PaymentReported
<1>4. PICK r \in Refreshes, x \in Job :
        job' = [job EXCEPT ![r] = x] /\ UpToDate(x, ledgerBalance, CacheIsEmpty)
  <2>1. CASE Running # {}
    <3> DEFINE s == CHOOSE r \in Running : TRUE
               x == [job[s] EXCEPT !.pending = TRUE]
    <3>1. s \in Running
      BY <2>1
    <3>2. job' = [job EXCEPT ![s] = x]
      BY <1>1, <2>1 DEF PaymentReported, Jobs
    <3> HIDE DEF s
    <3>3. s \in Refreshes /\ job[s] # NoJob
      BY <3>1 DEF Running
    <3>4. job[s] \in Job /\ UpToDate(job[s], ledgerBalance, CacheIsEmpty)
      BY <1>1, <3>3, FeedTypes DEF FeedInv
    <3>5. x \in Job /\ UpToDate(x, ledgerBalance, CacheIsEmpty)
      BY <3>4, AskedAgainStays
    <3> HIDE DEF x
    <3> QED
      BY <3>2, <3>3, <3>5
  <2>2. CASE Running = {}
    <3> DEFINE s == CHOOSE r \in Refreshes : job[r] = NoJob
    <3>1. s \in Refreshes
      BY <2>2 DEF PaymentReported
    <3>2. job' = [job EXCEPT ![s] = Refreshing]
      BY <2>2 DEF PaymentReported
    <3> HIDE DEF s
    <3> QED
      BY <3>1, <3>2, RefreshingIsFresh
  <2> QED
    BY <2>1, <2>2
<1> QED
  BY <1>1, <1>2, <1>3, <1>4, OneJobKeeps DEF BalanceFeedTypeOK, FeedJobs

LEMMA DropKeeps ==
    ASSUME FeedInv, NEW r \in Refreshes, DropCache(r)
    PROVE  FeedInv'
<1> DEFINE x == [job[r] EXCEPT !.pc = "get", !.since = ledgerBalance, !.raced = FALSE]
<1>1. /\ BalanceFeedTypeOK /\ ledgerBalance \in Balances /\ ledgerBalance \in Nat /\ job \in Jobs
      /\ horizonEvents <= ledgerBalance /\ r \in FeedJobs
  BY FeedTypes DEF FeedInv
<1>2. job[r] \in Job
  BY <1>1, FeedTypes DEF DropCache
<1>3. job' = [job EXCEPT ![r] = x]
  BY <1>1 DEF DropCache, Jobs
<1>4. x \in Job /\ x.pc = "get" /\ x.since = ledgerBalance
  BY <1>1, <1>2, JobDrops
<1> HIDE DEF x
<1>5. job' \in Jobs /\ job'[r] = x /\ \A d \in FeedJobs \ {r} : job'[d] = job[d]
  BY <1>1, <1>3, <1>4, JobChanges
<1>6. CacheIsEmpty'
  BY DEF DropCache, CacheIsEmpty
<1>7. BalanceFeedTypeOK'
  BY <1>1, <1>5 DEF DropCache, BalanceFeedTypeOK, Jobs
<1>8. UpToDate(x, ledgerBalance, CacheIsEmpty')
  BY <1>1, <1>4, <1>6 DEF UpToDate
<1>9. \A s \in Refreshes : \/ job'[s] = job[s] /\ (CacheIsEmpty => CacheIsEmpty')
                           \/ UpToDate(job'[s], ledgerBalance, CacheIsEmpty')
  BY <1>5, <1>6, <1>8 DEF FeedJobs
<1>10. UNCHANGED <<ledgerBalance, horizonEvents>>
  BY DEF DropCache
<1> QED
  BY <1>1, <1>7, <1>9, <1>10, FeedStays

\* One job of many is replaced.
LEMMA ReplacedStays ==
    ASSUME NEW js \in Jobs, NEW j \in FeedJobs, NEW x \in Job \cup {NoJob},
           NEW ledger, NEW empty, \A s \in Refreshes : UpToDate(js[s], ledger, empty),
           UpToDate(x, ledger, empty), NEW fs, fs = [js EXCEPT ![j] = x]
    PROVE  fs \in Jobs /\ \A s \in Refreshes : UpToDate(fs[s], ledger, empty)
<1>1. fs \in Jobs /\ \A s \in FeedJobs : fs[s] = IF s = j THEN x ELSE js[s]
  BY DEF Jobs
<1> QED
  BY <1>1 DEF FeedJobs

LEMMA AfterKeeps ==
    ASSUME FeedInv, NEW r \in Refreshes, job[r] \in Job
    PROVE  /\ AfterRefresh(r) \in Jobs
           /\ \A s \in Refreshes : UpToDate(AfterRefresh(r)[s], ledgerBalance, CacheIsEmpty)
<1>1. BalanceFeedTypeOK /\ job \in Jobs /\ r \in FeedJobs
  BY FeedTypes DEF FeedInv
<1>2. \A s \in Refreshes : s \in FeedJobs /\ UpToDate(job[s], ledgerBalance, CacheIsEmpty)
  BY DEF FeedInv, FeedJobs
<1>3. UpToDate(NoJob, ledgerBalance, CacheIsEmpty)
  BY DEF UpToDate
<1>4. CASE job[r].pending /\ streamEntry.subscribers # {} /\ Running \ {r} # {}
  <2> DEFINE s == CHOOSE t \in Running \ {r} : TRUE
             x == [job[s] EXCEPT !.pending = TRUE]
             js == [job EXCEPT ![s] = x]
  <2>1. s \in Running \ {r}
    BY <1>4
  <2>2. AfterRefresh(r) = [js EXCEPT ![r] = NoJob]
    BY <1>1, <1>4 DEF AfterRefresh, Jobs
  <2> HIDE DEF s
  <2>3. s \in Refreshes /\ job[s] \in Job
    BY <1>1, <2>1, FeedTypes DEF Running
  <2>4. x \in Job /\ UpToDate(x, ledgerBalance, CacheIsEmpty)
    BY <1>2, <2>3, AskedAgainStays
  <2> HIDE DEF x
  <2> HIDE DEF js
  <2>5. js \in Jobs /\ \A t \in Refreshes : UpToDate(js[t], ledgerBalance, CacheIsEmpty)
    BY <1>1, <1>2, <2>3, <2>4, ReplacedStays DEF js, FeedJobs
  <2> QED
    BY <1>1, <1>3, <2>2, <2>5, ReplacedStays
<1>5. CASE job[r].pending /\ streamEntry.subscribers # {} /\ Running \ {r} = {}
  <2>1. AfterRefresh(r) = [job EXCEPT ![r] = Refreshing]
    BY <1>5 DEF AfterRefresh
  <2> QED
    BY <1>1, <1>2, <2>1, RefreshingIsFresh, ReplacedStays
<1>6. CASE ~(job[r].pending /\ streamEntry.subscribers # {})
  <2>1. AfterRefresh(r) = [job EXCEPT ![r] = NoJob]
    BY <1>6 DEF AfterRefresh
  <2> QED
    BY <1>1, <1>2, <1>3, <2>1, ReplacedStays
<1> QED
  BY <1>4, <1>5, <1>6

LEMMA BroadcastKeeps ==
    ASSUME FeedInv, NEW r \in Refreshes, Broadcast(r)
    PROVE  FeedInv'
<1>1. BalanceFeedTypeOK /\ r \in FeedJobs
  BY FeedTypes DEF FeedInv
<1>2. job[r] \in Job
  BY <1>1, FeedTypes DEF Broadcast
<1>3. job' = AfterRefresh(r)
  BY DEF Broadcast
<1>4. job' \in Jobs /\ \A s \in Refreshes : UpToDate(job'[s], ledgerBalance, CacheIsEmpty)
  BY <1>2, <1>3, AfterKeeps
<1>5. clientBalance' \in [Clients -> Balances \cup {-1}]
  BY <1>1, <1>2, JobShapes DEF BalanceFeedTypeOK, Broadcast
<1>6. UNCHANGED <<ledgerBalance, redisReady, redisEntry, lruEntry, streamEntry, horizonEvents, refreshedAt, feedFaults>>
  BY DEF Broadcast
<1>7. BalanceFeedTypeOK'
  BY <1>1, <1>4, <1>5, <1>6 DEF BalanceFeedTypeOK, Jobs
<1> QED
  BY <1>4, <1>6, <1>7 DEF FeedInv, CacheIsEmpty

LEMMA FailKeeps ==
    ASSUME FeedInv, NEW j \in FeedJobs, LoadFails(j)
    PROVE  FeedInv'
<1>1. BalanceFeedTypeOK /\ horizonEvents \in Nat /\ horizonEvents <= ledgerBalance
  BY FeedTypes DEF FeedInv
<1>2. job[j] \in Job
  BY <1>1, FeedTypes DEF LoadFails
<1>3. feedFaults' \in 0 .. MaxFeedFaults
  BY <1>1, FeedNumbers DEF LoadFails, FeedFault, BalanceFeedTypeOK
<1>4. UNCHANGED <<ledgerBalance, redisReady, redisEntry, lruEntry, streamEntry, horizonEvents, clientBalance, refreshedAt>>
  BY DEF LoadFails
<1>5. CASE j \in Refreshes
  <2>1. job' = AfterRefresh(j)
    BY <1>5 DEF LoadFails
  <2>2. job' \in Jobs /\ \A s \in Refreshes : UpToDate(job'[s], ledgerBalance, CacheIsEmpty)
    BY <1>2, <1>5, <2>1, AfterKeeps
  <2>3. BalanceFeedTypeOK'
    BY <1>1, <1>3, <1>4, <2>2 DEF BalanceFeedTypeOK, Jobs
  <2> QED
    BY <1>1, <1>4, <2>2, <2>3 DEF FeedInv, CacheIsEmpty
<1>6. CASE j \notin Refreshes
  <2>1. job' = [job EXCEPT ![j] = NoJob]
    BY <1>6 DEF LoadFails
  <2>2. horizonEvents \in 0 .. horizonEvents
    BY <1>1
  <2> QED
    BY <1>1, <1>3, <1>4, <1>6, <2>1, <2>2, OneJobKeeps DEF BalanceFeedTypeOK
<1> QED
  BY <1>5, <1>6

LEMMA FeedStep ==
    ASSUME FeedInv, [BalanceFeedNext]_balanceFeedVars
    PROVE  FeedInv'
<1>1. ASSUME PaymentMade \/ RedisFlaps \/ TimePasses \/ PaymentReported PROVE FeedInv'
  BY <1>1, PaymentKeeps, FlapKeeps, AgeingKeeps, ReportKeeps
<1>2. ASSUME NEW j \in FeedJobs, JobStep(j) PROVE FeedInv'
  BY <1>2, GetKeeps, LoadKeeps, SetKeeps DEF JobStep
<1>3. ASSUME NEW r \in Readers, StartReader(r) \/ ReaderStep(r) PROVE FeedInv'
  BY <1>2, <1>3, ReaderKeeps, ReaderAnswersKeeps DEF ReaderStep, FeedJobs
<1>4. ASSUME NEW c \in Clients, Subscribe(c) \/ Unsubscribe(c) \/ ClientStep(c) PROVE FeedInv'
  BY <1>2, <1>4, SubscribeKeeps, UnsubscribeKeeps, SeedKeeps DEF ClientStep, FeedJobs
<1>5. ASSUME NEW r \in Refreshes, RefreshStep(r) PROVE FeedInv'
  BY <1>2, <1>5, DropKeeps, BroadcastKeeps DEF RefreshStep, FeedJobs
<1>6. ASSUME UNCHANGED balanceFeedVars PROVE FeedInv'
  BY <1>6 DEF balanceFeedVars, FeedInv, BalanceFeedTypeOK, CacheIsEmpty
<1> QED
  BY <1>1, <1>3, <1>4, <1>5, <1>6, FailKeeps DEF BalanceFeedNext

(***************************************************************************)
(* balanceStreamService.js over cacheService.js: for any clients, readers  *)
(* and refreshes, any lifetimes and any bounds, a refresh that was not     *)
(* raced pushes a balance at least as new as the ledger at the moment it   *)
(* dropped the cache.                                                      *)
(***************************************************************************)
THEOREM RefreshesStayFresh == BalanceFeedSpec => []RefreshIsFresh
<1>1. FeedInv /\ [BalanceFeedNext]_balanceFeedVars => FeedInv'
  BY FeedStep
<1>2. FeedInv => RefreshIsFresh
  BY FeedTypes, JobShapes DEF FeedInv, UpToDate, RefreshIsFresh
<1> QED
  BY FeedStart, <1>1, <1>2, PTL DEF BalanceFeedSpec
================================================================================
