------------------------------ MODULE EventIndexer ------------------------------
(***************************************************************************)
(* The contract event indexer (eventIndexer.js) with PostgreSQL: backend   *)
(* processes poll the Soroban RPC, insert the events of the ledgers after  *)
(* their cursor in one transaction with the cursor, and notify.  A ledger  *)
(* holds no event, one event, or one that parseEvent throws on; an event   *)
(* is named by its ledger.  The in-memory fallback store is left out.      *)
(***************************************************************************)
EXTENDS Integers, FiniteSets

CONSTANTS
    Indexers,                  \* backend processes that run the indexer
    MaxLedger, MaxIndexerFaults   \* bounds of the model

ASSUME IndexerAssumption == {MaxLedger, MaxIndexerFaults} \subseteq Nat

VARIABLES
    chain,            \* content of the closed ledgers
    contractEvents,   \* table contract_events
    savedCursor,      \* indexer_state.last_processed_ledger
    cursor,           \* lastProcessedLedger of a process
    poll,             \* pollOnce of a process
    pushed,           \* history: how often an event was pushed, up to twice
    missed,           \* history: ledgers whose events an error in place of a page hid
    indexerFaults     \* RPC errors, rolled back transactions and crashes so far

indexerVars == <<chain, contractEvents, savedCursor, cursor, poll, pushed, missed, indexerFaults>>

Ledgers == 1 .. MaxLedger
NotPolling == [pc |-> "idle"]
Poll == [pc : {"fetch", "store", "notify", "advance"}, start : Ledgers, latest : Ledgers,
         raw : SUBSET Ledgers, clean : BOOLEAN]

\* Type invariant.
IndexerTypeOK ==
    /\ \E n \in 0 .. MaxLedger : chain \in [1 .. n -> {"empty", "event", "garbled"}]
    /\ contractEvents \subseteq Ledgers
    /\ savedCursor \in 0 .. MaxLedger
    /\ cursor \in [Indexers -> 0 .. MaxLedger]
    /\ poll \in [Indexers -> Poll \cup {NotPolling}]
    /\ pushed \in [Ledgers -> 0 .. 2] /\ missed \subseteq Ledgers
    /\ indexerFaults \in 0 .. MaxIndexerFaults

IndexerInit ==
    /\ chain = [n \in {} |-> "empty"]
    /\ contractEvents = {}
    /\ savedCursor = 0
    /\ cursor = [i \in Indexers |-> 0]
    /\ poll = [i \in Indexers |-> NotPolling]
    /\ pushed = [n \in Ledgers |-> 0] /\ missed = {}
    /\ indexerFaults = 0

\* The network.
LatestLedger == Cardinality(DOMAIN chain)

CloseLedger ==
    /\ LatestLedger < MaxLedger
    /\ \E kind \in {"empty", "event", "garbled"} :
         chain' = [n \in 1 .. LatestLedger + 1 |-> IF n \in DOMAIN chain THEN chain[n] ELSE kind]
    /\ UNCHANGED <<contractEvents, savedCursor, cursor, poll, pushed, missed, indexerFaults>>

Events(first, last) == {n \in DOMAIN chain : n \in first .. last /\ chain[n] # "empty"}
Parsed(raw) == {n \in raw : chain[n] = "event"}

IndexerFault ==
    /\ indexerFaults < MaxIndexerFaults
    /\ indexerFaults' = indexerFaults + 1

--------------------------------------------------------------------------------
(* pollOnce *)

PollStart_SkipFault(i) == cursor[i] + 2
PollStart(i) == cursor[i] + 1

\* isPolling is false; getLatestLedger answered and there is something new.
StartPoll(i) ==
    /\ poll[i] = NotPolling
    /\ PollStart(i) <= LatestLedger
    /\ poll' = [poll EXCEPT ![i] =
         [pc |-> "fetch", start |-> PollStart(i), latest |-> LatestLedger, raw |-> {}, clean |-> TRUE]]
    /\ UNCHANGED <<chain, contractEvents, savedCursor, cursor, pushed, missed, indexerFaults>>

\* What pollOnce does next with the events getEvents returned.
Fetched(i, raw) ==
    [poll EXCEPT ![i] = [@ EXCEPT !.pc = IF raw = {} THEN "advance" ELSE "store", !.raw = raw,
                                  !.clean = raw = Parsed(raw)]]

\* getEvents.  endLedger goes with the first page only: later pages may run on
\* into ledgers closed meanwhile.
FetchEvents(i) ==
    /\ poll[i].pc = "fetch"
    /\ \E last \in poll[i].latest .. LatestLedger : poll' = Fetched(i, Events(poll[i].start, last))
    /\ UNCHANGED <<chain, contractEvents, savedCursor, cursor, pushed, missed, indexerFaults>>

\* A JSON-RPC error answered with HTTP 200 has no result: getEvents takes it for a
\* last page without events and returns what the pages before it held, possibly
\* nothing; the poll goes on as if that were all.
FetchCutOff(i) ==
    /\ poll[i].pc = "fetch"
    /\ IndexerFault
    /\ \E last \in poll[i].start - 1 .. poll[i].latest - 1 :
         /\ poll' = Fetched(i, Events(poll[i].start, last))
         /\ missed' = missed \cup Events(last + 1, poll[i].latest)
    /\ UNCHANGED <<chain, contractEvents, savedCursor, cursor, pushed>>

\* fetchWithRetry gave up: the poll ends.
FetchFails(i) ==
    /\ poll[i].pc = "fetch"
    /\ IndexerFault
    /\ poll' = [poll EXCEPT ![i] = NotPolling]
    /\ UNCHANGED <<chain, contractEvents, savedCursor, cursor, pushed, missed>>

StoreEvents_CursorFault(i) ==
    LET rows == Parsed(poll[i].raw)
        clean == poll[i].clean /\ rows \cap contractEvents = {} IN
    /\ poll[i].pc = "store"
    /\ \/ /\ contractEvents' = contractEvents \cup rows
          /\ UNCHANGED indexerFaults
       \/ IndexerFault /\ UNCHANGED contractEvents
    /\ savedCursor' = IF clean THEN poll[i].latest ELSE savedCursor
    /\ poll' = [poll EXCEPT ![i] = [@ EXCEPT !.pc = "notify", !.clean = clean]]
    /\ UNCHANGED <<chain, cursor, pushed, missed>>

\* storeEvents: the rows that are new, and the cursor if every event was parsed
\* and none was there before, in one transaction, which may be rolled back.
StoreEvents(i) ==
    LET rows == Parsed(poll[i].raw)
        clean == poll[i].clean /\ rows \cap contractEvents = {} IN
    /\ poll[i].pc = "store"
    /\ \/ /\ contractEvents' = contractEvents \cup rows
          /\ savedCursor' = IF clean /\ rows # {} THEN poll[i].latest ELSE savedCursor
          /\ poll' = [poll EXCEPT ![i] = [@ EXCEPT !.pc = "notify", !.clean = clean]]
          /\ UNCHANGED indexerFaults
       \/ /\ rows # {}
          /\ IndexerFault
          /\ poll' = [poll EXCEPT ![i] = [@ EXCEPT !.pc = "notify", !.clean = FALSE]]
          /\ UNCHANGED <<contractEvents, savedCursor>>
    /\ UNCHANGED <<chain, cursor, pushed, missed>>

\* notifyContractEvents gets every parsed event, stored or not, new or not.
NotifyEvents(i) ==
    /\ poll[i].pc = "notify"
    /\ pushed' = [n \in Ledgers |-> IF n \in Parsed(poll[i].raw) /\ pushed[n] < 2
                                      THEN pushed[n] + 1 ELSE pushed[n]]
    /\ poll' = [poll EXCEPT ![i].pc = "advance"]
    /\ UNCHANGED <<chain, contractEvents, savedCursor, cursor, missed, indexerFaults>>

\* The end of pollOnce: a cleanly indexed range moves the cursor of the process,
\* a range without events also the saved one (saveCursor), whatever it is by now.
AdvanceCursor(i) ==
    /\ poll[i].pc = "advance"
    /\ cursor' = IF poll[i].clean THEN [cursor EXCEPT ![i] = poll[i].latest] ELSE cursor
    /\ savedCursor' = IF poll[i].raw = {} THEN poll[i].latest ELSE savedCursor
    /\ poll' = [poll EXCEPT ![i] = NotPolling]
    /\ UNCHANGED <<chain, contractEvents, pushed, missed, indexerFaults>>

\* The process dies and start loads the cursor, or keeps 0 when the query fails.
Restart(i) ==
    /\ IndexerFault
    /\ cursor' \in {[cursor EXCEPT ![i] = savedCursor], [cursor EXCEPT ![i] = 0]}
    /\ poll' = [poll EXCEPT ![i] = NotPolling]
    /\ UNCHANGED <<chain, contractEvents, savedCursor, pushed, missed>>

--------------------------------------------------------------------------------
IndexerStep(i) ==
    \/ StartPoll(i) \/ FetchEvents(i) \/ StoreEvents(i) \/ NotifyEvents(i) \/ AdvanceCursor(i)

IndexerNext ==
    \/ CloseLedger
    \/ \E i \in Indexers : IndexerStep(i) \/ FetchFails(i) \/ FetchCutOff(i) \/ Restart(i)

IndexerSpec == IndexerInit /\ [][IndexerNext]_indexerVars

--------------------------------------------------------------------------------
(* No event is skipped but those that an error in place of a page hid: any  *)
(* other event of a ledger at or below a cursor, the saved one or that of a *)
(* process, is in the table, whatever conflicts, rolled back transactions,  *)
(* parse failures, restarts and racing processes did to the batch.          *)
NoEventSkipped ==
    \A n \in DOMAIN chain :
      (n <= savedCursor \/ \E i \in Indexers : n <= cursor[i]) /\ chain[n] # "empty"
        => n \in contractEvents \cup missed

(* Every event that can be parsed is eventually stored, even by a process   *)
(* whose cursor a conflict or an unparsable event holds back for good,      *)
(* unless an error in place of a page hides it.                             *)
EveryEventIsStored ==
    \A n \in Ledgers :
      (n \in DOMAIN chain /\ chain[n] = "event") ~> (n \in contractEvents \cup missed)

(* An event in the table is pushed to its participants, unless a fault came *)
(* between the COMMIT and the notification.                                 *)
StoredIsNotified ==
    \A n \in Ledgers : (n \in contractEvents) ~> (pushed[n] > 0 \/ indexerFaults > 0)

(* Every event that can be parsed and is not hidden by an error is stored   *)
(* and, unless a fault comes in between, pushed.                            *)
EventsAreIndexed == EveryEventIsStored /\ StoredIsNotified
================================================================================
