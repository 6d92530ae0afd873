------------------------------ MODULE OfflineQueue ------------------------------
(***************************************************************************)
(* The browser's queue of payments made offline (lib/offlineQueue.ts,      *)
(* public/sw.js): two IndexedDB stores shared by the tabs and the service  *)
(* worker.  "transactions" holds signed transactions; processQueue (a tab) *)
(* and drainQueue (the worker) submit them.  "entries" holds generic       *)
(* entries; only the worker's drainGenericQueue reads them, because        *)
(* processQueue never calls processGenericQueue.  Runs overlap: each works *)
(* through the records it read at its start and writes them back whole.    *)
(***************************************************************************)
EXTENDS Naturals, FiniteSets

CONSTANTS
    TxIds,               \* ids of signed transactions
    EntryIds,            \* ids of generic entries
    Drains,              \* concurrent runs of processQueue and drainQueue
    SwDrains,            \* those of the service worker
    QUEUE_MAX_RETRIES,
    MaxKills             \* bound of the model: closed tabs and stopped workers

ASSUME OfflineAssumption ==
    /\ SwDrains \subseteq Drains /\ TxIds \cap EntryIds = {}
    /\ QUEUE_MAX_RETRIES \in Nat \ {0} /\ MaxKills \in Nat

VARIABLES
    txStore,        \* store "transactions": status of a record
    entryStore,     \* store "entries"
    drain,          \* runs over the queue
    online,         \* the browser is connected
    onLedger,       \* history: transactions the network has applied
    removed,        \* history: records the user removed
    sent,           \* history: records posted to Horizon
    kills

offlineVars == <<txStore, entryStore, drain, online, onLedger, removed, sent, kills>>

NoEntry == [status |-> "absent"]
Entry == [status : {"pending", "processing", "failed"}, signed : BOOLEAN,
          retryCount : 0 .. QUEUE_MAX_RETRIES, waiting : BOOLEAN]
NotDraining == [pc |-> "idle"]
\* todo: the records read at the start; entry: the entry as it was read.
Draining == [pc : {"tx", "txSubmit", "txOk", "txFailed", "entries",
                   "entry", "entrySubmit", "entryOk", "entryFailed"},
             todo : SUBSET (TxIds \cup EntryIds), id : TxIds \cup EntryIds \cup {"none"},
             retryCount : [EntryIds -> 0 .. QUEUE_MAX_RETRIES]]

\* Type invariant.
OfflineTypeOK ==
    /\ txStore \in [TxIds -> {"unborn", "absent", "queued", "submitting", "failed"}]
    /\ entryStore \in [EntryIds -> Entry \cup {NoEntry, [status |-> "unborn"]}]
    /\ drain \in [Drains -> Draining \cup {NotDraining}]
    /\ online \in BOOLEAN
    /\ onLedger \subseteq TxIds \cup EntryIds /\ removed \subseteq TxIds \cup EntryIds
    /\ sent \subseteq TxIds \cup EntryIds
    /\ kills \in 0 .. MaxKills

OfflineInit ==
    /\ txStore = [t \in TxIds |-> "unborn"]
    /\ entryStore = [e \in EntryIds |-> [status |-> "unborn"]]
    /\ drain = [d \in Drains |-> NotDraining]
    /\ online = FALSE
    /\ onLedger = {} /\ removed = {} /\ sent = {} /\ kills = 0

--------------------------------------------------------------------------------
(* The user *)

\* queueTransaction, called with a signed transaction while offline.
QueueTransaction(t) ==
    /\ txStore[t] = "unborn" /\ ~online
    /\ txStore' = [txStore EXCEPT ![t] = "queued"]
    /\ UNCHANGED <<entryStore, drain, online, onLedger, removed, sent, kills>>

\* enqueue; the composer stores an unsigned payment.
Enqueue(e, signed) ==
    /\ entryStore[e].status = "unborn"
    /\ entryStore' = [entryStore EXCEPT ![e] =
         [status |-> "pending", signed |-> signed, retryCount |-> 0, waiting |-> FALSE]]
    /\ UNCHANGED <<txStore, drain, online, onLedger, removed, sent, kills>>

\* removeTransaction: the button is hidden for a record being submitted.
RemoveTransaction(t) ==
    /\ txStore[t] \in {"queued", "failed"}
    /\ txStore' = [txStore EXCEPT ![t] = "absent"]
    /\ removed' = removed \cup {t}
    /\ UNCHANGED <<entryStore, drain, online, onLedger, sent, kills>>

\* remove, from the composer's list.
RemoveEntry(e) ==
    /\ entryStore[e] \in Entry
    /\ entryStore' = [entryStore EXCEPT ![e] = NoEntry]
    /\ removed' = removed \cup {e}
    /\ UNCHANGED <<txStore, drain, online, onLedger, sent, kills>>

ConnectivityChanges ==
    /\ online' = ~online
    /\ UNCHANGED <<txStore, entryStore, drain, onLedger, removed, sent, kills>>

--------------------------------------------------------------------------------
(* processQueue and drainQueue: signed transactions *)

DrainableTxs_NewOnlyFault == {t \in TxIds : txStore[t] = "failed"}
DrainableTxs == {t \in TxIds : txStore[t] \in {"queued", "failed"}}

\* Started by the online event, a sync event or a retry button.
StartDrain(d) ==
    /\ drain[d] = NotDraining /\ online
    /\ DrainableTxs # {} \/ (d \in SwDrains /\ \E e \in EntryIds : entryStore[e] \in Entry)
    /\ drain' = [drain EXCEPT ![d] =
         [pc |-> "tx", todo |-> DrainableTxs, id |-> "none", retryCount |-> [e \in EntryIds |-> 0]]]
    /\ UNCHANGED <<txStore, entryStore, online, onLedger, removed, sent, kills>>

\* A run takes a record out of those it read.
Taking(job, pc, id) == [job EXCEPT !.pc = pc, !.id = id, !.todo = @ \ {id}]

\* The next record is put back as submitting, also if it has been deleted since.
\* A tab stops after the last one, the worker goes on with the entries.
DrainNextTx(d) ==
    /\ drain[d].pc = "tx"
    /\ \/ \E t \in drain[d].todo :
            /\ txStore' = [txStore EXCEPT ![t] = "submitting"]
            /\ drain' = [drain EXCEPT ![d] = Taking(@, "txSubmit", t)]
       \/ /\ drain[d].todo = {}
          /\ drain' = [drain EXCEPT ![d] = IF d \in SwDrains THEN [@ EXCEPT !.pc = "entries"] ELSE NotDraining]
          /\ UNCHANGED txStore
    /\ UNCHANGED <<entryStore, online, onLedger, removed, sent, kills>>

\* The POST to Horizon (external).  A transaction is applied at most once; an
\* error, say a timeout, may hide that it was applied.
Post(id, accepted) ==
    /\ sent' = sent \cup {id}
    /\ IF accepted THEN online /\ onLedger' = onLedger \cup {id}
       ELSE onLedger' \in {onLedger} \cup (IF online THEN {onLedger \cup {id}} ELSE {})

SubmitTx(d) ==
    /\ drain[d].pc = "txSubmit"
    /\ \E accepted \in BOOLEAN :
         /\ Post(drain[d].id, accepted)
         /\ drain' = [drain EXCEPT ![d].pc = IF accepted THEN "txOk" ELSE "txFailed"]
    /\ UNCHANGED <<txStore, entryStore, online, removed, kills>>

DropTx_OnFailureFault(d) ==
    /\ drain[d].pc \in {"txOk", "txFailed"}
    /\ txStore' = [txStore EXCEPT ![drain[d].id] = "absent"]
    /\ drain' = [drain EXCEPT ![d] = [@ EXCEPT !.pc = "tx", !.id = "none"]]
    /\ UNCHANGED <<entryStore, online, onLedger, removed, sent, kills>>

DropTx(d) ==
    /\ drain[d].pc = "txOk"
    /\ txStore' = [txStore EXCEPT ![drain[d].id] = "absent"]
    /\ drain' = [drain EXCEPT ![d] = [@ EXCEPT !.pc = "tx", !.id = "none"]]
    /\ UNCHANGED <<entryStore, online, onLedger, removed, sent, kills>>

\* updateTransaction puts the whole record back: a deleted one returns as failed.
FailTx(d) ==
    /\ drain[d].pc = "txFailed"
    /\ txStore' = [txStore EXCEPT ![drain[d].id] = "failed"]
    /\ drain' = [drain EXCEPT ![d] = [@ EXCEPT !.pc = "tx", !.id = "none"]]
    /\ UNCHANGED <<entryStore, online, onLedger, removed, sent, kills>>

--------------------------------------------------------------------------------
(* drainGenericQueue *)

Eligible(e) ==
    /\ entryStore[e] \in Entry
    /\ entryStore[e].status \in {"pending", "failed"}
    /\ entryStore[e].retryCount < QUEUE_MAX_RETRIES
    /\ ~entryStore[e].waiting
    /\ entryStore[e].signed           \* an unsigned payment is left to a window

ReadEntries(d) ==
    /\ drain[d].pc = "entries"
    /\ drain' = [drain EXCEPT ![d] =
         [@ EXCEPT !.pc = "entry", !.todo = {e \in EntryIds : Eligible(e)},
                   !.retryCount = [e \in EntryIds |-> IF Eligible(e) THEN entryStore[e].retryCount ELSE 0]]]
    /\ UNCHANGED <<txStore, entryStore, online, onLedger, removed, sent, kills>>

\* putGenericEntry writes the entry as it was read.
DrainNextEntry(d) ==
    /\ drain[d].pc = "entry"
    /\ \/ \E e \in drain[d].todo :
            /\ entryStore' = [entryStore EXCEPT ![e] =
                 [status |-> "processing", signed |-> TRUE, retryCount |-> drain[d].retryCount[e], waiting |-> FALSE]]
            /\ drain' = [drain EXCEPT ![d] = Taking(@, "entrySubmit", e)]
       \/ /\ drain[d].todo = {}
          /\ drain' = [drain EXCEPT ![d] = NotDraining]
          /\ UNCHANGED entryStore
    /\ UNCHANGED <<txStore, online, onLedger, removed, sent, kills>>

SubmitEntry(d) ==
    /\ drain[d].pc = "entrySubmit"
    /\ \E accepted \in BOOLEAN :
         /\ Post(drain[d].id, accepted)
         /\ drain' = [drain EXCEPT ![d].pc = IF accepted THEN "entryOk" ELSE "entryFailed"]
    /\ UNCHANGED <<txStore, entryStore, online, removed, kills>>

DropEntry(d) ==
    /\ drain[d].pc = "entryOk"
    /\ entryStore' = [entryStore EXCEPT ![drain[d].id] = NoEntry]
    /\ drain' = [drain EXCEPT ![d] = [@ EXCEPT !.pc = "entry", !.id = "none"]]
    /\ UNCHANGED <<txStore, online, onLedger, removed, sent, kills>>

FailEntry(d) ==
    /\ drain[d].pc = "entryFailed"
    /\ entryStore' = [entryStore EXCEPT ![drain[d].id] =
         [status |-> "failed", signed |-> TRUE, retryCount |-> drain[d].retryCount[drain[d].id] + 1,
          waiting |-> TRUE]]
    /\ drain' = [drain EXCEPT ![d] = [@ EXCEPT !.pc = "entry", !.id = "none"]]
    /\ UNCHANGED <<txStore, online, onLedger, removed, sent, kills>>

\* nextRetryAt passes.
BackoffEnds(e) ==
    /\ entryStore[e] \in Entry /\ entryStore[e].waiting
    /\ entryStore' = [entryStore EXCEPT ![e].waiting = FALSE]
    /\ UNCHANGED <<txStore, drain, online, onLedger, removed, sent, kills>>

\* The tab is closed or the browser stops the worker.
Killed(d) ==
    /\ kills < MaxKills /\ drain[d] # NotDraining
    /\ kills' = kills + 1
    /\ drain' = [drain EXCEPT ![d] = NotDraining]
    /\ UNCHANGED <<txStore, entryStore, online, onLedger, removed, sent>>

--------------------------------------------------------------------------------
DrainStep(d) ==
    \/ DrainNextTx(d) \/ SubmitTx(d) \/ DropTx(d) \/ FailTx(d)
    \/ ReadEntries(d) \/ DrainNextEntry(d) \/ SubmitEntry(d) \/ DropEntry(d) \/ FailEntry(d)

OfflineNext ==
    \/ \E t \in TxIds : QueueTransaction(t) \/ RemoveTransaction(t)
    \/ \E e \in EntryIds : RemoveEntry(e) \/ BackoffEnds(e) \/ \E signed \in BOOLEAN : Enqueue(e, signed)
    \/ ConnectivityChanges
    \/ \E d \in Drains : StartDrain(d) \/ DrainStep(d) \/ Killed(d)

--------------------------------------------------------------------------------
(* No payment is lost: a record leaves the stores only when its transaction *)
(* was applied by the network or the user removed it, although overlapping  *)
(* runs delete, put back and overwrite each other's records.                *)
NoPaymentLost ==
    /\ \A t \in TxIds : txStore[t] = "absent" => t \in onLedger \cup removed
    /\ \A e \in EntryIds : entryStore[e] = NoEntry => e \in onLedger \cup removed

(* Every queued transaction is posted to the network or removed, as long as *)
(* no tab or worker is stopped: a run that dies after marking a record as   *)
(* submitting leaves it so, and no run picks it up again.                   *)
QueuedIsSent ==
    \A t \in TxIds : (txStore[t] = "queued") ~> (t \in sent \cup removed \/ kills > 0)
================================================================================
