---------------------------- MODULE DeliveryProofs ----------------------------
(***************************************************************************)
(* Theorems about what is handed over for delivery: payments sent from the *)
(* form (SendPayment) or queued in the browser (OfflineQueue), events sent *)
(* to webhooks (WebhookDelivery), the anchor's callbacks (AnchorCallbacks) *)
(* and queued mail (EmailQueue), for every number of records, runs,        *)
(* requests and faults.  In each of the five several runs work on copies   *)
(* of the same rows or on one form, so the invariants speak of what a run  *)
(* under way knows: what it has sent, for which row, and who else may have *)
(* it.                                                                     *)
(***************************************************************************)
EXTENDS OfflineQueue, WebhookDelivery, AnchorCallbacks, EmailQueue, SendPayment, Integers,
        FiniteSetTheorems, TLAPS

-----------------------------------------------------------------------------
(***************************************************************************)
(* The offline queue.  A run deletes a record only after the network       *)
(* accepted it, so its program counter says that the transaction is on the *)
(* ledger, whatever other runs do with the record meanwhile.               *)
(***************************************************************************)
OfflineSpec == OfflineInit /\ [][OfflineNext]_offlineVars

\* A run over the signed transactions, or over the generic entries.
DrainsTxs(r) ==
    /\ r.pc = "tx" => r.todo \subseteq TxIds
    /\ r.pc \in {"txSubmit", "txOk", "txFailed"} => r.todo \subseteq TxIds /\ r.id \in TxIds
DrainsEntries(r) ==
    /\ r.pc = "entry" => r.todo \subseteq EntryIds
    /\ r.pc \in {"entrySubmit", "entryOk", "entryFailed"} => r.todo \subseteq EntryIds /\ r.id \in EntryIds
RetriesLeft(r) == \A e \in EntryIds : r.retryCount[e] < QUEUE_MAX_RETRIES

DrainsKnowTheirRecords ==
    \A d \in Drains : drain[d] # NotDraining =>
        DrainsTxs(drain[d]) /\ DrainsEntries(drain[d]) /\ RetriesLeft(drain[d])
AcceptedIsOnLedger == \A d \in Drains : drain[d].pc \in {"txOk", "entryOk"} => drain[d].id \in onLedger

OfflineInv == OfflineTypeOK /\ DrainsKnowTheirRecords /\ AcceptedIsOnLedger /\ NoPaymentLost

LEMMA OfflineStarts == OfflineInit => OfflineInv
<1> SUFFICES ASSUME OfflineInit PROVE OfflineInv
  OBVIOUS
<1>1. OfflineTypeOK
  <2>1. /\ txStore \in [TxIds -> {"unborn", "absent", "queued", "submitting", "failed"}]
        /\ entryStore \in [EntryIds -> Entry \cup {NoEntry, [status |-> "unborn"]}]
        /\ drain \in [Drains -> Draining \cup {NotDraining}]
    BY DEF OfflineInit
  <2>2. online \in BOOLEAN
    BY DEF OfflineInit
  <2>3. kills \in 0 .. MaxKills
    BY OfflineAssumption DEF OfflineInit
  <2> QED
    BY <2>1, <2>2, <2>3 DEF OfflineInit, OfflineTypeOK
<1>2. DrainsKnowTheirRecords /\ AcceptedIsOnLedger
  BY DEF OfflineInit, DrainsKnowTheirRecords, AcceptedIsOnLedger, NotDraining
<1>3. NoPaymentLost
  BY DEF OfflineInit, NoPaymentLost, NoEntry
<1> QED
  BY <1>1, <1>2, <1>3 DEF OfflineInv

\* One run goes on, and nothing leaves the ledger.
LEMMA DrainMoves ==
  ASSUME OfflineInv, NEW d \in Drains, NEW r \in Draining \cup {NotDraining},
         drain' = [drain EXCEPT ![d] = r],
         r # NotDraining => DrainsTxs(r) /\ DrainsEntries(r) /\ RetriesLeft(r),
         r.pc \in {"txOk", "entryOk"} => r.id \in onLedger',
         onLedger \subseteq onLedger'
  PROVE  /\ drain' \in [Drains -> Draining \cup {NotDraining}]
         /\ DrainsKnowTheirRecords' /\ AcceptedIsOnLedger'
<1>1. drain' \in [Drains -> Draining \cup {NotDraining}]
  BY DEF OfflineInv, OfflineTypeOK
<1>2. \A c \in Drains : drain'[c] = IF c = d THEN r ELSE drain[c]
  BY DEF OfflineInv, OfflineTypeOK
<1>3. \A c \in Drains : drain'[c] # NotDraining =>
        DrainsTxs(drain'[c]) /\ DrainsEntries(drain'[c]) /\ RetriesLeft(drain'[c])
  BY <1>2 DEF OfflineInv, DrainsKnowTheirRecords
<1>4. \A c \in Drains : drain'[c].pc \in {"txOk", "entryOk"} => drain'[c].id \in onLedger'
  BY <1>2 DEF OfflineInv, AcceptedIsOnLedger
<1> QED
  BY <1>1, <1>3, <1>4 DEF DrainsKnowTheirRecords, DrainsTxs, DrainsEntries, RetriesLeft, AcceptedIsOnLedger

\* What the state of one run says of it.
LEMMA DrainIsKnown ==
  ASSUME OfflineInv, NEW d \in Drains, drain[d].pc # "idle"
  PROVE  /\ drain[d] \in Draining
         /\ DrainsTxs(drain[d]) /\ DrainsEntries(drain[d]) /\ RetriesLeft(drain[d])
  BY DEF OfflineInv, OfflineTypeOK, NotDraining, DrainsKnowTheirRecords

LEMMA PostKeepsTheLedger ==
  ASSUME OfflineInv, NEW id \in TxIds \cup EntryIds, NEW accepted \in BOOLEAN, Post(id, accepted)
  PROVE  /\ onLedger \subseteq onLedger' /\ onLedger' \subseteq TxIds \cup EntryIds
         /\ sent' \subseteq TxIds \cup EntryIds
         /\ accepted => id \in onLedger'
  BY DEF OfflineInv, OfflineTypeOK, Post

-----------------------------------------------------------------------------
LEMMA UsersKeepOffline ==
  ASSUME OfflineInv,
         \/ \E t \in TxIds : QueueTransaction(t) \/ RemoveTransaction(t)
         \/ \E e \in EntryIds : RemoveEntry(e) \/ BackoffEnds(e) \/ \E signed \in BOOLEAN : Enqueue(e, signed)
         \/ ConnectivityChanges
  PROVE  OfflineInv'
<1>1. ASSUME NEW t \in TxIds, QueueTransaction(t) PROVE OfflineInv'
  BY <1>1 DEF OfflineInv, OfflineTypeOK, QueueTransaction, DrainsKnowTheirRecords, DrainsTxs,
     DrainsEntries, RetriesLeft, AcceptedIsOnLedger, NoPaymentLost
<1>2. ASSUME NEW t \in TxIds, RemoveTransaction(t) PROVE OfflineInv'
  BY <1>2 DEF OfflineInv, OfflineTypeOK, RemoveTransaction, DrainsKnowTheirRecords, DrainsTxs,
     DrainsEntries, RetriesLeft, AcceptedIsOnLedger, NoPaymentLost
<1>3. ASSUME NEW e \in EntryIds, RemoveEntry(e) PROVE OfflineInv'
  BY <1>3 DEF OfflineInv, OfflineTypeOK, RemoveEntry, DrainsKnowTheirRecords, DrainsTxs,
     DrainsEntries, RetriesLeft, AcceptedIsOnLedger, NoPaymentLost
<1>4. ASSUME NEW e \in EntryIds, BackoffEnds(e) PROVE OfflineInv'
  <2> DEFINE entry == [entryStore[e] EXCEPT !.waiting = FALSE]
  <2>1. entry \in Entry /\ entry # NoEntry
    BY <1>4 DEF BackoffEnds, Entry, NoEntry
  <2>2. entryStore' = [entryStore EXCEPT ![e] = entry]
    BY <1>4 DEF BackoffEnds
  <2> HIDE DEF entry
  <2> QED
    BY <1>4, <2>1, <2>2 DEF OfflineInv, OfflineTypeOK, BackoffEnds, DrainsKnowTheirRecords, DrainsTxs,
       DrainsEntries, RetriesLeft, AcceptedIsOnLedger, NoPaymentLost
<1>5. ASSUME NEW e \in EntryIds, NEW signed \in BOOLEAN, Enqueue(e, signed) PROVE OfflineInv'
  <2> DEFINE entry == [status |-> "pending", signed |-> signed, retryCount |-> 0, waiting |-> FALSE]
  <2>1. entry \in Entry /\ entry # NoEntry
    BY OfflineAssumption DEF Entry, NoEntry
  <2>2. entryStore' = [entryStore EXCEPT ![e] = entry]
    BY <1>5 DEF Enqueue
  <2> HIDE DEF entry
  <2> QED
    BY <1>5, <2>1, <2>2 DEF OfflineInv, OfflineTypeOK, Enqueue, DrainsKnowTheirRecords, DrainsTxs,
       DrainsEntries, RetriesLeft, AcceptedIsOnLedger, NoPaymentLost
<1>6. ASSUME ConnectivityChanges PROVE OfflineInv'
  BY <1>6 DEF OfflineInv, OfflineTypeOK, ConnectivityChanges, DrainsKnowTheirRecords, DrainsTxs,
     DrainsEntries, RetriesLeft, AcceptedIsOnLedger, NoPaymentLost
<1> QED
  BY <1>1, <1>2, <1>3, <1>4, <1>5, <1>6

\* Runs start, end, read the entries and are killed: no record changes.
LEMMA RunsKeepOffline ==
  ASSUME OfflineInv, NEW d \in Drains, StartDrain(d) \/ ReadEntries(d) \/ Killed(d)
  PROVE  OfflineInv'
<1>1. /\ onLedger' = onLedger /\ removed' = removed /\ sent' = sent /\ online' = online
      /\ txStore' = txStore /\ entryStore' = entryStore /\ kills' \in 0 .. MaxKills
  BY OfflineAssumption DEF StartDrain, ReadEntries, Killed, OfflineInv, OfflineTypeOK
<1>2. CASE StartDrain(d)
  <2> DEFINE r == [pc |-> "tx", todo |-> DrainableTxs, id |-> "none", retryCount |-> [e \in EntryIds |-> 0]]
  <2>1. r \in Draining
    BY OfflineAssumption DEF Draining, DrainableTxs
  <2>2. DrainsTxs(r) /\ DrainsEntries(r) /\ RetriesLeft(r) /\ r.pc = "tx"
    BY OfflineAssumption DEF DrainsTxs, DrainsEntries, RetriesLeft, DrainableTxs
  <2>3. drain' = [drain EXCEPT ![d] = r]
    BY <1>2 DEF StartDrain
  <2> HIDE DEF r
  <2>4. /\ drain' \in [Drains -> Draining \cup {NotDraining}]
        /\ DrainsKnowTheirRecords' /\ AcceptedIsOnLedger'
    BY <1>1, <2>1, <2>2, <2>3, DrainMoves
  <2> QED
    BY <1>1, <2>4 DEF OfflineInv, OfflineTypeOK, NoPaymentLost
<1>3. CASE ReadEntries(d)
  <2> DEFINE todo == {e \in EntryIds : Eligible(e)}
             count == [e \in EntryIds |-> IF Eligible(e) THEN entryStore[e].retryCount ELSE 0]
             r == [drain[d] EXCEPT !.pc = "entry", !.todo = todo, !.retryCount = count]
  <2>1. drain[d] \in Draining
    BY <1>3, DrainIsKnown DEF ReadEntries
  <2>2. todo \subseteq EntryIds /\ count \in [EntryIds -> 0 .. QUEUE_MAX_RETRIES]
    BY OfflineAssumption DEF Eligible, Entry
  <2>3. \A e \in EntryIds : count[e] < QUEUE_MAX_RETRIES
    BY OfflineAssumption DEF Eligible, Entry
  <2> HIDE DEF todo, count
  <2>4. r \in Draining /\ r.pc = "entry" /\ r.todo = todo /\ r.retryCount = count
    BY <2>1, <2>2 DEF Draining
  <2>5. drain' = [drain EXCEPT ![d] = r]
    BY <1>3 DEF ReadEntries, todo, count
  <2> HIDE DEF r
  <2>6. DrainsTxs(r) /\ DrainsEntries(r) /\ RetriesLeft(r)
    BY <2>2, <2>3, <2>4 DEF DrainsTxs, DrainsEntries, RetriesLeft
  <2>7. /\ drain' \in [Drains -> Draining \cup {NotDraining}]
        /\ DrainsKnowTheirRecords' /\ AcceptedIsOnLedger'
    BY <1>1, <2>4, <2>5, <2>6, DrainMoves
  <2> QED
    BY <1>1, <2>7 DEF OfflineInv, OfflineTypeOK, NoPaymentLost
<1>4. CASE Killed(d)
  <2>1. drain' = [drain EXCEPT ![d] = NotDraining] /\ NotDraining.pc = "idle"
    BY <1>4 DEF Killed, NotDraining
  <2>2. /\ drain' \in [Drains -> Draining \cup {NotDraining}]
        /\ DrainsKnowTheirRecords' /\ AcceptedIsOnLedger'
    BY <1>1, <2>1, DrainMoves
  <2> QED
    BY <1>1, <2>2 DEF OfflineInv, OfflineTypeOK, NoPaymentLost
<1> QED
  BY <1>2, <1>3, <1>4

\* The next record is put back, so it is there again.
LEMMA NextRecordsKeepOffline ==
  ASSUME OfflineInv, NEW d \in Drains, DrainNextTx(d) \/ DrainNextEntry(d)
  PROVE  OfflineInv'
<1>1. /\ onLedger' = onLedger /\ removed' = removed /\ sent' = sent /\ online' = online /\ kills' = kills
  BY DEF DrainNextTx, DrainNextEntry
<1>2. /\ drain[d] \in Draining /\ DrainsTxs(drain[d]) /\ DrainsEntries(drain[d]) /\ RetriesLeft(drain[d])
  BY DrainIsKnown DEF DrainNextTx, DrainNextEntry
<1>3. ASSUME DrainNextTx(d), NEW t \in drain[d].todo,
             txStore' = [txStore EXCEPT ![t] = "submitting"],
             drain' = [drain EXCEPT ![d] = Taking(drain[d], "txSubmit", t)]
      PROVE  OfflineInv'
  <2> DEFINE r == Taking(drain[d], "txSubmit", t)
  <2>1. t \in TxIds /\ drain[d].todo \subseteq TxIds /\ entryStore' = entryStore
    BY <1>2, <1>3 DEF DrainsTxs, DrainNextTx
  <2>2. /\ r \in Draining /\ r.pc = "txSubmit" /\ r.id = t /\ r.todo \subseteq TxIds
        /\ r.retryCount = drain[d].retryCount
    BY <1>2, <2>1 DEF Draining, Taking
  <2>3. drain' = [drain EXCEPT ![d] = r]
    BY <1>3
  <2> HIDE DEF r
  <2>4. DrainsTxs(r) /\ DrainsEntries(r) /\ RetriesLeft(r)
    BY <1>2, <2>1, <2>2 DEF DrainsTxs, DrainsEntries, RetriesLeft
  <2>5. /\ drain' \in [Drains -> Draining \cup {NotDraining}]
        /\ DrainsKnowTheirRecords' /\ AcceptedIsOnLedger'
    BY <1>1, <2>2, <2>3, <2>4, DrainMoves
  <2> QED
    BY <1>1, <1>3, <2>1, <2>5 DEF OfflineInv, OfflineTypeOK, NoPaymentLost
<1>4. ASSUME DrainNextEntry(d), NEW e \in drain[d].todo,
             entryStore' = [entryStore EXCEPT ![e] =
               [status |-> "processing", signed |-> TRUE, retryCount |-> drain[d].retryCount[e], waiting |-> FALSE]],
             drain' = [drain EXCEPT ![d] = Taking(drain[d], "entrySubmit", e)]
      PROVE  OfflineInv'
  <2> DEFINE r == Taking(drain[d], "entrySubmit", e)
             entry == [status |-> "processing", signed |-> TRUE, retryCount |-> drain[d].retryCount[e],
                       waiting |-> FALSE]
  <2>1. e \in EntryIds /\ drain[d].todo \subseteq EntryIds /\ txStore' = txStore
    BY <1>2, <1>4 DEF DrainsEntries, DrainNextEntry
  <2>2. /\ r \in Draining /\ r.pc = "entrySubmit" /\ r.id = e /\ r.todo \subseteq EntryIds
        /\ r.retryCount = drain[d].retryCount
    BY <1>2, <2>1 DEF Draining, Taking
  <2>3. drain' = [drain EXCEPT ![d] = r]
    BY <1>4
  <2>4. entry \in Entry /\ entry # NoEntry
    BY <1>2, <2>1 DEF Draining, Entry, NoEntry
  <2>5. entryStore' = [entryStore EXCEPT ![e] = entry]
    BY <1>4
  <2> HIDE DEF r, entry
  <2>6. DrainsTxs(r) /\ DrainsEntries(r) /\ RetriesLeft(r)
    BY <1>2, <2>1, <2>2 DEF DrainsTxs, DrainsEntries, RetriesLeft
  <2>7. /\ drain' \in [Drains -> Draining \cup {NotDraining}]
        /\ DrainsKnowTheirRecords' /\ AcceptedIsOnLedger'
    BY <1>1, <2>2, <2>3, <2>6, DrainMoves
  <2> QED
    BY <1>1, <2>1, <2>4, <2>5, <2>7 DEF OfflineInv, OfflineTypeOK, NoPaymentLost
<1>5. ASSUME txStore' = txStore, entryStore' = entryStore,
             NEW r \in {NotDraining, [drain[d] EXCEPT !.pc = "entries"]}, drain' = [drain EXCEPT ![d] = r]
      PROVE  OfflineInv'
  <2>1. /\ r \in Draining \cup {NotDraining} /\ r.pc \in {"idle", "entries"}
        /\ r # NotDraining => r.retryCount = drain[d].retryCount
    BY <1>2, <1>5 DEF Draining, NotDraining
  <2>2. r # NotDraining => DrainsTxs(r) /\ DrainsEntries(r) /\ RetriesLeft(r)
    BY <1>2, <2>1 DEF DrainsTxs, DrainsEntries, RetriesLeft
  <2>3. /\ drain' \in [Drains -> Draining \cup {NotDraining}]
        /\ DrainsKnowTheirRecords' /\ AcceptedIsOnLedger'
    BY <1>1, <1>5, <2>1, <2>2, DrainMoves
  <2> QED
    BY <1>1, <1>5, <2>3 DEF OfflineInv, OfflineTypeOK, NoPaymentLost
<1>6. CASE DrainNextTx(d)
  <2>1. CASE drain[d].todo = {}
    <3>1. /\ txStore' = txStore /\ entryStore' = entryStore
          /\ drain' = [drain EXCEPT ![d] = IF d \in SwDrains THEN [@ EXCEPT !.pc = "entries"] ELSE NotDraining]
      BY <1>6, <2>1 DEF DrainNextTx
    <3>2. PICK r \in {NotDraining, [drain[d] EXCEPT !.pc = "entries"]} : drain' = [drain EXCEPT ![d] = r]
      BY <3>1
    <3> QED
      BY <1>5, <3>1, <3>2
  <2>2. CASE drain[d].todo # {}
    BY <1>3, <1>6, <2>2 DEF DrainNextTx
  <2> QED
    BY <2>1, <2>2
<1>7. CASE DrainNextEntry(d)
  <2>1. CASE drain[d].todo = {}
    <3>1. /\ txStore' = txStore /\ entryStore' = entryStore /\ drain' = [drain EXCEPT ![d] = NotDraining]
      BY <1>7, <2>1 DEF DrainNextEntry
    <3> QED
      BY <1>5, <3>1
  <2>2. CASE drain[d].todo # {}
    BY <1>4, <1>7, <2>2 DEF DrainNextEntry
  <2> QED
    BY <2>1, <2>2
<1> QED
  BY <1>6, <1>7

\* The post: what was accepted is on the ledger.
LEMMA PostsKeepOffline ==
  ASSUME OfflineInv, NEW d \in Drains, SubmitTx(d) \/ SubmitEntry(d)
  PROVE  OfflineInv'
<1>1. /\ txStore' = txStore /\ entryStore' = entryStore /\ online' = online /\ removed' = removed
      /\ kills' = kills
  BY DEF SubmitTx, SubmitEntry
<1>2. /\ drain[d] \in Draining /\ DrainsTxs(drain[d]) /\ DrainsEntries(drain[d]) /\ RetriesLeft(drain[d])
      /\ drain[d].id \in TxIds \cup EntryIds
  <2>1. drain[d].pc \in {"txSubmit", "entrySubmit"}
    BY DEF SubmitTx, SubmitEntry
  <2>2. /\ drain[d] \in Draining /\ DrainsTxs(drain[d]) /\ DrainsEntries(drain[d]) /\ RetriesLeft(drain[d])
    BY <2>1, DrainIsKnown
  <2> QED
    BY <2>1, <2>2 DEF DrainsTxs, DrainsEntries
<1>3. PICK accepted \in BOOLEAN, r \in Draining :
        /\ Post(drain[d].id, accepted)
        /\ drain' = [drain EXCEPT ![d] = r]
        /\ r.id = drain[d].id /\ r.todo = drain[d].todo /\ r.retryCount = drain[d].retryCount
        /\ \/ drain[d].pc = "txSubmit" /\ r.pc = (IF accepted THEN "txOk" ELSE "txFailed")
           \/ drain[d].pc = "entrySubmit" /\ r.pc = (IF accepted THEN "entryOk" ELSE "entryFailed")
  <2>1. CASE SubmitTx(d)
    <3>1. PICK accepted \in BOOLEAN :
            /\ Post(drain[d].id, accepted)
            /\ drain' = [drain EXCEPT ![d].pc = IF accepted THEN "txOk" ELSE "txFailed"]
      BY <2>1 DEF SubmitTx
    <3> DEFINE r == [drain[d] EXCEPT !.pc = IF accepted THEN "txOk" ELSE "txFailed"]
    <3>2. /\ r \in Draining /\ r.pc = IF accepted THEN "txOk" ELSE "txFailed"
          /\ r.id = drain[d].id /\ r.todo = drain[d].todo /\ r.retryCount = drain[d].retryCount
      BY <1>2 DEF Draining
    <3>3. drain' = [drain EXCEPT ![d] = r]
      BY <3>1
    <3>4. drain[d].pc = "txSubmit"
      BY <2>1 DEF SubmitTx
    <3> HIDE DEF r
    <3> QED
      BY <3>1, <3>2, <3>3, <3>4
  <2>2. CASE SubmitEntry(d)
    <3>1. PICK accepted \in BOOLEAN :
            /\ Post(drain[d].id, accepted)
            /\ drain' = [drain EXCEPT ![d].pc = IF accepted THEN "entryOk" ELSE "entryFailed"]
      BY <2>2 DEF SubmitEntry
    <3> DEFINE r == [drain[d] EXCEPT !.pc = IF accepted THEN "entryOk" ELSE "entryFailed"]
    <3>2. /\ r \in Draining /\ r.pc = IF accepted THEN "entryOk" ELSE "entryFailed"
          /\ r.id = drain[d].id /\ r.todo = drain[d].todo /\ r.retryCount = drain[d].retryCount
      BY <1>2 DEF Draining
    <3>3. drain' = [drain EXCEPT ![d] = r]
      BY <3>1
    <3>4. drain[d].pc = "entrySubmit"
      BY <2>2 DEF SubmitEntry
    <3> HIDE DEF r
    <3> QED
      BY <3>1, <3>2, <3>3, <3>4
  <2> QED
    BY <2>1, <2>2
<1>4. /\ onLedger \subseteq onLedger' /\ onLedger' \subseteq TxIds \cup EntryIds
      /\ sent' \subseteq TxIds \cup EntryIds
      /\ accepted => drain[d].id \in onLedger'
  BY <1>2, <1>3, PostKeepsTheLedger
<1>5. DrainsTxs(r) /\ DrainsEntries(r) /\ RetriesLeft(r)
  BY <1>2, <1>3 DEF DrainsTxs, DrainsEntries, RetriesLeft
<1>6. r.pc \in {"txOk", "entryOk"} => r.id \in onLedger'
  BY <1>3, <1>4
<1>7. /\ drain' \in [Drains -> Draining \cup {NotDraining}]
      /\ DrainsKnowTheirRecords' /\ AcceptedIsOnLedger'
  BY <1>3, <1>4, <1>5, <1>6, DrainMoves
<1> QED
  BY <1>1, <1>4, <1>7 DEF OfflineInv, OfflineTypeOK, NoPaymentLost

\* The outcome is written: only an accepted record is deleted.
LEMMA OutcomesKeepOffline ==
  ASSUME OfflineInv, NEW d \in Drains, DropTx(d) \/ FailTx(d) \/ DropEntry(d) \/ FailEntry(d)
  PROVE  OfflineInv'
<1>1. /\ onLedger' = onLedger /\ removed' = removed /\ sent' = sent /\ online' = online /\ kills' = kills
  BY DEF DropTx, FailTx, DropEntry, FailEntry
<1>2. /\ drain[d] \in Draining /\ DrainsTxs(drain[d]) /\ DrainsEntries(drain[d]) /\ RetriesLeft(drain[d])
  BY DrainIsKnown DEF DropTx, FailTx, DropEntry, FailEntry
<1>3. drain[d].pc \in {"txOk", "entryOk"} => drain[d].id \in onLedger
  BY DEF OfflineInv, AcceptedIsOnLedger
<1>4. CASE DropTx(d) \/ FailTx(d)
  <2> DEFINE r == [drain[d] EXCEPT !.pc = "tx", !.id = "none"]
  <2>1. /\ r \in Draining /\ r.pc = "tx" /\ r.todo = drain[d].todo /\ r.retryCount = drain[d].retryCount
    BY <1>2 DEF Draining
  <2>2. drain' = [drain EXCEPT ![d] = r]
    BY <1>4 DEF DropTx, FailTx
  <2>3. drain[d].pc \in {"txOk", "txFailed"} /\ entryStore' = entryStore
    BY <1>4 DEF DropTx, FailTx
  <2> HIDE DEF r
  <2>4. DrainsTxs(r) /\ DrainsEntries(r) /\ RetriesLeft(r)
    BY <1>2, <2>1, <2>3 DEF DrainsTxs, DrainsEntries, RetriesLeft
  <2>5. /\ drain' \in [Drains -> Draining \cup {NotDraining}]
        /\ DrainsKnowTheirRecords' /\ AcceptedIsOnLedger'
    BY <1>1, <2>1, <2>2, <2>4, DrainMoves
  <2>6. drain[d].id \in TxIds
    BY <1>2, <2>3 DEF DrainsTxs
  <2>7. \/ txStore' = [txStore EXCEPT ![drain[d].id] = "absent"] /\ drain[d].id \in onLedger
        \/ txStore' = [txStore EXCEPT ![drain[d].id] = "failed"]
    BY <1>3, <1>4 DEF DropTx, FailTx
  <2> QED
    BY <1>1, <2>3, <2>5, <2>6, <2>7 DEF OfflineInv, OfflineTypeOK, NoPaymentLost
<1>5. CASE DropEntry(d) \/ FailEntry(d)
  <2> DEFINE r == [drain[d] EXCEPT !.pc = "entry", !.id = "none"]
             entry == [status |-> "failed", signed |-> TRUE,
                       retryCount |-> drain[d].retryCount[drain[d].id] + 1, waiting |-> TRUE]
  <2>1. /\ r \in Draining /\ r.pc = "entry" /\ r.todo = drain[d].todo /\ r.retryCount = drain[d].retryCount
    BY <1>2 DEF Draining
  <2>2. drain' = [drain EXCEPT ![d] = r]
    BY <1>5 DEF DropEntry, FailEntry
  <2>3. drain[d].pc \in {"entryOk", "entryFailed"} /\ txStore' = txStore
    BY <1>5 DEF DropEntry, FailEntry
  <2>4. drain[d].id \in EntryIds
    BY <1>2, <2>3 DEF DrainsEntries
  <2>5. entry \in Entry /\ entry # NoEntry
    BY <1>2, <2>4, OfflineAssumption DEF Entry, NoEntry, Draining, RetriesLeft
  <2>6. \/ entryStore' = [entryStore EXCEPT ![drain[d].id] = NoEntry] /\ drain[d].id \in onLedger
        \/ entryStore' = [entryStore EXCEPT ![drain[d].id] = entry]
    BY <1>3, <1>5 DEF DropEntry, FailEntry
  <2> HIDE DEF r, entry
  <2>7. DrainsTxs(r) /\ DrainsEntries(r) /\ RetriesLeft(r)
    BY <1>2, <2>1, <2>3 DEF DrainsTxs, DrainsEntries, RetriesLeft
  <2>8. /\ drain' \in [Drains -> Draining \cup {NotDraining}]
        /\ DrainsKnowTheirRecords' /\ AcceptedIsOnLedger'
    BY <1>1, <2>1, <2>2, <2>7, DrainMoves
  <2> QED
    BY <1>1, <2>3, <2>4, <2>5, <2>6, <2>8 DEF OfflineInv, OfflineTypeOK, NoPaymentLost
<1> QED
  BY <1>4, <1>5

LEMMA OfflineStays == OfflineInv /\ [OfflineNext]_offlineVars => OfflineInv'
<1> SUFFICES ASSUME OfflineInv, [OfflineNext]_offlineVars PROVE OfflineInv'
  OBVIOUS
<1>1. CASE UNCHANGED offlineVars
  BY <1>1 DEF offlineVars, OfflineInv, OfflineTypeOK, DrainsKnowTheirRecords, DrainsTxs, DrainsEntries,
     RetriesLeft, AcceptedIsOnLedger, NoPaymentLost
<1>2. CASE OfflineNext
  BY <1>2, UsersKeepOffline, RunsKeepOffline, NextRecordsKeepOffline, PostsKeepOffline,
     OutcomesKeepOffline DEF OfflineNext, DrainStep
<1> QED
  BY <1>1, <1>2

\* processQueue, drainQueue and drainGenericQueue lose no payment: a record that has left
\* the stores was applied by the network or removed by the user.
THEOREM QueuedPaymentsSurvive == OfflineSpec => []NoPaymentLost
<1>1. OfflineInv => NoPaymentLost
  BY DEF OfflineInv
<1> QED
  BY OfflineStarts, OfflineStays, <1>1, PTL DEF OfflineSpec

-----------------------------------------------------------------------------
(***************************************************************************)
(* Webhook delivery.                                                       *)
(***************************************************************************)
WebhookSpec == WebhookInit /\ [][WebhookNext]_webhookVars

Recorded(d) == d \in DeliveryIds /\ delivery[d] # NoDelivery
\* A task works on rows that were inserted, with the event they were inserted for.
TasksKnowTheirRow ==
    \A t \in WebhookTasks :
        /\ task[t].pc \in {"send", "ok", "stamp", "fail", "dlq"} =>
             Recorded(task[t].id) /\ delivery[task[t].id].key = task[t].key
        /\ task[t] # WebhookIdle => \A d \in task[t].queue : Recorded(d)
AckedWasSent ==
    /\ \A d \in acked : Recorded(d)
    /\ \A t \in WebhookTasks : task[t].pc \in {"ok", "stamp"} => task[t].id \in acked
CallsAreBounded ==
    \A c \in Calls : calls[c] <= IF c.object = "shared" THEN requests ELSE MaxStreams

WebhookInv ==
    /\ WebhookTypeOK /\ TasksKnowTheirRow /\ AckedWasSent /\ CallsAreBounded
    /\ DeliveredWasReceived /\ DeadReachesQueue

LEMMA WebhookNumbers ==
  /\ WEBHOOK_MAX_RETRIES \in Nat /\ WEBHOOK_MAX_RETRIES > 0 /\ MaxDeliveries \in Nat
  /\ MaxWebhookRequests \in Nat /\ MaxStreams \in Nat /\ MaxStreams > 0
  BY WebhookAssumption

LEMMA WebhookStarts == WebhookInit => WebhookInv
<1> SUFFICES ASSUME WebhookInit PROVE WebhookInv
  OBVIOUS
<1>1. WebhookTypeOK
  <2>1. /\ hookAttempts \in [Hooks -> 0 .. WEBHOOK_MAX_RETRIES]
        /\ calls \in [Calls -> 0 .. MaxStreams + MaxWebhookRequests]
        /\ requests \in 0 .. MaxWebhookRequests
    BY WebhookNumbers DEF WebhookInit
  <2>2. sse \in [open : 0 .. MaxStreams, tracked : BOOLEAN]
    BY WebhookNumbers DEF WebhookInit
  <2>3. /\ event \in [EventKeys -> {"none", "recorded", "delivered"}]
        /\ delivery \in [DeliveryIds -> Delivery \cup {NoDelivery}]
        /\ task \in [WebhookTasks -> WebhookTask \cup {WebhookIdle}]
    BY DEF WebhookInit
  <2>4. faulty \in BOOLEAN
    BY DEF WebhookInit
  <2> QED
    BY <2>1, <2>2, <2>3, <2>4 DEF WebhookInit, WebhookTypeOK
<1>2. TasksKnowTheirRow /\ AckedWasSent
  BY DEF WebhookInit, TasksKnowTheirRow, AckedWasSent, WebhookIdle
<1>3. CallsAreBounded
  BY WebhookNumbers DEF WebhookInit, CallsAreBounded
<1>4. DeliveredWasReceived /\ DeadReachesQueue
  BY DEF WebhookInit, DeliveredWasReceived, DeadReachesQueue, NoDelivery
<1> QED
  BY <1>1, <1>2, <1>3, <1>4 DEF WebhookInv

\* Rows are never deleted, and a row keeps the event it was inserted for.
RowsStay ==
    \A d \in DeliveryIds : delivery[d] # NoDelivery =>
        delivery'[d] # NoDelivery /\ delivery'[d].key = delivery[d].key

\* What every step of a task t does, r being the task after it.
TaskGoesOn(t, r) ==
    /\ task' = [task EXCEPT ![t] = r]
    /\ hookRows' = hookRows /\ registering' = registering /\ sse' = sse /\ paid' = paid
    /\ RowsStay /\ acked \subseteq acked' /\ dlq \subseteq dlq'
    /\ \A d \in acked' : d \in DeliveryIds /\ (d \in acked \/ delivery'[d] # NoDelivery)
    /\ requests' \in 0 .. MaxWebhookRequests /\ requests <= requests'
    /\ \A c \in Calls : calls'[c] <= calls[c]

\* What the task knows after the step.
KnowsAfter(r) ==
    /\ r.pc \in {"send", "ok", "stamp", "fail", "dlq"} =>
         r.id \in DeliveryIds /\ delivery'[r.id] # NoDelivery /\ delivery'[r.id].key = r.key
    /\ r # WebhookIdle => \A d \in r.queue : d \in DeliveryIds /\ delivery'[d] # NoDelivery
    /\ r.pc \in {"ok", "stamp"} => r.id \in acked'

\* What the step marks as delivered was acknowledged, what it marks as dead is on its way to
\* the queue.
MarksAreTrue(t, r) ==
    /\ \A d \in DeliveryIds : delivery'[d].status = "delivered" => delivery[d].status = "delivered" \/ d \in acked'
    /\ \A k \in EventKeys : event'[k] = "delivered" =>
         event[k] = "delivered" \/ \E d \in acked' : delivery'[d].key = k
    /\ ~faulty' => ~faulty
    /\ ~faulty' => \A d \in DeliveryIds : delivery'[d].status = "dead" =>
         delivery[d].status = "dead" \/ (r.pc = "dlq" /\ r.id = d)
    /\ ~faulty' => (task[t].pc = "dlq" => task[t].id \in dlq' \/ (r.pc = "dlq" /\ r.id = task[t].id))

LEMMA TaskStepsKeepWebhooks ==
  ASSUME WebhookInv, WebhookTypeOK', NEW t \in WebhookTasks, NEW r, TaskGoesOn(t, r), KnowsAfter(r),
         MarksAreTrue(t, r)
  PROVE  WebhookInv'
<1>1. \A s \in WebhookTasks : task'[s] = IF s = t THEN r ELSE task[s]
  BY DEF TaskGoesOn, WebhookInv, WebhookTypeOK
<1>2. TasksKnowTheirRow'
  BY <1>1 DEF TaskGoesOn, KnowsAfter, RowsStay, WebhookInv, TasksKnowTheirRow, Recorded
<1>3. AckedWasSent'
  BY <1>1 DEF TaskGoesOn, KnowsAfter, RowsStay, WebhookInv, AckedWasSent, Recorded
<1>4. CallsAreBounded'
  <2> SUFFICES ASSUME NEW c \in Calls
               PROVE  calls'[c] <= IF c.object = "shared" THEN requests' ELSE MaxStreams
    BY DEF CallsAreBounded
  <2>1. calls[c] <= IF c.object = "shared" THEN requests ELSE MaxStreams
    BY DEF WebhookInv, CallsAreBounded
  <2>2. /\ calls[c] \in Int /\ calls'[c] \in Int /\ calls'[c] <= calls[c]
        /\ requests \in Int /\ requests' \in Int /\ requests <= requests'
    BY DEF TaskGoesOn, WebhookInv, WebhookTypeOK
  <2> QED
    BY <2>1, <2>2, WebhookNumbers
<1>5. DeliveredWasReceived'
  <2>1. \A d \in DeliveryIds : delivery'[d].status = "delivered" => d \in acked'
    BY DEF TaskGoesOn, MarksAreTrue, WebhookInv, DeliveredWasReceived
  <2>2. ASSUME NEW k \in EventKeys, event[k] = "delivered" PROVE \E d \in acked' : delivery'[d].key = k
    <3>1. PICK d \in acked : delivery[d].key = k
      BY <2>2 DEF WebhookInv, DeliveredWasReceived
    <3>2. d \in DeliveryIds /\ delivery[d] # NoDelivery
      BY DEF WebhookInv, AckedWasSent, Recorded
    <3> QED
      BY <3>1, <3>2 DEF TaskGoesOn, RowsStay
  <2>3. \A k \in EventKeys : event'[k] = "delivered" => \E d \in acked' : delivery'[d].key = k
    BY <2>2 DEF MarksAreTrue
  <2> QED
    BY <2>1, <2>3 DEF DeliveredWasReceived
<1>6. DeadReachesQueue'
  <2> SUFFICES ASSUME ~faulty', NEW d \in DeliveryIds, delivery'[d].status = "dead"
               PROVE  d \in dlq' \/ \E s \in WebhookTasks : task'[s].pc = "dlq" /\ task'[s].id = d
    BY DEF DeadReachesQueue
  <2>1. CASE r.pc = "dlq" /\ r.id = d
    BY <1>1, <2>1
  <2>2. CASE ~(r.pc = "dlq" /\ r.id = d)
    <3>1. ~faulty /\ delivery[d].status = "dead"
      BY <2>2 DEF MarksAreTrue
    <3>2. CASE d \in dlq
      BY <3>2 DEF TaskGoesOn
    <3>3. ASSUME NEW s \in WebhookTasks, task[s].pc = "dlq", task[s].id = d
          PROVE  d \in dlq' \/ \E q \in WebhookTasks : task'[q].pc = "dlq" /\ task'[q].id = d
      <4>1. CASE s = t
        BY <2>2, <3>3, <4>1 DEF MarksAreTrue
      <4>2. CASE s # t
        BY <1>1, <3>3, <4>2
      <4> QED
        BY <4>1, <4>2
    <3> QED
      BY <3>1, <3>2, <3>3 DEF WebhookInv, DeadReachesQueue
  <2> QED
    BY <2>1, <2>2
<1> QED
  BY <1>2, <1>3, <1>4, <1>5, <1>6 DEF WebhookInv

-----------------------------------------------------------------------------
LEMMA SweepsAreTasks ==
  ASSUME EventKeys # {}, NEW Q \in SUBSET DeliveryIds
  PROVE  LET r == [Sweeping EXCEPT !.queue = Q] IN
         r \in WebhookTask /\ r # WebhookIdle /\ r.pc = "next" /\ r.queue = Q
<1>1. NoKey \in EventKeys
  BY DEF NoKey
<1> QED
  BY <1>1, WebhookNumbers DEF Sweeping, WebhookTask, WebhookIdle

LEMMA FinishedIsTask ==
  ASSUME NEW job \in WebhookTask
  PROVE  /\ Finished(job) \in WebhookTask \cup {WebhookIdle}
         /\ Finished(job).pc \in {"next", "idle"}
         /\ Finished(job) # WebhookIdle => Finished(job).queue = job.queue
<1>1. EventKeys # {} /\ job.queue \in SUBSET DeliveryIds
  BY DEF WebhookTask
<1> DEFINE r == [Sweeping EXCEPT !.queue = job.queue]
<1>2. r \in WebhookTask /\ r.pc = "next" /\ r.queue = job.queue
  BY <1>1, SweepsAreTasks
<1>3. Finished(job) \in {r, WebhookIdle}
  BY DEF Finished
<1> HIDE DEF r
<1> QED
  BY <1>2, <1>3 DEF WebhookIdle

LEMMA FailingIsTask ==
  ASSUME WebhookInv, NEW job \in WebhookTask
  PROVE  /\ Failing(job) \in WebhookTask /\ Failing(job).pc = "fail"
         /\ Failing(job).id = job.id /\ Failing(job).key = job.key /\ Failing(job).queue = job.queue
<1>1. CurrentAttempt(job) \in 0 .. WEBHOOK_MAX_RETRIES
  <2>1. job.key[1] \in Hooks
    BY DEF WebhookTask, EventKeys
  <2>2. hookAttempts[job.key[1]] \in Nat
    BY <2>1 DEF WebhookInv, WebhookTypeOK
  <2> DEFINE n == 1 + IF job.object = "shared" THEN hookAttempts[job.key[1]] ELSE 0
  <2>3. n \in Nat
    BY <2>2
  <2> HIDE DEF n
  <2>4. AtMostMax(n) \in 0 .. WEBHOOK_MAX_RETRIES
    BY <2>3, WebhookNumbers DEF AtMostMax
  <2> QED
    BY <2>4 DEF CurrentAttempt, n
<1> DEFINE a == CurrentAttempt(job)
<1> HIDE DEF a
<1>2. LET r == [job EXCEPT !.pc = "fail", !.attempt = a] IN
      r \in WebhookTask /\ r.pc = "fail" /\ r.id = job.id /\ r.key = job.key /\ r.queue = job.queue
  BY <1>1 DEF WebhookTask, a
<1> QED
  BY <1>2 DEF Failing, a

\* What the state of a task says of it.
LEMMA TaskIsKnown ==
  ASSUME WebhookInv, NEW t \in WebhookTasks, task[t].pc # "idle"
  PROVE  /\ task[t] \in WebhookTask
         /\ task[t].pc \in {"send", "ok", "stamp", "fail", "dlq"} =>
              task[t].id \in DeliveryIds /\ delivery[task[t].id] # NoDelivery
              /\ delivery[task[t].id].key = task[t].key
         /\ \A d \in task[t].queue : d \in DeliveryIds /\ delivery[d] # NoDelivery
         /\ task[t].pc \in {"ok", "stamp"} => task[t].id \in acked
<1>1. task[t] \in WebhookTask /\ task[t] # WebhookIdle
  BY DEF WebhookInv, WebhookTypeOK, WebhookIdle
<1> QED
  BY <1>1 DEF WebhookInv, TasksKnowTheirRow, AckedWasSent, Recorded

\* An error counts as a request and is remembered.
LEMMA ErrorsAreCounted ==
  ASSUME WebhookInv, NoError \/ DbError
  PROVE  /\ requests' \in 0 .. MaxWebhookRequests /\ requests <= requests'
         /\ faulty' \in BOOLEAN /\ (~faulty' => ~faulty /\ NoError)
<1>1. requests \in 0 .. MaxWebhookRequests /\ faulty \in BOOLEAN
  BY DEF WebhookInv, WebhookTypeOK
<1>2. requests' \in 0 .. MaxWebhookRequests /\ requests <= requests'
  BY <1>1, WebhookNumbers DEF NoError, DbError, Request
<1>3. faulty' \in BOOLEAN /\ (~faulty' => ~faulty /\ NoError)
  BY <1>1, Zenon DEF NoError, DbError
<1> QED
  BY <1>2, <1>3

-----------------------------------------------------------------------------
\* Registration and the stream touch no delivery.
LEMMA QuietStepsKeepWebhooks ==
  ASSUME WebhookInv,
         \/ \E h \in Hooks : RegisterCheck(h) \/ RegisterInsert(h)
         \/ StreamError
         \/ \E p \in Payments : PaymentArrives(p)
  PROVE  WebhookInv'
<1>1. /\ hookAttempts' = hookAttempts /\ event' = event /\ delivery' = delivery /\ dlq' = dlq
      /\ task' = task /\ acked' = acked /\ requests' = requests /\ faulty' = faulty
  BY DEF RegisterCheck, RegisterInsert, StreamError, PaymentArrives
<1>2. hookRows' \subseteq Hooks /\ registering' \subseteq Hooks /\ paid' \subseteq Payments
  BY DEF RegisterCheck, RegisterInsert, StreamError, PaymentArrives, WebhookInv, WebhookTypeOK
<1>3. sse' \in [open : 0 .. MaxStreams, tracked : BOOLEAN]
  <2>1. sse \in [open : 0 .. MaxStreams, tracked : BOOLEAN]
    BY DEF WebhookInv, WebhookTypeOK
  <2>2. CASE sse' = sse
    BY <2>1, <2>2
  <2>3. CASE sse' = [sse EXCEPT !.tracked = FALSE]
    BY <2>1, <2>3
  <2>4. CASE sse' = [open |-> sse.open + 1, tracked |-> TRUE] /\ sse.open < MaxStreams
    <3>1. sse.open + 1 \in 0 .. MaxStreams
      BY <2>1, <2>4, WebhookNumbers
    <3> QED
      BY <2>4, <3>1
  <2> QED
    BY <2>2, <2>3, <2>4 DEF RegisterCheck, RegisterInsert, StartMonitoring, StreamError, PaymentArrives
<1>4. \A c \in Calls : calls'[c] = calls[c] \/ (c.object = "fresh" /\ calls'[c] = sse.open)
  BY DEF RegisterCheck, RegisterInsert, StreamError, PaymentArrives
<1>5. sse.open \in 0 .. MaxStreams
  BY DEF WebhookInv, WebhookTypeOK
<1>6. calls' \in [Calls -> 0 .. MaxStreams + MaxWebhookRequests]
  <2>1. \A c \in Calls : calls'[c] \in 0 .. MaxStreams + MaxWebhookRequests
    BY <1>4, <1>5, WebhookNumbers DEF WebhookInv, WebhookTypeOK
  <2>2. calls' = calls \/ calls' = [c \in Calls |-> calls'[c]]
    BY DEF RegisterCheck, RegisterInsert, StreamError, PaymentArrives
  <2>3. calls \in [Calls -> 0 .. MaxStreams + MaxWebhookRequests]
    BY DEF WebhookInv, WebhookTypeOK
  <2> QED
    BY <2>1, <2>2, <2>3
<1>7. CallsAreBounded'
  BY <1>1, <1>4, <1>5, WebhookNumbers DEF WebhookInv, CallsAreBounded
<1>8. WebhookTypeOK'
  BY <1>1, <1>2, <1>3, <1>6 DEF WebhookInv, WebhookTypeOK
<1> QED
  BY <1>1, <1>7, <1>8 DEF WebhookInv, TasksKnowTheirRow, AckedWasSent, Recorded, DeliveredWasReceived,
     DeadReachesQueue

\* A task starts: a call that was counted, or a sweep over recorded rows.
LEMMA StartsKeepWebhooks ==
  ASSUME WebhookInv, NEW t \in WebhookTasks, StartSweep(t) \/ \E c \in Calls : StartDelivery(t, c)
  PROVE  WebhookInv'
<1>1. /\ hookRows' = hookRows /\ hookAttempts' = hookAttempts /\ registering' = registering /\ sse' = sse
      /\ paid' = paid /\ event' = event /\ delivery' = delivery /\ dlq' = dlq /\ acked' = acked
      /\ requests' = requests /\ faulty' = faulty /\ task[t] = WebhookIdle
  BY DEF StartSweep, StartDelivery
<1>2. PICK r \in WebhookTask :
        /\ task' = [task EXCEPT ![t] = r] /\ r.pc \in {"next", "event"}
        /\ \A d \in r.queue : d \in DeliveryIds /\ delivery[d] # NoDelivery
  <2>1. CASE StartSweep(t)
    <3>1. PICK d \in DeliveryIds : delivery[d] # NoDelivery
      BY <2>1 DEF StartSweep, DueDeliveries
    <3>2. delivery[d].key \in EventKeys
      BY <3>1 DEF WebhookInv, WebhookTypeOK, Delivery
    <3> DEFINE Q == DueDeliveries
               r == [Sweeping EXCEPT !.queue = Q]
    <3>3. Q \in SUBSET DeliveryIds /\ \A e \in Q : delivery[e] # NoDelivery
      BY DEF DueDeliveries
    <3>4. task' = [task EXCEPT ![t] = r]
      BY <2>1 DEF StartSweep
    <3> HIDE DEF Q
    <3>5. r \in WebhookTask /\ r.pc = "next" /\ r.queue = Q
      BY <3>2, <3>3, SweepsAreTasks
    <3> HIDE DEF r
    <3> QED
      BY <3>3, <3>4, <3>5
  <2>2. CASE \E c \in Calls : StartDelivery(t, c)
    <3>1. PICK c \in Calls : StartDelivery(t, c)
      BY <2>2
    <3> DEFINE r == [pc |-> "event", kind |-> "first", key |-> <<c.hook, c.payment>>, object |-> c.object,
                     id |-> 0, queue |-> {}, attempt |-> 0]
    <3>2. <<c.hook, c.payment>> \in EventKeys /\ c.object \in {"fresh", "shared"}
      BY DEF Calls, EventKeys
    <3>3. r \in WebhookTask
      BY <3>2, WebhookNumbers DEF WebhookTask
    <3>4. task' = [task EXCEPT ![t] = r]
      BY <3>1 DEF StartDelivery
    <3>5. r.pc = "event" /\ r.queue = {}
      OBVIOUS
    <3> HIDE DEF r
    <3> QED
      BY <3>3, <3>4, <3>5
  <2> QED
    BY <2>1, <2>2
<1>3. calls' \in [Calls -> 0 .. MaxStreams + MaxWebhookRequests] /\ \A c \in Calls : calls'[c] <= calls[c]
  <2>1. calls \in [Calls -> 0 .. MaxStreams + MaxWebhookRequests]
    BY DEF WebhookInv, WebhookTypeOK
  <2>2. CASE StartSweep(t)
    BY <2>1, <2>2, WebhookNumbers DEF StartSweep
  <2>3. ASSUME NEW c \in Calls, StartDelivery(t, c)
        PROVE  calls' \in [Calls -> 0 .. MaxStreams + MaxWebhookRequests] /\ \A k \in Calls : calls'[k] <= calls[k]
    <3>1. calls' = [calls EXCEPT ![c] = calls[c] - 1] /\ calls[c] > 0
      BY <2>3 DEF StartDelivery
    <3>2. calls[c] - 1 \in 0 .. MaxStreams + MaxWebhookRequests
      BY <2>1, <3>1, WebhookNumbers
    <3> QED
      BY <2>1, <3>1, <3>2, WebhookNumbers
  <2> QED
    BY <2>2, <2>3
<1>4. WebhookTypeOK'
  BY <1>1, <1>2, <1>3 DEF WebhookInv, WebhookTypeOK
<1>5. TaskGoesOn(t, r)
  BY <1>1, <1>2, <1>3 DEF TaskGoesOn, RowsStay, WebhookInv, WebhookTypeOK
<1>6. KnowsAfter(r)
  BY <1>1, <1>2 DEF KnowsAfter
<1>7. MarksAreTrue(t, r)
  BY <1>1 DEF MarksAreTrue, WebhookIdle
<1> QED
  BY <1>4, <1>5, <1>6, <1>7, TaskStepsKeepWebhooks

\* A sweep takes its next row, or has none left.
LEMMA SweepsKeepWebhooks ==
  ASSUME WebhookInv, NEW t \in WebhookTasks, SweepNext(t)
  PROVE  WebhookInv'
<1>1. /\ hookRows' = hookRows /\ hookAttempts' = hookAttempts /\ registering' = registering /\ sse' = sse
      /\ paid' = paid /\ event' = event /\ delivery' = delivery /\ dlq' = dlq /\ acked' = acked
      /\ requests' = requests /\ faulty' = faulty /\ calls' = calls /\ task[t].pc = "next"
  BY DEF SweepNext
<1>2. task[t] \in WebhookTask /\ \A d \in task[t].queue : d \in DeliveryIds /\ delivery[d] # NoDelivery
  BY <1>1, TaskIsKnown
<1>3. PICK r \in WebhookTask \cup {WebhookIdle} : task' = [task EXCEPT ![t] = r] /\ KnowsAfter(r)
  <2>1. CASE task' = [task EXCEPT ![t] = WebhookIdle]
    <3>1. KnowsAfter(WebhookIdle)
      BY DEF KnowsAfter, WebhookIdle
    <3> QED
      BY <2>1, <3>1
  <2>2. ASSUME NEW d \in task[t].queue, task' = [task EXCEPT ![t] = Reaching(task[t], d)]
        PROVE  \E r \in WebhookTask \cup {WebhookIdle} : task' = [task EXCEPT ![t] = r] /\ KnowsAfter(r)
    <3> DEFINE r == Reaching(task[t], d)
    <3>1. d \in DeliveryIds /\ delivery[d] # NoDelivery /\ delivery[d].key \in EventKeys
      BY <1>2 DEF WebhookInv, WebhookTypeOK, Delivery
    <3>2. /\ r \in WebhookTask /\ r.pc = "send" /\ r.id = d /\ r.key = delivery[d].key
          /\ r.queue \subseteq task[t].queue
      BY <1>2, <3>1 DEF Reaching, WebhookTask
    <3>3. task' = [task EXCEPT ![t] = r]
      BY <2>2
    <3> HIDE DEF r
    <3>4. KnowsAfter(r)
      BY <1>1, <1>2, <3>1, <3>2 DEF KnowsAfter
    <3> QED
      BY <3>2, <3>3, <3>4
  <2> QED
    BY <2>1, <2>2 DEF SweepNext
<1>4. WebhookTypeOK'
  BY <1>1, <1>3 DEF WebhookInv, WebhookTypeOK
<1>5. TaskGoesOn(t, r)
  BY <1>1, <1>3, WebhookNumbers DEF TaskGoesOn, RowsStay, WebhookInv, WebhookTypeOK
<1>6. MarksAreTrue(t, r)
  BY <1>1 DEF MarksAreTrue
<1> QED
  BY <1>3, <1>4, <1>5, <1>6, TaskStepsKeepWebhooks

-----------------------------------------------------------------------------
\* INSERT INTO webhook_events: a new key is recorded, never delivered.
LEMMA EventsKeepWebhooks ==
  ASSUME WebhookInv, NEW t \in WebhookTasks, InsertEvent(t)
  PROVE  WebhookInv'
<1>1. /\ hookRows' = hookRows /\ hookAttempts' = hookAttempts /\ registering' = registering /\ sse' = sse
      /\ paid' = paid /\ delivery' = delivery /\ dlq' = dlq /\ acked' = acked /\ calls' = calls
      /\ task[t].pc = "event"
      /\ NoError \/ DbError
  BY DEF InsertEvent
<1>2. task[t] \in WebhookTask /\ \A d \in task[t].queue : d \in DeliveryIds /\ delivery[d] # NoDelivery
  BY <1>1, TaskIsKnown
<1>3. /\ requests' \in 0 .. MaxWebhookRequests /\ requests <= requests'
      /\ faulty' \in BOOLEAN /\ (~faulty' => ~faulty)
  BY <1>1, ErrorsAreCounted
<1> DEFINE row == [task[t] EXCEPT !.pc = "row"]
<1>4. row \in WebhookTask /\ row.pc = "row" /\ row.queue = task[t].queue
  BY <1>2 DEF WebhookTask
<1>5. PICK r \in {row, WebhookIdle} : task' = [task EXCEPT ![t] = r]
  BY DEF InsertEvent
<1> HIDE DEF row
<1>6. /\ event' \in [EventKeys -> {"none", "recorded", "delivered"}]
      /\ \A k \in EventKeys : event'[k] = "delivered" => event[k] = "delivered"
  <2>1. task[t].key \in EventKeys
    BY <1>2 DEF WebhookTask
  <2> QED
    BY <2>1 DEF InsertEvent, WebhookInv, WebhookTypeOK
<1>7. WebhookTypeOK'
  BY <1>1, <1>3, <1>4, <1>5, <1>6 DEF WebhookInv, WebhookTypeOK
<1>8. TaskGoesOn(t, r)
  BY <1>1, <1>3, <1>5, WebhookNumbers DEF TaskGoesOn, RowsStay, WebhookInv, WebhookTypeOK
<1>9. KnowsAfter(r)
  BY <1>1, <1>2, <1>4 DEF KnowsAfter, WebhookIdle
<1>10. MarksAreTrue(t, r)
  BY <1>1, <1>3, <1>6 DEF MarksAreTrue
<1> QED
  BY <1>7, <1>8, <1>9, <1>10, TaskStepsKeepWebhooks

\* INSERT INTO webhook_deliveries: a new row, whose status is pending.
LEMMA InsertsKeepWebhooks ==
  ASSUME WebhookInv, NEW t \in WebhookTasks, InsertDelivery(t)
  PROVE  WebhookInv'
<1>1. /\ hookRows' = hookRows /\ hookAttempts' = hookAttempts /\ registering' = registering /\ sse' = sse
      /\ paid' = paid /\ event' = event /\ dlq' = dlq /\ acked' = acked /\ calls' = calls
      /\ task[t].pc = "row"
      /\ NoError \/ DbError
  BY DEF InsertDelivery
<1>2. task[t] \in WebhookTask /\ \A d \in task[t].queue : d \in DeliveryIds /\ delivery[d] # NoDelivery
  BY <1>1, TaskIsKnown
<1>3. /\ requests' \in 0 .. MaxWebhookRequests /\ requests <= requests'
      /\ faulty' \in BOOLEAN /\ (~faulty' => ~faulty)
  BY <1>1, ErrorsAreCounted
<1>4. CASE delivery' = delivery /\ task' = [task EXCEPT ![t] = WebhookIdle]
  <2>1. WebhookTypeOK'
    BY <1>1, <1>3, <1>4 DEF WebhookInv, WebhookTypeOK
  <2>2. TaskGoesOn(t, WebhookIdle)
    BY <1>1, <1>3, <1>4, WebhookNumbers DEF TaskGoesOn, RowsStay, WebhookInv, WebhookTypeOK
  <2>3. KnowsAfter(WebhookIdle)
    BY DEF KnowsAfter, WebhookIdle
  <2>4. MarksAreTrue(t, WebhookIdle)
    BY <1>1, <1>3, <1>4 DEF MarksAreTrue
  <2> QED
    BY <2>1, <2>2, <2>3, <2>4, TaskStepsKeepWebhooks
<1>5. ASSUME NEW d \in FreeDelivery,
             delivery' = [delivery EXCEPT ![d] =
               [status |-> "pending", key |-> task[t].key, attempts |-> 0, due |-> TRUE]],
             task' = [task EXCEPT ![t] = [task[t] EXCEPT !.pc = "send", !.id = d]]
      PROVE  WebhookInv'
  <2> DEFINE row == [status |-> "pending", key |-> task[t].key, attempts |-> 0, due |-> TRUE]
             r == [task[t] EXCEPT !.pc = "send", !.id = d]
  <2>1. d \in DeliveryIds /\ delivery[d] = NoDelivery
    BY DEF FreeDelivery
  <2>2. row \in Delivery /\ row # NoDelivery /\ row.status = "pending" /\ row.key = task[t].key
    BY <1>2, WebhookNumbers DEF Delivery, WebhookTask, NoDelivery
  <2>3. /\ r \in WebhookTask /\ r.pc = "send" /\ r.id = d /\ r.key = task[t].key
        /\ r.queue = task[t].queue
    BY <1>2, <2>1 DEF WebhookTask
  <2>4. delivery' = [delivery EXCEPT ![d] = row] /\ task' = [task EXCEPT ![t] = r]
    BY <1>5
  <2> HIDE DEF row, r
  <2>5. \A e \in DeliveryIds : delivery'[e] = IF e = d THEN row ELSE delivery[e]
    BY <2>4 DEF WebhookInv, WebhookTypeOK
  <2>6. WebhookTypeOK'
    BY <1>1, <1>3, <2>1, <2>2, <2>3, <2>4 DEF WebhookInv, WebhookTypeOK
  <2>7. RowsStay
    BY <2>1, <2>5 DEF RowsStay
  <2>8. TaskGoesOn(t, r)
    BY <1>1, <1>3, <2>4, <2>7, WebhookNumbers DEF TaskGoesOn, WebhookInv, WebhookTypeOK
  <2>9. KnowsAfter(r)
    BY <1>2, <2>1, <2>2, <2>3, <2>5 DEF KnowsAfter
  <2>10. MarksAreTrue(t, r)
    BY <1>1, <1>3, <2>2, <2>5 DEF MarksAreTrue
  <2> QED
    BY <2>6, <2>8, <2>9, <2>10, TaskStepsKeepWebhooks
<1> QED
  BY <1>4, <1>5 DEF InsertDelivery

\* The POST: what was acknowledged is known to the task, and to history.
LEMMA AttemptsKeepWebhooks ==
  ASSUME WebhookInv, NEW t \in WebhookTasks, AttemptDelivery(t)
  PROVE  WebhookInv'
<1>1. /\ hookRows' = hookRows /\ hookAttempts' = hookAttempts /\ registering' = registering /\ sse' = sse
      /\ paid' = paid /\ event' = event /\ delivery' = delivery /\ dlq' = dlq /\ calls' = calls
      /\ requests' = requests /\ faulty' = faulty /\ task[t].pc = "send"
  BY DEF AttemptDelivery
<1>2. /\ task[t] \in WebhookTask
      /\ task[t].id \in DeliveryIds /\ delivery[task[t].id] # NoDelivery /\ delivery[task[t].id].key = task[t].key
      /\ \A d \in task[t].queue : d \in DeliveryIds /\ delivery[d] # NoDelivery
  BY <1>1, TaskIsKnown
<1> DEFINE ok == [task[t] EXCEPT !.pc = "ok"]
<1>3. ok \in WebhookTask /\ ok.pc = "ok" /\ ok.id = task[t].id /\ ok.key = task[t].key /\ ok.queue = task[t].queue
  BY <1>2 DEF WebhookTask
<1>4. /\ Failing(task[t]) \in WebhookTask /\ Failing(task[t]).pc = "fail"
      /\ Failing(task[t]).id = task[t].id /\ Failing(task[t]).key = task[t].key
      /\ Failing(task[t]).queue = task[t].queue
  BY <1>2, FailingIsTask
<1>5. \/ task' = [task EXCEPT ![t] = ok] /\ acked' = acked \cup {task[t].id}
      \/ task' = [task EXCEPT ![t] = Failing(task[t])] /\ acked' = acked
  BY DEF AttemptDelivery
<1> HIDE DEF ok
<1>6. PICK r \in WebhookTask :
        /\ task' = [task EXCEPT ![t] = r] /\ r.pc \in {"ok", "fail"}
        /\ r.id = task[t].id /\ r.key = task[t].key /\ r.queue = task[t].queue
        /\ r.pc = "ok" => task[t].id \in acked'
  BY <1>3, <1>4, <1>5
<1>7. acked \subseteq acked' /\ \A d \in acked' : d \in acked \/ d = task[t].id
  BY <1>5
<1>8. acked' \subseteq DeliveryIds
  BY <1>2, <1>7 DEF WebhookInv, WebhookTypeOK
<1>9. WebhookTypeOK'
  BY <1>1, <1>6, <1>8 DEF WebhookInv, WebhookTypeOK
<1>10. TaskGoesOn(t, r)
  BY <1>1, <1>2, <1>6, <1>7, <1>8, WebhookNumbers DEF TaskGoesOn, RowsStay, WebhookInv, WebhookTypeOK
<1>11. KnowsAfter(r)
  BY <1>1, <1>2, <1>6 DEF KnowsAfter, WebhookIdle
<1>12. MarksAreTrue(t, r)
  BY <1>1 DEF MarksAreTrue
<1> QED
  BY <1>6, <1>9, <1>10, <1>11, <1>12, TaskStepsKeepWebhooks

\* The two UPDATEs of the success branch follow an acknowledged POST.
LEMMA SuccessesKeepWebhooks ==
  ASSUME WebhookInv, NEW t \in WebhookTasks, RecordDelivered(t) \/ StampEvent(t)
  PROVE  WebhookInv'
<1>1. /\ hookRows' = hookRows /\ hookAttempts' = hookAttempts /\ registering' = registering /\ sse' = sse
      /\ paid' = paid /\ dlq' = dlq /\ acked' = acked /\ calls' = calls
      /\ task[t].pc \in {"ok", "stamp"}
      /\ NoError \/ DbError
  BY DEF RecordDelivered, StampEvent
<1>2. /\ task[t] \in WebhookTask /\ task[t].id \in acked
      /\ task[t].id \in DeliveryIds /\ delivery[task[t].id] # NoDelivery /\ delivery[task[t].id].key = task[t].key
      /\ \A d \in task[t].queue : d \in DeliveryIds /\ delivery[d] # NoDelivery
  BY <1>1, TaskIsKnown
<1>3. /\ requests' \in 0 .. MaxWebhookRequests /\ requests <= requests'
      /\ faulty' \in BOOLEAN /\ (~faulty' => ~faulty)
  BY <1>1, ErrorsAreCounted
<1> DEFINE stamp == [task[t] EXCEPT !.pc = "stamp"]
           row == [delivery[task[t].id] EXCEPT !.status = "delivered"]
<1>4. /\ stamp \in WebhookTask /\ stamp.pc = "stamp" /\ stamp.id = task[t].id /\ stamp.key = task[t].key
      /\ stamp.queue = task[t].queue
  BY <1>2 DEF WebhookTask
<1>5. /\ Failing(task[t]) \in WebhookTask /\ Failing(task[t]).pc = "fail"
      /\ Failing(task[t]).id = task[t].id /\ Failing(task[t]).key = task[t].key
      /\ Failing(task[t]).queue = task[t].queue
  BY <1>2, FailingIsTask
<1>6. /\ Finished(task[t]) \in WebhookTask \cup {WebhookIdle}
      /\ Finished(task[t]).pc \in {"next", "idle"}
      /\ Finished(task[t]) # WebhookIdle => Finished(task[t]).queue = task[t].queue
  BY <1>2, FinishedIsTask
<1>7. row \in Delivery /\ row # NoDelivery /\ row.key = delivery[task[t].id].key /\ row.status = "delivered"
  <2>1. delivery[task[t].id] \in Delivery
    BY <1>2 DEF WebhookInv, WebhookTypeOK
  <2> QED
    BY <2>1 DEF Delivery, NoDelivery
<1>8. PICK r \in {stamp, Failing(task[t]), Finished(task[t])} : task' = [task EXCEPT ![t] = r]
  BY DEF RecordDelivered, StampEvent
<1>9. delivery' = delivery \/ delivery' = [delivery EXCEPT ![task[t].id] = row]
  BY DEF RecordDelivered, StampEvent
<1>10. event' = event \/ event' = [event EXCEPT ![task[t].key] = "delivered"]
  BY DEF RecordDelivered, StampEvent
<1> HIDE DEF stamp, row
<1>11. \A e \in DeliveryIds : delivery'[e] = delivery[e] \/ (e = task[t].id /\ delivery'[e] = row)
  BY <1>9 DEF WebhookInv, WebhookTypeOK
<1>12. task[t].key \in EventKeys
  BY <1>2 DEF WebhookTask
<1>13. r \in WebhookTask \cup {WebhookIdle} /\ r.pc \in {"stamp", "fail", "next", "idle"}
       /\ (r.pc \in {"stamp", "fail"} => r.id = task[t].id /\ r.key = task[t].key)
       /\ (r # WebhookIdle => r.queue = task[t].queue)
  BY <1>4, <1>5, <1>6, <1>8
<1>14. RowsStay
  BY <1>7, <1>11 DEF RowsStay
<1>15. WebhookTypeOK'
  <2>1. delivery' \in [DeliveryIds -> Delivery \cup {NoDelivery}]
    BY <1>2, <1>7, <1>9 DEF WebhookInv, WebhookTypeOK
  <2>2. event' \in [EventKeys -> {"none", "recorded", "delivered"}]
    BY <1>10, <1>12 DEF WebhookInv, WebhookTypeOK
  <2>3. task' \in [WebhookTasks -> WebhookTask \cup {WebhookIdle}]
    BY <1>8, <1>13 DEF WebhookInv, WebhookTypeOK
  <2> QED
    BY <1>1, <1>3, <2>1, <2>2, <2>3 DEF WebhookInv, WebhookTypeOK
<1>16. TaskGoesOn(t, r)
  BY <1>1, <1>3, <1>8, <1>14, WebhookNumbers DEF TaskGoesOn, WebhookInv, WebhookTypeOK
<1>17. KnowsAfter(r)
  BY <1>1, <1>2, <1>13, <1>14 DEF KnowsAfter, RowsStay
<1>18. MarksAreTrue(t, r)
  <2>1. \A d \in DeliveryIds : delivery'[d].status = "delivered" => delivery[d].status = "delivered" \/ d \in acked'
    BY <1>1, <1>2, <1>11
  <2>2. \A k \in EventKeys : event'[k] = "delivered" => event[k] = "delivered" \/ k = task[t].key
    BY <1>10 DEF WebhookInv, WebhookTypeOK
  <2>3. delivery'[task[t].id].key = task[t].key
    BY <1>2, <1>14 DEF RowsStay
  <2>4. \A d \in DeliveryIds : delivery'[d].status = "dead" => delivery[d].status = "dead"
    BY <1>7, <1>11
  <2> QED
    BY <1>1, <1>2, <1>3, <2>1, <2>2, <2>3, <2>4 DEF MarksAreTrue
<1> QED
  BY <1>15, <1>16, <1>17, <1>18, TaskStepsKeepWebhooks

\* A failure that exhausts the attempts marks the row dead and leads the task to the queue.
LEMMA FailuresKeepWebhooks ==
  ASSUME WebhookInv, NEW t \in WebhookTasks, HandleDeliveryFailure(t)
  PROVE  WebhookInv'
<1>1. /\ hookRows' = hookRows /\ registering' = registering /\ sse' = sse
      /\ paid' = paid /\ event' = event /\ dlq' = dlq /\ acked' = acked /\ calls' = calls
      /\ task[t].pc = "fail"
      /\ NoError \/ DbError
  BY DEF HandleDeliveryFailure
<1>2. /\ task[t] \in WebhookTask /\ task[t].attempt \in 0 .. WEBHOOK_MAX_RETRIES
      /\ task[t].id \in DeliveryIds /\ delivery[task[t].id] # NoDelivery /\ delivery[task[t].id].key = task[t].key
      /\ \A d \in task[t].queue : d \in DeliveryIds /\ delivery[d] # NoDelivery
  <2>1. task[t] \in WebhookTask
    BY <1>1, TaskIsKnown
  <2>2. task[t].attempt \in 0 .. WEBHOOK_MAX_RETRIES
    BY <2>1 DEF WebhookTask
  <2> QED
    BY <1>1, <2>1, <2>2, TaskIsKnown
<1>3. /\ requests' \in 0 .. MaxWebhookRequests /\ requests <= requests'
      /\ faulty' \in BOOLEAN /\ (~faulty' => ~faulty)
  BY <1>1, ErrorsAreCounted
<1> DEFINE dead == [task[t] EXCEPT !.pc = "dlq"]
           row == [delivery[task[t].id] EXCEPT !.attempts = task[t].attempt, !.due = FALSE,
                     !.status = IF IsDead(task[t].attempt) THEN "dead" ELSE "pending"]
<1>4. /\ dead \in WebhookTask /\ dead.pc = "dlq" /\ dead.id = task[t].id /\ dead.key = task[t].key
      /\ dead.queue = task[t].queue
  BY <1>2 DEF WebhookTask
<1>5. /\ Finished(task[t]) \in WebhookTask \cup {WebhookIdle}
      /\ Finished(task[t]).pc \in {"next", "idle"}
      /\ Finished(task[t]) # WebhookIdle => Finished(task[t]).queue = task[t].queue
  BY <1>2, FinishedIsTask
<1>6. /\ row \in Delivery /\ row # NoDelivery /\ row.key = delivery[task[t].id].key
      /\ row.status = IF IsDead(task[t].attempt) THEN "dead" ELSE "pending"
  <2>1. delivery[task[t].id] \in Delivery
    BY <1>2 DEF WebhookInv, WebhookTypeOK
  <2> QED
    BY <1>2, <2>1 DEF Delivery, NoDelivery
<1> DEFINE r == IF IsDead(task[t].attempt) THEN dead ELSE Finished(task[t])
<1>7. task' = [task EXCEPT ![t] = r]
  BY DEF HandleDeliveryFailure
<1>8. delivery' = delivery \/ delivery' = [delivery EXCEPT ![task[t].id] = row]
  BY DEF HandleDeliveryFailure
<1>9. hookAttempts' \in [Hooks -> 0 .. WEBHOOK_MAX_RETRIES]
  BY <1>2 DEF HandleDeliveryFailure, WebhookInv, WebhookTypeOK
<1> HIDE DEF dead, row
<1>10. \A e \in DeliveryIds : delivery'[e] = delivery[e] \/ (e = task[t].id /\ delivery'[e] = row)
  BY <1>8 DEF WebhookInv, WebhookTypeOK
<1>11. /\ r \in WebhookTask \cup {WebhookIdle} /\ r.pc \in {"dlq", "next", "idle"}
       /\ (r.pc = "dlq" => r.id = task[t].id /\ r.key = task[t].key)
       /\ (r # WebhookIdle => r.queue = task[t].queue)
       /\ (row.status = "dead" => r.pc = "dlq" /\ r.id = task[t].id)
       /\ row.status # "delivered"
  <2>1. CASE IsDead(task[t].attempt)
    BY <1>4, <1>6, <2>1
  <2>2. CASE ~IsDead(task[t].attempt)
    BY <1>5, <1>6, <2>2
  <2> QED
    BY <2>1, <2>2
<1> HIDE DEF r
<1>12. RowsStay
  BY <1>6, <1>10 DEF RowsStay
<1>13. WebhookTypeOK'
  <2>1. delivery' \in [DeliveryIds -> Delivery \cup {NoDelivery}]
    BY <1>2, <1>6, <1>8 DEF WebhookInv, WebhookTypeOK
  <2>2. task' \in [WebhookTasks -> WebhookTask \cup {WebhookIdle}]
    BY <1>7, <1>11 DEF WebhookInv, WebhookTypeOK
  <2> QED
    BY <1>1, <1>3, <1>9, <2>1, <2>2 DEF WebhookInv, WebhookTypeOK
<1>14. TaskGoesOn(t, r)
  BY <1>1, <1>3, <1>7, <1>12, WebhookNumbers DEF TaskGoesOn, WebhookInv, WebhookTypeOK
<1>15. KnowsAfter(r)
  BY <1>1, <1>2, <1>11, <1>12 DEF KnowsAfter, RowsStay
<1>16. MarksAreTrue(t, r)
  BY <1>1, <1>3, <1>10, <1>11 DEF MarksAreTrue
<1> QED
  BY <1>13, <1>14, <1>15, <1>16, TaskStepsKeepWebhooks

\* writeToDeadLetterQueue; only an error keeps the row out.
LEMMA QueueingKeepsWebhooks ==
  ASSUME WebhookInv, NEW t \in WebhookTasks, WriteToDeadLetterQueue(t)
  PROVE  WebhookInv'
<1>1. /\ hookRows' = hookRows /\ hookAttempts' = hookAttempts /\ registering' = registering /\ sse' = sse
      /\ paid' = paid /\ event' = event /\ delivery' = delivery /\ acked' = acked /\ calls' = calls
      /\ task[t].pc = "dlq"
      /\ NoError \/ DbError
  BY DEF WriteToDeadLetterQueue
<1>2. /\ task[t] \in WebhookTask /\ task[t].id \in DeliveryIds
      /\ \A d \in task[t].queue : d \in DeliveryIds /\ delivery[d] # NoDelivery
  BY <1>1, TaskIsKnown
<1>3. /\ requests' \in 0 .. MaxWebhookRequests /\ requests <= requests'
      /\ faulty' \in BOOLEAN /\ (~faulty' => ~faulty)
  BY <1>1, ErrorsAreCounted
<1> DEFINE r == Finished(task[t])
<1>4. /\ r \in WebhookTask \cup {WebhookIdle}
      /\ r.pc \in {"next", "idle"}
      /\ r # WebhookIdle => r.queue = task[t].queue
  BY <1>2, FinishedIsTask
<1>5. task' = [task EXCEPT ![t] = r]
  BY DEF WriteToDeadLetterQueue
<1> HIDE DEF r
<1>6. dlq \subseteq dlq' /\ dlq' \subseteq DeliveryIds
  BY <1>2 DEF WriteToDeadLetterQueue, WebhookInv, WebhookTypeOK
<1>7. ~faulty' => task[t].id \in dlq'
  <2>1. DbError => faulty'
    BY Zenon DEF DbError
  <2> QED
    BY <2>1 DEF WriteToDeadLetterQueue
<1>8. WebhookTypeOK'
  BY <1>1, <1>3, <1>4, <1>5, <1>6 DEF WebhookInv, WebhookTypeOK
<1>9. TaskGoesOn(t, r)
  BY <1>1, <1>3, <1>5, <1>6, WebhookNumbers DEF TaskGoesOn, RowsStay, WebhookInv, WebhookTypeOK
<1>10. KnowsAfter(r)
  BY <1>1, <1>2, <1>4 DEF KnowsAfter
<1>11. MarksAreTrue(t, r)
  BY <1>1, <1>3, <1>7 DEF MarksAreTrue
<1> QED
  BY <1>8, <1>9, <1>10, <1>11, TaskStepsKeepWebhooks

-----------------------------------------------------------------------------
\* A retry that comes due and the owner's reset keep the rows and mark none as delivered or dead.
LEMMA RetriesKeepWebhooks ==
  ASSUME WebhookInv, RetryDeadDeliveries \/ \E d \in DeliveryIds : RetryComesDue(d)
  PROVE  WebhookInv'
<1>1. /\ hookRows' = hookRows /\ hookAttempts' = hookAttempts /\ registering' = registering /\ sse' = sse
      /\ paid' = paid /\ event' = event /\ dlq' = dlq /\ acked' = acked /\ calls' = calls
      /\ task' = task /\ faulty' = faulty
  BY DEF RetryDeadDeliveries, RetryComesDue
<1>2. requests' \in 0 .. MaxWebhookRequests /\ requests <= requests'
  <2>1. requests \in 0 .. MaxWebhookRequests
    BY DEF WebhookInv, WebhookTypeOK
  <2>2. requests' = requests \/ (requests < MaxWebhookRequests /\ requests' = requests + 1)
    BY DEF RetryDeadDeliveries, RetryComesDue, Request
  <2> QED
    BY <2>1, <2>2, WebhookNumbers
<1>3. /\ delivery' \in [DeliveryIds -> Delivery \cup {NoDelivery}]
      /\ \A d \in DeliveryIds :
           \/ delivery'[d] = delivery[d]
           \/ /\ delivery'[d] # NoDelivery /\ delivery'[d].key = delivery[d].key
              /\ delivery'[d].status = "pending"
  <2>1. CASE RetryDeadDeliveries
    <3> DEFINE row(d) == [delivery[d] EXCEPT !.status = "pending", !.attempts = 0, !.due = TRUE]
    <3>1. delivery' = [d \in DeliveryIds |-> IF delivery[d].status = "dead" THEN row(d) ELSE delivery[d]]
      BY <2>1 DEF RetryDeadDeliveries
    <3>2. ASSUME NEW d \in DeliveryIds, delivery[d].status = "dead"
          PROVE  /\ row(d) \in Delivery /\ row(d) # NoDelivery /\ row(d).key = delivery[d].key
                 /\ row(d).status = "pending"
      <4>1. delivery[d] \in Delivery
        BY <3>2 DEF WebhookInv, WebhookTypeOK, NoDelivery
      <4>2. 0 \in 0 .. WEBHOOK_MAX_RETRIES
        BY WebhookNumbers
      <4>3. row(d).key = delivery[d].key /\ row(d).status = "pending" /\ row(d) \in Delivery
        BY <4>1, <4>2 DEF Delivery
      <4> QED
        BY <4>3 DEF NoDelivery
    <3> HIDE DEF row
    <3> QED
      BY <3>1, <3>2 DEF WebhookInv, WebhookTypeOK
  <2>2. ASSUME NEW e \in DeliveryIds, RetryComesDue(e)
        PROVE  /\ delivery' \in [DeliveryIds -> Delivery \cup {NoDelivery}]
               /\ \A d \in DeliveryIds :
                    \/ delivery'[d] = delivery[d]
                    \/ /\ delivery'[d] # NoDelivery /\ delivery'[d].key = delivery[d].key
                       /\ delivery'[d].status = "pending"
    <3> DEFINE row == [delivery[e] EXCEPT !.due = TRUE]
    <3>1. delivery' = [delivery EXCEPT ![e] = row] /\ delivery[e] \in Delivery /\ delivery[e].status = "pending"
      BY <2>2 DEF RetryComesDue, WebhookInv, WebhookTypeOK
    <3>2. row \in Delivery /\ row # NoDelivery /\ row.key = delivery[e].key /\ row.status = "pending"
      BY <3>1 DEF Delivery, NoDelivery
    <3> HIDE DEF row
    <3> QED
      BY <3>1, <3>2 DEF WebhookInv, WebhookTypeOK
  <2> QED
    BY <2>1, <2>2
<1>4. WebhookTypeOK'
  BY <1>1, <1>2, <1>3 DEF WebhookInv, WebhookTypeOK
<1>5. RowsStay
  BY <1>3 DEF RowsStay
<1>6. TasksKnowTheirRow' /\ AckedWasSent'
  BY <1>1, <1>5 DEF RowsStay, WebhookInv, TasksKnowTheirRow, AckedWasSent, Recorded
<1>7. CallsAreBounded'
  <2>1. \A c \in Calls : calls[c] \in Int
    BY DEF WebhookInv, WebhookTypeOK
  <2>2. requests \in Int /\ requests' \in Int
    BY <1>2 DEF WebhookInv, WebhookTypeOK
  <2> QED
    BY <1>1, <1>2, <2>1, <2>2, WebhookNumbers DEF WebhookInv, CallsAreBounded
<1>8. DeliveredWasReceived'
  <2>1. \A d \in DeliveryIds : delivery'[d].status = "delivered" => d \in acked'
    BY <1>1, <1>3 DEF WebhookInv, DeliveredWasReceived
  <2>2. \A d \in acked : d \in DeliveryIds /\ delivery'[d].key = delivery[d].key
    BY <1>5 DEF RowsStay, WebhookInv, AckedWasSent, Recorded
  <2> QED
    BY <1>1, <2>1, <2>2 DEF WebhookInv, DeliveredWasReceived
<1>9. DeadReachesQueue'
  BY <1>1, <1>3 DEF WebhookInv, DeadReachesQueue
<1> QED
  BY <1>4, <1>6, <1>7, <1>8, <1>9 DEF WebhookInv

\* A replay adds a call for a recorded event.
LEMMA ReplaysKeepWebhooks ==
  ASSUME WebhookInv, NEW k \in EventKeys, ReplayEvent(k)
  PROVE  WebhookInv'
<1>1. /\ hookRows' = hookRows /\ hookAttempts' = hookAttempts /\ registering' = registering /\ sse' = sse
      /\ paid' = paid /\ event' = event /\ dlq' = dlq /\ acked' = acked /\ delivery' = delivery
      /\ task' = task /\ faulty' = faulty
  BY DEF ReplayEvent
<1>2. requests' = requests + 1 /\ requests \in 0 .. MaxWebhookRequests /\ requests < MaxWebhookRequests
  BY DEF ReplayEvent, Request, WebhookInv, WebhookTypeOK
<1> DEFINE c == [hook |-> k[1], payment |-> k[2], object |-> "shared"]
<1>3. c \in Calls /\ c.object = "shared"
  BY DEF Calls, EventKeys
<1>4. calls' = [calls EXCEPT ![c] = calls[c] + 1]
  BY DEF ReplayEvent
<1> HIDE DEF c
<1>5. calls \in [Calls -> 0 .. MaxStreams + MaxWebhookRequests]
  BY DEF WebhookInv, WebhookTypeOK
<1>6. calls[c] <= requests
  BY <1>3 DEF WebhookInv, CallsAreBounded
<1>7. calls[c] + 1 \in 0 .. MaxStreams + MaxWebhookRequests /\ calls[c] + 1 <= requests'
  BY <1>2, <1>3, <1>5, <1>6, WebhookNumbers
<1>8. calls' \in [Calls -> 0 .. MaxStreams + MaxWebhookRequests]
  BY <1>3, <1>4, <1>5, <1>7
<1>9. CallsAreBounded'
  <2> SUFFICES ASSUME NEW b \in Calls
               PROVE  calls'[b] <= IF b.object = "shared" THEN requests' ELSE MaxStreams
    BY DEF CallsAreBounded
  <2>1. CASE b = c
    BY <1>3, <1>4, <1>5, <1>7, <2>1
  <2>2. CASE b # c
    <3>1. calls'[b] = calls[b] /\ calls[b] \in Int
      BY <1>3, <1>4, <1>5, <2>2
    <3>2. calls[b] <= IF b.object = "shared" THEN requests ELSE MaxStreams
      BY DEF WebhookInv, CallsAreBounded
    <3> QED
      BY <1>2, <3>1, <3>2, WebhookNumbers
  <2> QED
    BY <2>1, <2>2
<1>10. WebhookTypeOK'
  <2>1. requests' \in 0 .. MaxWebhookRequests
    BY <1>2, WebhookNumbers
  <2> QED
    BY <1>1, <1>8, <2>1 DEF WebhookInv, WebhookTypeOK
<1>11. TasksKnowTheirRow' /\ AckedWasSent' /\ DeliveredWasReceived'
  BY <1>1 DEF WebhookInv, TasksKnowTheirRow, AckedWasSent, Recorded, DeliveredWasReceived
<1>12. DeadReachesQueue'
  BY <1>1 DEF WebhookInv, DeadReachesQueue
<1> QED
  BY <1>9, <1>10, <1>11, <1>12 DEF WebhookInv

\* A restart forgets what was in memory; the rows stay.
LEMMA RestartsKeepWebhooks ==
  ASSUME WebhookInv, RestoreWebhooks
  PROVE  WebhookInv'
<1>1. /\ hookRows' = hookRows /\ paid' = paid /\ event' = event /\ dlq' = dlq /\ acked' = acked
      /\ delivery' = delivery /\ registering' = {}
  BY DEF RestoreWebhooks
<1>2. faulty' \in BOOLEAN /\ faulty'
  BY Zenon DEF RestoreWebhooks
<1>3. requests' \in 0 .. MaxWebhookRequests
  BY WebhookNumbers DEF RestoreWebhooks, Request, WebhookInv, WebhookTypeOK
<1>4. hookAttempts' \in [Hooks -> 0 .. WEBHOOK_MAX_RETRIES] /\ calls' = [c \in Calls |-> 0]
  BY WebhookNumbers DEF RestoreWebhooks
<1>5. calls' \in [Calls -> 0 .. MaxStreams + MaxWebhookRequests]
  BY <1>4, WebhookNumbers
<1>6. sse' \in [open : 0 .. MaxStreams, tracked : BOOLEAN]
  BY WebhookNumbers DEF RestoreWebhooks
<1>7. task' \in [WebhookTasks -> WebhookTask \cup {WebhookIdle}] /\ \A t \in WebhookTasks : task'[t] = WebhookIdle
  BY DEF RestoreWebhooks
<1>8. WebhookTypeOK'
  BY <1>1, <1>2, <1>3, <1>4, <1>5, <1>6, <1>7 DEF WebhookInv, WebhookTypeOK
<1>9. TasksKnowTheirRow' /\ AckedWasSent'
  BY <1>1, <1>7 DEF WebhookInv, TasksKnowTheirRow, AckedWasSent, Recorded, WebhookIdle
<1>10. CallsAreBounded'
  BY <1>3, <1>4, WebhookNumbers DEF CallsAreBounded
<1>11. DeliveredWasReceived'
  BY <1>1 DEF WebhookInv, DeliveredWasReceived
<1>12. DeadReachesQueue'
  BY <1>2 DEF DeadReachesQueue
<1> QED
  BY <1>8, <1>9, <1>10, <1>11, <1>12 DEF WebhookInv

LEMMA WebhookStays == WebhookInv /\ [WebhookNext]_webhookVars => WebhookInv'
<1> SUFFICES ASSUME WebhookInv, [WebhookNext]_webhookVars PROVE WebhookInv'
  OBVIOUS
<1>1. CASE UNCHANGED webhookVars
  BY <1>1 DEF webhookVars, WebhookInv, WebhookTypeOK, TasksKnowTheirRow, AckedWasSent, Recorded,
     CallsAreBounded, DeliveredWasReceived, DeadReachesQueue
<1>2. CASE WebhookNext
  <2>1. CASE \E t \in WebhookTasks : WebhookTaskStep(t)
    BY <2>1, EventsKeepWebhooks, InsertsKeepWebhooks, AttemptsKeepWebhooks, SuccessesKeepWebhooks,
       FailuresKeepWebhooks, QueueingKeepsWebhooks, SweepsKeepWebhooks DEF WebhookTaskStep
  <2>2. CASE \E t \in WebhookTasks : StartSweep(t) \/ \E c \in Calls : StartDelivery(t, c)
    BY <2>2, StartsKeepWebhooks
  <2>3. CASE ~\E t \in WebhookTasks :
               WebhookTaskStep(t) \/ StartSweep(t) \/ \E c \in Calls : StartDelivery(t, c)
    BY <1>2, <2>3, QuietStepsKeepWebhooks, RetriesKeepWebhooks, ReplaysKeepWebhooks, RestartsKeepWebhooks
       DEF WebhookNext
  <2> QED
    BY <2>1, <2>2, <2>3
<1> QED
  BY <1>1, <1>2

\* deliverWebhook, processRetryQueue and handleDeliveryFailure: whatever tasks overlap, a
\* delivery or an event marked as delivered was acknowledged, and without a database error or
\* a restart a delivery marked as dead is in the dead letter queue or on its way there.
THEOREM DeliveriesAreTrue == WebhookSpec => []DeliveryStatusIsTrue
<1>1. WebhookInv => DeliveryStatusIsTrue
  BY DEF WebhookInv, DeliveryStatusIsTrue
<1> QED
  BY WebhookStarts, WebhookStays, <1>1, PTL DEF WebhookSpec

-----------------------------------------------------------------------------
(***************************************************************************)
(* Callbacks of the anchor.                                                *)
(***************************************************************************)
CallbackSpec == CallbackInit /\ [][CallbackNext]_callbackVars

Handling(c) == callback[c].pc = "handle"
\* Until a nonce is lost, a callback past the replay check is there once.
SeenOnce ==
    /\ \A m \in Callback : applied[m] > 0 => m \in nonces /\ anchorTransactions[m.of] # Unknown
    /\ \A m \in Callback : applied[m] <= 1
    /\ \A c \in CallbackReqs : Handling(c) => callback[c].msg \in nonces /\ applied[callback[c].msg] = 0
    /\ \A c, d \in CallbackReqs : Handling(c) /\ Handling(d) /\ callback[c].msg = callback[d].msg => c = d

CallbackInv == CallbackTypeOK /\ (callbackFaults = 0 => SeenOnce) /\ AppliedIsRecorded

LEMMA CallbackStarts == CallbackInit => CallbackInv
<1> SUFFICES ASSUME CallbackInit PROVE CallbackInv
  OBVIOUS
<1>1. LastStatus \in Nat /\ MaxCallbackFaults \in Nat
  BY CallbackAssumption
<1>2. CallbackTypeOK
  BY <1>1 DEF CallbackInit, CallbackTypeOK, Unknown
<1>3. SeenOnce
  BY DEF CallbackInit, SeenOnce, Handling, NoCallback
<1>4. AppliedIsRecorded
  BY DEF CallbackInit, AppliedIsRecorded
<1> QED
  BY <1>2, <1>3, <1>4 DEF CallbackInv

\* The anchor and the user's requests do not touch the callbacks under way.
LEMMA TransfersKeepCallbacks ==
  ASSUME CallbackInv, NEW t \in Transfers,
         AnchorAdvances(t) \/ CallAnchor(t) \/ AnchorOpens(t) \/ StoreTransfer(t)
  PROVE  CallbackInv'
<1>1. LastStatus \in Nat /\ MaxCallbackFaults \in Nat
  BY CallbackAssumption
<1>2. /\ callback' = callback /\ nonces' = nonces /\ applied' = applied
      /\ callbackFaults' \in 0 .. MaxCallbackFaults /\ (callbackFaults' = 0 => callbackFaults = 0)
  BY <1>1 DEF AnchorAdvances, CallAnchor, AnchorOpens, StoreTransfer, CallbackFault, CallbackInv, CallbackTypeOK
<1>3. \/ anchorTransactions' = anchorTransactions /\ outrun' = outrun
      \/ StoreTransfer(t)
  BY DEF AnchorAdvances, CallAnchor, AnchorOpens
<1>4. anchorTransactions' \in [Transfers -> Statuses \cup {Unknown}] /\ outrun' \subseteq Transfers
  BY <1>1, <1>3 DEF StoreTransfer, CallbackInv, CallbackTypeOK, Statuses
<1>5. /\ anchorStatus' \in [Transfers -> Statuses \cup {Unknown}] /\ posted' \subseteq Callback
      /\ transferReq' \in [Transfers -> {"unsent", "sent", "answered", "done"}]
  <2>1. CASE AnchorAdvances(t)
    <3>1. anchorStatus[t] + 1 \in Statuses
      BY <1>1, <2>1 DEF AnchorAdvances, CallbackInv, CallbackTypeOK, Statuses, Unknown
    <3> QED
      BY <2>1, <3>1 DEF AnchorAdvances, CallbackInv, CallbackTypeOK, Callback
  <2>2. CASE CallAnchor(t)
    BY <2>2 DEF CallAnchor, CallbackInv, CallbackTypeOK
  <2>3. CASE AnchorOpens(t)
    BY <1>1, <2>3 DEF AnchorOpens, CallbackInv, CallbackTypeOK, Statuses
  <2>4. CASE StoreTransfer(t)
    BY <2>4 DEF StoreTransfer, CallbackInv, CallbackTypeOK
  <2> QED
    BY <2>1, <2>2, <2>3, <2>4
<1>6. CallbackTypeOK'
  BY <1>2, <1>4, <1>5 DEF CallbackInv, CallbackTypeOK
<1>7. ASSUME callbackFaults' = 0 PROVE SeenOnce'
  <2>1. SeenOnce
    BY <1>2, <1>7 DEF CallbackInv
  <2>2. \A m \in Callback : applied[m] > 0 => anchorTransactions'[m.of] # Unknown
    BY <1>1, <1>3, <2>1 DEF StoreTransfer, CallbackInv, CallbackTypeOK, SeenOnce, Unknown, Callback
  <2> QED
    BY <1>2, <2>1, <2>2 DEF SeenOnce, Handling
<1>8. ASSUME NEW m \in Callback, applied'[m] > 0, m.of \notin outrun', callbackFaults' = 0
      PROVE  anchorTransactions'[m.of] >= m.status
  <2>1. CASE anchorTransactions' = anchorTransactions /\ outrun' = outrun
    BY <1>2, <1>8, <2>1 DEF CallbackInv, AppliedIsRecorded
  <2>2. CASE StoreTransfer(t)
    <3>1. anchorTransactions[m.of] # Unknown
      BY <1>2, <1>8 DEF CallbackInv, SeenOnce
    <3>2. m.of # t /\ m.of \notin outrun
      BY <1>8, <2>2, <3>1 DEF StoreTransfer
    <3> QED
      BY <1>2, <1>8, <2>2, <3>2 DEF StoreTransfer, CallbackInv, CallbackTypeOK, AppliedIsRecorded, Callback
  <2> QED
    BY <1>3, <2>1, <2>2
<1> QED
  BY <1>6, <1>7, <1>8 DEF CallbackInv, AppliedIsRecorded

\* A callback is let in to have its nonce checked, or given up by the anchor.
LEMMA ArrivalsKeepCallbacks ==
  ASSUME CallbackInv, NEW m \in posted,
         AnchorGivesUp(m) \/ \E c \in CallbackReqs : VerifySignature(c, m)
  PROVE  CallbackInv'
<1>1. /\ nonces' = nonces /\ applied' = applied /\ callbackFaults' = callbackFaults
      /\ anchorTransactions' = anchorTransactions /\ outrun' = outrun
      /\ anchorStatus' = anchorStatus /\ transferReq' = transferReq /\ posted' \subseteq Callback
  BY DEF AnchorGivesUp, VerifySignature, CallbackInv, CallbackTypeOK
<1>2. /\ callback' \in [CallbackReqs -> Verifying \cup {NoCallback}]
      /\ \A c \in CallbackReqs : callback'[c].pc = "handle" => callback'[c] = callback[c]
  <2>1. CASE AnchorGivesUp(m)
    BY <2>1 DEF AnchorGivesUp, CallbackInv, CallbackTypeOK
  <2>2. ASSUME NEW c \in CallbackReqs, VerifySignature(c, m)
        PROVE  /\ callback' \in [CallbackReqs -> Verifying \cup {NoCallback}]
               /\ \A d \in CallbackReqs : callback'[d].pc = "handle" => callback'[d] = callback[d]
    <3> DEFINE v == [pc |-> "nonce", msg |-> m]
    <3>1. v \in Verifying /\ v.pc = "nonce" /\ callback' = [callback EXCEPT ![c] = v]
      BY <2>2 DEF VerifySignature, CallbackInv, CallbackTypeOK, Verifying
    <3> HIDE DEF v
    <3> QED
      BY <3>1 DEF CallbackInv, CallbackTypeOK
  <2> QED
    BY <2>1, <2>2
<1>3. CallbackTypeOK'
  BY <1>1, <1>2 DEF CallbackInv, CallbackTypeOK
<1>4. callbackFaults' = 0 => SeenOnce'
  BY <1>1, <1>2 DEF CallbackInv, SeenOnce, Handling
<1> QED
  BY <1>1, <1>3, <1>4 DEF CallbackInv, AppliedIsRecorded

\* A signature not seen before is let through, so no other request handles it.
LEMMA NoncesKeepCallbacks ==
  ASSUME CallbackInv, NEW c \in CallbackReqs, CheckNonce(c)
  PROVE  CallbackInv'
<1> DEFINE m == callback[c].msg
           v == [callback[c] EXCEPT !.pc = "handle"]
<1>1. /\ applied' = applied /\ callbackFaults' = callbackFaults /\ posted' = posted
      /\ anchorTransactions' = anchorTransactions /\ outrun' = outrun
      /\ anchorStatus' = anchorStatus /\ transferReq' = transferReq /\ nonces' = nonces \cup {m}
  BY DEF CheckNonce
<1>2. callback[c] \in Verifying /\ m \in Callback
  BY DEF CheckNonce, CallbackInv, CallbackTypeOK, NoCallback, Verifying
<1>3. v \in Verifying /\ v.pc = "handle" /\ v.msg = m
  BY <1>2 DEF Verifying
<1>4. callback' = [callback EXCEPT ![c] = IF m \in nonces THEN NoCallback ELSE v]
  BY DEF CheckNonce
<1> HIDE DEF v, m
<1>5. CallbackTypeOK'
  BY <1>1, <1>2, <1>3, <1>4 DEF CallbackInv, CallbackTypeOK
<1>6. \A d \in CallbackReqs : callback'[d].pc = "handle" =>
        \/ d # c /\ callback'[d] = callback[d]
        \/ d = c /\ m \notin nonces /\ callback'[d].msg = m
  BY <1>3, <1>4 DEF CallbackInv, CallbackTypeOK, NoCallback
<1>7. ASSUME callbackFaults' = 0 PROVE SeenOnce'
  <2>1. SeenOnce
    BY <1>1, <1>7 DEF CallbackInv
  <2>2. \A k \in Callback : k \notin nonces => applied[k] = 0
    BY <2>1 DEF SeenOnce, CallbackInv, CallbackTypeOK
  <2>3. \A k \in Callback : applied[k] > 0 => k \in nonces' /\ anchorTransactions'[k.of] # Unknown
    BY <1>1, <2>1 DEF SeenOnce
  <2>4. \A d \in CallbackReqs : callback'[d].pc = "handle" =>
          callback'[d].msg \in nonces' /\ applied'[callback'[d].msg] = 0
    BY <1>1, <1>2, <1>6, <2>1, <2>2 DEF SeenOnce, Handling
  <2>5. \A d, e \in CallbackReqs :
          callback'[d].pc = "handle" /\ callback'[e].pc = "handle" /\ callback'[d].msg = callback'[e].msg => d = e
    BY <1>6, <2>1 DEF SeenOnce, Handling
  <2> QED
    BY <1>1, <2>1, <2>3, <2>4, <2>5 DEF SeenOnce, Handling
<1> QED
  BY <1>1, <1>5, <1>7 DEF CallbackInv, AppliedIsRecorded

\* A callback is applied for the first time, and what it overtakes is outrun.
LEMMA HandlingKeepsCallbacks ==
  ASSUME CallbackInv, NEW c \in CallbackReqs, HandleCallback(c)
  PROVE  CallbackInv'
<1> DEFINE m == callback[c].msg
<1>1. LastStatus \in Nat
  BY CallbackAssumption
<1>2. m \in Callback /\ m.of \in Transfers /\ m.status \in Statuses
  BY DEF HandleCallback, CallbackInv, CallbackTypeOK, NoCallback, Verifying, Callback
<1>3. /\ callbackFaults' = callbackFaults /\ nonces' = nonces
      /\ anchorStatus' = anchorStatus /\ transferReq' = transferReq /\ posted' \subseteq posted
      /\ anchorTransactions' = [anchorTransactions EXCEPT ![m.of] = m.status]
      /\ applied' = [applied EXCEPT ![m] = IF applied[m] < 2 THEN applied[m] + 1 ELSE applied[m]]
      /\ callback' = [callback EXCEPT ![c] = NoCallback]
  BY DEF HandleCallback
<1>4. outrun' = IF anchorTransactions[m.of] \in Statuses /\ anchorTransactions[m.of] > m.status
                THEN outrun \cup {m.of} ELSE outrun
  BY DEF HandleCallback
<1>5. callback[c].pc = "handle"
  BY DEF HandleCallback
<1> HIDE DEF m
<1>6. CallbackTypeOK'
  <2>1. applied' \in [Callback -> 0 .. 2]
    BY <1>2, <1>3 DEF CallbackInv, CallbackTypeOK
  <2> QED
    BY <1>2, <1>3, <1>4, <2>1 DEF CallbackInv, CallbackTypeOK
<1>7. ASSUME callbackFaults' = 0 PROVE SeenOnce'
  <2>1. SeenOnce
    BY <1>3, <1>7 DEF CallbackInv
  <2>2. m \in nonces /\ applied[m] = 0
    BY <1>5, <2>1 DEF SeenOnce, Handling, m
  <2>3. \A k \in Callback : applied'[k] = IF k = m THEN 1 ELSE applied[k]
    BY <1>2, <1>3, <2>2 DEF CallbackInv, CallbackTypeOK
  <2>4. m.status # Unknown
    BY <1>1, <1>2 DEF Statuses, Unknown
  <2>5. \A k \in Callback : applied'[k] > 0 => k \in nonces' /\ anchorTransactions'[k.of] # Unknown
    <3> TAKE k \in Callback
    <3> HAVE applied'[k] > 0
    <3>1. k.of \in Transfers
      BY DEF Callback
    <3>2. CASE k = m
      BY <1>2, <1>3, <2>2, <2>4, <3>2 DEF CallbackInv, CallbackTypeOK
    <3>3. CASE k # m
      BY <1>2, <1>3, <2>1, <2>3, <2>4, <3>1, <3>3 DEF CallbackInv, CallbackTypeOK, SeenOnce
    <3> QED
      BY <3>2, <3>3
  <2>6. \A d \in CallbackReqs : callback'[d].pc = "handle" => d # c /\ callback'[d] = callback[d]
    BY <1>3 DEF CallbackInv, CallbackTypeOK, NoCallback
  <2>7. \A d \in CallbackReqs : callback'[d].pc = "handle" =>
          callback'[d].msg \in Callback /\ callback'[d].msg \in nonces'
          /\ callback'[d].msg # m /\ applied[callback'[d].msg] = 0
    <3> TAKE d \in CallbackReqs
    <3> HAVE callback'[d].pc = "handle"
    <3>1. d # c /\ callback'[d] = callback[d] /\ callback[d].pc = "handle"
      BY <2>6
    <3>2. callback[d].msg \in Callback
      BY <3>1 DEF CallbackInv, CallbackTypeOK, NoCallback, Verifying
    <3>3. callback[d].msg \in nonces /\ applied[callback[d].msg] = 0 /\ callback[d].msg # callback[c].msg
      BY <1>5, <2>1, <3>1 DEF SeenOnce, Handling
    <3> QED
      BY <1>3, <3>1, <3>2, <3>3 DEF m
  <2>8. \A d \in CallbackReqs : callback'[d].pc = "handle" => applied'[callback'[d].msg] = 0
    BY <2>3, <2>7
  <2>9. \A d, e \in CallbackReqs :
          callback'[d].pc = "handle" /\ callback'[e].pc = "handle" /\ callback'[d].msg = callback'[e].msg => d = e
    BY <2>1, <2>6 DEF SeenOnce, Handling
  <2>10. \A k \in Callback : applied'[k] <= 1
    BY <2>1, <2>3 DEF SeenOnce
  <2> QED
    BY <2>5, <2>7, <2>8, <2>9, <2>10 DEF SeenOnce, Handling
<1>8. ASSUME NEW k \in Callback, applied'[k] > 0, k.of \notin outrun', callbackFaults' = 0
      PROVE  anchorTransactions'[k.of] >= k.status
  <2>1. SeenOnce /\ callbackFaults = 0
    BY <1>3, <1>8 DEF CallbackInv
  <2>2. k.of \in Transfers /\ k.status \in Statuses /\ k.of \notin outrun
    BY <1>4, <1>8 DEF Callback
  <2>3. CASE k = m
    BY <1>1, <1>2, <1>3, <2>3 DEF CallbackInv, CallbackTypeOK, Statuses
  <2>4. CASE k # m
    <3>1. applied[k] > 0
      BY <1>2, <1>3, <1>8, <2>4 DEF CallbackInv, CallbackTypeOK
    <3>2. anchorTransactions[k.of] >= k.status
      BY <2>1, <2>2, <3>1 DEF CallbackInv, AppliedIsRecorded
    <3>3. anchorTransactions[k.of] \in Statuses
      BY <2>1, <2>2, <3>1 DEF SeenOnce, CallbackInv, CallbackTypeOK
    <3>4. CASE k.of = m.of
      <4>1. ~(anchorTransactions[m.of] > m.status)
        BY <1>4, <1>8, <3>3, <3>4
      <4>2. m.status >= k.status
        BY <1>1, <1>2, <2>2, <3>2, <3>3, <3>4, <4>1 DEF Statuses
      <4> QED
        BY <1>2, <1>3, <3>4, <4>2 DEF CallbackInv, CallbackTypeOK
    <3>5. CASE k.of # m.of
      BY <1>2, <1>3, <2>2, <3>2, <3>5 DEF CallbackInv, CallbackTypeOK
    <3> QED
      BY <3>4, <3>5
  <2> QED
    BY <2>3, <2>4
<1> QED
  BY <1>6, <1>7, <1>8 DEF CallbackInv, AppliedIsRecorded

\* A lost nonce and a restart are faults; what they forget is told by the counter.
LEMMA FaultsKeepCallbacks ==
  ASSUME CallbackInv, RestartBackend \/ \E m \in nonces : NonceExpires(m)
  PROVE  CallbackInv'
<1>1. LastStatus \in Nat /\ MaxCallbackFaults \in Nat
  BY CallbackAssumption
<1>2. callbackFaults' \in 0 .. MaxCallbackFaults /\ callbackFaults' # 0
  BY <1>1 DEF RestartBackend, NonceExpires, CallbackFault, CallbackInv, CallbackTypeOK
<1>3. CallbackTypeOK'
  <2>1. CASE RestartBackend
    BY <1>2, <2>1 DEF RestartBackend, CallbackInv, CallbackTypeOK
  <2>2. CASE \E m \in nonces : NonceExpires(m)
    BY <1>2, <2>2 DEF NonceExpires, CallbackInv, CallbackTypeOK
  <2> QED
    BY <2>1, <2>2
<1> QED
  BY <1>2, <1>3 DEF CallbackInv, AppliedIsRecorded

LEMMA CallbackStays == CallbackInv /\ [CallbackNext]_callbackVars => CallbackInv'
<1> SUFFICES ASSUME CallbackInv, [CallbackNext]_callbackVars PROVE CallbackInv'
  OBVIOUS
<1>1. CASE UNCHANGED callbackVars
  BY <1>1 DEF callbackVars, CallbackInv, CallbackTypeOK, SeenOnce, Handling, AppliedIsRecorded
<1>2. CASE CallbackNext
  BY <1>2, TransfersKeepCallbacks, ArrivalsKeepCallbacks, NoncesKeepCallbacks, HandlingKeepsCallbacks,
     FaultsKeepCallbacks DEF CallbackNext
<1> QED
  BY <1>1, <1>2

\* verifyInboundWebhookSignature and handleAnchorCallback: a repeated callback is applied
\* once while its nonce is kept, and the record of a transfer never falls behind an applied
\* status unless an answer or an older callback overtook it.
THEOREM RecordsFollowTheAnchor == CallbackSpec => []RecordFollowsAnchor
<1>1. CallbackInv => RecordFollowsAnchor
  <2> SUFFICES ASSUME CallbackInv PROVE RecordFollowsAnchor
    OBVIOUS
  <2>1. ASSUME NEW m \in Callback, applied[m] > 1 PROVE callbackFaults > 0
    <3>1. callbackFaults \in Nat /\ applied[m] \in Nat
      BY DEF CallbackInv, CallbackTypeOK
    <3>2. callbackFaults # 0
      BY <2>1, <3>1 DEF CallbackInv, SeenOnce
    <3> QED
      BY <3>1, <3>2
  <2> QED
    BY <2>1 DEF CallbackInv, RecordFollowsAnchor, CallbackAppliedOnce
<1> QED
  BY CallbackStarts, CallbackStays, <1>1, PTL DEF CallbackSpec

-----------------------------------------------------------------------------
(***************************************************************************)
(* The email queue.  Overlapping runs select each other's rows, so the     *)
(* invariant says who may work on a row that was never taken over as       *)
(* stale: one run, the one that turned it from pending to processing.      *)
(***************************************************************************)
MailSpec == MailInit /\ [][MailNext]_mailVars

WorksOn(w, m) == mailRun[w].pc \in {"check", "cancel", "send", "hand", "settle"} /\ mailRun[w].item = m

OptOutsAreStored == \A a \in optedOut : unsubscribes[a] # "none"

AttemptsAreLeft ==
    \A m \in Mails : mail[m].status \in {"pending", "processing"} => mail[m].attempts < MaxAttempts

\* A run works on rows that exist, as it selected them, and hands over a mail only
\* after a look that found nothing.
KnowsRows(r, rows) ==
    r # NotRunning =>
        /\ \A m \in Mails : r.seen[m].attempts < MaxAttempts
        /\ \A m \in r.todo : rows[m] # NoMail
        /\ r.pc # "next" => r.item \in Mails /\ rows[r.item] # NoMail
        /\ r.pc = "hand" => r.clear
RunsKnowTheirRows == \A w \in MailRuns : KnowsRows(mailRun[w], mail)

RowsHaveOneOwner ==
    \A m \in Mails \ reclaimed :
        /\ \A w \in MailRuns : WorksOn(w, m) => mail[m].status = "processing"
        /\ \A v, w \in MailRuns : WorksOn(v, m) /\ WorksOn(w, m) => v = w
        /\ handed[m] > 0 =>
             /\ mail[m].status \in {"processing", "sent"}
             /\ \A w \in MailRuns : WorksOn(w, m) => mailRun[w].pc = "settle" /\ mailRun[w].ok

MailInv ==
    MailTypeOK /\ OptOutsAreStored /\ AttemptsAreLeft /\ RunsKnowTheirRows /\ RowsHaveOneOwner

LEMMA MailStarts == MailInit => MailInv
<1> SUFFICES ASSUME MailInit PROVE MailInv
  OBVIOUS
<1>1. MailTypeOK
  <2>1. 0 \in 0 .. 2 /\ 0 \in 0 .. HARD_BOUNCE_THRESHOLD /\ 0 \in 0 .. MaxMailFaults
    BY MailAssumption
  <2>2. mail \in [Mails -> Mail \cup {NoMail}] /\ queuer \in [Queuers -> Queued \cup {NotRunning}]
        /\ mailRun \in [MailRuns -> MailRun \cup {NotRunning}]
        /\ unsubscribes \in [MailAddrs -> {"none", "token", "unsubscribed"}]
    BY DEF MailInit
  <2> QED
    BY <2>1, <2>2 DEF MailInit, MailTypeOK
<1>2. OptOutsAreStored /\ AttemptsAreLeft
  BY DEF MailInit, OptOutsAreStored, AttemptsAreLeft, NoMail
<1>3. RunsKnowTheirRows
  BY DEF MailInit, RunsKnowTheirRows, KnowsRows
<1>4. RowsHaveOneOwner
  BY DEF MailInit, RowsHaveOneOwner, WorksOn, NotRunning
<1> QED
  BY <1>1, <1>2, <1>3, <1>4 DEF MailInv

\* A run under way, and the row it works on.
LEMMA RunUnderWay ==
    ASSUME MailInv, NEW w \in MailRuns, mailRun[w].pc # "idle"
    PROVE  /\ mailRun[w] \in MailRun /\ mailRun[w] # NotRunning
           /\ mailRun[w].pc \in {"next", "check", "cancel", "send", "hand", "settle"}
           /\ mailRun[w].todo \in SUBSET Mails /\ mailRun[w].ok \in BOOLEAN
           /\ mailRun[w].seen \in [Mails -> Seen]
           /\ KnowsRows(mailRun[w], mail)
           /\ mailRun[w].pc # "next" =>
                mailRun[w].item \in Mails /\ mail[mailRun[w].item] \in Mail
<1>1. mailRun[w] \in MailRun \cup {NotRunning} /\ KnowsRows(mailRun[w], mail)
      /\ mail \in [Mails -> Mail \cup {NoMail}]
  BY DEF MailInv, MailTypeOK, RunsKnowTheirRows
<1>2. mailRun[w] \in MailRun /\ mailRun[w] # NotRunning
  BY <1>1 DEF NotRunning, MailRun
<1> QED
  BY <1>1, <1>2 DEF MailRun, KnowsRows

\* What a step of one run that writes one row keeps, the owners apart.
LEMMA RunAndRow ==
    ASSUME MailInv, NEW w \in MailRuns, NEW r \in MailRun \cup {NotRunning},
           NEW m \in Mails, NEW row \in Mail \cup {NoMail},
           mail' = [mail EXCEPT ![m] = row], mailRun' = [mailRun EXCEPT ![w] = r],
           mail[m] # NoMail => row # NoMail,
           row.status \in {"pending", "processing"} => row.attempts < MaxAttempts,
           KnowsRows(r, mail)
    PROVE  /\ mail' \in [Mails -> Mail \cup {NoMail}]
           /\ mailRun' \in [MailRuns -> MailRun \cup {NotRunning}]
           /\ AttemptsAreLeft' /\ RunsKnowTheirRows'
           /\ \A n \in Mails : mail'[n] = IF n = m THEN row ELSE mail[n]
           /\ \A v \in MailRuns : mailRun'[v] = IF v = w THEN r ELSE mailRun[v]
<1>1. /\ mail \in [Mails -> Mail \cup {NoMail}]
      /\ mailRun \in [MailRuns -> MailRun \cup {NotRunning}]
      /\ AttemptsAreLeft /\ RunsKnowTheirRows
  BY DEF MailInv, MailTypeOK
<1>2. /\ mail' \in [Mails -> Mail \cup {NoMail}]
      /\ mailRun' \in [MailRuns -> MailRun \cup {NotRunning}]
      /\ \A n \in Mails : mail'[n] = IF n = m THEN row ELSE mail[n]
      /\ \A v \in MailRuns : mailRun'[v] = IF v = w THEN r ELSE mailRun[v]
  BY <1>1
<1>3. AttemptsAreLeft'
  BY <1>1, <1>2 DEF AttemptsAreLeft
<1>4. ASSUME NEW s \in MailRun \cup {NotRunning}, KnowsRows(s, mail) PROVE KnowsRows(s, mail')
  <2>1. CASE s = NotRunning
    BY <2>1 DEF KnowsRows
  <2>2. CASE s \in MailRun
    <3>1. s.todo \subseteq Mails
      BY <2>2 DEF MailRun
    <3>2. \A n \in Mails : mail[n] # NoMail => mail'[n] # NoMail
      BY <1>2
    <3> QED
      BY <1>4, <3>1, <3>2 DEF KnowsRows
  <2> QED
    BY <2>1, <2>2
<1>5. RunsKnowTheirRows'
  BY <1>1, <1>2, <1>4 DEF RunsKnowTheirRows
<1> QED
  BY <1>2, <1>3, <1>5

\* The owner of a row: where a step changes neither what is handed over nor what
\* was taken over, and only its own run and the row m.
LEMMA OwnersStay ==
    ASSUME MailInv, NEW w \in MailRuns, NEW r \in MailRun \cup {NotRunning},
           NEW m \in Mails, NEW row \in Mail \cup {NoMail},
           \A n \in Mails : mail'[n] = IF n = m THEN row ELSE mail[n],
           \A v \in MailRuns : mailRun'[v] = IF v = w THEN r ELSE mailRun[v],
           handed' = handed, reclaimed' = reclaimed,
           \* the run works on nothing any more
           r.pc \notin {"check", "cancel", "send", "hand", "settle"},
           \* the row: its status stays, or it is the run's, which gives it up
           \/ row.status = mail[m].status
           \/ /\ WorksOn(w, m) /\ r.pc = "next"
              /\ m \notin reclaimed /\ handed[m] > 0 => row.status = "sent"
    PROVE  RowsHaveOneOwner'
<1> SUFFICES ASSUME NEW n \in Mails, n \notin reclaimed
             PROVE  /\ \A v \in MailRuns : WorksOn(v, n)' => mail'[n].status = "processing"
                    /\ \A u, v \in MailRuns : WorksOn(u, n)' /\ WorksOn(v, n)' => u = v
                    /\ handed[n] > 0 =>
                         /\ mail'[n].status \in {"processing", "sent"}
                         /\ \A v \in MailRuns : WorksOn(v, n)' =>
                              mailRun'[v].pc = "settle" /\ mailRun'[v].ok
  BY DEF RowsHaveOneOwner
<1>1. /\ \A v \in MailRuns : WorksOn(v, n) => mail[n].status = "processing"
      /\ \A u, v \in MailRuns : WorksOn(u, n) /\ WorksOn(v, n) => u = v
      /\ handed[n] > 0 =>
           /\ mail[n].status \in {"processing", "sent"}
           /\ \A v \in MailRuns : WorksOn(v, n) => mailRun[v].pc = "settle" /\ mailRun[v].ok
  BY DEF MailInv, RowsHaveOneOwner
<1>2. \A v \in MailRuns : WorksOn(v, n)' => WorksOn(v, n) /\ v # w /\ mailRun'[v] = mailRun[v]
  BY DEF WorksOn
<1>3. (\E v \in MailRuns : WorksOn(v, n)') => mail'[n].status = mail[n].status
  BY <1>1, <1>2 DEF WorksOn
<1> QED
  BY <1>1, <1>2, <1>3

\* The same where no run moves: a row is added, or keeps its status.
LEMMA RowAlone ==
    ASSUME MailInv, NEW m \in Mails, NEW row \in Mail,
           mail' = [mail EXCEPT ![m] = row],
           UNCHANGED <<mailRun, handed, reclaimed>>,
           row.status \in {"pending", "processing"} => row.attempts < MaxAttempts,
           mail[m] = NoMail \/ row.status = mail[m].status
    PROVE  /\ mail' \in [Mails -> Mail \cup {NoMail}]
           /\ AttemptsAreLeft' /\ RunsKnowTheirRows' /\ RowsHaveOneOwner'
<1>1. /\ mail \in [Mails -> Mail \cup {NoMail}]
      /\ mailRun \in [MailRuns -> MailRun \cup {NotRunning}]
      /\ AttemptsAreLeft /\ RunsKnowTheirRows /\ RowsHaveOneOwner
  BY DEF MailInv, MailTypeOK
<1>2. /\ mail' \in [Mails -> Mail \cup {NoMail}]
      /\ \A n \in Mails : mail'[n] = IF n = m THEN row ELSE mail[n]
      /\ \A v \in MailRuns : mailRun'[v] = mailRun[v]
  BY <1>1
<1>3. AttemptsAreLeft'
  BY <1>1, <1>2 DEF AttemptsAreLeft
<1>4. row # NoMail
  BY DEF Mail, NoMail
<1>5. ASSUME NEW v \in MailRuns PROVE KnowsRows(mailRun[v], mail')
  <2>1. CASE mailRun[v] = NotRunning
    BY <2>1 DEF KnowsRows
  <2>2. CASE mailRun[v] \in MailRun
    <3>1. mailRun[v].todo \subseteq Mails /\ KnowsRows(mailRun[v], mail)
      BY <1>1, <2>2 DEF MailRun, RunsKnowTheirRows
    <3>2. \A n \in Mails : mail[n] # NoMail => mail'[n] # NoMail
      BY <1>2, <1>4
    <3> QED
      BY <3>1, <3>2 DEF KnowsRows
  <2> QED
    BY <1>1, <2>1, <2>2
<1>6. RunsKnowTheirRows'
  BY <1>2, <1>5 DEF RunsKnowTheirRows
<1>7. ASSUME NEW n \in Mails PROVE mail'[n].status = mail[n].status \/ mail[n].status = "none"
  BY <1>2 DEF NoMail
<1>8. RowsHaveOneOwner'
  BY <1>1, <1>2, <1>7 DEF RowsHaveOneOwner, WorksOn
<1> QED
  BY <1>2, <1>3, <1>6, <1>8

-----------------------------------------------------------------------------
LEMMA QueueingKeepsMail ==
    ASSUME MailInv, NEW q \in Queuers,
           \/ CheckRate(q) \/ EnsureUnsubscribeToken(q)
           \/ \E a \in MailAddrs : QueueEmail(q, a)
           \/ \E m \in Mails : InsertMail(q, m)
    PROVE  MailInv'
<1>1. MailTypeOK /\ OptOutsAreStored /\ AttemptsAreLeft /\ RunsKnowTheirRows /\ RowsHaveOneOwner
  BY DEF MailInv
<1>2. queuer \in [Queuers -> Queued \cup {NotRunning}] /\ NotRunning \notin Queued
  BY <1>1 DEF MailTypeOK, Queued, NotRunning
<1>3. CASE UNCHANGED <<mail, mailRun, handed, reclaimed>> /\ ~\E m \in Mails : InsertMail(q, m)
  <2>1. queuer' \in [Queuers -> Queued \cup {NotRunning}]
    BY <1>2, <1>3 DEF CheckRate, EnsureUnsubscribeToken, QueueEmail, Queued, NotRunning
  <2>2. /\ unsubscribes' \in [MailAddrs -> {"none", "token", "unsubscribed"}]
        /\ OptOutsAreStored' /\ mailFaults' \in 0 .. MaxMailFaults
    <3>1. CASE EnsureUnsubscribeToken(q)
      <4>1. mailFaults' \in 0 .. MaxMailFaults
        BY <1>1, <3>1, MailAssumption DEF EnsureUnsubscribeToken, MailFault, MailTypeOK
      <4>2. /\ unsubscribes' \in [MailAddrs -> {"none", "token", "unsubscribed"}]
            /\ \A a \in MailAddrs : unsubscribes[a] # "none" => unsubscribes'[a] # "none"
        BY <1>1, <3>1 DEF EnsureUnsubscribeToken, MailTypeOK
      <4>3. optedOut' = optedOut /\ optedOut \subseteq MailAddrs
        BY <1>1, <3>1 DEF EnsureUnsubscribeToken, MailTypeOK
      <4> QED
        BY <1>1, <4>1, <4>2, <4>3 DEF OptOutsAreStored
    <3>2. CASE ~EnsureUnsubscribeToken(q)
      BY <1>1, <1>3, <3>2 DEF CheckRate, QueueEmail, MailTypeOK, OptOutsAreStored
    <3> QED
      BY <3>1, <3>2
  <2>3. UNCHANGED <<bounces, optedOut>>
    BY <1>3 DEF CheckRate, EnsureUnsubscribeToken, QueueEmail
  <2>4. MailTypeOK'
    BY <1>1, <1>3, <2>1, <2>2, <2>3 DEF MailTypeOK
  <2>5. AttemptsAreLeft' /\ RunsKnowTheirRows' /\ RowsHaveOneOwner'
    BY <1>1, <1>3 DEF AttemptsAreLeft, RunsKnowTheirRows, KnowsRows, RowsHaveOneOwner, WorksOn
  <2> QED
    BY <2>2, <2>4, <2>5 DEF MailInv
<1>4. ASSUME NEW m \in Mails, InsertMail(q, m) PROVE MailInv'
  <2> DEFINE row == [status |-> "pending", to |-> queuer[q].to, attempts |-> 0,
                     due |-> TRUE, stale |-> FALSE]
  <2>1. queuer[q] \in Queued /\ mail[m] = NoMail /\ mail' = [mail EXCEPT ![m] = row]
        /\ UNCHANGED <<unsubscribes, mailRun, handed, bounces, optedOut, reclaimed, mailFaults>>
    BY <1>2, <1>4 DEF InsertMail, NotRunning
  <2>2. row \in Mail /\ row.status = "pending" /\ row.attempts < MaxAttempts
    BY <2>1, MailAssumption DEF Queued, Mail
  <2> HIDE DEF row
  <2>3. /\ mail' \in [Mails -> Mail \cup {NoMail}]
        /\ AttemptsAreLeft' /\ RunsKnowTheirRows' /\ RowsHaveOneOwner'
    BY <2>1, <2>2, RowAlone
  <2>4. queuer' \in [Queuers -> Queued \cup {NotRunning}]
    BY <1>2, <1>4 DEF InsertMail
  <2>5. MailTypeOK' /\ OptOutsAreStored'
    BY <1>1, <2>1, <2>3, <2>4 DEF MailTypeOK, OptOutsAreStored
  <2> QED
    BY <2>3, <2>5 DEF MailInv
<1> QED
  BY <1>3, <1>4 DEF CheckRate, EnsureUnsubscribeToken, QueueEmail

LEMMA TimeKeepsMail ==
    ASSUME MailInv, NEW m \in Mails, BackoffPasses(m) \/ GoesStale(m)
    PROVE  MailInv'
<1>1. MailTypeOK /\ OptOutsAreStored /\ AttemptsAreLeft
  BY DEF MailInv
<1>2. mail[m] \in Mail
  BY <1>1 DEF MailTypeOK, BackoffPasses, GoesStale, NoMail
<1>3. PICK row \in Mail : /\ mail' = [mail EXCEPT ![m] = row]
                          /\ row.status = mail[m].status /\ row.attempts = mail[m].attempts
  <2>1. CASE BackoffPasses(m)
    <3> DEFINE row == [mail[m] EXCEPT !.due = TRUE]
    <3>1. row \in Mail /\ row.status = mail[m].status /\ row.attempts = mail[m].attempts
      BY <1>2 DEF Mail
    <3>2. mail' = [mail EXCEPT ![m] = row]
      BY <2>1 DEF BackoffPasses
    <3> QED
      BY <3>1, <3>2
  <2>2. CASE GoesStale(m)
    <3> DEFINE row == [mail[m] EXCEPT !.stale = TRUE]
    <3>1. row \in Mail /\ row.status = mail[m].status /\ row.attempts = mail[m].attempts
      BY <1>2 DEF Mail
    <3>2. mail' = [mail EXCEPT ![m] = row]
      BY <2>2 DEF GoesStale
    <3> QED
      BY <3>1, <3>2
  <2> QED
    BY <2>1, <2>2
<1>4. UNCHANGED <<unsubscribes, queuer, mailRun, handed, bounces, optedOut, reclaimed, mailFaults>>
  BY DEF BackoffPasses, GoesStale
<1>5. row.status \in {"pending", "processing"} => row.attempts < MaxAttempts
  BY <1>1, <1>3 DEF AttemptsAreLeft
<1>6. /\ mail' \in [Mails -> Mail \cup {NoMail}]
      /\ AttemptsAreLeft' /\ RunsKnowTheirRows' /\ RowsHaveOneOwner'
  BY <1>3, <1>4, <1>5, RowAlone
<1>7. MailTypeOK' /\ OptOutsAreStored'
  BY <1>1, <1>4, <1>6 DEF MailTypeOK, OptOutsAreStored
<1> QED
  BY <1>6, <1>7 DEF MailInv

LEMMA RecipientsKeepInv ==
    ASSUME MailInv, NEW a \in MailAddrs,
           \/ UnsubscribeMail(a) \/ HandleBounce(a)
           \/ \E all \in BOOLEAN : UnsubscribeByLink(a, all)
    PROVE  MailInv'
<1>1. MailTypeOK /\ OptOutsAreStored /\ AttemptsAreLeft /\ RunsKnowTheirRows /\ RowsHaveOneOwner
  BY DEF MailInv
<1>2. UNCHANGED <<mail, queuer, mailRun, handed, reclaimed, mailFaults>>
  BY DEF UnsubscribeMail, HandleBounce, UnsubscribeByLink
<1>3. /\ unsubscribes' \in [MailAddrs -> {"none", "token", "unsubscribed"}]
      /\ bounces' \in [MailAddrs -> 0 .. HARD_BOUNCE_THRESHOLD]
      /\ optedOut' \subseteq MailAddrs
  <2>1. CASE HandleBounce(a)
    <3>1. bounces[a] \in Nat /\ bounces[a] + 1 \in 0 .. HARD_BOUNCE_THRESHOLD
      BY <1>1, <2>1, MailAssumption DEF HandleBounce, MailTypeOK
    <3> QED
      BY <1>1, <2>1, <3>1 DEF HandleBounce, MailTypeOK
  <2>2. CASE ~HandleBounce(a)
    BY <1>1, <2>2 DEF UnsubscribeMail, UnsubscribeByLink, MailTypeOK
  <2> QED
    BY <2>1, <2>2
<1>4. OptOutsAreStored'
  <2>1. /\ optedOut \subseteq MailAddrs /\ \A b \in optedOut : unsubscribes[b] # "none"
        /\ unsubscribes \in [MailAddrs -> {"none", "token", "unsubscribed"}]
    BY <1>1 DEF MailTypeOK, OptOutsAreStored
  <2>2. ASSUME NEW b \in optedOut' PROVE unsubscribes'[b] # "none"
    BY <1>3, <2>1, <2>2 DEF UnsubscribeMail, HandleBounce, UnsubscribeByLink
  <2> QED
    BY <2>2 DEF OptOutsAreStored
<1>5. MailTypeOK' /\ AttemptsAreLeft' /\ RunsKnowTheirRows' /\ RowsHaveOneOwner'
  BY <1>1, <1>2, <1>3 DEF MailTypeOK, AttemptsAreLeft, RunsKnowTheirRows, KnowsRows,
                          RowsHaveOneOwner, WorksOn
<1> QED
  BY <1>4, <1>5 DEF MailInv

-----------------------------------------------------------------------------
\* A run that works on nothing afterwards, or goes on with a row that it has not
\* handed over.
LEMMA RunAlone ==
    ASSUME MailInv, NEW w \in MailRuns, NEW r \in MailRun \cup {NotRunning},
           mailRun' = [mailRun EXCEPT ![w] = r], KnowsRows(r, mail),
           UNCHANGED <<mail, unsubscribes, queuer, handed, bounces, optedOut, reclaimed>>,
           mailFaults' \in 0 .. MaxMailFaults,
           \/ r.pc \notin {"check", "cancel", "send", "hand", "settle"}
           \/ mailRun[w].pc \in {"check", "send"} /\ r.item = mailRun[w].item
    PROVE  MailInv'
<1>1. MailTypeOK /\ OptOutsAreStored /\ AttemptsAreLeft /\ RunsKnowTheirRows /\ RowsHaveOneOwner
  BY DEF MailInv
<1>2. mailRun' \in [MailRuns -> MailRun \cup {NotRunning}]
      /\ \A v \in MailRuns : mailRun'[v] = IF v = w THEN r ELSE mailRun[v]
  BY <1>1 DEF MailTypeOK
<1>3. MailTypeOK' /\ OptOutsAreStored'
  BY <1>1, <1>2 DEF MailTypeOK, OptOutsAreStored
<1>4. AttemptsAreLeft' /\ RunsKnowTheirRows'
  BY <1>1, <1>2 DEF AttemptsAreLeft, RunsKnowTheirRows, KnowsRows
<1>5. RowsHaveOneOwner'
  BY <1>1, <1>2 DEF RowsHaveOneOwner, WorksOn
<1> QED
  BY <1>3, <1>4, <1>5 DEF MailInv

LEMMA RunsStartAndEnd ==
    ASSUME MailInv, NEW w \in MailRuns,
           \/ EndMailRun(w) \/ MailRunDies(w)
           \/ \E chosen \in SUBSET Mails : SelectMails(w, chosen)
    PROVE  MailInv'
<1>1. MailTypeOK /\ AttemptsAreLeft
  BY DEF MailInv
<1>2. NotRunning \in MailRun \cup {NotRunning} /\ KnowsRows(NotRunning, mail)
      /\ NotRunning.pc \notin {"check", "cancel", "send", "hand", "settle"}
  BY DEF KnowsRows, NotRunning
<1>3. CASE EndMailRun(w) \/ MailRunDies(w)
  <2>1. mailFaults' \in 0 .. MaxMailFaults
    BY <1>1, <1>3, MailAssumption DEF EndMailRun, MailRunDies, MailFault, MailTypeOK
  <2>2. /\ mailRun' = [mailRun EXCEPT ![w] = NotRunning]
        /\ UNCHANGED <<mail, unsubscribes, queuer, handed, bounces, optedOut, reclaimed>>
    BY <1>3 DEF EndMailRun, MailRunDies
  <2> QED
    BY <1>2, <2>1, <2>2, RunAlone
<1>4. ASSUME NEW chosen \in SUBSET Mails, SelectMails(w, chosen) PROVE MailInv'
  <2> DEFINE seen == [m \in Mails |-> IF m \in chosen
                        THEN [status |-> mail[m].status, attempts |-> mail[m].attempts]
                        ELSE [status |-> "none", attempts |-> 0]]
             r == [pc |-> "next", todo |-> chosen, item |-> "none", ok |-> FALSE,
                  clear |-> FALSE, seen |-> seen]
  <2>1. /\ mailRun' = [mailRun EXCEPT ![w] = r]
        /\ UNCHANGED <<mail, unsubscribes, queuer, handed, bounces, optedOut, reclaimed, mailFaults>>
        /\ \A m \in chosen : mail[m].status \in {"pending", "processing"}
    BY <1>4 DEF SelectMails, Selected
  <2>2. \A m \in chosen : mail[m] \in Mail
    BY <1>1, <2>1 DEF MailTypeOK, NoMail
  <2>3. MaxAttempts \in Nat \ {0}
    BY MailAssumption
  <2>4. seen \in [Mails -> Seen] /\ \A m \in Mails : seen[m].attempts < MaxAttempts
    BY <1>1, <2>1, <2>2, <2>3 DEF AttemptsAreLeft, Mail, Seen
  <2> HIDE DEF seen
  <2>5. r \in MailRun
    BY <2>4 DEF MailRun
  <2>6. \A m \in chosen : mail[m] # NoMail
    BY <2>1 DEF NoMail
  <2>7. KnowsRows(r, mail) /\ r.pc \notin {"check", "cancel", "send", "hand", "settle"}
    BY <2>4, <2>6 DEF KnowsRows
  <2> HIDE DEF r
  <2>8. mailFaults' \in 0 .. MaxMailFaults
    BY <1>1, <2>1 DEF MailTypeOK
  <2> QED
    BY <2>1, <2>5, <2>7, <2>8, RunAlone
<1> QED
  BY <1>3, <1>4

LEMMA ClaimingKeepsMail ==
    ASSUME MailInv, NEW w \in MailRuns, NEW m \in Mails, ClaimMail(w, m)
    PROVE  MailInv'
<1> DEFINE old == mailRun[w]
           taken == old.seen[m].status = "pending" /\ mail[m].status = "pending"
           skipped == old.seen[m].status = "pending" /\ mail[m].status # "pending"
           row == IF taken THEN [mail[m] EXCEPT !.status = "processing", !.stale = FALSE]
                  ELSE mail[m]
           r == IF skipped THEN [old EXCEPT !.todo = @ \ {m}]
                ELSE [old EXCEPT !.todo = @ \ {m}, !.pc = "check", !.item = m]
<1>1. MailTypeOK /\ OptOutsAreStored /\ AttemptsAreLeft /\ RowsHaveOneOwner
  BY DEF MailInv
<1>2. old.pc = "next" /\ m \in old.todo
  BY DEF ClaimMail
<1>3. old \in MailRun /\ KnowsRows(old, mail) /\ old # NotRunning
      /\ old.todo \in SUBSET Mails
  BY <1>2, RunUnderWay
<1>4. mail[m] \in Mail /\ mail[m] # NoMail
  BY <1>1, <1>2, <1>3 DEF MailTypeOK, KnowsRows
<1>5. /\ mail' = [mail EXCEPT ![m] = row] /\ mailRun' = [mailRun EXCEPT ![w] = r]
      /\ reclaimed' = IF old.seen[m].status = "pending" THEN reclaimed ELSE reclaimed \cup {m}
      /\ UNCHANGED <<unsubscribes, queuer, handed, bounces, optedOut, mailFaults>>
  BY DEF ClaimMail
<1>6. /\ row \in Mail /\ row # NoMail /\ row.attempts = mail[m].attempts
      /\ row.status = IF taken THEN "processing" ELSE mail[m].status
  BY <1>4 DEF Mail, NoMail
<1>7. /\ r \in MailRun /\ r.todo = old.todo \ {m} /\ r.seen = old.seen
      /\ r.pc = IF skipped THEN "next" ELSE "check"
      /\ ~skipped => r.item = m
  BY <1>2, <1>3 DEF MailRun
<1>8. KnowsRows(r, mail)
  BY <1>3, <1>4, <1>7 DEF KnowsRows
<1>9. row.status \in {"pending", "processing"} => row.attempts < MaxAttempts
  BY <1>1, <1>6 DEF AttemptsAreLeft
<1>10. taken \in BOOLEAN /\ skipped \in BOOLEAN /\ ~(taken /\ skipped)
       /\ (taken => mail[m].status = "pending")
       /\ (~taken /\ ~skipped => old.seen[m].status # "pending")
  OBVIOUS
<1> HIDE DEF row, r
<1>11. /\ mail' \in [Mails -> Mail \cup {NoMail}]
       /\ mailRun' \in [MailRuns -> MailRun \cup {NotRunning}]
       /\ AttemptsAreLeft' /\ RunsKnowTheirRows'
       /\ \A n \in Mails : mail'[n] = IF n = m THEN row ELSE mail[n]
       /\ \A v \in MailRuns : mailRun'[v] = IF v = w THEN r ELSE mailRun[v]
  BY <1>5, <1>6, <1>7, <1>8, <1>9, RunAndRow
<1>12. MailTypeOK' /\ OptOutsAreStored'
  BY <1>1, <1>5, <1>11 DEF MailTypeOK, OptOutsAreStored
<1>13. RowsHaveOneOwner'
  <2> SUFFICES ASSUME NEW n \in Mails, n \notin reclaimed'
               PROVE  /\ \A v \in MailRuns : WorksOn(v, n)' => mail'[n].status = "processing"
                      /\ \A u, v \in MailRuns : WorksOn(u, n)' /\ WorksOn(v, n)' => u = v
                      /\ handed[n] > 0 =>
                           /\ mail'[n].status \in {"processing", "sent"}
                           /\ \A v \in MailRuns : WorksOn(v, n)' =>
                                mailRun'[v].pc = "settle" /\ mailRun'[v].ok
    BY <1>5 DEF RowsHaveOneOwner
  <2>1. n \notin reclaimed
    BY <1>5
  <2>2. /\ \A v \in MailRuns : WorksOn(v, n) => mail[n].status = "processing"
        /\ \A u, v \in MailRuns : WorksOn(u, n) /\ WorksOn(v, n) => u = v
        /\ handed[n] > 0 =>
             /\ mail[n].status \in {"processing", "sent"}
             /\ \A v \in MailRuns : WorksOn(v, n) => mailRun[v].pc = "settle" /\ mailRun[v].ok
    BY <1>1, <2>1 DEF RowsHaveOneOwner
  <2>3. \A v \in MailRuns : v # w => (WorksOn(v, n)' <=> WorksOn(v, n)) /\ mailRun'[v] = mailRun[v]
    BY <1>11 DEF WorksOn
  <2>4. WorksOn(w, n)' => n = m /\ ~skipped
    BY <1>7, <1>11 DEF WorksOn
  <2>5. CASE n = m
    <3>1. taken \/ skipped
      BY <1>5, <1>10, <2>5
    <3>2. CASE taken
      BY <1>6, <1>10, <1>11, <2>2, <2>3, <2>5, <3>2
    <3>3. CASE skipped
      BY <1>6, <1>10, <1>11, <2>2, <2>3, <2>4, <2>5, <3>3
    <3> QED
      BY <3>1, <3>2, <3>3
  <2>6. CASE n # m
    BY <1>11, <2>2, <2>3, <2>4, <2>6
  <2> QED
    BY <2>5, <2>6
<1> QED
  BY <1>11, <1>12, <1>13 DEF MailInv

\* The two looks at the suppression list only move the run on; the second one finds
\* every opt-out there is at that moment.
LEMMA LooksKeepMail ==
    ASSUME MailInv, NEW w \in MailRuns, CheckSuppressed(w) \/ LookAgain(w)
    PROVE  MailInv'
<1> DEFINE old == mailRun[w]
           a == mail[old.item].to
<1>1. MailTypeOK /\ OptOutsAreStored
  BY DEF MailInv
<1>2. old.pc \in {"check", "send"}
  BY DEF CheckSuppressed, LookAgain
<1>3. /\ old \in MailRun /\ KnowsRows(old, mail) /\ old # NotRunning
      /\ old.item \in Mails /\ mail[old.item] \in Mail
  BY <1>2, RunUnderWay
<1>4. UNCHANGED <<mail, unsubscribes, queuer, handed, bounces, optedOut, reclaimed, mailFaults>>
  BY DEF CheckSuppressed, LookAgain
<1>5. PICK pc \in {"cancel", "send", "hand", "settle"}, clear \in BOOLEAN :
        /\ mailRun' = [mailRun EXCEPT ![w] = [old EXCEPT !.pc = pc, !.clear = clear]]
        /\ pc = "hand" => clear
  <2>1. CASE CheckSuppressed(w)
    <3>1. mailRun' = [mailRun EXCEPT ![w] = [old EXCEPT !.pc = IF IsSuppressed(a) THEN "cancel" ELSE "send"]]
      BY <2>1 DEF CheckSuppressed
    <3>2. old.clear \in BOOLEAN
      BY <1>3 DEF MailRun
    <3>3. \A p : [old EXCEPT !.pc = p, !.clear = old.clear] = [old EXCEPT !.pc = p]
      BY <1>3 DEF MailRun
    <3>4. CASE IsSuppressed(a)
      BY <3>1, <3>2, <3>3, <3>4
    <3>5. CASE ~IsSuppressed(a)
      BY <3>1, <3>2, <3>3, <3>5
    <3> QED
      BY <3>4, <3>5
  <2>2. CASE LookAgain(w)
    <3>1. CASE IsSuppressed(a)
      <4>1. mailRun' = [mailRun EXCEPT ![w] = [old EXCEPT !.pc = "settle"]]
        BY <2>2, <3>1 DEF LookAgain
      <4>2. old.clear \in BOOLEAN
        BY <1>3 DEF MailRun
      <4>3. [old EXCEPT !.pc = "settle", !.clear = old.clear] = [old EXCEPT !.pc = "settle"]
        BY <1>3 DEF MailRun
      <4> QED
        BY <4>1, <4>2, <4>3
    <3>2. CASE ~IsSuppressed(a)
      <4>1. mailRun' = [mailRun EXCEPT ![w] = [old EXCEPT !.pc = "hand", !.clear = a \notin optedOut]]
        BY <2>2, <3>2 DEF LookAgain
      <4>2. a \notin optedOut
        BY <1>1, <3>2 DEF OptOutsAreStored, IsSuppressed
      <4>3. mailRun' = [mailRun EXCEPT ![w] = [old EXCEPT !.pc = "hand", !.clear = TRUE]]
        BY <4>1, <4>2
      <4> QED
        BY <4>3
    <3> QED
      BY <3>1, <3>2
  <2> QED
    BY <2>1, <2>2
<1> DEFINE r == [old EXCEPT !.pc = pc, !.clear = clear]
<1>6. /\ r \in MailRun /\ r.pc = pc /\ r.clear = clear /\ r.item = old.item
      /\ r.seen = old.seen /\ r.todo = old.todo
  BY <1>3 DEF MailRun
<1>7. mailRun' = [mailRun EXCEPT ![w] = r]
  BY <1>5
<1> HIDE DEF r
<1>8. old.pc # "next" /\ (r.pc = "hand" => r.clear)
  BY <1>2, <1>5, <1>6
<1>9. KnowsRows(r, mail)
  BY <1>3, <1>6, <1>8 DEF KnowsRows
<1>10. mailFaults' \in 0 .. MaxMailFaults
  BY <1>1, <1>4 DEF MailTypeOK
<1> QED
  BY <1>2, <1>4, <1>6, <1>7, <1>9, <1>10, RunAlone

LEMMA CancellingKeepsMail ==
    ASSUME MailInv, NEW w \in MailRuns, CancelMail(w)
    PROVE  MailInv'
<1> DEFINE old == mailRun[w]
           m == old.item
           row == [mail[m] EXCEPT !.status = "cancelled", !.stale = FALSE]
           r == [old EXCEPT !.pc = "next", !.item = "none"]
<1>1. MailTypeOK /\ OptOutsAreStored
  BY DEF MailInv
<1>2. old.pc = "cancel"
  BY DEF CancelMail
<1>3. /\ old \in MailRun /\ KnowsRows(old, mail) /\ old # NotRunning
      /\ m \in Mails /\ mail[m] \in Mail
  BY <1>2, RunUnderWay
<1>4. /\ mail' = [mail EXCEPT ![m] = row] /\ mailRun' = [mailRun EXCEPT ![w] = r]
      /\ UNCHANGED <<unsubscribes, queuer, handed, bounces, optedOut, reclaimed, mailFaults>>
  BY DEF CancelMail
<1>5. row \in Mail /\ row # NoMail /\ row.status = "cancelled"
  BY <1>3 DEF Mail, NoMail
<1>6. r \in MailRun /\ KnowsRows(r, mail) /\ r.pc = "next"
  BY <1>3 DEF MailRun, KnowsRows
<1>7. WorksOn(w, m) /\ (m \notin reclaimed => handed[m] = 0)
  <2>1. WorksOn(w, m)
    BY <1>2 DEF WorksOn
  <2>2. handed[m] \in Nat
    BY <1>1, <1>3 DEF MailTypeOK
  <2> QED
    BY <1>2, <1>3, <2>1, <2>2 DEF MailInv, RowsHaveOneOwner
<1> HIDE DEF row, r, m
<1>8. /\ mail' \in [Mails -> Mail \cup {NoMail}]
      /\ mailRun' \in [MailRuns -> MailRun \cup {NotRunning}]
      /\ AttemptsAreLeft' /\ RunsKnowTheirRows'
      /\ \A n \in Mails : mail'[n] = IF n = m THEN row ELSE mail[n]
      /\ \A v \in MailRuns : mailRun'[v] = IF v = w THEN r ELSE mailRun[v]
  BY <1>3, <1>4, <1>5, <1>6, RunAndRow
<1>9. RowsHaveOneOwner'
  <2>1. r \in MailRun \cup {NotRunning} /\ row \in Mail \cup {NoMail}
    BY <1>5, <1>6
  <2>2. r.pc \notin {"check", "cancel", "send", "hand", "settle"}
    BY <1>6
  <2>3. WorksOn(w, m) /\ r.pc = "next" /\ (m \notin reclaimed /\ handed[m] > 0 => row.status = "sent")
    BY <1>6, <1>7
  <2> QED
    BY <1>3, <1>4, <1>8, <2>1, <2>2, <2>3, OwnersStay
<1>10. MailTypeOK' /\ OptOutsAreStored'
  BY <1>1, <1>4, <1>8 DEF MailTypeOK, OptOutsAreStored
<1> QED
  BY <1>8, <1>9, <1>10 DEF MailInv

\* The server takes a mail, if at all, from a run whose look found no opt-out, and
\* a second time only if its row was taken over or the first answer was lost.
LEMMA SendingKeepsMail ==
    ASSUME MailInv, NEW w \in MailRuns, SendEmail(w)
    PROVE  /\ MailInv'
           /\ \A n \in Mails : handed'[n] > handed[n] =>
                /\ \E v \in MailRuns : mailRun[v].pc = "hand" /\ mailRun[v].item = n /\ mailRun[v].clear
                /\ handed[n] > 0 => n \in reclaimed'
<1> DEFINE old == mailRun[w]
           m == old.item
<1>1. MailTypeOK /\ OptOutsAreStored /\ AttemptsAreLeft /\ RunsKnowTheirRows /\ RowsHaveOneOwner
  BY DEF MailInv
<1>2. old.pc = "hand" /\ WorksOn(w, m)
  BY DEF SendEmail, WorksOn
<1>3. /\ old \in MailRun /\ KnowsRows(old, mail) /\ old # NotRunning
      /\ m \in Mails /\ mail[m] \in Mail
  BY <1>2, RunUnderWay
<1>4. UNCHANGED <<mail, unsubscribes, queuer, bounces, optedOut, mailFaults>>
  BY DEF SendEmail
<1>5. PICK took \in BOOLEAN, ok \in BOOLEAN :
         /\ ok => took
         /\ handed' = IF took /\ handed[m] < 2 THEN [handed EXCEPT ![m] = @ + 1] ELSE handed
         /\ reclaimed' = IF took /\ ~ok THEN reclaimed \cup {m} ELSE reclaimed
         /\ mailRun' = [mailRun EXCEPT ![w] = [@ EXCEPT !.pc = "settle", !.ok = ok, !.clear = FALSE]]
  BY DEF SendEmail
<1> DEFINE r == [old EXCEPT !.pc = "settle", !.ok = ok, !.clear = FALSE]
<1>6. r \in MailRun /\ KnowsRows(r, mail) /\ r.pc = "settle" /\ r.ok = ok /\ r.item = m
  <2>1. r \in MailRun /\ r.pc = "settle" /\ r.ok = ok /\ r.item = m /\ r.seen = old.seen /\ r.todo = old.todo
    BY <1>3 DEF MailRun
  <2>2. old.pc # "next"
    BY <1>2
  <2> HIDE DEF r
  <2> QED
    BY <1>3, <2>1, <2>2 DEF KnowsRows
<1>7. mailRun' = [mailRun EXCEPT ![w] = r]
  BY <1>5
<1>8. handed[m] \in 0 .. 2 /\ (m \notin reclaimed => handed[m] = 0)
  <2>1. handed[m] \in 0 .. 2
    BY <1>1, <1>3 DEF MailTypeOK
  <2> QED
    BY <1>1, <1>2, <1>3, <2>1 DEF RowsHaveOneOwner
<1> HIDE DEF r, m
<1>9. /\ mailRun' \in [MailRuns -> MailRun \cup {NotRunning}]
      /\ \A v \in MailRuns : mailRun'[v] = IF v = w THEN r ELSE mailRun[v]
  BY <1>1, <1>6, <1>7 DEF MailTypeOK
<1>10. /\ handed' \in [Mails -> 0 .. 2] /\ reclaimed' \subseteq Mails
       /\ \A n \in Mails : handed'[n] # handed[n] => n = m /\ took
  BY <1>1, <1>3, <1>5, <1>8 DEF MailTypeOK
<1>11. MailTypeOK' /\ OptOutsAreStored' /\ AttemptsAreLeft'
  BY <1>1, <1>4, <1>9, <1>10 DEF MailTypeOK, OptOutsAreStored, AttemptsAreLeft
<1>12. RunsKnowTheirRows'
  BY <1>1, <1>4, <1>6, <1>9 DEF RunsKnowTheirRows, KnowsRows
<1>13. RowsHaveOneOwner'
  <2> SUFFICES ASSUME NEW n \in Mails, n \notin reclaimed'
               PROVE  /\ \A v \in MailRuns : WorksOn(v, n)' => mail[n].status = "processing"
                      /\ \A u, v \in MailRuns : WorksOn(u, n)' /\ WorksOn(v, n)' => u = v
                      /\ handed'[n] > 0 =>
                           /\ mail[n].status \in {"processing", "sent"}
                           /\ \A v \in MailRuns : WorksOn(v, n)' =>
                                mailRun'[v].pc = "settle" /\ mailRun'[v].ok
    BY <1>4 DEF RowsHaveOneOwner
  <2>1. n \notin reclaimed /\ (n = m => ~took \/ ok)
    BY <1>5
  <2>2. /\ \A v \in MailRuns : WorksOn(v, n) => mail[n].status = "processing"
        /\ \A u, v \in MailRuns : WorksOn(u, n) /\ WorksOn(v, n) => u = v
        /\ handed[n] > 0 =>
             /\ mail[n].status \in {"processing", "sent"}
             /\ \A v \in MailRuns : WorksOn(v, n) => mailRun[v].pc = "settle" /\ mailRun[v].ok
    BY <1>1, <2>1 DEF RowsHaveOneOwner
  <2>3. \A v \in MailRuns : WorksOn(v, n)' <=> WorksOn(v, n)
    BY <1>2, <1>6, <1>9 DEF WorksOn, m
  <2>4. CASE n = m
    <3>1. \A v \in MailRuns : WorksOn(v, n)' => v = w
      BY <1>2, <2>2, <2>3, <2>4
    <3>2. handed'[n] > 0 => ok
      BY <1>8, <1>10, <2>1, <2>4
    <3> QED
      BY <1>2, <1>6, <1>9, <2>2, <2>3, <2>4, <3>1, <3>2
  <2>5. CASE n # m
    <3>1. \A v \in MailRuns : WorksOn(v, n) => mailRun'[v] = mailRun[v]
      BY <1>2, <1>9, <2>5 DEF WorksOn, m
    <3> QED
      BY <1>10, <2>2, <2>3, <2>5, <3>1
  <2> QED
    BY <2>4, <2>5
<1>14. ASSUME NEW n \in Mails, handed'[n] > handed[n]
       PROVE  /\ \E v \in MailRuns : mailRun[v].pc = "hand" /\ mailRun[v].item = n /\ mailRun[v].clear
              /\ handed[n] > 0 => n \in reclaimed'
  <2>1. n = m /\ took
    BY <1>10, <1>14
  <2>2. mailRun[w].pc = "hand" /\ mailRun[w].item = m /\ mailRun[w].clear
    BY <1>2, <1>3 DEF KnowsRows, m
  <2>3. handed[m] > 0 => m \in reclaimed'
    BY <1>5, <1>8
  <2> QED
    BY <2>1, <2>2, <2>3
<1> QED
  BY <1>11, <1>12, <1>13, <1>14 DEF MailInv

LEMMA SettlingKeepsMail ==
    ASSUME MailInv, NEW w \in MailRuns, SettleMail(w)
    PROVE  MailInv'
<1> DEFINE old == mailRun[w]
           m == old.item
           n == old.seen[m].attempts + 1
           status == IF old.ok THEN "sent" ELSE IF n >= MaxAttempts THEN "failed" ELSE "pending"
           row == [mail[m] EXCEPT !.attempts = n, !.stale = FALSE,
                                  !.due = old.ok \/ n >= MaxAttempts, !.status = status]
           r == [old EXCEPT !.pc = "next", !.item = "none", !.ok = FALSE]
<1>1. MailTypeOK /\ OptOutsAreStored /\ RowsHaveOneOwner
  BY DEF MailInv
<1>2. old.pc = "settle" /\ WorksOn(w, m)
  BY DEF SettleMail, WorksOn
<1>3. /\ old \in MailRun /\ KnowsRows(old, mail) /\ old # NotRunning /\ old.ok \in BOOLEAN
      /\ m \in Mails /\ mail[m] \in Mail /\ old.seen \in [Mails -> Seen]
  BY <1>2, RunUnderWay
<1>4. /\ mail' = [mail EXCEPT ![m] = row] /\ mailRun' = [mailRun EXCEPT ![w] = r]
      /\ UNCHANGED <<unsubscribes, queuer, handed, bounces, optedOut, reclaimed, mailFaults>>
  BY DEF SettleMail
<1>5. n \in 0 .. MaxAttempts /\ MaxAttempts \in Nat /\ (n >= MaxAttempts) \in BOOLEAN
  <2>1. old.seen[m].attempts \in 0 .. MaxAttempts /\ old.seen[m].attempts < MaxAttempts
        /\ MaxAttempts \in Nat
    BY <1>3, MailAssumption DEF KnowsRows, Seen
  <2> QED
    BY <2>1
<1>6. /\ status \in {"sent", "failed", "pending"}
      /\ old.ok <=> status = "sent"
      /\ status = "pending" => n < MaxAttempts
  BY <1>5
<1> HIDE DEF n, status
<1>7. row \in Mail /\ row # NoMail /\ row.status = status /\ row.attempts = n
  BY <1>3, <1>5, <1>6 DEF Mail, NoMail
<1>8. r \in MailRun /\ KnowsRows(r, mail) /\ r.pc = "next"
  BY <1>3 DEF MailRun, KnowsRows
<1>9. m \notin reclaimed /\ handed[m] > 0 => row.status = "sent"
  BY <1>1, <1>2, <1>3, <1>6, <1>7 DEF RowsHaveOneOwner
<1>10. row.status \in {"pending", "processing"} => row.attempts < MaxAttempts
  BY <1>6, <1>7
<1> HIDE DEF row, r, m
<1>11. /\ mail' \in [Mails -> Mail \cup {NoMail}]
       /\ mailRun' \in [MailRuns -> MailRun \cup {NotRunning}]
       /\ AttemptsAreLeft' /\ RunsKnowTheirRows'
       /\ \A k \in Mails : mail'[k] = IF k = m THEN row ELSE mail[k]
       /\ \A v \in MailRuns : mailRun'[v] = IF v = w THEN r ELSE mailRun[v]
  BY <1>3, <1>4, <1>7, <1>8, <1>10, RunAndRow
<1>12. RowsHaveOneOwner'
  <2>1. r \in MailRun \cup {NotRunning} /\ row \in Mail \cup {NoMail}
        /\ r.pc \notin {"check", "cancel", "send", "hand", "settle"}
    BY <1>7, <1>8
  <2> QED
    BY <1>2, <1>3, <1>4, <1>8, <1>9, <1>11, <2>1, OwnersStay
<1>13. MailTypeOK' /\ OptOutsAreStored'
  BY <1>1, <1>4, <1>11 DEF MailTypeOK, OptOutsAreStored
<1> QED
  BY <1>11, <1>12, <1>13 DEF MailInv

\* Only sendEmail hands mails to the server.
LEMMA MailSteps ==
    ASSUME MailInv, [MailNext]_mailVars
    PROVE  /\ MailInv'
           /\ \A m \in Mails : handed'[m] > handed[m] =>
                /\ \E v \in MailRuns : mailRun[v].pc = "hand" /\ mailRun[v].item = m /\ mailRun[v].clear
                /\ handed[m] > 0 => m \in reclaimed'
<1>1. ASSUME NEW w \in MailRuns, SendEmail(w)
      PROVE  /\ MailInv'
             /\ \A m \in Mails : handed'[m] > handed[m] =>
                  /\ \E v \in MailRuns : mailRun[v].pc = "hand" /\ mailRun[v].item = m /\ mailRun[v].clear
                  /\ handed[m] > 0 => m \in reclaimed'
  BY <1>1, SendingKeepsMail
<1>2. ASSUME handed' = handed
      PROVE  \A m \in Mails : ~(handed'[m] > handed[m])
  BY <1>2 DEF MailInv, MailTypeOK
<1>3. CASE \E q \in Queuers : \/ CheckRate(q) \/ EnsureUnsubscribeToken(q)
                              \/ \E a \in MailAddrs : QueueEmail(q, a)
                              \/ \E m \in Mails : InsertMail(q, m)
  <2>1. handed' = handed
    BY <1>3 DEF CheckRate, EnsureUnsubscribeToken, QueueEmail, InsertMail
  <2> QED
    BY <1>2, <1>3, <2>1, QueueingKeepsMail
<1>4. CASE \E w \in MailRuns : \/ EndMailRun(w) \/ MailRunDies(w)
                               \/ \E chosen \in SUBSET Mails : SelectMails(w, chosen)
  <2>1. handed' = handed
    BY <1>4 DEF EndMailRun, MailRunDies, SelectMails
  <2> QED
    BY <1>2, <1>4, <2>1, RunsStartAndEnd
<1>5. CASE \E w \in MailRuns : \/ CheckSuppressed(w) \/ LookAgain(w) \/ CancelMail(w) \/ SettleMail(w)
                               \/ \E m \in Mails : ClaimMail(w, m)
  <2>1. handed' = handed
    BY <1>5 DEF CheckSuppressed, LookAgain, CancelMail, SettleMail, ClaimMail
  <2> QED
    BY <1>2, <1>5, <2>1, LooksKeepMail, CancellingKeepsMail, SettlingKeepsMail, ClaimingKeepsMail
<1>6. CASE \E m \in Mails : BackoffPasses(m) \/ GoesStale(m)
  <2>1. handed' = handed
    BY <1>6 DEF BackoffPasses, GoesStale
  <2> QED
    BY <1>2, <1>6, <2>1, TimeKeepsMail
<1>7. CASE \E a \in MailAddrs : \/ UnsubscribeMail(a) \/ HandleBounce(a)
                                \/ \E all \in BOOLEAN : UnsubscribeByLink(a, all)
  <2>1. handed' = handed
    BY <1>7 DEF UnsubscribeMail, HandleBounce, UnsubscribeByLink
  <2> QED
    BY <1>2, <1>7, <2>1, RecipientsKeepInv
<1>8. CASE UNCHANGED mailVars
  <2>1. MailInv'
    BY <1>8 DEF mailVars, MailInv, MailTypeOK, OptOutsAreStored, AttemptsAreLeft,
                RunsKnowTheirRows, KnowsRows, RowsHaveOneOwner, WorksOn
  <2> QED
    BY <1>2, <1>8, <2>1 DEF mailVars
<1> QED
  BY <1>1, <1>3, <1>4, <1>5, <1>6, <1>7, <1>8 DEF MailNext

(***************************************************************************)
(* Whatever runs of processEmailQueue overlap, die, go stale and retry: a  *)
(* mail is handed over only by a run that found its address neither opted  *)
(* out nor bounced when it looked just before, and twice only if its row   *)
(* was taken over or its first answer was lost.                            *)
(***************************************************************************)
THEOREM MailsAreSentAsAsked == MailSpec => MailIsSentAsAsked
<1>1. MailInit => MailInv
  BY MailStarts
<1>2. MailInv /\ [MailNext]_mailVars => MailInv' /\ [HandedAsAsked]_mailVars
  BY MailSteps DEF HandedAsAsked
<1> QED
  BY <1>1, <1>2, PTL DEF MailSpec, MailIsSentAsAsked

-----------------------------------------------------------------------------
(***************************************************************************)
(* The send form.  Until somebody uses the retry button on a form, the     *)
(* form's status says whether a payment of it is under way: that is what   *)
(* keeps a second one from being confirmed.                                *)
(***************************************************************************)
SendSpec == SendInit /\ [][SendNext]_sendVars

Forms == [status : Busy \cup {"idle", "success", "error"}, modal : BOOLEAN, hash : BOOLEAN, confirm : BOOLEAN]

Batches == [todo : SUBSET BatchRecipients, ok : SUBSET BatchRecipients,
            failed : SUBSET BatchRecipients, running : BOOLEAN]

MountsAreKnown == \A s \in Sends : run[s] # NotStarted => run[s].mount <= mount
FormShowsItsSend ==
    \A s \in InFlight : run[s].mount = mount => form.status \in Busy \/ RetriedOn(mount)

ToastsAreRuns == \A t \in toasts : run[t] # NotStarted

FormsInv == MountsAreKnown /\ OneSendPerForm /\ FormShowsItsSend
SendInv == SendTypeOK /\ FormsInv /\ ToastsAreRuns /\ PendingIsUnderWay /\ DeltaIsOnLedger

LEMMA SendStarts == SendInit => SendInv
<1> SUFFICES ASSUME SendInit PROVE SendInv
  OBVIOUS
<1>1. Cardinality({}) = 0 /\ 1 \in Mounts
  BY SendAssumption, FS_EmptySet DEF Mounts
<1>2. SendTypeOK
  <2>1. form \in Forms
    BY DEF SendInit, FreshForm, Forms
  <2>2. batch \in Batches
    BY DEF SendInit, NoBatch, Batches
  <2>3. appliedHash \in [Mounts -> SUBSET Sends] /\ \A m \in Mounts : Cardinality(appliedHash[m]) <= 1
    BY <1>1 DEF SendInit
  <2> QED
    BY <1>1, <2>1, <2>2, <2>3 DEF SendInit, SendTypeOK, Forms, Batches
<1>3. InFlight = {}
  BY DEF SendInit, InFlight, NotStarted
<1> QED
  BY <1>2, <1>3 DEF SendInit, SendInv, FormsInv, MountsAreKnown, OneSendPerForm, FormShowsItsSend,
                    ToastsAreRuns, PendingIsUnderWay, DeltaIsOnLedger, NotStarted

\* A run that has started is a Run.
LEMMA StartedRuns ==
    ASSUME SendTypeOK, NEW s \in Sends, run[s].pc # "none"
    PROVE  run[s] \in Run /\ run[s] # NotStarted /\ run[s].mount \in Mounts /\ run[s].retry \in BOOLEAN
BY DEF SendTypeOK, NotStarted, Run

\* Steps that start or end no run, and leave the form's status alone or take it
\* from one that is no payment's.
LEMMA FormsStay ==
    ASSUME SendInv, UNCHANGED <<run, mount>>, form.status \in Busy => form'.status = form.status
    PROVE  FormsInv'
<1>1. InFlight' = InFlight /\ RetriedOn(mount)' = RetriedOn(mount)
  BY DEF InFlight, RetriedOn
<1> QED
  BY <1>1 DEF SendInv, FormsInv, MountsAreKnown, OneSendPerForm, FormShowsItsSend, RetriedOn, InFlight

\* A run goes on or ends.  The form shows it, if it is the run's.
LEMMA RunsGoOn ==
    ASSUME SendInv, NEW s \in InFlight, NEW pc \in {"sign", "queue", "submit", "confirm", "done", "error"},
           run' = [run EXCEPT ![s].pc = pc], mount' = mount,
           run[s].mount # mount => form' = form,
           pc \notin {"done", "error"} => form'.status \in Busy \/ form' = form
    PROVE  FormsInv' /\ run' \in [Sends -> Run \cup {NotStarted}]
<1>1. /\ SendTypeOK /\ s \in Sends /\ run[s] \in Run /\ run[s] # NotStarted
  BY StartedRuns DEF SendInv, InFlight
<1>2. run'[s] = [run[s] EXCEPT !.pc = pc] /\ \A t \in Sends \ {s} : run'[t] = run[t]
  BY <1>1 DEF SendTypeOK
<1>3. /\ run'[s] \in Run /\ run'[s] # NotStarted /\ run'[s].mount = run[s].mount /\ run'[s].retry = run[s].retry
      /\ run'[s].pc = pc
  BY <1>1, <1>2 DEF Run, NotStarted
<1>4. InFlight' \subseteq InFlight /\ (pc \in {"done", "error"} => s \notin InFlight')
  BY <1>1, <1>2, <1>3 DEF InFlight
<1>5. \A m \in Mounts : RetriedOn(m)' = RetriedOn(m)
  BY <1>1, <1>2, <1>3 DEF RetriedOn
<1>6. \A t \in InFlight : run'[t].mount = run[t].mount /\ run[t].mount \in Mounts
  BY <1>1, <1>2, <1>3, StartedRuns DEF InFlight
<1>7. MountsAreKnown'
  BY <1>1, <1>2, <1>3 DEF SendInv, FormsInv, MountsAreKnown
<1>8. OneSendPerForm'
  BY <1>4, <1>5, <1>6 DEF SendInv, FormsInv, OneSendPerForm
<1>9. FormShowsItsSend'
  <2> SUFFICES ASSUME NEW t \in InFlight', run'[t].mount = mount'
               PROVE  form'.status \in Busy \/ RetriedOn(mount)'
    BY DEF FormShowsItsSend
  <2>1. t \in InFlight /\ run[t].mount = mount /\ mount \in Mounts
    BY <1>4, <1>6
  <2>2. form.status \in Busy \/ RetriedOn(mount)
    BY <2>1 DEF SendInv, FormsInv, FormShowsItsSend
  <2>3. CASE form' = form \/ form'.status \in Busy
    BY <1>5, <2>1, <2>2, <2>3
  <2>4. CASE form' # form /\ form'.status \notin Busy
    <3>1. run[s].mount = mount /\ t # s
      BY <1>4, <2>1, <2>4
    <3>2. RetriedOn(mount)
      BY <2>1, <3>1 DEF SendInv, FormsInv, OneSendPerForm
    <3> QED
      BY <1>5, <2>1, <3>2
  <2> QED
    BY <2>3, <2>4
<1>10. run' \in [Sends -> Run \cup {NotStarted}]
  BY <1>1, <1>2, <1>3 DEF SendTypeOK
<1> QED
  BY <1>7, <1>8, <1>9, <1>10 DEF FormsInv

\* A run starts: confirmed on a form that shows none, or retried.
LEMMA RunsStart ==
    ASSUME SendInv, NEW s \in Sends, NEW r \in Run, NEW m \in Mounts,
           run[s] = NotStarted, r.mount = m, m <= mount, run' = [run EXCEPT ![s] = r], mount' = mount,
           r.retry \/ (m = mount /\ form.status \notin Busy),
           form'.status \in Busy \/ (form' = form /\ m # mount)
    PROVE  FormsInv' /\ run' \in [Sends -> Run \cup {NotStarted}]
<1>1. SendTypeOK /\ s \notin InFlight
  BY DEF SendInv, InFlight, NotStarted
<1>2. run'[s] = r /\ \A t \in Sends \ {s} : run'[t] = run[t]
  BY <1>1 DEF SendTypeOK
<1>3. run'[s] \in Run /\ run'[s] # NotStarted /\ run'[s].mount = m
  BY <1>2 DEF Run, NotStarted
<1>4. InFlight' \subseteq InFlight \cup {s} /\ InFlight \subseteq Sends
  BY <1>2, <1>3 DEF InFlight
<1>5. /\ \A n \in Mounts : RetriedOn(n) => RetriedOn(n)'
      /\ r.retry => RetriedOn(m)'
  BY <1>2, <1>3 DEF RetriedOn
<1>6. \A t \in InFlight : t # s /\ run'[t] = run[t] /\ run[t].mount \in Mounts
  BY <1>1, <1>2, StartedRuns DEF InFlight
<1>7. MountsAreKnown'
  BY <1>2, <1>3 DEF SendInv, FormsInv, MountsAreKnown
<1>8. \A t \in InFlight : run[t].mount = m => RetriedOn(m)'
  BY <1>5, <1>6 DEF SendInv, FormsInv, FormShowsItsSend
<1>9. OneSendPerForm'
  <2> SUFFICES ASSUME NEW t \in InFlight', NEW u \in InFlight', t # u, run'[t].mount = run'[u].mount
               PROVE  RetriedOn(run[t].mount)'
    BY DEF OneSendPerForm
  <2>1. CASE t = s
    BY <1>3, <1>4, <1>6, <1>8, <2>1
  <2>2. CASE u = s
    BY <1>3, <1>4, <1>6, <1>8, <2>2
  <2>3. CASE t # s /\ u # s
    <3>1. t \in InFlight /\ u \in InFlight /\ run[t].mount = run[u].mount
      BY <1>4, <1>6, <2>3
    <3>2. RetriedOn(run[t].mount)
      BY <3>1 DEF SendInv, FormsInv, OneSendPerForm
    <3> QED
      BY <1>5, <1>6, <3>1, <3>2
  <2> QED
    BY <2>1, <2>2, <2>3
<1>10. FormShowsItsSend'
  <2> SUFFICES ASSUME NEW t \in InFlight', run'[t].mount = mount', form'.status \notin Busy
               PROVE  RetriedOn(mount)'
    BY DEF FormShowsItsSend
  <2>1. form' = form /\ m # mount
    OBVIOUS
  <2>2. t \in InFlight /\ run[t].mount = mount /\ mount \in Mounts
    BY <1>3, <1>4, <1>6, <2>1
  <2> QED
    BY <1>5, <2>1, <2>2 DEF SendInv, FormsInv, FormShowsItsSend
<1>11. run' \in [Sends -> Run \cup {NotStarted}]
  BY <1>1 DEF SendTypeOK
<1> QED
  BY <1>7, <1>9, <1>10, <1>11 DEF FormsInv

\* A new form shows nothing and has no run.
LEMMA FormsMount ==
    ASSUME SendInv, mount' = mount + 1, InFlight' \subseteq InFlight,
           run' \in [Sends -> Run \cup {NotStarted}],
           \A s \in Sends : /\ run'[s] = NotStarted <=> run[s] = NotStarted
                            /\ run[s] # NotStarted => run'[s].mount = run[s].mount /\ run'[s].retry = run[s].retry
    PROVE  FormsInv'
<1>1. SendTypeOK /\ mount \in Nat
  BY DEF SendInv, SendTypeOK, Mounts
<1>2. \A s \in Sends : run[s] # NotStarted => run[s].mount <= mount /\ run[s].mount \in Nat
  BY <1>1 DEF SendInv, FormsInv, MountsAreKnown, SendTypeOK, Run, Mounts
<1>3. \A s \in InFlight : s \in Sends /\ run[s] # NotStarted
  BY DEF InFlight, NotStarted
<1>4. MountsAreKnown'
  BY <1>1, <1>2 DEF MountsAreKnown
<1>5. \A m : RetriedOn(m) => RetriedOn(m)'
  BY DEF RetriedOn
<1>6. OneSendPerForm'
  BY <1>3, <1>5 DEF SendInv, FormsInv, OneSendPerForm
<1>7. FormShowsItsSend'
  BY <1>1, <1>2, <1>3 DEF FormShowsItsSend
<1> QED
  BY <1>4, <1>6, <1>7 DEF FormsInv

-----------------------------------------------------------------------------
LEMMA FormKeepsTrack ==
    ASSUME SendInv,
           OpenConfirmation \/ CancelConfirmation \/ CloseStatusModal \/ ConnectionChanges
             \/ DeltasDropped \/ StartBatch \/ EndBatch \/ (\E s \in Sends : ToastExpires(s)) \/ UNCHANGED sendVars
    PROVE  SendInv'
<1>1. SendTypeOK /\ UNCHANGED <<run, mount>>
  BY DEF SendInv, OpenConfirmation, CancelConfirmation, CloseStatusModal, ConnectionChanges, DeltasDropped,
         StartBatch, EndBatch, ToastExpires, sendVars
<1>2. form' \in Forms /\ (form.status \in Busy => form'.status = form.status)
  BY <1>1 DEF SendTypeOK, Forms, OpenConfirmation, CancelConfirmation, CloseStatusModal, ConnectionChanges,
              DeltasDropped, StartBatch, EndBatch, ToastExpires, sendVars, Busy
<1>3. FormsInv'
  BY <1>1, <1>2, FormsStay
<1>4. PendingIsUnderWay' /\ DeltaIsOnLedger' /\ ToastsAreRuns'
  BY DEF SendInv, ToastsAreRuns, PendingIsUnderWay, DeltaIsOnLedger, OpenConfirmation, CancelConfirmation, CloseStatusModal,
         ConnectionChanges, DeltasDropped, StartBatch, EndBatch, ToastExpires, sendVars
<1>5. SendTypeOK'
  <2>1. batch' \in [todo : SUBSET BatchRecipients, ok : SUBSET BatchRecipients,
                    failed : SUBSET BatchRecipients, running : BOOLEAN]
    BY <1>1 DEF SendTypeOK, NoBatch, OpenConfirmation, CancelConfirmation, CloseStatusModal, ConnectionChanges,
                DeltasDropped, StartBatch, EndBatch, ToastExpires, sendVars
  <2>2. {connected', refreshDue', reloaded'} \subseteq BOOLEAN /\ toasts' \subseteq Sends
        /\ deltas' \subseteq Sends \cup BatchRecipients
        /\ UNCHANGED <<appliedHash, pendingTxs, queuedSends, paidSends>>
    BY <1>1 DEF SendTypeOK, OpenConfirmation, CancelConfirmation, CloseStatusModal, ConnectionChanges,
                DeltasDropped, StartBatch, EndBatch, ToastExpires, sendVars
  <2> QED
    BY <1>1, <1>2, <2>1, <2>2 DEF SendTypeOK, Forms
<1> QED
  BY <1>3, <1>4, <1>5 DEF SendInv

LEMMA BatchKeepsTrack ==
    ASSUME SendInv, NEW r \in BatchRecipients, BatchNext(r)
    PROVE  SendInv'
<1>1. SendTypeOK /\ UNCHANGED <<form, mount, run, toasts, connected, pendingTxs, appliedHash, refreshDue, queuedSends, reloaded>>
  BY DEF SendInv, BatchNext
<1>2. FormsInv'
  BY <1>1, FormsStay
<1>3. PendingIsUnderWay' /\ DeltaIsOnLedger' /\ ToastsAreRuns'
  BY <1>1 DEF SendInv, ToastsAreRuns, PendingIsUnderWay, DeltaIsOnLedger, BatchNext
<1>4. batch' \in Batches
  <2> DEFINE todo == batch.todo \ {r}
             ok == batch.ok \cup {r}
             failed == batch.failed \cup {r}
  <2>1. batch \in Batches
    BY <1>1 DEF SendTypeOK, Batches
  <2>2. {todo, ok, failed} \subseteq SUBSET BatchRecipients
    BY <2>1 DEF Batches
  <2>3. batch' = [batch EXCEPT !.todo = todo, !.ok = ok] \/ batch' = [batch EXCEPT !.todo = todo, !.failed = failed]
    BY DEF BatchNext
  <2> HIDE DEF todo, ok, failed
  <2> QED
    BY <2>1, <2>2, <2>3 DEF Batches
<1>5. deltas' \subseteq Sends \cup BatchRecipients /\ paidSends' \subseteq Sends \cup BatchRecipients
  BY <1>1 DEF SendTypeOK, BatchNext
<1>6. SendTypeOK'
  BY <1>1, <1>4, <1>5 DEF SendTypeOK, Batches
<1> QED
  BY <1>2, <1>3, <1>6 DEF SendInv

LEMMA StartsKeepTrack ==
    ASSUME SendInv, NEW s \in Sends, ConfirmSend(s) \/ (\E t \in Sends : RetryToast(t, s))
    PROVE  SendInv'
<1>1. /\ SendTypeOK /\ run[s] = NotStarted
      /\ UNCHANGED <<mount, connected, pendingTxs, deltas, appliedHash, refreshDue, batch, paidSends, queuedSends, reloaded>>
      /\ toasts' \subseteq Sends
  BY DEF SendInv, ConfirmSend, RetryToast, SendTypeOK
<1>2. FormsInv' /\ run' \in [Sends -> Run \cup {NotStarted}] /\ form' \in Forms
  <2>1. CASE ConfirmSend(s) /\ CanSubmit
    <3> DEFINE r == [pc |-> "build", mount |-> mount, retry |-> FALSE]
    <3>1. run' = [run EXCEPT ![s] = r] /\ form' = Tracking
      BY <2>1 DEF ConfirmSend, StartRun
    <3>2. form.status \notin Busy /\ form'.status \in Busy /\ form' \in Forms
      BY <2>1, <3>1 DEF CanSubmit, Tracking, Busy, Forms
    <3>3. mount \in Mounts /\ mount <= mount
      BY <1>1 DEF SendTypeOK, Mounts
    <3>4. r \in Run /\ r.mount = mount
      BY <3>3 DEF Run
    <3> HIDE DEF r
    <3>5. FormsInv' /\ run' \in [Sends -> Run \cup {NotStarted}]
      BY <1>1, <3>1, <3>2, <3>3, <3>4, RunsStart
    <3> QED
      BY <3>2, <3>5
  <2>2. CASE ConfirmSend(s) /\ ~CanSubmit
    <3>1. UNCHANGED <<run, mount>> /\ form' = [form EXCEPT !.confirm = FALSE]
      BY <2>2 DEF ConfirmSend
    <3>2. form' \in Forms /\ form'.status = form.status
      BY <1>1, <3>1 DEF SendTypeOK, Forms
    <3> QED
      BY <1>1, <3>1, <3>2, FormsStay DEF SendTypeOK
  <2>3. ASSUME NEW t \in Sends, RetryToast(t, s)
        PROVE  FormsInv' /\ run' \in [Sends -> Run \cup {NotStarted}] /\ form' \in Forms
    <3> DEFINE m == run[t].mount
    <3>1. run[t] # NotStarted /\ m \in Mounts /\ m <= mount
      BY <1>1, <2>3 DEF RetryToast, SendInv, ToastsAreRuns, FormsInv, MountsAreKnown, SendTypeOK, Run
    <3> DEFINE r == [pc |-> "build", mount |-> m, retry |-> TRUE]
    <3>2. run' = [run EXCEPT ![s] = r]
      BY <2>3 DEF RetryToast, StartRun
    <3>3. form' \in Forms /\ (form'.status \in Busy \/ (form' = form /\ m # mount))
      <4>1. CASE m = mount
        <5>1. form' = [Tracking EXCEPT !.confirm = form.confirm]
          BY <2>3, <4>1 DEF RetryToast, Shown
        <5>2. form.confirm \in BOOLEAN
          BY <1>1 DEF SendTypeOK
        <5>3. form' = [status |-> "building", modal |-> TRUE, hash |-> FALSE, confirm |-> form.confirm]
          BY <5>1 DEF Tracking
        <5>4. "building" \in Busy /\ FALSE \in BOOLEAN /\ TRUE \in BOOLEAN
          BY DEF Busy
        <5>5. form'.status = "building"
          BY <5>3
        <5>6. form' \in Forms
          BY <5>2, <5>3, <5>4, Zenon DEF Forms
        <5> QED
          BY <5>4, <5>5, <5>6
      <4>2. CASE m # mount
        BY <1>1, <2>3, <4>2 DEF RetryToast, Shown, SendTypeOK, Forms
      <4> QED
        BY <4>1, <4>2
    <3>4. r \in Run /\ r.mount = m /\ r.retry
      BY <3>1 DEF Run
    <3> HIDE DEF m, r
    <3>5. FormsInv' /\ run' \in [Sends -> Run \cup {NotStarted}]
      BY <1>1, <3>1, <3>2, <3>3, <3>4, RunsStart
    <3> QED
      BY <3>3, <3>5
  <2> QED
    BY <2>1, <2>2, <2>3
<1>3. \A u \in Sends : u # s => run'[u] = run[u]
  BY <1>1 DEF ConfirmSend, RetryToast, StartRun, SendTypeOK
<1>4. run'[s] = NotStarted \/ run'[s].pc = "build"
  BY <1>1 DEF ConfirmSend, RetryToast, StartRun, SendTypeOK
<1>5. PendingIsUnderWay' /\ DeltaIsOnLedger'
  BY <1>1, <1>3, <1>4 DEF SendInv, PendingIsUnderWay, DeltaIsOnLedger, NotStarted
<1>6. ToastsAreRuns'
  <2>1. toasts' \subseteq toasts
    BY DEF ConfirmSend, RetryToast
  <2> QED
    BY <1>1, <1>3, <2>1 DEF SendInv, ToastsAreRuns, SendTypeOK
<1>7. SendTypeOK'
  BY <1>1, <1>2 DEF SendTypeOK, Forms
<1> QED
  BY <1>2, <1>5, <1>6, <1>7 DEF SendInv

\* The catch block of executeSend takes back what the run, or an earlier one of
\* the form, had put on the screen.
LEMMA FailsKeepTrack ==
    ASSUME SendInv, NEW s \in InFlight, NEW f \in Forms, SendFails(s, f),
           paidSends' \in {paidSends, paidSends \cup {s}}
    PROVE  SendInv'
<1>1. SendTypeOK /\ s \in Sends /\ run[s] \in Run /\ run[s].mount \in Mounts
  BY StartedRuns DEF SendInv, InFlight
<1>2. form' \in Forms /\ (run[s].mount # mount => form' = form)
  BY <1>1 DEF SendFails, Shown, SendTypeOK, Forms
<1>3. FormsInv' /\ run' \in [Sends -> Run \cup {NotStarted}]
  BY <1>2, RunsGoOn DEF SendFails
<1>4. /\ \A t \in Sends : t # s => run'[t] = run[t]
      /\ run'[s].pc = "error" /\ run'[s] # NotStarted
  BY <1>1 DEF SendFails, SendTypeOK, Run, NotStarted
<1>5. PendingIsUnderWay' /\ DeltaIsOnLedger'
  BY <1>4 DEF SendFails, SendInv, PendingIsUnderWay, DeltaIsOnLedger
<1>6. ToastsAreRuns'
  BY <1>1, <1>4 DEF SendFails, SendInv, ToastsAreRuns, SendTypeOK
<1>7. SendTypeOK'
  <2>1. /\ appliedHash' \in [Mounts -> SUBSET Sends]
        /\ \A m \in Mounts : Cardinality(appliedHash'[m]) <= 1
    BY <1>1, FS_EmptySet DEF SendFails, SendTypeOK
  <2>2. /\ UNCHANGED <<mount, connected, refreshDue, batch, queuedSends, reloaded>>
        /\ toasts' \subseteq Sends /\ pendingTxs' \subseteq Sends
        /\ deltas' \subseteq Sends \cup BatchRecipients /\ paidSends' \subseteq Sends \cup BatchRecipients
    BY <1>1 DEF SendFails, SendTypeOK
  <2> QED
    BY <1>1, <1>2, <1>3, <2>1, <2>2 DEF SendTypeOK, Forms, Mounts
<1> QED
  BY <1>3, <1>5, <1>6, <1>7 DEF SendInv

LEMMA StepsKeepTrack ==
    ASSUME SendInv, NEW s \in Sends, SendStep(s)
    PROVE  SendInv'
<1>1. SendTypeOK /\ s \in InFlight /\ run[s] \in Run /\ run[s].mount \in Mounts /\ run[s] # NotStarted
  BY StartedRuns DEF SendInv, InFlight, SendStep, BuildSend, SignSend, QueueSend, SubmitSend, ConfirmLanded
<1>2. /\ Failed \in Forms /\ [form EXCEPT !.status = "idle", !.modal = FALSE] \in Forms
      /\ \A status \in Busy \cup {"success"} : [form EXCEPT !.status = status] \in Forms
      /\ [form EXCEPT !.status = "confirming", !.hash = TRUE] \in Forms
  <2>1. form \in Forms
    BY <1>1 DEF SendTypeOK, Forms
  <2> QED
    BY <2>1 DEF Forms, Failed, Busy
<1>3. CASE \E f \in Forms : SendFails(s, f)
  <2>1. paidSends' \in {paidSends, paidSends \cup {s}}
    BY DEF SendStep, BuildSend, SignSend, QueueSend, SubmitSend, ConfirmLanded
  <2> QED
    BY <1>1, <1>3, <2>1, FailsKeepTrack
<1>4. ASSUME NEW pc \in {"sign", "queue", "submit", "confirm", "done"}, NEW f \in Forms,
             run' = [run EXCEPT ![s].pc = pc], form' = Shown(s, f),
             pc # "done" => f.status \in Busy,
             UNCHANGED <<mount, toasts, connected, batch, reloaded>>,
             refreshDue' \in BOOLEAN, queuedSends' \subseteq queuedSends \cup {s},
             pendingTxs' \subseteq pendingTxs \cup {s},
             ~reloaded => pendingTxs' = IF pc \in {"queue", "submit", "confirm"} THEN pendingTxs \cup {s} ELSE pendingTxs \ {s},
             \/ UNCHANGED <<deltas, appliedHash, paidSends>>
             \/ /\ deltas' = deltas \cup {s} /\ paidSends' = paidSends \cup {s}
                /\ appliedHash' = [appliedHash EXCEPT ![run[s].mount] = {s}]
      PROVE  SendInv'
  <2>1. form' \in Forms /\ (run[s].mount # mount => form' = form)
        /\ (pc # "done" => form'.status \in Busy \/ form' = form)
    BY <1>1, <1>4 DEF Shown, SendTypeOK, Forms
  <2>2. FormsInv' /\ run' \in [Sends -> Run \cup {NotStarted}]
    BY <1>1, <1>4, <2>1, RunsGoOn
  <2>3. /\ \A t \in Sends : t # s => run'[t] = run[t]
        /\ run'[s].pc = pc /\ run'[s] # NotStarted
    BY <1>1, <1>4 DEF SendTypeOK, Run, NotStarted
  <2>4. PendingIsUnderWay'
    BY <1>4, <2>3 DEF SendInv, PendingIsUnderWay
  <2>5. DeltaIsOnLedger' /\ ToastsAreRuns'
    BY <1>1, <1>4, <2>3 DEF SendInv, DeltaIsOnLedger, ToastsAreRuns, SendTypeOK
  <2>6. appliedHash' \in [Mounts -> SUBSET Sends] /\ \A m \in Mounts : Cardinality(appliedHash'[m]) <= 1
    <3>1. Cardinality({s}) <= 1 /\ appliedHash \in [Mounts -> SUBSET Sends]
          /\ \A m \in Mounts : Cardinality(appliedHash[m]) <= 1
      <4>1. Cardinality({s}) = 1
        BY FS_Singleton
      <4> QED
        BY <1>1, <4>1 DEF SendTypeOK
    <3>2. CASE appliedHash' = appliedHash
      BY <3>1, <3>2
    <3>3. CASE appliedHash' = [appliedHash EXCEPT ![run[s].mount] = {s}]
      BY <3>1, <3>3
    <3> QED
      BY <1>4, <3>2, <3>3
  <2>7. /\ pendingTxs' \subseteq Sends /\ queuedSends' \subseteq Sends
        /\ deltas' \subseteq Sends \cup BatchRecipients /\ paidSends' \subseteq Sends \cup BatchRecipients
    BY <1>1, <1>4 DEF SendTypeOK
  <2>8. SendTypeOK'
    BY <1>1, <1>4, <2>1, <2>2, <2>6, <2>7 DEF SendTypeOK, Forms, Mounts
  <2> QED
    BY <2>2, <2>4, <2>5, <2>8 DEF SendInv
<1>5. CASE BuildSend(s)
  <2>1. CASE SendFails(s, Failed)
    BY <1>2, <1>3, <2>1
  <2>2. CASE ~SendFails(s, Failed)
    <3> DEFINE f == [form EXCEPT !.status = "signing"]
    <3>1. /\ run' = [run EXCEPT ![s].pc = "sign"] /\ form' = Shown(s, f)
          /\ UNCHANGED <<mount, toasts, connected, pendingTxs, deltas, appliedHash, refreshDue, batch, paidSends, queuedSends, reloaded>>
      BY <1>5, <2>2 DEF BuildSend, ToStatus
    <3>2. ~reloaded => s \notin pendingTxs
      BY <1>5 DEF SendInv, PendingIsUnderWay, BuildSend
    <3>3. f \in Forms /\ f.status \in Busy
      BY <1>1, <1>2 DEF Busy, SendTypeOK
    <3> HIDE DEF f
    <3> QED
      BY <1>1, <1>4, <3>1, <3>2, <3>3 DEF SendTypeOK
  <2> QED
    BY <2>1, <2>2
<1>6. CASE SignSend(s)
  <2> DEFINE closed == [form EXCEPT !.status = "idle", !.modal = FALSE]
  <2>1. CASE SendFails(s, Failed) \/ SendFails(s, closed)
    BY <1>2, <1>3, <2>1
  <2>2. CASE ~(SendFails(s, Failed) \/ SendFails(s, closed))
    <3> DEFINE f == [form EXCEPT !.status = "submitting"]
               pc == IF connected THEN "submit" ELSE "queue"
    <3>1. /\ run' = [run EXCEPT ![s].pc = pc] /\ form' = Shown(s, f) /\ pendingTxs' = pendingTxs \cup {s}
          /\ UNCHANGED <<mount, toasts, connected, deltas, appliedHash, refreshDue, batch, paidSends, queuedSends, reloaded>>
      BY <1>6, <2>2 DEF SignSend, ToStatus
    <3>2. pc \in {"submit", "queue"}
      OBVIOUS
    <3>3. f \in Forms /\ f.status \in Busy
      BY <1>1, <1>2 DEF Busy, SendTypeOK
    <3> HIDE DEF f, pc
    <3> QED
      BY <1>1, <1>4, <3>1, <3>2, <3>3 DEF SendTypeOK
  <2> QED
    BY <2>1, <2>2
<1>7. CASE QueueSend(s)
  <2>1. CASE SendFails(s, Failed)
    BY <1>2, <1>3, <2>1
  <2>2. CASE ~SendFails(s, Failed)
    <3> DEFINE f == [form EXCEPT !.status = "idle", !.modal = FALSE]
    <3>1. /\ run' = [run EXCEPT ![s].pc = "done"] /\ form' = Shown(s, f) /\ pendingTxs' = pendingTxs \ {s}
          /\ queuedSends' = queuedSends \cup {s} /\ refreshDue' = TRUE
          /\ UNCHANGED <<mount, toasts, connected, deltas, appliedHash, batch, paidSends, reloaded>>
      BY <1>7, <2>2 DEF QueueSend
    <3>2. f \in Forms
      BY <1>2
    <3> HIDE DEF f
    <3> QED
      BY <1>4, <3>1, <3>2
  <2> QED
    BY <2>1, <2>2
<1>8. CASE SubmitSend(s)
  <2>1. CASE SendFails(s, Failed)
    BY <1>2, <1>3, <2>1
  <2>2. CASE ~SendFails(s, Failed)
    <3> DEFINE f == [form EXCEPT !.status = "confirming", !.hash = TRUE]
    <3>1. /\ run' = [run EXCEPT ![s].pc = "confirm"] /\ form' = Shown(s, f)
          /\ paidSends' = paidSends \cup {s} /\ deltas' = deltas \cup {s}
          /\ appliedHash' = [appliedHash EXCEPT ![run[s].mount] = {s}]
          /\ UNCHANGED <<mount, toasts, connected, pendingTxs, refreshDue, batch, queuedSends, reloaded>>
      BY <1>8, <2>2 DEF SubmitSend
    <3>2. ~reloaded => s \in pendingTxs
      BY <1>8 DEF SendInv, PendingIsUnderWay, SubmitSend
    <3>3. f \in Forms /\ f.status \in Busy
      BY <1>1, <1>2 DEF Busy, SendTypeOK
    <3> HIDE DEF f
    <3> QED
      BY <1>1, <1>4, <3>1, <3>2, <3>3 DEF SendTypeOK
  <2> QED
    BY <2>1, <2>2
<1>9. CASE ConfirmLanded(s)
  <2>1. CASE SendFails(s, Failed)
    BY <1>2, <1>3, <2>1
  <2>2. CASE ~SendFails(s, Failed)
    <3> DEFINE f == [form EXCEPT !.status = "success"]
    <3>1. /\ run' = [run EXCEPT ![s].pc = "done"] /\ form' = Shown(s, f) /\ pendingTxs' = pendingTxs \ {s}
          /\ refreshDue' = TRUE
          /\ UNCHANGED <<mount, toasts, connected, deltas, appliedHash, batch, paidSends, queuedSends, reloaded>>
      BY <1>9, <2>2 DEF ConfirmLanded, ToStatus
    <3>2. f \in Forms
      BY <1>2
    <3> HIDE DEF f
    <3> QED
      BY <1>4, <3>1, <3>2
  <2> QED
    BY <2>1, <2>2
<1> QED
  BY <1>5, <1>6, <1>7, <1>8, <1>9 DEF SendStep

\* A new form: after a success, or because the page was loaded again.
LEMMA MountsKeepTrack ==
    ASSUME SendInv, RefreshForm \/ ReloadPage
    PROVE  SendInv'
<1>1. /\ SendTypeOK /\ mount' = mount + 1 /\ mount' \in Mounts /\ form' = FreshForm
      /\ UNCHANGED <<connected, pendingTxs, paidSends, queuedSends>>
  BY SendAssumption DEF SendInv, SendTypeOK, RefreshForm, ReloadPage, Mounts
<1>2. form' \in Forms
  BY <1>1 DEF FreshForm, Forms
<1>3. \A s \in Sends :
        /\ run'[s] \in Run \cup {NotStarted}
        /\ run'[s] = NotStarted <=> run[s] = NotStarted
        /\ run[s] # NotStarted => run'[s].mount = run[s].mount /\ run'[s].retry = run[s].retry
        /\ run'[s].pc \in {run[s].pc, "done"}
  <2>1. CASE RefreshForm
    BY <1>1, <2>1 DEF RefreshForm, SendTypeOK
  <2>2. CASE ReloadPage
    <3> SUFFICES ASSUME NEW s \in Sends
                 PROVE  /\ run'[s] \in Run \cup {NotStarted}
                        /\ run'[s] = NotStarted <=> run[s] = NotStarted
                        /\ run[s] # NotStarted => run'[s].mount = run[s].mount /\ run'[s].retry = run[s].retry
                        /\ run'[s].pc \in {run[s].pc, "done"}
      OBVIOUS
    <3>1. CASE run[s] = NotStarted
      <4>1. run'[s] = NotStarted
        BY <2>2, <3>1 DEF ReloadPage
      <4> QED
        BY <3>1, <4>1
    <3>2. CASE run[s] # NotStarted
      <4>1. run'[s] = [run[s] EXCEPT !.pc = "done"] /\ run[s] \in Run
        BY <1>1, <2>2, <3>2 DEF ReloadPage, SendTypeOK
      <4> QED
        BY <3>2, <4>1 DEF Run, NotStarted
    <3> QED
      BY <3>1, <3>2
  <2> QED
    BY <2>1, <2>2
<1>4. run' \in [Sends -> Run \cup {NotStarted}]
  BY <1>1, <1>3 DEF RefreshForm, ReloadPage, SendTypeOK
<1>5. InFlight' \subseteq InFlight
  BY <1>3 DEF InFlight
<1>6. FormsInv'
  BY <1>1, <1>3, <1>4, <1>5, FormsMount
<1>7. PendingIsUnderWay' /\ DeltaIsOnLedger' /\ ToastsAreRuns'
  <2>1. CASE RefreshForm
    BY <2>1 DEF SendInv, PendingIsUnderWay, DeltaIsOnLedger, ToastsAreRuns, RefreshForm
  <2>2. CASE ReloadPage
    BY <2>2 DEF SendInv, PendingIsUnderWay, DeltaIsOnLedger, ToastsAreRuns, ReloadPage
  <2> QED
    BY <2>1, <2>2
<1>8. appliedHash' \in [Mounts -> SUBSET Sends] /\ \A m \in Mounts : Cardinality(appliedHash'[m]) <= 1
  <2>1. Cardinality({}) = 0
    BY FS_EmptySet
  <2>2. CASE appliedHash' = appliedHash
    BY <1>1, <2>2 DEF SendTypeOK
  <2>3. CASE appliedHash' = [m \in Mounts |-> {}]
    BY <2>1, <2>3
  <2> QED
    BY <2>2, <2>3 DEF RefreshForm, ReloadPage
<1>9. batch' \in Batches
  <2>1. batch' = batch \/ batch' = NoBatch
    BY DEF RefreshForm, ReloadPage
  <2>2. NoBatch \in Batches /\ batch \in Batches
    BY <1>1 DEF SendTypeOK, NoBatch, Batches
  <2> QED
    BY <2>1, <2>2
<1>10. /\ toasts' \subseteq Sends /\ deltas' \subseteq Sends \cup BatchRecipients
       /\ refreshDue' \in BOOLEAN /\ reloaded' \in BOOLEAN
  BY <1>1 DEF RefreshForm, ReloadPage, SendTypeOK
<1>11. SendTypeOK'
  BY <1>1, <1>2, <1>4, <1>8, <1>9, <1>10 DEF SendTypeOK, Forms, Batches, Mounts
<1> QED
  BY <1>6, <1>7, <1>11 DEF SendInv

(***************************************************************************)
(* The send form keeps track of what it sends, for every number of runs of *)
(* executeSend, retries, forms and batch recipients: unless the retry      *)
(* button was used on a form it has one payment under way; the pending     *)
(* list is what is being submitted; and an optimistic delta belongs to a   *)
(* payment that was made (SendPaymentForm.tsx).                            *)
(***************************************************************************)
THEOREM SendsStayTracked == SendSpec => []SendsAreTracked
<1>1. SendInit => SendInv
  BY SendStarts
<1>2. SendInv /\ [SendNext]_sendVars => SendInv'
  <2> SUFFICES ASSUME SendInv, [SendNext]_sendVars PROVE SendInv'
    OBVIOUS
  <2>1. CASE OpenConfirmation \/ CancelConfirmation \/ CloseStatusModal \/ ConnectionChanges
             \/ DeltasDropped \/ StartBatch \/ EndBatch \/ (\E s \in Sends : ToastExpires(s)) \/ UNCHANGED sendVars
    BY <2>1, FormKeepsTrack
  <2>2. CASE RefreshForm \/ ReloadPage
    BY <2>2, MountsKeepTrack
  <2>3. CASE \E r \in BatchRecipients : BatchNext(r)
    BY <2>3, BatchKeepsTrack
  <2>4. CASE \E s \in Sends : ConfirmSend(s) \/ (\E t \in Sends : RetryToast(t, s))
    BY <2>4, StartsKeepTrack
  <2>5. CASE \E s \in Sends : SendStep(s)
    BY <2>5, StepsKeepTrack
  <2> QED
    BY <2>1, <2>2, <2>3, <2>4, <2>5 DEF SendNext
<1>3. SendInv => SendsAreTracked
  BY DEF SendInv, FormsInv, SendsAreTracked
<1> QED
  BY <1>1, <1>2, <1>3, PTL DEF SendSpec
================================================================================
