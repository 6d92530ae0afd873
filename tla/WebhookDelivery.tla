---------------------------- MODULE WebhookDelivery ----------------------------
(***************************************************************************)
(* Webhook registration and delivery of the backend (webhookService.js,    *)
(* routes/webhooks.js) for one account.  Every await is a step boundary:   *)
(* deliverWebhook calls, overlapping retry sweeps, owner requests, database *)
(* errors and restarts interleave.                                         *)
(*                                                                         *)
(* deleteWebhook and requireWebhookOwner are not modelled: the route calls *)
(* webhookService.getWebhookById, which the service does not export, so a  *)
(* DELETE always ends in an error before it reaches deleteWebhook.         *)
(***************************************************************************)
EXTENDS Naturals, FiniteSets

CONSTANTS
    Hooks,                      \* ids generateId may return
    Payments,                   \* incoming payments of the account
    WebhookTasks,               \* concurrent async calls (bound of the model)
    WEBHOOK_MAX_RETRIES,        \* MAX_RETRIES
    MAX_WEBHOOKS_PER_ACCOUNT,
    InsertReports,              \* what knex reports for an insert: "count", "opaque"
    MaxDeliveries, MaxWebhookRequests, MaxStreams  \* bounds of the model

ASSUME WebhookAssumption ==
    /\ WEBHOOK_MAX_RETRIES \in Nat \ {0} /\ MAX_WEBHOOKS_PER_ACCOUNT \in Nat \ {0}
    /\ InsertReports \subseteq {"count", "opaque"} /\ InsertReports # {}
    /\ {MaxDeliveries, MaxWebhookRequests} \subseteq Nat
    /\ MaxStreams \in Nat \ {0}

VARIABLES
    hookRows,        \* table webhooks
    hookAttempts,    \* webhook.attempts of the object in the webhooks Map
    registering,     \* registrations that passed the cap check
    sse,             \* open: Horizon streams alive; tracked: activeStreams has one
    paid,            \* payments the network has made
    calls,           \* deliverWebhook calls that have not started, by arguments
    event,           \* table webhook_events by idempotency key
    delivery,        \* table webhook_deliveries
    dlq,             \* table dead_letter_queue
    task,            \* running deliverWebhook calls and retry sweeps
    acked,           \* history: deliveries the endpoint acknowledged
    requests,        \* replays, resets, database errors and restarts so far
    faulty           \* history: a database error or a restart has happened

webhookVars == <<hookRows, hookAttempts, registering, sse, paid, calls, event,
                 delivery, dlq, task, acked, requests, faulty>>

DeliveryIds == 1 .. MaxDeliveries
EventKeys == Hooks \X Payments
Calls == [hook : Hooks, payment : Payments, object : {"fresh", "shared"}]
WebhookIdle == [pc |-> "idle"]
NoDelivery == [status |-> "none"]
Delivery == [status : {"pending", "delivered", "dead"}, key : EventKeys,
             attempts : 0 .. WEBHOOK_MAX_RETRIES, due : BOOLEAN]
\* queue: rows a sweep has read and not reached; attempt: currentAttempt
WebhookTask == [pc : {"event", "row", "next", "send", "ok", "stamp", "fail", "dlq"},
                kind : {"first", "sweep"}, key : EventKeys, object : {"fresh", "shared"},
                id : DeliveryIds \cup {0}, queue : SUBSET DeliveryIds,
                attempt : 0 .. WEBHOOK_MAX_RETRIES]

\* Type invariant.
WebhookTypeOK ==
    /\ hookRows \subseteq Hooks /\ registering \subseteq Hooks
    /\ hookAttempts \in [Hooks -> 0 .. WEBHOOK_MAX_RETRIES]
    /\ sse \in [open : 0 .. MaxStreams, tracked : BOOLEAN]
    /\ paid \subseteq Payments
    /\ calls \in [Calls -> 0 .. MaxStreams + MaxWebhookRequests]
    /\ event \in [EventKeys -> {"none", "recorded", "delivered"}]
    /\ delivery \in [DeliveryIds -> Delivery \cup {NoDelivery}]
    /\ dlq \subseteq DeliveryIds /\ acked \subseteq DeliveryIds
    /\ task \in [WebhookTasks -> WebhookTask \cup {WebhookIdle}]
    /\ requests \in 0 .. MaxWebhookRequests /\ faulty \in BOOLEAN

WebhookInit ==
    /\ hookRows = {} /\ registering = {}
    /\ hookAttempts = [h \in Hooks |-> 0]
    /\ sse = [open |-> 0, tracked |-> FALSE]
    /\ paid = {} /\ calls = [c \in Calls |-> 0]
    /\ event = [k \in EventKeys |-> "none"]
    /\ delivery = [d \in DeliveryIds |-> NoDelivery]
    /\ dlq = {} /\ acked = {}
    /\ task = [t \in WebhookTasks |-> WebhookIdle]
    /\ requests = 0 /\ faulty = FALSE

--------------------------------------------------------------------------------
(* Registration and monitoring *)

\* An account that is already monitored keeps its stream.
StartMonitoring ==
    IF sse.tracked THEN sse ELSE [open |-> sse.open + 1, tracked |-> TRUE]

\* registerWebhook, up to the await of the count.
RegisterCheck(h) ==
    /\ h \notin hookRows \cup registering
    /\ Cardinality(hookRows) < MAX_WEBHOOKS_PER_ACCOUNT
    /\ registering' = registering \cup {h}
    /\ UNCHANGED <<hookRows, hookAttempts, sse, paid, calls, event, delivery, dlq, task,
                   acked, requests, faulty>>

\* ... and from the INSERT on.
RegisterInsert(h) ==
    /\ h \in registering
    /\ sse.tracked \/ sse.open < MaxStreams
    /\ registering' = registering \ {h}
    /\ hookRows' = hookRows \cup {h}
    /\ sse' = StartMonitoring
    /\ UNCHANGED <<hookAttempts, paid, calls, event, delivery, dlq, task, acked, requests, faulty>>

\* onerror forgets the stream, which the client library keeps alive.
StreamError ==
    /\ sse.tracked
    /\ sse' = [sse EXCEPT !.tracked = FALSE]
    /\ UNCHANGED <<hookRows, hookAttempts, registering, paid, calls, event, delivery, dlq,
                   task, acked, requests, faulty>>

\* onmessage: every open stream hands the payment to every registered hook, each
\* as a fresh object read from the database.  A payment nobody streams is missed.
PaymentArrives(p) ==
    /\ p \notin paid
    /\ paid' = paid \cup {p}
    /\ calls' = [c \in Calls |->
                   IF c.payment = p /\ c.object = "fresh" /\ c.hook \in hookRows
                   THEN sse.open ELSE calls[c]]
    /\ UNCHANGED <<hookRows, hookAttempts, registering, sse, event, delivery, dlq, task,
                   acked, requests, faulty>>

--------------------------------------------------------------------------------
(* deliverWebhook *)

FreeDelivery == {d \in DeliveryIds : delivery[d] = NoDelivery}

StartDelivery(t, c) ==
    /\ task[t] = WebhookIdle /\ calls[c] > 0 /\ FreeDelivery # {}
    /\ calls' = [calls EXCEPT ![c] = @ - 1]
    /\ task' = [task EXCEPT ![t] =
         [pc |-> "event", kind |-> "first", key |-> <<c.hook, c.payment>>, object |-> c.object,
          id |-> 0, queue |-> {}, attempt |-> 0]]
    /\ UNCHANGED <<hookRows, hookAttempts, registering, sse, paid, event, delivery, dlq,
                   acked, requests, faulty>>

Request ==
    /\ requests < MaxWebhookRequests
    /\ requests' = requests + 1

NoError == UNCHANGED <<requests, faulty>>

\* A database call may throw.
DbError ==
    /\ Request
    /\ faulty' = TRUE

\* A sweep between two rows has no event; its key says nothing.
NoKey == CHOOSE k \in EventKeys : TRUE
Sweeping == [pc |-> "next", kind |-> "sweep", key |-> NoKey, object |-> "shared", id |-> 0,
             queue |-> {}, attempt |-> 0]

\* The end of a delivery: a sweep goes on to its next row.
Finished(job) == IF job.kind = "sweep" THEN [Sweeping EXCEPT !.queue = job.queue] ELSE WebhookIdle

\* INSERT INTO webhook_events ... ON CONFLICT DO NOTHING: only a driver that
\* reports a count tells the caller that the key was already there.
InsertEvent(t) ==
    /\ task[t].pc = "event"
    /\ \/ \E report \in InsertReports :
            /\ task' = [task EXCEPT ![t] =
                 IF report = "opaque" \/ event[@.key] = "none" THEN [@ EXCEPT !.pc = "row"] ELSE WebhookIdle]
            /\ event' = [event EXCEPT ![task[t].key] = IF @ = "none" THEN "recorded" ELSE @]
            /\ NoError
       \/ /\ DbError
          /\ task' = [task EXCEPT ![t] = WebhookIdle]
          /\ UNCHANGED event
    /\ UNCHANGED <<hookRows, hookAttempts, registering, sse, paid, calls, delivery, dlq, acked>>

\* INSERT INTO webhook_deliveries; an error drops the call.
InsertDelivery(t) ==
    /\ task[t].pc = "row"
    /\ \/ \E d \in FreeDelivery :
            /\ \A e \in FreeDelivery : d <= e
            /\ delivery' = [delivery EXCEPT ![d] =
                 [status |-> "pending", key |-> task[t].key, attempts |-> 0, due |-> TRUE]]
            /\ task' = [task EXCEPT ![t] = [@ EXCEPT !.pc = "send", !.id = d]]
            /\ NoError
       \/ /\ DbError
          /\ task' = [task EXCEPT ![t] = WebhookIdle]
          /\ UNCHANGED delivery
    /\ UNCHANGED <<hookRows, hookAttempts, registering, sse, paid, calls, event, dlq, acked>>

AtMostMax(n) == IF n > WEBHOOK_MAX_RETRIES THEN WEBHOOK_MAX_RETRIES ELSE n

\* currentAttempt is read from the webhook object, not from the row.  Values above
\* the limit are not told apart.
CurrentAttempt(job) ==
    AtMostMax(1 + IF job.object = "shared" THEN hookAttempts[job.key[1]] ELSE 0)

Failing(job) == [job EXCEPT !.pc = "fail", !.attempt = CurrentAttempt(job)]

\* attemptDelivery: the POST to the endpoint.
AttemptDelivery(t) ==
    /\ task[t].pc = "send"
    /\ \/ /\ task' = [task EXCEPT ![t].pc = "ok"]
          /\ acked' = acked \cup {task[t].id}
       \/ /\ task' = [task EXCEPT ![t] = Failing(@)]
          /\ UNCHANGED acked
    /\ UNCHANGED <<hookRows, hookAttempts, registering, sse, paid, calls, event, delivery, dlq, requests, faulty>>

RecordDelivered_EarlyFault(t) ==
    /\ task[t].pc = "send"
    /\ delivery' = [delivery EXCEPT ![task[t].id].status = "delivered"]
    /\ task' = [task EXCEPT ![t].pc = "stamp"]
    /\ UNCHANGED <<hookRows, hookAttempts, registering, sse, paid, calls, event, dlq, acked, requests, faulty>>

\* The first UPDATE of the success branch; an error in it counts as a failure.
RecordDelivered(t) ==
    /\ task[t].pc = "ok"
    /\ \/ /\ delivery' = [delivery EXCEPT ![task[t].id].status = "delivered"]
          /\ task' = [task EXCEPT ![t].pc = "stamp"]
          /\ NoError
       \/ /\ DbError
          /\ task' = [task EXCEPT ![t] = Failing(@)]
          /\ UNCHANGED delivery
    /\ UNCHANGED <<hookRows, hookAttempts, registering, sse, paid, calls, event, dlq, acked>>

\* The second UPDATE of the success branch stamps the event.
StampEvent(t) ==
    /\ task[t].pc = "stamp"
    /\ \/ /\ event' = [event EXCEPT ![task[t].key] = "delivered"]
          /\ task' = [task EXCEPT ![t] = Finished(@)]
          /\ NoError
       \/ /\ DbError
          /\ task' = [task EXCEPT ![t] = Failing(@)]
          /\ UNCHANGED event
    /\ UNCHANGED <<hookRows, hookAttempts, registering, sse, paid, calls, delivery, dlq, acked>>

IsDead(attempt) == attempt >= WEBHOOK_MAX_RETRIES

\* handleDeliveryFailure: the row is written whatever its status is by now, the
\* counter of the object after the await, whether or not the UPDATE worked.
HandleDeliveryFailure(t) ==
    LET job == task[t] IN
    /\ job.pc = "fail"
    /\ \/ /\ delivery' = [delivery EXCEPT ![job.id] =
                [@ EXCEPT !.attempts = job.attempt, !.due = FALSE,
                          !.status = IF IsDead(job.attempt) THEN "dead" ELSE "pending"]]
          /\ NoError
       \/ /\ DbError
          /\ UNCHANGED delivery
    /\ hookAttempts' = IF job.object = "shared" THEN [hookAttempts EXCEPT ![job.key[1]] = job.attempt]
                       ELSE hookAttempts
    /\ task' = [task EXCEPT ![t] = IF IsDead(job.attempt) THEN [@ EXCEPT !.pc = "dlq"] ELSE Finished(@)]
    /\ UNCHANGED <<hookRows, registering, sse, paid, calls, event, dlq, acked>>

\* writeToDeadLetterQueue; an error is only logged.
WriteToDeadLetterQueue(t) ==
    /\ task[t].pc = "dlq"
    /\ \/ dlq' = dlq \cup {task[t].id} /\ NoError
       \/ DbError /\ UNCHANGED dlq
    /\ task' = [task EXCEPT ![t] = Finished(@)]
    /\ UNCHANGED <<hookRows, hookAttempts, registering, sse, paid, calls, event, delivery, acked>>

--------------------------------------------------------------------------------
(* Retries *)

DueDeliveries == {d \in DeliveryIds :
    /\ delivery[d] # NoDelivery
    /\ delivery[d].status = "pending" /\ delivery[d].due
    /\ delivery[d].attempts < WEBHOOK_MAX_RETRIES}

\* The timer starts processRetryQueue whether or not an earlier one is running.
\* A sweep that reads no row does nothing.
StartSweep(t) ==
    /\ task[t] = WebhookIdle /\ DueDeliveries # {}
    /\ task' = [task EXCEPT ![t] = [Sweeping EXCEPT !.queue = DueDeliveries]]
    /\ UNCHANGED <<hookRows, hookAttempts, registering, sse, paid, calls, event, delivery, dlq,
                   acked, requests, faulty>>

\* A sweep takes a row out of those it read.
Reaching(job, d) == [job EXCEPT !.pc = "send", !.id = d, !.key = delivery[d].key, !.queue = @ \ {d}]

\* The rows of the sweep are worked on one after the other, as they were read.
\* Their order (priority, attempts, age) is left open.
SweepNext(t) ==
    /\ task[t].pc = "next"
    /\ \/ /\ task[t].queue = {}
          /\ task' = [task EXCEPT ![t] = WebhookIdle]
       \/ \E d \in task[t].queue : task' = [task EXCEPT ![t] = Reaching(@, d)]
    /\ UNCHANGED <<hookRows, hookAttempts, registering, sse, paid, calls, event, delivery, dlq,
                   acked, requests, faulty>>

\* next_retry_at passes.
RetryComesDue(d) ==
    /\ delivery[d] # NoDelivery /\ delivery[d].status = "pending" /\ ~delivery[d].due
    /\ delivery' = [delivery EXCEPT ![d].due = TRUE]
    /\ UNCHANGED <<hookRows, hookAttempts, registering, sse, paid, calls, event, dlq, task,
                   acked, requests, faulty>>

RetryDeadDeliveries_KeepAttemptsFault ==
    /\ Request
    /\ UNCHANGED faulty
    /\ \E d \in DeliveryIds : delivery[d].status = "dead"
    /\ delivery' = [d \in DeliveryIds |->
         IF delivery[d].status = "dead" THEN [delivery[d] EXCEPT !.status = "pending", !.due = TRUE]
         ELSE delivery[d]]
    /\ UNCHANGED <<hookRows, hookAttempts, registering, sse, paid, calls, event, dlq, task, acked>>

\* retryDeadDeliveries, at the owner's request.
RetryDeadDeliveries ==
    /\ Request
    /\ UNCHANGED faulty
    /\ \E d \in DeliveryIds : delivery[d].status = "dead"
    /\ delivery' = [d \in DeliveryIds |->
         IF delivery[d].status = "dead"
         THEN [delivery[d] EXCEPT !.status = "pending", !.attempts = 0, !.due = TRUE]
         ELSE delivery[d]]
    /\ UNCHANGED <<hookRows, hookAttempts, registering, sse, paid, calls, event, dlq, task, acked>>

\* replayEvents starts a delivery of a recorded event with the object of the Map.
ReplayEvent(k) ==
    /\ Request
    /\ UNCHANGED faulty
    /\ event[k] # "none"
    /\ calls' = [calls EXCEPT ![[hook |-> k[1], payment |-> k[2], object |-> "shared"]] = @ + 1]
    /\ UNCHANGED <<hookRows, hookAttempts, registering, sse, paid, event, delivery, dlq, task, acked>>

\* The process dies and restoreWebhooks reloads the table.  What was in memory is lost.
RestoreWebhooks ==
    /\ Request
    /\ faulty' = TRUE
    /\ hookAttempts' = [h \in Hooks |-> 0]
    /\ registering' = {}
    /\ calls' = [c \in Calls |-> 0]
    /\ task' = [t \in WebhookTasks |-> WebhookIdle]
    /\ sse' = [open |-> IF hookRows = {} THEN 0 ELSE 1, tracked |-> hookRows # {}]
    /\ UNCHANGED <<hookRows, paid, event, delivery, dlq, acked>>

--------------------------------------------------------------------------------
WebhookTaskStep(t) ==
    \/ InsertEvent(t) \/ InsertDelivery(t) \/ AttemptDelivery(t) \/ RecordDelivered(t)
    \/ StampEvent(t) \/ HandleDeliveryFailure(t) \/ WriteToDeadLetterQueue(t) \/ SweepNext(t)

WebhookNext ==
    \/ \E h \in Hooks : RegisterCheck(h) \/ RegisterInsert(h)
    \/ StreamError
    \/ \E p \in Payments : PaymentArrives(p)
    \/ \E t \in WebhookTasks : \E c \in Calls : StartDelivery(t, c)
    \/ \E t \in WebhookTasks : WebhookTaskStep(t) \/ StartSweep(t)
    \/ \E d \in DeliveryIds : RetryComesDue(d)
    \/ RetryDeadDeliveries
    \/ \E k \in EventKeys : ReplayEvent(k)
    \/ RestoreWebhooks

--------------------------------------------------------------------------------
(* A row marked delivered, or an event stamped delivered, was acknowledged  *)
(* by the endpoint, although first attempts, sweeps and replays of the same *)
(* event overwrite each other's status.                                     *)
DeliveredWasReceived ==
    /\ \A d \in DeliveryIds : delivery[d].status = "delivered" => d \in acked
    /\ \A k \in EventKeys : event[k] = "delivered" =>
         \E d \in acked : delivery[d].key = k

(* A delivery that was given up is in the dead letter queue or on its way   *)
(* there, unless a database error or a crash hit the process.               *)
DeadReachesQueue ==
    ~faulty =>
      \A d \in DeliveryIds : delivery[d].status = "dead" =>
        d \in dlq \/ \E t \in WebhookTasks : task[t].pc = "dlq" /\ task[t].id = d

(* Whatever overlaps, fails or crashes, a recorded delivery that is pending *)
(* is eventually delivered or declared dead: no row is left behind that no  *)
(* sweep selects (processRetryQueue).                                       *)
EveryDeliverySettles ==
    \A d \in DeliveryIds :
      (delivery[d].status = "pending") ~> (delivery[d].status \in {"delivered", "dead"})

(* The status of a delivery is true: delivered was acknowledged, dead is    *)
(* queued for a human.                                                      *)
DeliveryStatusIsTrue == DeliveredWasReceived /\ DeadReachesQueue
================================================================================
