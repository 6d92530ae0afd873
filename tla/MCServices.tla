----------------------------- MODULE MCServices -----------------------------
(***************************************************************************)
(* Four services of the backend, with what must eventually happen in them. *)
(* They share no variable, so `part` picks the one whose behaviours are    *)
(* generated and the others stay in their initial state; the fairness of a *)
(* service binds only its own behaviours.                                  *)
(***************************************************************************)
EXTENDS WebhookDelivery, PendingExecutions, EventIndexer,
        ScheduledExecutor

VARIABLE part

servicesVars == <<part, webhookVars, pendingVars, indexerVars, vars>>

ServicesInit ==
    /\ part \in {"webhooks", "pending", "indexer", "executor"}
    /\ WebhookInit /\ PendingInit /\ IndexerInit /\ Init

ServicesNext ==
    \/ /\ part = "webhooks" /\ WebhookNext
       /\ UNCHANGED <<part, pendingVars, indexerVars, vars>>
    \/ /\ part = "pending" /\ PendingNext
       /\ UNCHANGED <<part, webhookVars, indexerVars, vars>>
    \/ /\ part = "indexer" /\ IndexerNext
       /\ UNCHANGED <<part, webhookVars, pendingVars, vars>>
    \/ /\ part = "executor" /\ Next
       /\ UNCHANGED <<part, webhookVars, pendingVars, indexerVars>>

\* Webhooks: the event loop runs every started call, the interval timer keeps
\* firing and time passes; nothing is assumed of payments, the owner or the
\* endpoint.  Pending executions: a started call runs to its end as long as its
\* process lives.  Indexer: the poll timer keeps firing and every await ends.
\* Executor: clocks advance and a worker that is up keeps cycling
\* (setInterval, and a restart after a crash); nothing is assumed of the owner,
\* of cron, of Redis or of the outcome of a submission.
ServicesFairness ==
    /\ \A t \in WebhookTasks : WF_webhookVars(part = "webhooks" /\ WebhookTaskStep(t))
    /\ WF_webhookVars(part = "webhooks" /\ \E t \in WebhookTasks : StartSweep(t))
    /\ \A d \in DeliveryIds : WF_webhookVars(part = "webhooks" /\ RetryComesDue(d))
    /\ \A c \in SubmitCalls : WF_pendingVars(part = "pending" /\ SubmitStep(c))
    /\ \A i \in Indexers : WF_indexerVars(part = "indexer" /\ IndexerStep(i))
    /\ WF_vars(part = "executor" /\ Tick)
    /\ \A w \in Workers : WF_vars(part = "executor" /\ WorkerStep(w))

ServicesSpec == ServicesInit /\ [][ServicesNext]_servicesVars /\ ServicesFairness

(* Every table row, cache entry and local variable of a started call is a   *)
(* value of its type.                                                       *)
ServicesTypeOK ==
    /\ part = "webhooks" => WebhookTypeOK
    /\ part = "pending" => PendingTypeOK
    /\ part = "indexer" => IndexerTypeOK
    /\ part = "executor" => TypeOK
=============================================================================
