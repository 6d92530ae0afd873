--------------------------- MODULE PendingExecutions ---------------------------
(***************************************************************************)
(* Scheduled transactions that wait for their owner's signature            *)
(* (scheduledTransactionService.js, routes/scheduledTransactions.js).      *)
(* Several backend processes share one database; each keeps its own cron   *)
(* jobs, so one tick may create a pending execution per process.  Every    *)
(* await is a step boundary.  All schedules belong to Owner.               *)
(***************************************************************************)
EXTENDS Naturals, FiniteSets

CONSTANTS
    Backends,                    \* backend processes
    Schedules,                   \* ids of scheduled_transactions
    SubmitCalls,                 \* concurrent POST .../submit calls (bound of the model)
    Accounts, Owner,
    MAX_SCHEDULES_PER_ACCOUNT,
    MaxPending,
    MaxChanges                   \* bounds of the model: updates, deletions and restarts

ASSUME PendingAssumption ==
    /\ Owner \in Accounts
    /\ MAX_SCHEDULES_PER_ACCOUNT \in Nat \ {0}
    /\ {MaxPending, MaxChanges} \subseteq Nat

VARIABLES
    schedStatus,     \* table scheduled_transactions: status of a row, "none" without one
    activeCronJobs,  \* per process
    creating,        \* per process: createSchedule calls past the cap check
    updating,        \* per process: an updateSchedule call
    executing,       \* per process: an executeSchedule callback
    pending,         \* table pending_executions
    submit,          \* submitPendingExecution calls
    horizon,         \* history: transactions handed to Horizon for a row, by source
    landed,          \* history: rows whose transaction is on the ledger
    changes,         \* updates, deletions and restarts so far
    restarted        \* history: a process has been restarted

pendingVars == <<schedStatus, activeCronJobs, creating, updating, executing, pending, submit,
                 horizon, landed, changes, restarted>>

PendingIds == 1 .. MaxPending
RowStatus == {"active", "paused"}
Quiet == [pc |-> "quiet"]
NoPending == [status |-> "none"]
PendingRow == [status : {"awaiting_signature", "submitting", "submitted", "failed"},
               schedule : Schedules]

\* Type invariant.
PendingTypeOK ==
    /\ schedStatus \in [Schedules -> RowStatus \cup {"none"}]
    /\ activeCronJobs \in [Backends -> SUBSET Schedules]
    /\ creating \in [Backends -> SUBSET Schedules]
    /\ updating \in [Backends -> {Quiet} \cup
         [pc : {"write", "read", "apply"}, schedule : Schedules, status : RowStatus]]
    /\ executing \in [Backends -> {Quiet} \cup [pc : {"insert", "notify"}, schedule : Schedules]]
    /\ pending \in [PendingIds -> PendingRow \cup {NoPending}]
    /\ submit \in [SubmitCalls -> {Quiet} \cup
         [pc : {"claim", "horizon", "accepted", "refused"}, id : PendingIds, at : Backends, source : Accounts]]
    /\ horizon \in [PendingIds -> [count : Nat, sources : SUBSET Accounts]]
    /\ landed \subseteq PendingIds
    /\ changes \in 0 .. MaxChanges /\ restarted \in BOOLEAN

PendingInit ==
    /\ schedStatus = [s \in Schedules |-> "none"]
    /\ activeCronJobs = [b \in Backends |-> {}]
    /\ creating = [b \in Backends |-> {}]
    /\ updating = [b \in Backends |-> Quiet]
    /\ executing = [b \in Backends |-> Quiet]
    /\ pending = [i \in PendingIds |-> NoPending]
    /\ submit = [c \in SubmitCalls |-> Quiet]
    /\ horizon = [i \in PendingIds |-> [count |-> 0, sources |-> {}]]
    /\ landed = {} /\ changes = 0 /\ restarted = FALSE

Change ==
    /\ changes < MaxChanges
    /\ changes' = changes + 1

RegisterCronJob(b, s) == activeCronJobs' = [activeCronJobs EXCEPT ![b] = @ \cup {s}]
UnregisterCronJob(b, s) == activeCronJobs' = [activeCronJobs EXCEPT ![b] = @ \ {s}]

--------------------------------------------------------------------------------
(* createSchedule, updateSchedule, deleteSchedule *)

ActiveSchedules == {s \in Schedules : schedStatus[s] = "active"}

CreateCheck(b, s) ==
    /\ schedStatus[s] = "none" /\ \A c \in Backends : s \notin creating[c]
    /\ Cardinality(ActiveSchedules) < MAX_SCHEDULES_PER_ACCOUNT
    /\ creating' = [creating EXCEPT ![b] = @ \cup {s}]
    /\ UNCHANGED <<schedStatus, activeCronJobs, updating, executing, pending, submit, horizon, landed, changes, restarted>>

CreateInsert(b, s) ==
    /\ s \in creating[b]
    /\ creating' = [creating EXCEPT ![b] = @ \ {s}]
    /\ schedStatus' = [schedStatus EXCEPT ![s] = "active"]
    /\ RegisterCronJob(b, s)
    /\ UNCHANGED <<updating, executing, pending, submit, horizon, landed, changes, restarted>>

\* The row is read; a status the caller does not name is the one that was read.
UpdateRead(b, s) ==
    /\ updating[b] = Quiet /\ schedStatus[s] # "none"
    /\ \E status \in RowStatus :
         updating' = [updating EXCEPT ![b] = [pc |-> "write", schedule |-> s, status |-> status]]
    /\ Change
    /\ UNCHANGED <<schedStatus, activeCronJobs, creating, executing, pending, submit, horizon, landed, restarted>>

\* Every column is written back; a row deleted meanwhile is not resurrected.
UpdateWrite(b) ==
    LET u == updating[b] IN
    /\ u.pc = "write"
    /\ schedStatus' = [schedStatus EXCEPT ![u.schedule] = IF @ = "none" THEN @ ELSE u.status]
    /\ updating' = [updating EXCEPT ![b].pc = "read"]
    /\ UNCHANGED <<activeCronJobs, creating, executing, pending, submit, horizon, landed, changes, restarted>>

\* The row is read again; without one the call throws.
UpdateReread(b) ==
    LET u == updating[b] IN
    /\ u.pc = "read"
    /\ updating' = [updating EXCEPT ![b] =
         IF schedStatus[u.schedule] = "none" THEN Quiet
         ELSE [u EXCEPT !.pc = "apply", !.status = schedStatus[u.schedule]]]
    /\ UNCHANGED <<schedStatus, activeCronJobs, creating, executing, pending, submit, horizon, landed, changes, restarted>>

UpdateApply(b) ==
    LET u == updating[b] IN
    /\ u.pc = "apply"
    /\ IF u.status = "active" THEN RegisterCronJob(b, u.schedule) ELSE UnregisterCronJob(b, u.schedule)
    /\ updating' = [updating EXCEPT ![b] = Quiet]
    /\ UNCHANGED <<schedStatus, creating, executing, pending, submit, horizon, landed, changes, restarted>>

\* The cron job of this process stops; the foreign key deletes the pending rows.
DeleteSchedule(b, s) ==
    /\ schedStatus[s] # "none"
    /\ UnregisterCronJob(b, s)
    /\ schedStatus' = [schedStatus EXCEPT ![s] = "none"]
    /\ pending' = [i \in PendingIds |->
         IF pending[i] # NoPending /\ pending[i].schedule = s THEN NoPending ELSE pending[i]]
    /\ Change
    /\ UNCHANGED <<creating, updating, executing, submit, horizon, landed, restarted>>

--------------------------------------------------------------------------------
(* executeSchedule *)

\* A cron job fires: without an active row nothing happens.
ExecuteRead(b, s) ==
    /\ s \in activeCronJobs[b] /\ executing[b] = Quiet
    /\ schedStatus[s] = "active"
    /\ executing' = [executing EXCEPT ![b] = [pc |-> "insert", schedule |-> s]]
    /\ UNCHANGED <<schedStatus, activeCronJobs, creating, updating, pending, submit, horizon, landed, changes, restarted>>

\* Ids are random, so an id once used is never used again.
UnusedIds == {i \in PendingIds : pending[i] = NoPending /\ horizon[i].count = 0
                                 /\ \A c \in SubmitCalls : submit[c] = Quiet \/ submit[c].id # i}

\* buildUnsignedPaymentXDR may fail, and so does the INSERT when the schedule is gone.
ExecuteInsert(b) ==
    /\ executing[b].pc = "insert"
    /\ \/ \E i \in UnusedIds :
            /\ \A k \in UnusedIds : i <= k
            /\ schedStatus[executing[b].schedule] # "none"
            /\ pending' = [pending EXCEPT ![i] =
                 [status |-> "awaiting_signature", schedule |-> executing[b].schedule]]
            /\ executing' = [executing EXCEPT ![b].pc = "notify"]
       \/ executing' = [executing EXCEPT ![b] = Quiet] /\ UNCHANGED pending
    /\ UNCHANGED <<schedStatus, activeCronJobs, creating, updating, submit, horizon, landed, changes, restarted>>

\* notifyOwner, then next_run_at is moved on.
ExecuteNotify(b) ==
    /\ executing[b].pc = "notify"
    /\ executing' = [executing EXCEPT ![b] = Quiet]
    /\ UNCHANGED <<schedStatus, activeCronJobs, creating, updating, pending, submit, horizon, landed, changes, restarted>>

--------------------------------------------------------------------------------
(* submitPendingExecution *)

\* The route's ownership check and the checks made before the claim.
Submittable(i, by, source) ==
    /\ pending[i].status = "awaiting_signature"
    /\ by = Owner
    /\ source = Owner

SubmitCheck(c, b, i, by, source) ==
    /\ submit[c] = Quiet
    /\ Submittable(i, by, source)
    /\ submit' = [submit EXCEPT ![c] = [pc |-> "claim", id |-> i, at |-> b, source |-> source]]
    /\ UNCHANGED <<schedStatus, activeCronJobs, creating, updating, executing, pending, horizon, landed, changes, restarted>>

Claimed_UnguardedFault(i) == pending[i] # NoPending
Claimed(i) == pending[i].status = "awaiting_signature"

\* UPDATE ... SET status = 'submitting' WHERE status = 'awaiting_signature'.
SubmitClaim(c) ==
    LET i == submit[c].id IN
    /\ submit[c].pc = "claim"
    /\ IF Claimed(i)
       THEN /\ pending' = [pending EXCEPT ![i].status = "submitting"]
            /\ submit' = [submit EXCEPT ![c].pc = "horizon"]
       ELSE submit' = [submit EXCEPT ![c] = Quiet] /\ UNCHANGED pending
    /\ UNCHANGED <<schedStatus, activeCronJobs, creating, updating, executing, horizon, landed, changes, restarted>>

\* server.submitTransaction: an error (a timeout) does not say that the
\* transaction is not on the ledger.
SubmitTransaction(c) ==
    LET i == submit[c].id IN
    /\ submit[c].pc = "horizon"
    /\ horizon' = [horizon EXCEPT ![i] = [count |-> @.count + 1, sources |-> @.sources \cup {submit[c].source}]]
    /\ \/ submit' = [submit EXCEPT ![c].pc = "accepted"] /\ landed' = landed \cup {i}
       \/ submit' = [submit EXCEPT ![c].pc = "refused"] /\ landed' \in {landed, landed \cup {i}}
    /\ UNCHANGED <<schedStatus, activeCronJobs, creating, updating, executing, pending, changes, restarted>>

SubmitAccepted_LostFault(c) ==
    /\ submit[c].pc = "accepted"
    /\ submit' = [submit EXCEPT ![c] = Quiet]
    /\ UNCHANGED <<schedStatus, activeCronJobs, creating, updating, executing, pending, horizon, landed, changes, restarted>>

\* The update of the success branch is not guarded by a status.
SubmitAccepted(c) ==
    LET i == submit[c].id IN
    /\ submit[c].pc = "accepted"
    /\ pending' = [pending EXCEPT ![i] = IF @ = NoPending THEN @ ELSE [@ EXCEPT !.status = "submitted"]]
    /\ submit' = [submit EXCEPT ![c] = Quiet]
    /\ UNCHANGED <<schedStatus, activeCronJobs, creating, updating, executing, horizon, landed, changes, restarted>>

SubmitRefused(c) ==
    LET i == submit[c].id IN
    /\ submit[c].pc = "refused"
    /\ pending' = [pending EXCEPT ![i] = IF @.status = "submitting" THEN [@ EXCEPT !.status = "failed"] ELSE @]
    /\ submit' = [submit EXCEPT ![c] = Quiet]
    /\ UNCHANGED <<schedStatus, activeCronJobs, creating, updating, executing, horizon, landed, changes, restarted>>

\* A process dies; loadActiveSchedules registers its cron jobs again.
LoadActiveSchedules(b) ==
    /\ Change
    /\ restarted' = TRUE
    /\ activeCronJobs' = [activeCronJobs EXCEPT ![b] = ActiveSchedules]
    /\ creating' = [creating EXCEPT ![b] = {}]
    /\ updating' = [updating EXCEPT ![b] = Quiet]
    /\ executing' = [executing EXCEPT ![b] = Quiet]
    /\ submit' = [c \in SubmitCalls |-> IF submit[c] # Quiet /\ submit[c].at = b THEN Quiet ELSE submit[c]]
    /\ UNCHANGED <<schedStatus, pending, horizon, landed>>

--------------------------------------------------------------------------------
SubmitStep(c) == SubmitClaim(c) \/ SubmitTransaction(c) \/ SubmitAccepted(c) \/ SubmitRefused(c)

PendingNext ==
    \/ \E b \in Backends, s \in Schedules :
         \/ CreateCheck(b, s) \/ CreateInsert(b, s) \/ UpdateRead(b, s)
         \/ DeleteSchedule(b, s) \/ ExecuteRead(b, s)
    \/ \E b \in Backends :
         \/ UpdateWrite(b) \/ UpdateReread(b) \/ UpdateApply(b)
         \/ ExecuteInsert(b) \/ ExecuteNotify(b) \/ LoadActiveSchedules(b)
    \/ \E c \in SubmitCalls, b \in Backends, i \in PendingIds, by, source \in Accounts :
         SubmitCheck(c, b, i, by, source)
    \/ \E c \in SubmitCalls : SubmitStep(c)

--------------------------------------------------------------------------------
(* "A concurrent submit that lost the race never double-submits": whatever  *)
(* calls, processes, deletions and restarts do, at most one transaction is  *)
(* handed to Horizon for a pending execution.                               *)
SubmittedOnce == \A i \in PendingIds : horizon[i].count <= 1

(* Only transactions whose source is the owner are submitted for a pending  *)
(* execution (WS2).                                                         *)
OwnTransactionsOnly == \A i \in PendingIds : horizon[i].sources \subseteq {Owner}

(* A row says submitted only when its transaction is on the ledger; the     *)
(* converse fails, because a timeout is recorded as failed.                 *)
SubmittedIsOnLedger == \A i \in PendingIds : pending[i].status = "submitted" => i \in landed

(* submitted and failed are final: no call in flight, also one that read    *)
(* the row before, moves a resolved row, until its schedule is deleted.     *)
ResolvedPendingIsFinal ==
    [][\A i \in PendingIds : pending[i].status \in {"submitted", "failed"} =>
         pending'[i] \in {pending[i], NoPending}]_pendingVars

(* A claimed row is resolved, unless a process is restarted: the code has   *)
(* nothing that picks up a row left in submitting by a crash.               *)
ClaimedIsResolved ==
    \A i \in PendingIds :
      (pending[i].status = "submitting") ~> (pending[i].status # "submitting" \/ restarted)

(* A pending execution is safe: handed to Horizon once, by its owner,       *)
(* called submitted only when it landed, and final once resolved.           *)
PendingExecutionsAreSafe ==
    [](SubmittedOnce /\ OwnTransactionsOnly /\ SubmittedIsOnLedger) /\ ResolvedPendingIsFinal
================================================================================
