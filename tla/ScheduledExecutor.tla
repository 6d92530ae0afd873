--------------------------- MODULE ScheduledExecutor ---------------------------
(***************************************************************************)
(* The backend's executor of scheduled transactions                        *)
(* (scheduledExecutor.js): several worker processes poll one database,     *)
(* claim due runs with an INSERT, claim retries and orphaned claims with a *)
(* guarded UPDATE, use Redis SET NX PX as a first gate, submit, and record *)
(* the outcome.  Every await is a step boundary: other workers, timers,    *)
(* the owner and faults run in between.                                   *)
(*                                                                         *)
(* One recurring schedule; its executions are numbered.  Execution n is    *)
(* the n-th value next_run_at takes (executionIdForRun); ids above MaxRuns *)
(* are the random ids of executeNow.  Time is kept as countdowns: a lease, *)
(* a retry delay or a lock whose countdown is 0 has expired (or is NULL).  *)
(***************************************************************************)
EXTENDS Integers, FiniteSets

CONSTANTS
    Workers,
    MAX_RETRIES,
    LeaseTicks,          \* EXECUTION_LEASE_MS
    RetryTicks,          \* RETRY_INTERVAL_MS
    Outcomes,            \* what submitScheduledTransaction may report
    LockModes,           \* subset of {"up", "down"}: what a Redis call may meet
    MayOverrun,          \* may a submission outlast its lease?
    MaxRuns,             \* bound of the model on the runs of the schedule
    MaxManual,           \* bound of the model on executeNow calls
    MaxFaults            \* bound of the model on faults and database errors

ASSUME ExecutorAssumption ==
    /\ MAX_RETRIES \in Nat \ {0, 1}
    /\ {LeaseTicks, MaxRuns} \subseteq Nat \ {0}
    /\ {RetryTicks, MaxManual, MaxFaults} \subseteq Nat
    /\ Outcomes \subseteq {"success", "retryable", "permanent"}
    /\ LockModes \subseteq {"up", "down"}
    /\ MayOverrun \in BOOLEAN

VARIABLES
    schedule,            \* row of scheduled_transactions: status, run, due;
                         \* cron: a cron callback read the row and will move it on
    execution,           \* rows of scheduled_txn_executions by id
    redis,               \* remaining life of the lock of an execution id
    worker,              \* where a worker is in its cycle, and its locals
    faults,              \* faults and database errors so far
    submissions,         \* history: submissions started for an execution
    notified             \* history: executions whose failure was notified

vars == <<schedule, execution, redis, worker, faults, submissions, notified>>

ExecutionIds == 1 .. MaxRuns + MaxManual
RunIds == 1 .. MaxRuns

Execution == [status : {"pending", "submitted", "failed"},
              execution_status : {"null", "claimed", "executed", "failed"},
              attempt_number : 1 .. MAX_RETRIES, lease : 0 .. LeaseTicks, retry : 0 .. RetryTicks]
NoExecution == [status |-> "none"]

Idle == [pc |-> "idle"]
Busy == [pc : {"sweep", "next", "lock", "claim", "submit", "finalize", "release",
               "mark", "notify"},
         kind : {"due", "retry"}, id : ExecutionIds, attempt : Nat,
         lease : 0 .. LeaseTicks, locked : BOOLEAN,
         outcome : Outcomes \cup {"none", "lost"},
         todo : SUBSET [id : ExecutionIds, attempt : Nat]]

TypeOK ==
    /\ schedule \in [status : {"active", "paused", "failed"},
                     run : 1 .. MaxRuns + 1, due : BOOLEAN, cron : BOOLEAN]
    /\ DOMAIN execution = ExecutionIds
    /\ \A id \in ExecutionIds : execution[id] \in Execution \cup {NoExecution}
    /\ redis \in [ExecutionIds -> 0 .. LeaseTicks]
    /\ DOMAIN worker = Workers
    /\ \A w \in Workers : worker[w] \in Busy \cup {Idle}
    /\ faults \in 0 .. MaxFaults
    /\ submissions \in [ExecutionIds -> 0 .. MAX_RETRIES + MaxFaults + 1]
    /\ notified \in SUBSET ExecutionIds

Init ==
    /\ schedule = [status |-> "active", run |-> 1, due |-> FALSE, cron |-> FALSE]
    /\ execution = [id \in ExecutionIds |-> NoExecution]
    /\ redis = [id \in ExecutionIds |-> 0]
    /\ worker = [w \in Workers |-> Idle]
    /\ faults = 0
    /\ submissions = [id \in ExecutionIds |-> 0]
    /\ notified = {}

\* The count of submissions stops at the first value that matters no more.
Counted(n) == IF n > MAX_RETRIES + MaxFaults THEN n ELSE n + 1

Exists(id) == execution[id] # NoExecution
IsPending(id) == execution[id].status = "pending"

-----------------------------------------------------------------------------
(***************************************************************************)
(* Queries of a cycle.                                                     *)
(***************************************************************************)
\* getDueTransactions: overdue, active, and nothing unresolved of this schedule.
Due ==
    /\ schedule.status = "active"
    /\ schedule.due
    /\ schedule.run \in RunIds
    /\ \A id \in ExecutionIds : ~IsPending(id)

\* Fault: claims left behind by a crash are not swept.
RetryDue_OrphanFault(id) ==
    /\ IsPending(id)
    /\ execution[id].attempt_number < MAX_RETRIES + 1
    /\ execution[id].retry = 0
    /\ execution[id].execution_status = "null"

\* getPendingRetries: queued retries that are due, and claims whose lease is up.
RetryDue(id) ==
    /\ IsPending(id)
    /\ execution[id].attempt_number < MAX_RETRIES + 1
    /\ execution[id].retry = 0
    /\ \/ execution[id].execution_status = "null"
       \/ execution[id].lease = 0

Goto(w, pc) == worker' = [worker EXCEPT ![w].pc = pc]

\* executeCycle up to the first claim: the due run is read here and used later.
StartCycle(w) ==
    /\ worker[w] = Idle
    /\ worker' = [worker EXCEPT ![w] =
                    [pc |-> IF Due THEN "lock" ELSE "sweep", kind |-> "due",
                     id |-> IF Due THEN schedule.run ELSE 1, attempt |-> 0,
                     lease |-> 0, locked |-> FALSE, outcome |-> "none",
                     todo |-> {}]]
    /\ UNCHANGED <<schedule, execution, redis, faults, submissions, notified>>

\* The rows to retry are read together, and worked on one after the other.
Sweep(w) ==
    /\ worker[w].pc = "sweep"
    /\ worker' = [worker EXCEPT
         ![w].pc = "next", ![w].kind = "retry",
         ![w].todo = {[id |-> id, attempt |-> execution[id].attempt_number] :
                        id \in {i \in ExecutionIds : Exists(i) /\ RetryDue(i)}}]
    /\ UNCHANGED <<schedule, execution, redis, faults, submissions, notified>>

NextRetry(w) ==
    /\ worker[w].pc = "next"
    /\ \/ /\ worker[w].todo = {}
          /\ worker' = [worker EXCEPT ![w] = Idle]
       \/ \E item \in worker[w].todo :
            worker' = [worker EXCEPT ![w].pc = "lock", ![w].id = item.id,
                                     ![w].attempt = item.attempt,
                                     ![w].outcome = "none", ![w].locked = FALSE,
                                     ![w].todo = @ \ {item}]
    /\ UNCHANGED <<schedule, execution, redis, faults, submissions, notified>>

Rest(w) == IF worker[w].kind = "due" THEN "sweep" ELSE "next"

-----------------------------------------------------------------------------
(***************************************************************************)
(* Claiming: claimExecution (kind due) and claimRetry (kind retry).  The   *)
(* lease starts before the lock is asked for.                              *)
(***************************************************************************)
AcquireLock(w) ==
    /\ worker[w].pc = "lock"
    /\ \E mode \in LockModes :
         LET id == worker[w].id
         IN  \/ /\ mode = "down"
                /\ worker' = [worker EXCEPT ![w].pc = "claim", ![w].lease = LeaseTicks]
                /\ UNCHANGED redis
             \/ /\ mode = "up" /\ redis[id] = 0
                /\ redis' = [redis EXCEPT ![id] = LeaseTicks]
                /\ worker' = [worker EXCEPT ![w].pc = "claim", ![w].locked = TRUE,
                                            ![w].lease = LeaseTicks]
             \/ /\ mode = "up" /\ redis[id] > 0
                /\ Goto(w, Rest(w))
                /\ UNCHANGED redis
    /\ UNCHANGED <<schedule, execution, faults, submissions, notified>>

\* Faults: a claim is taken over before its lease is up; a row is taken although
\* it has been resolved since it was swept.
Reclaimable_LeaseFault(id) == IsPending(id)

\* The WHERE clause of claimRetry's UPDATE.
Reclaimable(id) ==
    /\ IsPending(id)
    /\ \/ execution[id].execution_status = "null"
       \/ /\ execution[id].execution_status = "claimed"
          /\ execution[id].lease = 0

Wins(w) == IF worker[w].kind = "due" THEN ~Exists(worker[w].id)
                                     ELSE Reclaimable(worker[w].id)

Claim(w) ==
    LET id == worker[w].id
    IN  /\ worker[w].pc = "claim"
        /\ Wins(w)
        /\ execution' = [execution EXCEPT ![id] =
             IF worker[w].kind = "due"
             THEN [status |-> "pending", execution_status |-> "claimed",
                   attempt_number |-> 1, lease |-> worker[w].lease, retry |-> 0]
             ELSE [@ EXCEPT !.execution_status = "claimed", !.lease = worker[w].lease]]
        /\ submissions' = [submissions EXCEPT ![id] = Counted(@)]
        /\ Goto(w, "submit")
        /\ UNCHANGED <<schedule, redis, faults, notified>>

\* Unique violation, or 0 rows updated: give the lock back, if there is one.
LoseClaim(w) ==
    /\ worker[w].pc = "claim"
    /\ ~Wins(w)
    /\ worker' = [worker EXCEPT
                    ![w].pc = IF worker[w].locked THEN "release" ELSE Rest(w),
                    ![w].outcome = "lost"]
    /\ UNCHANGED <<schedule, execution, redis, faults, submissions, notified>>

-----------------------------------------------------------------------------
(***************************************************************************)
(* Submission and its outcome.                                             *)
(***************************************************************************)
SubmitReturns(w, outcome) ==
    /\ worker[w].pc = "submit"
    /\ worker' = [worker EXCEPT ![w].pc = "finalize", ![w].outcome = outcome]
    /\ UNCHANGED <<schedule, execution, redis, faults, submissions, notified>>

NextAttempt(w) == worker[w].attempt + 1

\* Fault: one attempt too many.
Requeues_OffByOneFault(w) ==
    /\ worker[w].outcome = "retryable"
    /\ worker[w].kind = "due" \/ NextAttempt(w) <= MAX_RETRIES

\* A first attempt is always queued again; a retry only below MAX_RETRIES.
Requeues(w) ==
    /\ worker[w].outcome = "retryable"
    /\ worker[w].kind = "due" \/ NextAttempt(w) < MAX_RETRIES

\* The UPDATE of finalizeClaim selects the row by id alone.
Finalize(w) ==
    LET id == worker[w].id
        e == execution[id]
    IN  /\ worker[w].pc = "finalize"
        /\ execution' = [execution EXCEPT ![id] =
             CASE worker[w].outcome = "success" ->
                    [e EXCEPT !.status = "submitted", !.execution_status = "executed",
                              !.lease = 0]
               [] Requeues(w) ->
                    [e EXCEPT !.status = "pending", !.execution_status = "null",
                              !.attempt_number = NextAttempt(w), !.lease = 0,
                              !.retry = RetryTicks]
               [] OTHER ->
                    [e EXCEPT !.status = "failed", !.execution_status = "failed",
                              !.attempt_number = NextAttempt(w), !.lease = 0]]
        /\ Goto(w, "release")
        /\ UNCHANGED <<schedule, redis, faults, submissions, notified>>

\* releaseLock deletes the key whoever holds it, and shrugs if Redis is down.
Release(w) ==
    /\ worker[w].pc = "release"
    /\ \E mode \in LockModes :
         redis' = IF mode = "up" THEN [redis EXCEPT ![worker[w].id] = 0] ELSE redis
    /\ Goto(w, IF worker[w].outcome = "lost" \/ Requeues(w) THEN Rest(w) ELSE "mark")
    /\ UNCHANGED <<schedule, execution, faults, submissions, notified>>

\* next_run_at moves into the future and never takes an earlier value again.
NextRun == [schedule EXCEPT !.run = IF @ > MaxRuns THEN @ ELSE @ + 1, !.due = FALSE]

\* advanceSchedule after a success; status "failed" after a final failure.
Mark(w) ==
    /\ worker[w].pc = "mark"
    /\ \/ /\ worker[w].outcome = "success"
          /\ schedule' = NextRun
          /\ Goto(w, Rest(w))
       \/ /\ worker[w].outcome # "success"
          /\ schedule' = [schedule EXCEPT !.status = "failed"]
          /\ Goto(w, "notify")
    /\ UNCHANGED <<execution, redis, faults, submissions, notified>>

NotifyFailure(w) ==
    /\ worker[w].pc = "notify"
    /\ notified' = notified \cup {worker[w].id}
    /\ Goto(w, Rest(w))
    /\ UNCHANGED <<schedule, execution, redis, faults, submissions>>

-----------------------------------------------------------------------------
(***************************************************************************)
(* Around the workers: a crash loses a worker's locals and leaves its row  *)
(* and lock behind; time passes; the run becomes due; the cron job of      *)
(* scheduledTransactionService moves next_run_at on; the owner sets the    *)
(* status (PUT) or runs the schedule by hand (executeNow).                 *)
(***************************************************************************)
Crash(w) ==
    /\ worker[w] # Idle
    /\ faults < MaxFaults
    /\ faults' = faults + 1
    /\ worker' = [worker EXCEPT ![w] = Idle]
    /\ UNCHANGED <<schedule, execution, redis, submissions, notified>>

\* A query throws: the cycle logs it and goes on with the next row, the claim
\* stays as it was.  Only claimExecution gives the lock back before it rethrows.
DatabaseError(w) ==
    /\ worker[w].pc \in {"sweep", "claim", "finalize", "mark"}
    /\ faults < MaxFaults
    /\ faults' = faults + 1
    /\ \/ /\ worker[w].pc = "sweep"
          /\ worker' = [worker EXCEPT ![w] = Idle]
       \/ /\ worker[w].pc = "claim" /\ worker[w].kind = "due" /\ worker[w].locked
          /\ worker' = [worker EXCEPT ![w].pc = "release", ![w].outcome = "lost"]
       \/ /\ worker[w].pc # "sweep"
          /\ ~(worker[w].pc = "claim" /\ worker[w].kind = "due" /\ worker[w].locked)
          /\ Goto(w, Rest(w))
    /\ UNCHANGED <<schedule, execution, redis, submissions, notified>>

OwnsClaim(w) == worker[w].pc \in {"submit", "finalize"}

Less(n) == IF n = 0 THEN 0 ELSE n - 1

Tick ==
    /\ ~MayOverrun => \A w \in Workers :
         worker[w].pc \in {"claim", "submit", "finalize", "release"} => worker[w].lease > 1
    /\ execution' = [id \in ExecutionIds |->
         IF Exists(id) THEN [execution[id] EXCEPT !.lease = Less(@), !.retry = Less(@)]
                       ELSE execution[id]]
    /\ redis' = [id \in ExecutionIds |-> Less(redis[id])]
    /\ worker' = [w \in Workers |-> IF worker[w] = Idle THEN Idle
                                    ELSE [worker[w] EXCEPT !.lease = Less(@)]]
    /\ UNCHANGED <<schedule, faults, submissions, notified>>

BecomeDue ==
    /\ ~schedule.due
    /\ schedule.run \in RunIds
    /\ schedule' = [schedule EXCEPT !.due = TRUE]
    /\ UNCHANGED <<execution, redis, worker, faults, submissions, notified>>

\* executeSchedule reads an active row, and writes next_run_at some awaits later.
CronFires ==
    /\ schedule.status = "active"
    /\ schedule.run \in RunIds
    /\ schedule' = [schedule EXCEPT !.cron = TRUE]
    /\ UNCHANGED <<execution, redis, worker, faults, submissions, notified>>

CronAdvances ==
    /\ schedule.cron
    /\ schedule' = [NextRun EXCEPT !.cron = FALSE]
    /\ UNCHANGED <<execution, redis, worker, faults, submissions, notified>>

OwnerSetsStatus(status) ==
    /\ schedule' = [schedule EXCEPT !.status = status]
    /\ UNCHANGED <<execution, redis, worker, faults, submissions, notified>>

\* The submission touches no shared state: only the row it logs is visible.
ExecuteNow(id, outcome) ==
    /\ id > MaxRuns
    /\ ~Exists(id)
    /\ execution' = [execution EXCEPT ![id] =
         [status |-> IF outcome = "success" THEN "submitted" ELSE "pending",
          execution_status |-> "null", attempt_number |-> 1, lease |-> 0,
          retry |-> IF outcome = "retryable" THEN RetryTicks ELSE 0]]
    /\ submissions' = [submissions EXCEPT ![id] = 1]
    /\ UNCHANGED <<schedule, redis, worker, faults, notified>>

\* The steps a live worker takes on its own.
WorkerStep(w) ==
    \/ StartCycle(w) \/ Sweep(w) \/ NextRetry(w)
    \/ AcquireLock(w) \/ Claim(w) \/ LoseClaim(w)
    \/ \E outcome \in Outcomes : SubmitReturns(w, outcome)
    \/ Finalize(w) \/ Release(w) \/ Mark(w) \/ NotifyFailure(w)

Next ==
    \/ \E w \in Workers : WorkerStep(w) \/ Crash(w) \/ DatabaseError(w)
    \/ Tick
    \/ BecomeDue
    \/ CronFires
    \/ CronAdvances
    \/ \E status \in {"active", "paused"} : OwnerSetsStatus(status)
    \/ \E id \in ExecutionIds, outcome \in Outcomes : ExecuteNow(id, outcome)

Spec == Init /\ [][Next]_vars

-----------------------------------------------------------------------------
(***************************************************************************)
(* "Exactly one worker can own a claim at a time" (header of               *)
(* scheduledExecutor.js): never two workers between claim and resolution   *)
(* of the same execution.                                                  *)
(***************************************************************************)
OneOwner ==
    \A v, w \in Workers :
        OwnsClaim(v) /\ OwnsClaim(w) /\ worker[v].id = worker[w].id => v = w

(***************************************************************************)
(* "3 attempts with 5-minute intervals" (header of scheduledExecutor.js):  *)
(* an execution is submitted at most MAX_RETRIES times, plus once for      *)
(* every crash or database error met on the way.                           *)
(***************************************************************************)
AttemptsBounded ==
    \A id \in ExecutionIds : submissions[id] <= MAX_RETRIES + faults

(***************************************************************************)
(* An execution that was submitted or has failed stays so, whatever slower *)
(* workers still do.                                                       *)
(***************************************************************************)
ResolvedIsFinal ==
    [][\A id \in ExecutionIds :
         execution[id].status \in {"submitted", "failed"} =>
            execution'[id].status = execution[id].status]_vars

(***************************************************************************)
(* No claim is lost: an execution somebody claimed or queued for retry is  *)
(* eventually resolved, although workers crash and Redis is unreliable.    *)
(***************************************************************************)
PendingIsResolved ==
    \A id \in ExecutionIds : IsPending(id) ~> ~IsPending(id)

(***************************************************************************)
(* "After final failure, marks transaction as failed and triggers failure  *)
(* notification" (header of scheduledExecutor.js): the owner hears of      *)
(* every failed execution, unless a worker crashed or a query threw (then  *)
(* the notification may be lost: nothing sweeps resolved rows).            *)
(***************************************************************************)
FailureIsNotified ==
    \A id \in ExecutionIds :
        execution[id].status = "failed" ~> id \in notified \/ faults > 0

(* A claim has one owner, and what it resolved stays resolved.              *)
ClaimsAreOwned == [][OneOwner']_vars /\ ResolvedIsFinal

(* Every claim is resolved and, without a fault, every failure reaches the  *)
(* user.                                                                    *)
ExecutionsAreResolved == PendingIsResolved /\ FailureIsNotified
=============================================================================
