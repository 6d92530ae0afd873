--------------------------------- MODULE Turrets --------------------------------
(***************************************************************************)
(* The txFunctions runner (turretsService.js) and the price feed it reads  *)
(* (priceFeedService.js).  A timer starts a tick whether or not the last   *)
(* one has ended; a tick reads the active rows once and evaluates them one *)
(* by one.  Time is an integer clock, the unit of the time constants; the  *)
(* price is abstracted to whether it is at or below a stop-loss threshold, *)
(* and a provider's answer is the market's price while the request ran.    *)
(* An execution is the update of the row and a line in the history: the    *)
(* service describes transactions and never submits them.                  *)
(***************************************************************************)
EXTENDS Naturals, FiniteSets, FiniteSetsExt

CONSTANTS
    TxFunctions,         \* deployment ids
    TurretTicks,         \* ticks that may be under way at once
    TurretCalls,         \* deploy, pause and resume requests under way
    Providers,           \* 1 .. n, in the order they are asked
    CACHE_TTL, PROVIDER_TIMEOUT, IntervalMinutes, CooldownMinutes, ReleaseAfter, RecheckAfter,
    MaxHistory,          \* rows of history kept for a deployment
    MaxTurretTime, MaxLogs, MaxTurretFaults   \* bounds of the model

ASSUME TurretsAssumption ==
    /\ {CACHE_TTL, IntervalMinutes, CooldownMinutes, ReleaseAfter, RecheckAfter} \subseteq Nat \ {0}
    /\ {PROVIDER_TIMEOUT, MaxHistory, MaxTurretTime, MaxLogs, MaxTurretFaults} \subseteq Nat
    /\ Providers \subseteq Nat /\ Providers # {} /\ IsFiniteSet(Providers)
    /\ IsFiniteSet(TurretTicks \cup TurretCalls) /\ TurretTicks \cap TurretCalls = {}

VARIABLES
    deployments,         \* rows of turrets_deployments
    logs,                \* turrets_history: ids of the rows of each deployment, oldest lowest
    lastLog,             \* history: the last id given out
    feed,                \* providerState: low price or not, and when it was fetched
    turretTask,          \* what every tick and request is doing
    turretClock, marketLow,
    lastLow,             \* history: when the market was last at or below the threshold
    ticksOverlapped, turretFaults    \* history

turretVars == <<deployments, logs, lastLog, feed, turretTask, turretClock, marketLow, lastLow,
                ticksOverlapped, turretFaults>>

Never == MaxTurretTime + 100
Types == {"dca", "stop_loss", "escrow_time", "escrow_manual"}
Tasks == TurretTicks \cup TurretCalls
TurretIdle == [at |-> "idle"]
Deployed == {d \in TxFunctions : deployments[d].status # "none"}

(* Rows, cached prices and tasks hold values of their type. *)
TurretsTypeOK ==
    /\ \A d \in TxFunctions :
         /\ deployments[d].status \in {"none", "active", "paused", "completed"}
         /\ d \in Deployed =>
              /\ deployments[d].type \in Types /\ deployments[d].created \in Nat
              /\ deployments[d].next \in Nat /\ deployments[d].lastExecuted \in 0 .. MaxTurretTime \cup {Never}
    /\ logs \in [TxFunctions -> SUBSET (1 .. MaxLogs)] /\ lastLog \in 0 .. MaxLogs
    /\ feed \in [Providers -> [low : BOOLEAN, fetchedAt : 0 .. MaxTurretTime \cup {Never}]]
    /\ \A t \in Tasks : turretTask[t].at \in {"idle", "next", "probe", "answer", "write", "fail",
                                              "log", "count", "select", "delete"}
    /\ turretClock \in 0 .. MaxTurretTime /\ lastLow \in 0 .. MaxTurretTime \cup {Never}

TurretsInit ==
    /\ deployments = [d \in TxFunctions |-> [status |-> "none"]]
    /\ logs = [d \in TxFunctions |-> {}] /\ lastLog = 0
    /\ feed = [p \in Providers |-> [low |-> FALSE, fetchedAt |-> Never]]
    /\ turretTask = [t \in Tasks |-> TurretIdle]
    /\ turretClock = 0 /\ marketLow = FALSE /\ lastLow = Never
    /\ ticksOverlapped = FALSE /\ turretFaults = 0

Go(t, task) == turretTask' = [turretTask EXCEPT ![t] = task]

\* A tick goes on with the rows it has left; without any it is over, like a request
\* after its log.
Resume(todo) == IF todo = {} THEN TurretIdle ELSE [at |-> "next", todo |-> todo]
ToLog(d, todo) == [at |-> "log", id |-> d, todo |-> todo]

--------------------------------------------------------------------------------
(* Requests *)

\* First run of a deployment, as stored by deployTxFunction; manual releases give no
\* time and are due at once.
FirstRun(type) ==
    turretClock + (CASE type = "dca" -> IntervalMinutes
                     [] type = "stop_loss" -> RecheckAfter
                     [] type = "escrow_time" -> ReleaseAfter
                     [] type = "escrow_manual" -> 0)

\* A configuration that normalizes, with its hash and the owner's signature.
DeployTxFunction(c, d, type) ==
    /\ turretTask[c] = TurretIdle /\ d \notin Deployed
    /\ deployments' = [deployments EXCEPT ![d] =
                         [status |-> "active", type |-> type, created |-> turretClock,
                          next |-> FirstRun(type), lastExecuted |-> Never]]
    /\ Go(c, ToLog(d, {}))
    /\ UNCHANGED <<logs, lastLog, feed, turretClock, marketLow, lastLow, ticksOverlapped, turretFaults>>

\* pause and resume set the status whatever it was.
SetDeploymentStatus(c, d, status) ==
    /\ turretTask[c] = TurretIdle /\ d \in Deployed
    /\ deployments' = [deployments EXCEPT ![d].status = status]
    /\ Go(c, ToLog(d, {}))
    /\ UNCHANGED <<logs, lastLog, feed, turretClock, marketLow, lastLow, ticksOverlapped, turretFaults>>

--------------------------------------------------------------------------------
(* addExecutionLog: insert, count, select the oldest rows in excess, delete them *)

InsertLog(t) ==
    LET task == turretTask[t] IN
        /\ task.at = "log" /\ lastLog < MaxLogs
        /\ lastLog' = lastLog + 1
        /\ logs' = [logs EXCEPT ![task.id] = @ \cup {lastLog + 1}]
        /\ Go(t, [task EXCEPT !.at = "count"])
        /\ UNCHANGED <<deployments, feed, turretClock, marketLow, lastLow, ticksOverlapped, turretFaults>>

Excess(d) == IF Cardinality(logs[d]) > MaxHistory THEN Cardinality(logs[d]) - MaxHistory ELSE 0

CountLogs(t) ==
    LET task == turretTask[t] IN
        /\ task.at = "count"
        /\ Go(t, IF Excess(task.id) = 0 THEN Resume(task.todo)
                 ELSE [at |-> "select", id |-> task.id, todo |-> task.todo, excess |-> Excess(task.id)])
        /\ UNCHANGED <<deployments, logs, lastLog, feed, turretClock, marketLow, lastLow, ticksOverlapped,
                       turretFaults>>

Oldest(rows, n) == {r \in rows : Cardinality({q \in rows : q < r}) < n}

SelectOldest(t) ==
    LET task == turretTask[t] IN
        /\ task.at = "select"
        /\ Go(t, [at |-> "delete", id |-> task.id, todo |-> task.todo,
                  rows |-> Oldest(logs[task.id], task.excess)])
        /\ UNCHANGED <<deployments, logs, lastLog, feed, turretClock, marketLow, lastLow, ticksOverlapped,
                       turretFaults>>

DeleteLogs(t) ==
    LET task == turretTask[t] IN
        /\ task.at = "delete"
        /\ logs' = [logs EXCEPT ![task.id] = @ \ task.rows]
        /\ Go(t, Resume(task.todo))
        /\ UNCHANGED <<deployments, lastLog, feed, turretClock, marketLow, lastLow, ticksOverlapped, turretFaults>>

--------------------------------------------------------------------------------
(* The runner *)

ActiveRows == {[id |-> d, row |-> deployments[d]] : d \in {e \in Deployed : deployments[e].status = "active"}}

\* The timer of startRunner: the active rows are read once for the whole tick.
StartTick(t) ==
    /\ turretTask[t] = TurretIdle /\ ActiveRows # {}
    /\ Go(t, Resume(ActiveRows))
    /\ ticksOverlapped' = (ticksOverlapped \/ \E u \in TurretTicks \ {t} : turretTask[u] # TurretIdle)
    /\ UNCHANGED <<deployments, logs, lastLog, feed, turretClock, marketLow, lastLow, turretFaults>>

IsCacheFresh(p) == feed[p].fetchedAt # Never /\ turretClock - feed[p].fetchedAt < CACHE_TTL

EscrowIsDue(row, now) == row.type = "escrow_time" /\ now >= row.created + ReleaseAfter

\* What the evaluation of a row decides with a price: the row's new values.
Decided(row, now, low) ==
    CASE row.type = "dca" ->
           [executed |-> TRUE, status |-> "keep", next |-> turretClock + IntervalMinutes]
      [] row.type = "stop_loss" /\ low ->
           [executed |-> TRUE, status |-> "keep", next |-> turretClock + CooldownMinutes]
      [] row.type = "stop_loss" /\ ~low ->
           [executed |-> FALSE, status |-> "keep", next |-> turretClock + RecheckAfter]
      [] EscrowIsDue(row, now) ->
           [executed |-> TRUE, status |-> "completed", next |-> row.next]
      [] OTHER ->
           [executed |-> FALSE, status |-> "keep", next |-> row.next]

ToWrite(item, todo, now, low) ==
    [at |-> "write", id |-> item.id, todo |-> todo, new |-> Decided(item.row, now, low),
     decidedAt |-> turretClock]

\* A provider is asked for the price, from now on.
ToProbe(item, todo, now, p) ==
    [at |-> "probe", item |-> item, todo |-> todo, now |-> now, provider |-> p,
     asked |-> turretClock, low |-> FALSE]

\* evaluateDeployment up to its first await: a row that is not due is skipped, a
\* cached price is used without one (the first fresh provider in order).
EvaluateNext(t, item) ==
    LET todo == turretTask[t].todo \ {item}
        fresh == {p \in Providers : IsCacheFresh(p)}
    IN  /\ turretTask[t].at = "next" /\ item \in turretTask[t].todo
        /\ Go(t, IF turretClock < item.row.next THEN Resume(todo)
                 ELSE IF fresh # {} THEN ToWrite(item, todo, turretClock, feed[Min(fresh)].low)
                 ELSE ToProbe(item, todo, turretClock, Min(Providers)))
        /\ UNCHANGED <<deployments, logs, lastLog, feed, turretClock, marketLow, lastLow, ticksOverlapped,
                       turretFaults>>

\* The provider reads the market at some moment of the request.
PriceRead(t) ==
    LET task == turretTask[t] IN
        /\ task.at = "probe"
        /\ Go(t, [task EXCEPT !.at = "answer", !.low = marketLow])
        /\ UNCHANGED <<deployments, logs, lastLog, feed, turretClock, marketLow, lastLow, ticksOverlapped,
                       turretFaults>>

\* probeAllProviders: an answer in time is stamped as it arrives, cached, and decides;
\* an error or a timeout goes on to the next provider, the last one fails the evaluation.
ProbeAnswered(t) ==
    LET task == turretTask[t] IN
        /\ task.at = "answer" /\ turretClock - task.asked <= PROVIDER_TIMEOUT
        /\ feed' = [feed EXCEPT ![task.provider] = [low |-> task.low, fetchedAt |-> turretClock]]
        /\ Go(t, ToWrite(task.item, task.todo, task.now, task.low))
        /\ UNCHANGED <<deployments, logs, lastLog, turretClock, marketLow, lastLow, ticksOverlapped, turretFaults>>

ProbeFails(t) ==
    LET task == turretTask[t] IN
        /\ task.at \in {"probe", "answer"} /\ turretFaults < MaxTurretFaults
        /\ turretFaults' = turretFaults + 1
        /\ Go(t, IF task.provider = Max(Providers)
                 THEN [at |-> "fail", id |-> task.item.id, todo |-> task.todo]
                 ELSE ToProbe(task.item, task.todo, task.now, task.provider + 1))
        /\ UNCHANGED <<deployments, logs, lastLog, feed, turretClock, marketLow, lastLow, ticksOverlapped>>

Written_NoNextFault(row, new, at) ==
    [row EXCEPT !.lastExecuted = IF new.executed THEN at ELSE @,
                !.status = IF new.status = "keep" THEN @ ELSE new.status]

\* The update of the row; a status is written only by a release.
Written(row, new, at) ==
    [row EXCEPT !.next = new.next,
                !.lastExecuted = IF new.executed THEN at ELSE @,
                !.status = IF new.status = "keep" THEN @ ELSE new.status]

WriteEvaluation(t) ==
    LET task == turretTask[t] IN
        /\ task.at = "write"
        /\ deployments' = [deployments EXCEPT ![task.id] = Written(@, task.new, task.decidedAt)]
        /\ Go(t, IF task.new.executed THEN ToLog(task.id, task.todo)
                 ELSE Resume(task.todo))
        /\ UNCHANGED <<logs, lastLog, feed, turretClock, marketLow, lastLow, ticksOverlapped, turretFaults>>

WriteFails(t) ==
    /\ turretTask[t].at = "write" /\ turretFaults < MaxTurretFaults
    /\ turretFaults' = turretFaults + 1
    /\ Go(t, [at |-> "fail", id |-> turretTask[t].id, todo |-> turretTask[t].todo])
    /\ UNCHANGED <<deployments, logs, lastLog, feed, turretClock, marketLow, lastLow, ticksOverlapped>>

\* The catch block: last_error and a line in the history; the row stays due.
EvaluationFails(t) ==
    /\ turretTask[t].at = "fail"
    /\ Go(t, ToLog(turretTask[t].id, turretTask[t].todo))
    /\ UNCHANGED <<deployments, logs, lastLog, feed, turretClock, marketLow, lastLow, ticksOverlapped, turretFaults>>

--------------------------------------------------------------------------------
(* The environment *)

TurretTimePasses ==
    /\ turretClock < MaxTurretTime
    /\ turretClock' = turretClock + 1
    /\ lastLow' = IF marketLow THEN turretClock + 1 ELSE lastLow
    /\ UNCHANGED <<deployments, logs, lastLog, feed, turretTask, marketLow, ticksOverlapped, turretFaults>>

PriceMoves ==
    /\ marketLow' = ~marketLow
    /\ lastLow' = IF marketLow THEN lastLow ELSE turretClock
    /\ UNCHANGED <<deployments, logs, lastLog, feed, turretTask, turretClock, ticksOverlapped, turretFaults>>

\* A restart loses the cached prices and whatever was under way.
RestartTurrets ==
    /\ turretFaults < MaxTurretFaults
    /\ turretFaults' = turretFaults + 1
    /\ feed' = [p \in Providers |-> [low |-> FALSE, fetchedAt |-> Never]]
    /\ turretTask' = [t \in Tasks |-> TurretIdle]
    /\ UNCHANGED <<deployments, logs, lastLog, turretClock, marketLow, lastLow, ticksOverlapped>>

TurretsNext ==
    \/ \E c \in TurretCalls, d \in TxFunctions :
         \/ \E type \in Types : DeployTxFunction(c, d, type)
         \/ \E status \in {"active", "paused"} : SetDeploymentStatus(c, d, status)
    \/ \E t \in Tasks : InsertLog(t) \/ CountLogs(t) \/ SelectOldest(t) \/ DeleteLogs(t)
    \/ \E t \in TurretTicks :
         \/ StartTick(t) \/ PriceRead(t) \/ ProbeAnswered(t) \/ ProbeFails(t)
         \/ WriteEvaluation(t) \/ WriteFails(t) \/ EvaluationFails(t)
         \/ turretTask[t].at = "next" /\ \E item \in turretTask[t].todo : EvaluateNext(t, item)
    \/ TurretTimePasses \/ PriceMoves \/ RestartTurrets

TurretsSpec == TurretsInit /\ [][TurretsNext]_turretVars

--------------------------------------------------------------------------------
(* A stop-loss fires only if the market was at or below its threshold within *)
(* the lifetime of a cached price and the timeout of the request that got it *)
(* (a price is stamped when it arrives, not when it was true), whichever     *)
(* provider or earlier tick cached it.                                       *)
StopLossWasTrue ==
    \A t \in TurretTicks :
        LET task == turretTask[t] IN
            task.at = "write" /\ deployments[task.id].type = "stop_loss" /\ task.new.executed =>
                lastLow # Never /\ task.decidedAt - lastLow < CACHE_TTL + PROVIDER_TIMEOUT

(* A release is never described before its time lock has run out, a manual   *)
(* one never by the runner, and nothing else completes a deployment.         *)
ReleaseWaitsForLock ==
    \A d \in Deployed :
        LET row == deployments[d] IN
            /\ row.type = "escrow_time" /\ row.lastExecuted # Never =>
                 row.lastExecuted >= row.created + ReleaseAfter
            /\ row.status = "completed" => row.type = "escrow_time" /\ row.lastExecuted # Never
            /\ row.type = "escrow_manual" => row.lastExecuted = Never

(* As long as no two ticks have overlapped, a DCA deployment is not run      *)
(* again before its interval is over, whatever was paused, failed or         *)
(* restarted in between.                                                     *)
RunsAreSpaced ==
    ~ticksOverlapped =>
        \A t \in TurretTicks :
            LET task == turretTask[t]
                row == deployments[task.id]
            IN  task.at = "write" /\ row.type = "dca" /\ row.lastExecuted # Never =>
                    task.decidedAt - row.lastExecuted >= IntervalMinutes

(* Until a fault cuts one short, concurrent loggings leave a deployment no   *)
(* more rows of history than the limit and those they are about to prune.    *)
HistoryIsBounded ==
    turretFaults = 0 => \A d \in TxFunctions :
        Cardinality(logs[d]) <= MaxHistory +
            Cardinality({t \in Tasks : /\ turretTask[t].at \in {"count", "select", "delete"}
                                       /\ turretTask[t].id = d})

(* A deployment runs when it is due and not otherwise, and its history      *)
(* stays short.                                                             *)
RunsAreDue == StopLossWasTrue /\ ReleaseWaitsForLock /\ RunsAreSpaced /\ HistoryIsBounded
================================================================================
