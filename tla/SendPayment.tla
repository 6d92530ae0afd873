------------------------------ MODULE SendPayment ------------------------------
(***************************************************************************)
(* SendPaymentForm on the dashboard: runs of executeSend, its status modal, *)
(* the retry buttons of its error toasts, the list of pending transactions  *)
(* in sessionStorage and the optimistic deltas of useBalanceStream.  Every  *)
(* await is a step boundary.  The form always holds a valid XLM payment:    *)
(* the user can fill it in at any time.  After a success the dashboard      *)
(* mounts a new form (key={refreshKey}); runs of the old one go on, but no  *)
(* longer reach the screen.                                                 *)
(***************************************************************************)
EXTENDS Naturals, FiniteSets

CONSTANTS
    Sends,                  \* runs of executeSend (bound of the model)
    BatchRecipients,        \* valid recipients of the batch builder
    MaxMounts               \* bound of the model: forms mounted, reloads included

ASSUME SendAssumption == MaxMounts \in Nat \ {0}

VARIABLES
    form,         \* state of the mounted form
    mount,        \* which form is mounted
    run,          \* runs of executeSend
    toasts,       \* runs whose error toast is on the screen
    connected,    \* navigator.onLine
    pendingTxs,   \* sessionStorage "finchippay:pending-txs"
    deltas,       \* payments with an optimistic delta
    appliedHash,  \* optimisticAppliedHashRef of each form
    refreshDue,   \* handlePaymentSuccess has started its timer
    batch,        \* handleSendBuilderBatch
    paidSends,      \* history: payments on the ledger
    queuedSends,  \* history: runs handed to the offline queue
    reloaded      \* history: the page has been reloaded

sendVars == <<form, mount, run, toasts, connected, pendingTxs, deltas, appliedHash, refreshDue,
              batch, paidSends, queuedSends, reloaded>>

Mounts == 1 .. MaxMounts
Busy == {"building", "signing", "submitting", "confirming"}
FreshForm == [status |-> "idle", modal |-> FALSE, hash |-> FALSE, confirm |-> FALSE]
NotStarted == [pc |-> "none"]
Run == [pc : {"build", "sign", "queue", "submit", "confirm", "done", "error"}, mount : Mounts, retry : BOOLEAN]
NoBatch == [todo |-> {}, ok |-> {}, failed |-> {}, running |-> FALSE]

\* Type invariant.
SendTypeOK ==
    /\ form \in [status : Busy \cup {"idle", "success", "error"}, modal : BOOLEAN, hash : BOOLEAN, confirm : BOOLEAN]
    /\ mount \in Mounts /\ run \in [Sends -> Run \cup {NotStarted}]
    /\ toasts \subseteq Sends /\ pendingTxs \subseteq Sends /\ queuedSends \subseteq Sends
    /\ deltas \subseteq Sends \cup BatchRecipients /\ paidSends \subseteq Sends \cup BatchRecipients
    /\ appliedHash \in [Mounts -> SUBSET Sends] /\ \A m \in Mounts : Cardinality(appliedHash[m]) <= 1
    /\ batch \in [todo : SUBSET BatchRecipients, ok : SUBSET BatchRecipients,
                  failed : SUBSET BatchRecipients, running : BOOLEAN]
    /\ {connected, refreshDue, reloaded} \subseteq BOOLEAN

SendInit ==
    /\ form = FreshForm /\ mount = 1 /\ run = [s \in Sends |-> NotStarted]
    /\ toasts = {} /\ connected = TRUE /\ pendingTxs = {} /\ deltas = {}
    /\ appliedHash = [m \in Mounts |-> {}]
    /\ refreshDue = FALSE /\ batch = NoBatch
    /\ paidSends = {} /\ queuedSends = {} /\ reloaded = FALSE

\* setState of a run: a form that is no longer mounted shows nothing.
Shown(s, f) == IF run[s].mount = mount THEN f ELSE form
ToStatus(s, status) == Shown(s, [form EXCEPT !.status = status])

--------------------------------------------------------------------------------
(* The user *)

CanSubmit == form.status = "idle"

\* openConfirmation; the status modal covers the form.
OpenConfirmation ==
    /\ CanSubmit /\ ~form.modal /\ ~form.confirm
    /\ form' = [form EXCEPT !.confirm = TRUE]
    /\ UNCHANGED <<mount, run, toasts, connected, pendingTxs, deltas, appliedHash, refreshDue, batch,
                   paidSends, queuedSends, reloaded>>

\* startTracker and the first step of executeSend.
StartRun(s, m, isRetry) == run' = [run EXCEPT ![s] = [pc |-> "build", mount |-> m, retry |-> isRetry]]
Tracking == [status |-> "building", modal |-> TRUE, hash |-> FALSE, confirm |-> FALSE]

\* onConfirm calls the executeSend of the last render, which looks at canSubmit.
ConfirmSend(s) ==
    /\ run[s] = NotStarted /\ form.confirm
    /\ IF CanSubmit
       THEN form' = Tracking /\ StartRun(s, mount, FALSE)
       ELSE form' = [form EXCEPT !.confirm = FALSE] /\ UNCHANGED run
    /\ UNCHANGED <<mount, toasts, connected, pendingTxs, deltas, appliedHash, refreshDue, batch, paidSends,
                   queuedSends, reloaded>>

CancelConfirmation ==
    /\ form.confirm
    /\ form' = [form EXCEPT !.confirm = FALSE]
    /\ UNCHANGED <<mount, run, toasts, connected, pendingTxs, deltas, appliedHash, refreshDue, batch,
                   paidSends, queuedSends, reloaded>>

\* The retry button calls the executeSend of the failed run, whose canSubmit was
\* true, on the form of that run.
RetryToast(t, s) ==
    /\ t \in toasts /\ run[s] = NotStarted
    /\ toasts' = toasts \ {t}
    /\ StartRun(s, run[t].mount, TRUE)
    /\ form' = Shown(t, [Tracking EXCEPT !.confirm = form.confirm])
    /\ UNCHANGED <<mount, connected, pendingTxs, deltas, appliedHash, refreshDue, batch, paidSends,
                   queuedSends, reloaded>>

ToastExpires(t) ==
    /\ t \in toasts
    /\ toasts' = toasts \ {t}
    /\ UNCHANGED <<form, mount, run, connected, pendingTxs, deltas, appliedHash, refreshDue, batch,
                   paidSends, queuedSends, reloaded>>

CloseStatusModal_AnyTimeFault ==
    /\ form.modal
    /\ form' = [form EXCEPT !.status = "idle", !.modal = FALSE]
    /\ UNCHANGED <<mount, run, toasts, connected, pendingTxs, deltas, appliedHash, refreshDue, batch,
                   paidSends, queuedSends, reloaded>>

\* closeStatusModal: the button is there in a final status.  A success with a hash
\* is a card of its own, whose button only resets the status.
CloseStatusModal ==
    /\ form.modal /\ form.status \in {"success", "error"}
    /\ form' = [form EXCEPT !.status = "idle", !.modal = form.status = "success" /\ form.hash]
    /\ UNCHANGED <<mount, run, toasts, connected, pendingTxs, deltas, appliedHash, refreshDue, batch,
                   paidSends, queuedSends, reloaded>>

ConnectionChanges ==
    /\ connected' = ~connected
    /\ UNCHANGED <<form, mount, run, toasts, pendingTxs, deltas, appliedHash, refreshDue, batch,
                   paidSends, queuedSends, reloaded>>

--------------------------------------------------------------------------------
(* executeSend *)

\* The catch block.  The hash in the ref may belong to an earlier run of the form.
SendFails(s, f) ==
    /\ run' = [run EXCEPT ![s].pc = "error"]
    /\ deltas' = deltas \ appliedHash[run[s].mount]
    /\ appliedHash' = [appliedHash EXCEPT ![run[s].mount] = {}]
    /\ pendingTxs' = pendingTxs \ {s}
    /\ toasts' = toasts \cup {s}
    /\ form' = Shown(s, f)
    /\ UNCHANGED <<mount, connected, refreshDue, batch, queuedSends, reloaded>>

Failed == [form EXCEPT !.status = "error"]

\* resolveDestinationForPayment and the construction of the transaction.
BuildSend(s) ==
    /\ run[s].pc = "build"
    /\ \/ /\ run' = [run EXCEPT ![s].pc = "sign"]
          /\ form' = ToStatus(s, "signing")
          /\ UNCHANGED <<mount, toasts, connected, pendingTxs, deltas, appliedHash, refreshDue, batch,
                         queuedSends, reloaded>>
       \/ SendFails(s, Failed)
    /\ UNCHANGED paidSends

\* signTransactionWithWallet; when the user rejects, the modal closes by itself.
SignSend(s) ==
    /\ run[s].pc = "sign"
    /\ \/ /\ run' = [run EXCEPT ![s].pc = IF connected THEN "submit" ELSE "queue"]
          /\ pendingTxs' = pendingTxs \cup {s}
          /\ form' = ToStatus(s, "submitting")
          /\ UNCHANGED <<mount, toasts, connected, deltas, appliedHash, refreshDue, batch, queuedSends, reloaded>>
       \/ SendFails(s, Failed)
       \/ SendFails(s, [form EXCEPT !.status = "idle", !.modal = FALSE])
    /\ UNCHANGED paidSends

\* queueTransaction, without a connection.
QueueSend(s) ==
    /\ run[s].pc = "queue"
    /\ \/ /\ run' = [run EXCEPT ![s].pc = "done"]
          /\ queuedSends' = queuedSends \cup {s}
          /\ pendingTxs' = pendingTxs \ {s}
          /\ form' = Shown(s, [form EXCEPT !.status = "idle", !.modal = FALSE])
          /\ refreshDue' = TRUE
          /\ UNCHANGED <<mount, toasts, connected, deltas, appliedHash, batch, reloaded>>
       \/ SendFails(s, Failed)
    /\ UNCHANGED paidSends

\* submitTransaction; an error does not mean that the payment is not made.
SubmitSend(s) ==
    /\ run[s].pc = "submit"
    /\ \/ /\ run' = [run EXCEPT ![s].pc = "confirm"]
          /\ paidSends' = paidSends \cup {s}
          /\ deltas' = deltas \cup {s} /\ appliedHash' = [appliedHash EXCEPT ![run[s].mount] = {s}]
          /\ form' = Shown(s, [form EXCEPT !.status = "confirming", !.hash = TRUE])
          /\ UNCHANGED <<mount, toasts, connected, pendingTxs, refreshDue, batch, queuedSends, reloaded>>
       \/ SendFails(s, Failed) /\ paidSends' \in {paidSends, paidSends \cup {s}}

ConfirmLanded_StuckFault(s) ==
    /\ run[s].pc = "confirm" /\ connected
    /\ run' = [run EXCEPT ![s].pc = "done"]
    /\ pendingTxs' = pendingTxs \ {s}
    /\ form' = ToStatus(s, "success")
    /\ refreshDue' = TRUE
    /\ UNCHANGED <<mount, toasts, connected, deltas, appliedHash, batch, queuedSends, reloaded, paidSends>>

\* waitForTransactionConfirmation finds the transaction or gives up after ten tries.
ConfirmLanded(s) ==
    /\ run[s].pc = "confirm"
    /\ \/ /\ run' = [run EXCEPT ![s].pc = "done"]
          /\ pendingTxs' = pendingTxs \ {s}
          /\ form' = ToStatus(s, "success")
          /\ refreshDue' = TRUE
          /\ UNCHANGED <<mount, toasts, connected, deltas, appliedHash, batch, queuedSends, reloaded>>
       \/ SendFails(s, Failed)
    /\ UNCHANGED paidSends

--------------------------------------------------------------------------------
(* The page *)

\* Two seconds after a success the dashboard mounts a new form.
RefreshForm ==
    /\ refreshDue /\ mount < MaxMounts
    /\ refreshDue' = FALSE
    /\ mount' = mount + 1 /\ form' = FreshForm
    /\ UNCHANGED <<run, toasts, connected, pendingTxs, deltas, appliedHash, batch, paidSends, queuedSends, reloaded>>

\* A balance event of the stream drops the deltas.
DeltasDropped ==
    /\ deltas # {}
    /\ deltas' = {}
    /\ UNCHANGED <<form, mount, run, toasts, connected, pendingTxs, appliedHash, refreshDue, batch,
                   paidSends, queuedSends, reloaded>>

\* A reload ends every run; sessionStorage stays.
ReloadPage ==
    /\ mount < MaxMounts
    /\ mount' = mount + 1 /\ form' = FreshForm
    /\ run' = [s \in Sends |-> IF run[s] = NotStarted THEN run[s] ELSE [run[s] EXCEPT !.pc = "done"]]
    /\ toasts' = {} /\ deltas' = {} /\ appliedHash' = [m \in Mounts |-> {}]
    /\ refreshDue' = FALSE /\ batch' = NoBatch /\ reloaded' = TRUE
    /\ UNCHANGED <<connected, pendingTxs, paidSends, queuedSends>>

\* handleSendBuilderBatch: the recipients one after the other.
StartBatch ==
    /\ ~batch.running /\ batch = NoBatch /\ ~form.modal
    /\ batch' = [NoBatch EXCEPT !.todo = BatchRecipients, !.running = TRUE]
    /\ UNCHANGED <<form, mount, run, toasts, connected, pendingTxs, deltas, appliedHash, refreshDue,
                   paidSends, queuedSends, reloaded>>

BatchNext(r) ==
    /\ batch.running /\ r \in batch.todo
    /\ \/ /\ batch' = [batch EXCEPT !.todo = @ \ {r}, !.ok = @ \cup {r}]
          /\ paidSends' = paidSends \cup {r} /\ deltas' = deltas \cup {r}
       \/ /\ batch' = [batch EXCEPT !.todo = @ \ {r}, !.failed = @ \cup {r}]
          /\ paidSends' \in {paidSends, paidSends \cup {r}} /\ UNCHANGED deltas
    /\ UNCHANGED <<form, mount, run, toasts, connected, pendingTxs, appliedHash, refreshDue, queuedSends, reloaded>>

EndBatch ==
    /\ batch.running /\ batch.todo = {}
    /\ batch' = [batch EXCEPT !.running = FALSE]
    /\ refreshDue' = (refreshDue \/ batch.ok # {})
    /\ UNCHANGED <<form, mount, run, toasts, connected, pendingTxs, deltas, appliedHash, paidSends, queuedSends, reloaded>>

--------------------------------------------------------------------------------
SendStep(s) == BuildSend(s) \/ SignSend(s) \/ QueueSend(s) \/ SubmitSend(s) \/ ConfirmLanded(s)

SendNext ==
    \/ OpenConfirmation \/ CancelConfirmation \/ CloseStatusModal \/ ConnectionChanges
    \/ RefreshForm \/ DeltasDropped \/ ReloadPage \/ StartBatch \/ EndBatch
    \/ \E r \in BatchRecipients : BatchNext(r)
    \/ \E s \in Sends : ConfirmSend(s) \/ ToastExpires(s) \/ SendStep(s)
    \/ \E s, t \in Sends : RetryToast(t, s)

--------------------------------------------------------------------------------
InFlight == {s \in Sends : run[s].pc \in {"build", "sign", "queue", "submit", "confirm"}}

\* A run of this form was started from the retry button of an error toast.
RetriedOn(m) == \E r \in Sends : run[r] # NotStarted /\ run[r].retry /\ run[r].mount = m

(* Two payments of one form are under way at the same time only when the    *)
(* retry button of an error toast was used on it.  The button skips the     *)
(* check of the status (canSubmit is the one of the failed run); and when   *)
(* the retried payment fails, the status and the modal come back although   *)
(* the first payment still runs, so that the next one can be confirmed.     *)
OneSendPerForm ==
    \A s, t \in InFlight : s # t /\ run[s].mount = run[t].mount => RetriedOn(run[s].mount)

(* The list of pending transactions holds exactly the payments that are     *)
(* being submitted, whichever way runs end and overlap; only a reload       *)
(* leaves an entry behind.                                                  *)
PendingIsUnderWay ==
    ~reloaded => pendingTxs = {s \in Sends : run[s].pc \in {"queue", "submit", "confirm"}}

(* An optimistic delta on the screen belongs to a payment that was made: a  *)
(* failed send leaves no phantom reduction of the balance.                  *)
DeltaIsOnLedger == deltas \subseteq paidSends

(* A form that shows a payment under way comes back with a result.          *)
FormComesBack == (form.status \in Busy) ~> (form.status \notin Busy)

(* The client keeps track of what it sends: one payment per form, and       *)
(* pending entries and optimistic deltas exactly for payments that are      *)
(* under way or made.                                                       *)
SendsAreTracked == OneSendPerForm /\ PendingIsUnderWay /\ DeltaIsOnLedger
================================================================================
