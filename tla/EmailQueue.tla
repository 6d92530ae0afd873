------------------------------ MODULE EmailQueue ------------------------------
(***************************************************************************)
(* The email queue (notificationService.js, emailTrackingService.js,        *)
(* routes/emails.js) within one hour: queueEmail calls fill it, overlapping *)
(* runs of processEmailQueue empty it, recipients unsubscribe and bounce.   *)
(* Every query is a step boundary.  Content, tracking events and the hourly *)
(* window of the rate limit are left out; nothing in the repository calls   *)
(* processEmailQueue, so a run starts at any time.                          *)
(***************************************************************************)
EXTENDS Naturals, FiniteSets

CONSTANTS
    Mails,                   \* rows of email_send_queue (bound)
    MailAddrs,               \* recipients
    Queuers,                 \* concurrent queueEmail calls
    MailRuns,                \* concurrent runs of processEmailQueue
    QUEUE_BATCH_SIZE, RATE_LIMIT_PER_HOUR, MaxAttempts, HARD_BOUNCE_THRESHOLD,
    MaxMailFaults            \* bound of the model: dead runs, failed token queries

ASSUME MailAssumption ==
    /\ {RATE_LIMIT_PER_HOUR, MaxMailFaults} \subseteq Nat
    /\ {QUEUE_BATCH_SIZE, MaxAttempts, HARD_BOUNCE_THRESHOLD} \subseteq Nat \ {0}

VARIABLES
    mail,            \* table email_send_queue
    unsubscribes,    \* table email_unsubscribes, category "all"
    queuer,          \* queueEmail calls
    mailRun,         \* processEmailQueue runs
    handed,          \* history: how often the SMTP server took a mail, up to twice
    bounces,         \* hard bounces of an address
    optedOut,        \* history: addresses whose owner unsubscribed or that bounced
    reclaimed,       \* history: rows taken over as stale, or accepted with an error
    mailFaults

mailVars == <<mail, unsubscribes, queuer, mailRun, handed, bounces, optedOut, reclaimed, mailFaults>>

NoMail == [status |-> "none"]
\* due: next_attempt_at has passed; stale: updated_at is older than STALE_PROCESSING_MS
Mail == [status : {"pending", "processing", "sent", "failed", "cancelled"}, to : MailAddrs,
         attempts : 0 .. MaxAttempts, due : BOOLEAN, stale : BOOLEAN]
NotRunning == [pc |-> "idle"]
Queued == [pc : {"limit", "token", "insert"}, to : MailAddrs]
\* seen: status and attempts of the rows as the run selected them
Seen == [status : {"none", "pending", "processing"}, attempts : 0 .. MaxAttempts]
\* clear: history, the recipient had not opted out when sendEmail looked
MailRun == [pc : {"next", "check", "cancel", "send", "hand", "settle"}, seen : [Mails -> Seen],
            todo : SUBSET Mails, item : Mails \cup {"none"}, ok : BOOLEAN, clear : BOOLEAN]

\* Type invariant.
MailTypeOK ==
    /\ mail \in [Mails -> Mail \cup {NoMail}]
    /\ unsubscribes \in [MailAddrs -> {"none", "token", "unsubscribed"}]
    /\ queuer \in [Queuers -> Queued \cup {NotRunning}]
    /\ mailRun \in [MailRuns -> MailRun \cup {NotRunning}]
    /\ handed \in [Mails -> 0 .. 2] /\ bounces \in [MailAddrs -> 0 .. HARD_BOUNCE_THRESHOLD]
    /\ optedOut \subseteq MailAddrs /\ reclaimed \subseteq Mails
    /\ mailFaults \in 0 .. MaxMailFaults

MailInit ==
    /\ mail = [m \in Mails |-> NoMail]
    /\ unsubscribes = [a \in MailAddrs |-> "none"]
    /\ queuer = [q \in Queuers |-> NotRunning]
    /\ mailRun = [w \in MailRuns |-> NotRunning]
    /\ handed = [m \in Mails |-> 0] /\ bounces = [a \in MailAddrs |-> 0]
    /\ optedOut = {} /\ reclaimed = {} /\ mailFaults = 0

MailFault == mailFaults < MaxMailFaults /\ mailFaults' = mailFaults + 1
RowsTo(a) == {m \in Mails : mail[m] # NoMail /\ mail[m].to = a}

--------------------------------------------------------------------------------
(* queueEmail *)

QueueEmail(q, a) ==
    /\ queuer[q] = NotRunning
    /\ queuer' = [queuer EXCEPT ![q] = [pc |-> "limit", to |-> a]]
    /\ UNCHANGED <<mail, unsubscribes, mailRun, handed, bounces, optedOut, reclaimed, mailFaults>>

IsRateLimited(a) == Cardinality(RowsTo(a)) >= RATE_LIMIT_PER_HOUR

CheckRate(q) ==
    /\ queuer[q].pc = "limit"
    /\ queuer' = [queuer EXCEPT ![q] = IF IsRateLimited(@.to) THEN NotRunning ELSE [@ EXCEPT !.pc = "token"]]
    /\ UNCHANGED <<mail, unsubscribes, mailRun, handed, bounces, optedOut, reclaimed, mailFaults>>

\* ensureUnsubscribeToken adds the row that will hold the opt-out; an error of it
\* is swallowed.
EnsureUnsubscribeToken(q) ==
    /\ queuer[q].pc = "token"
    /\ queuer' = [queuer EXCEPT ![q].pc = "insert"]
    /\ \/ /\ unsubscribes' = [unsubscribes EXCEPT ![queuer[q].to] = IF @ = "none" THEN "token" ELSE @]
          /\ UNCHANGED mailFaults
       \/ MailFault /\ UNCHANGED unsubscribes
    /\ UNCHANGED <<mail, mailRun, handed, bounces, optedOut, reclaimed>>

InsertMail(q, m) ==
    /\ queuer[q].pc = "insert" /\ mail[m] = NoMail
    /\ mail' = [mail EXCEPT ![m] = [status |-> "pending", to |-> queuer[q].to, attempts |-> 0,
                                    due |-> TRUE, stale |-> FALSE]]
    /\ queuer' = [queuer EXCEPT ![q] = NotRunning]
    /\ UNCHANGED <<unsubscribes, mailRun, handed, bounces, optedOut, reclaimed, mailFaults>>

--------------------------------------------------------------------------------
(* processEmailQueue *)

Selected(m) ==
    \/ mail[m].status = "pending" /\ mail[m].due
    \/ mail[m].status = "processing" /\ mail[m].stale

\* The rows that are due, or a full batch of them.
SelectMails(w, batch) ==
    /\ mailRun[w] = NotRunning /\ batch # {}
    /\ \A m \in batch : Selected(m)
    /\ Cardinality(batch) <= QUEUE_BATCH_SIZE
    /\ Cardinality(batch) < QUEUE_BATCH_SIZE => \A m \in Mails : Selected(m) => m \in batch
    /\ mailRun' = [mailRun EXCEPT ![w] =
         [pc |-> "next", todo |-> batch, item |-> "none", ok |-> FALSE, clear |-> FALSE,
          seen |-> [m \in Mails |-> IF m \in batch THEN [status |-> mail[m].status, attempts |-> mail[m].attempts]
                                    ELSE [status |-> "none", attempts |-> 0]]]]
    /\ UNCHANGED <<mail, unsubscribes, queuer, handed, bounces, optedOut, reclaimed, mailFaults>>

ClaimMail_UnguardedFault(w, m) ==
    /\ mailRun[w].pc = "next" /\ m \in mailRun[w].todo
    /\ mail' = [mail EXCEPT ![m] = IF mailRun[w].seen[m].status = "pending"
                                   THEN [@ EXCEPT !.status = "processing", !.stale = FALSE] ELSE @]
    /\ mailRun' = [mailRun EXCEPT ![w] = [@ EXCEPT !.todo = mailRun[w].todo \ {m}, !.pc = "check", !.item = m]]
    /\ reclaimed' = IF mailRun[w].seen[m].status = "pending" THEN reclaimed ELSE reclaimed \cup {m}
    /\ UNCHANGED <<unsubscribes, queuer, handed, bounces, optedOut, mailFaults>>

\* A row seen pending is claimed if it still is; one seen as stale is taken as it
\* is by now, without a claim.
ClaimMail(w, m) ==
    LET seenPending == mailRun[w].seen[m].status = "pending"
        claimed == mail[m].status = "pending" IN
    /\ mailRun[w].pc = "next" /\ m \in mailRun[w].todo
    /\ mail' = [mail EXCEPT ![m] = IF seenPending /\ claimed
                                   THEN [@ EXCEPT !.status = "processing", !.stale = FALSE] ELSE @]
    /\ mailRun' = [mailRun EXCEPT ![w] =
         IF seenPending /\ ~claimed THEN [@ EXCEPT !.todo = mailRun[w].todo \ {m}]
         ELSE [@ EXCEPT !.todo = mailRun[w].todo \ {m}, !.pc = "check", !.item = m]]
    /\ reclaimed' = IF seenPending THEN reclaimed ELSE reclaimed \cup {m}
    /\ UNCHANGED <<unsubscribes, queuer, handed, bounces, optedOut, mailFaults>>

EndMailRun(w) ==
    /\ mailRun[w].pc = "next" /\ mailRun[w].todo = {}
    /\ mailRun' = [mailRun EXCEPT ![w] = NotRunning]
    /\ UNCHANGED <<mail, unsubscribes, queuer, handed, bounces, optedOut, reclaimed, mailFaults>>

\* isSuppressed: there is a row, whatever its unsubscribed_at.
IsSuppressed(a) == unsubscribes[a] # "none"

CheckSuppressed(w) ==
    /\ mailRun[w].pc = "check"
    /\ mailRun' = [mailRun EXCEPT ![w].pc = IF IsSuppressed(mail[mailRun[w].item].to) THEN "cancel" ELSE "send"]
    /\ UNCHANGED <<mail, unsubscribes, queuer, handed, bounces, optedOut, reclaimed, mailFaults>>

\* The row is cancelled, whatever it holds by now.
CancelMail(w) ==
    /\ mailRun[w].pc = "cancel"
    /\ mail' = [mail EXCEPT ![mailRun[w].item] = [@ EXCEPT !.status = "cancelled", !.stale = FALSE]]
    /\ mailRun' = [mailRun EXCEPT ![w] = [@ EXCEPT !.pc = "next", !.item = "none"]]
    /\ UNCHANGED <<unsubscribes, queuer, handed, bounces, optedOut, reclaimed, mailFaults>>

\* sendEmail looks once more; a suppressed address fails the attempt.
LookAgain(w) ==
    LET a == mail[mailRun[w].item].to IN
    /\ mailRun[w].pc = "send"
    /\ mailRun' = [mailRun EXCEPT ![w] =
         IF IsSuppressed(a) THEN [@ EXCEPT !.pc = "settle"]
                            ELSE [@ EXCEPT !.pc = "hand", !.clear = a \notin optedOut]]
    /\ UNCHANGED <<mail, unsubscribes, queuer, handed, bounces, optedOut, reclaimed, mailFaults>>

\* sendMail, whoever opted out since.  An error, say a timeout, may hide that the
\* server took the mail; without a transport it is refused.
SendEmail(w) ==
    LET m == mailRun[w].item IN
    /\ mailRun[w].pc = "hand"
    /\ \E took, ok \in BOOLEAN :
         /\ ok => took
         /\ handed' = IF took /\ handed[m] < 2 THEN [handed EXCEPT ![m] = @ + 1] ELSE handed
         /\ reclaimed' = IF took /\ ~ok THEN reclaimed \cup {m} ELSE reclaimed
         /\ mailRun' = [mailRun EXCEPT ![w] = [@ EXCEPT !.pc = "settle", !.ok = ok, !.clear = FALSE]]
    /\ UNCHANGED <<mail, unsubscribes, queuer, bounces, optedOut, mailFaults>>

\* The result is written over whatever the row holds by now; the attempts are
\* counted from the row as it was selected.
SettleMail(w) ==
    LET m == mailRun[w].item
        attempts == mailRun[w].seen[m].attempts + 1 IN
    /\ mailRun[w].pc = "settle"
    /\ mail' = [mail EXCEPT ![m] =
         [@ EXCEPT !.attempts = attempts, !.stale = FALSE,
                   !.due = mailRun[w].ok \/ attempts >= MaxAttempts,
                   !.status = IF mailRun[w].ok THEN "sent"
                              ELSE IF attempts >= MaxAttempts THEN "failed" ELSE "pending"]]
    /\ mailRun' = [mailRun EXCEPT ![w] = [@ EXCEPT !.pc = "next", !.item = "none", !.ok = FALSE]]
    /\ UNCHANGED <<unsubscribes, queuer, handed, bounces, optedOut, reclaimed, mailFaults>>

--------------------------------------------------------------------------------
(* Time and faults *)

BackoffPasses(m) ==
    /\ mail[m].status = "pending" /\ ~mail[m].due
    /\ mail' = [mail EXCEPT ![m].due = TRUE]
    /\ UNCHANGED <<unsubscribes, queuer, mailRun, handed, bounces, optedOut, reclaimed, mailFaults>>

\* STALE_PROCESSING_MS passes, with the owner of the row dead or only slow.
GoesStale(m) ==
    /\ mail[m].status = "processing" /\ ~mail[m].stale
    /\ mail' = [mail EXCEPT ![m].stale = TRUE]
    /\ UNCHANGED <<unsubscribes, queuer, mailRun, handed, bounces, optedOut, reclaimed, mailFaults>>

MailRunDies(w) ==
    /\ mailRun[w] # NotRunning /\ MailFault
    /\ mailRun' = [mailRun EXCEPT ![w] = NotRunning]
    /\ UNCHANGED <<mail, unsubscribes, queuer, handed, bounces, optedOut, reclaimed>>

(* Recipients *)

\* GET /unsubscribe with a token.  Another category moves the row of "all" there.
UnsubscribeByLink(a, all) ==
    /\ unsubscribes[a] # "none"
    /\ unsubscribes' = [unsubscribes EXCEPT ![a] = IF all THEN "unsubscribed" ELSE "none"]
    /\ optedOut' = IF all THEN optedOut \cup {a} ELSE optedOut \ {a}
    /\ UNCHANGED <<mail, queuer, mailRun, handed, bounces, reclaimed, mailFaults>>

\* POST /unsubscribe, category "all".
UnsubscribeMail(a) ==
    /\ unsubscribes' = [unsubscribes EXCEPT ![a] = "unsubscribed"]
    /\ optedOut' = optedOut \cup {a}
    /\ UNCHANGED <<mail, queuer, mailRun, handed, bounces, reclaimed, mailFaults>>

\* handleBounce: a hard bounce of a mail the server took.  The insert is ignored
\* where there is a row.
HandleBounce(a) ==
    LET count == bounces[a] + 1 IN
    /\ bounces[a] < HARD_BOUNCE_THRESHOLD
    /\ \E m \in RowsTo(a) : handed[m] > 0
    /\ bounces' = [bounces EXCEPT ![a] = count]
    /\ unsubscribes' = IF count >= HARD_BOUNCE_THRESHOLD /\ unsubscribes[a] = "none"
                       THEN [unsubscribes EXCEPT ![a] = "unsubscribed"] ELSE unsubscribes
    /\ optedOut' = IF count >= HARD_BOUNCE_THRESHOLD THEN optedOut \cup {a} ELSE optedOut
    /\ UNCHANGED <<mail, queuer, mailRun, handed, reclaimed, mailFaults>>

--------------------------------------------------------------------------------
MailNext ==
    \/ \E q \in Queuers : CheckRate(q) \/ EnsureUnsubscribeToken(q)
    \/ \E q \in Queuers, a \in MailAddrs : QueueEmail(q, a)
    \/ \E q \in Queuers, m \in Mails : InsertMail(q, m)
    \/ \E w \in MailRuns : EndMailRun(w) \/ CheckSuppressed(w) \/ CancelMail(w) \/ LookAgain(w)
                           \/ SendEmail(w) \/ SettleMail(w) \/ MailRunDies(w)
    \/ \E w \in MailRuns, m \in Mails : ClaimMail(w, m)
    \/ \E w \in MailRuns, batch \in SUBSET Mails : SelectMails(w, batch)
    \/ \E m \in Mails : BackoffPasses(m) \/ GoesStale(m)
    \/ \E a \in MailAddrs : UnsubscribeMail(a) \/ HandleBounce(a) \/ \E all \in BOOLEAN : UnsubscribeByLink(a, all)

--------------------------------------------------------------------------------
\* What a step that hands a mail over must find.
HandedAsAsked ==
    \A m \in Mails : handed'[m] > handed[m] =>
      /\ \E w \in MailRuns : mailRun[w].pc = "hand" /\ mailRun[w].item = m /\ mailRun[w].clear
      /\ handed[m] > 0 => m \in reclaimed'

(* A mail is handed to the server only by a run that has looked its address *)
(* up in this attempt and found it when its owner had neither opted out nor *)
(* bounced (one who does so after the look is still mailed), and a second   *)
(* time only if its row was taken over as stale or its first delivery was   *)
(* reported as an error, although runs overlap, select each other's rows    *)
(* and retry.                                                               *)
MailIsSentAsAsked == [][HandedAsAsked]_mailVars
================================================================================
