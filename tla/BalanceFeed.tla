------------------------------ MODULE BalanceFeed ------------------------------
(***************************************************************************)
(* Balances served by one backend process for one account: the two-level   *)
(* cache (cacheService.js: Redis and an in-process LRU), the cached reads  *)
(* of Horizon (stellarService.getAccount), and the push of balances to SSE *)
(* clients after a payment (balanceStreamService.js, streamBalance of      *)
(* accountController.js).  A balance is the number of payments it includes. *)
(* Each await on Redis or Horizon is a step boundary.                      *)
(***************************************************************************)
EXTENDS Integers, FiniteSets

CONSTANTS
    Clients,               \* SSE connections
    Readers,               \* GET /api/accounts/:publicKey requests
    Refreshes,             \* concurrent runs of refreshBalance
    ACCOUNT_CACHE_TTL,     \* in units of the time in which a Redis entry counts as
    DEFAULT_TTL,           \*   about to expire (10 s)
    MaxPaymentsMade, MaxFeedFaults, MaxEntries   \* bounds of the model

ASSUME BalanceFeedAssumption ==
    /\ {ACCOUNT_CACHE_TTL, DEFAULT_TTL} \subseteq Nat \ {0}
    /\ {MaxPaymentsMade, MaxFeedFaults, MaxEntries} \subseteq Nat

VARIABLES
    ledgerBalance,  \* payments applied by the network
    redisReady,     \* the Redis link is up
    redisEntry,     \* the cached account in Redis
    lruEntry,       \* the cached account in the LRU
    job,            \* cached reads and refreshes under way
    streamEntry,    \* the entry of the streams map
    horizonEvents,  \* payments the Horizon stream has still to report
    clientBalance,  \* what a client was sent last, -1 before the first
    refreshedAt,    \* history: ledger when the last refresh dropped the cache
    feedFaults      \* Redis flaps and failed reads so far

balanceFeedVars == <<ledgerBalance, redisReady, redisEntry, lruEntry, job, streamEntry,
                     horizonEvents, clientBalance, refreshedAt, feedFaults>>

Balances == 0 .. MaxPaymentsMade
FeedJobs == Clients \cup Readers \cup Refreshes
NotCached == [ttl |-> 0]
Cached == [ttl : 1 .. IF ACCOUNT_CACHE_TTL > DEFAULT_TTL THEN ACCOUNT_CACHE_TTL ELSE DEFAULT_TTL,
           balance : Balances]
NoJob == [pc |-> "idle"]
\* entry: the streams entry a refresh belongs to; pending: its pendingRefresh;
\* since: the ledger when it dropped the cache; raced: the cache was filled or
\* the Redis link changed since.
Job == [pc : {"del", "get", "load", "set", "send"}, balance : Balances, entry : 0 .. MaxEntries,
        pending : BOOLEAN, since : Balances, raced : BOOLEAN]

\* Type invariant.
BalanceFeedTypeOK ==
    /\ ledgerBalance \in Balances /\ refreshedAt \in Balances /\ redisReady \in BOOLEAN
    /\ redisEntry \in Cached \cup {NotCached} /\ lruEntry \in Cached \cup {NotCached}
    /\ job \in [FeedJobs -> Job \cup {NoJob}]
    /\ streamEntry \in [id : 0 .. MaxEntries, subscribers : SUBSET Clients]
    /\ horizonEvents \in 0 .. MaxPaymentsMade
    /\ clientBalance \in [Clients -> Balances \cup {-1}]
    /\ feedFaults \in 0 .. MaxFeedFaults

BalanceFeedInit ==
    /\ ledgerBalance = 0 /\ refreshedAt = 0 /\ redisReady \in BOOLEAN
    /\ redisEntry = NotCached /\ lruEntry = NotCached
    /\ job = [j \in FeedJobs |-> NoJob]
    /\ streamEntry = [id |-> 0, subscribers |-> {}]
    /\ horizonEvents = 0
    /\ clientBalance = [c \in Clients |-> -1]
    /\ feedFaults = 0

FeedFault == feedFaults < MaxFeedFaults /\ feedFaults' = feedFaults + 1

--------------------------------------------------------------------------------
(* The environment *)

\* A payment; an open Horizon stream will report it.
PaymentMade ==
    /\ ledgerBalance < MaxPaymentsMade
    /\ ledgerBalance' = ledgerBalance + 1
    /\ horizonEvents' = IF streamEntry.subscribers # {} THEN horizonEvents + 1 ELSE horizonEvents
    /\ UNCHANGED <<redisReady, redisEntry, lruEntry, job, streamEntry, clientBalance, refreshedAt, feedFaults>>

Raced(jobs) == [j \in FeedJobs |->
    IF j \in Refreshes /\ jobs[j].pc = "get" THEN [jobs[j] EXCEPT !.raced = TRUE] ELSE jobs[j]]

\* The connect, close and error handlers of the Redis client.
RedisFlaps ==
    /\ FeedFault
    /\ redisReady' = ~redisReady
    /\ job' = Raced(job)
    /\ UNCHANGED <<ledgerBalance, redisEntry, lruEntry, streamEntry, horizonEvents, clientBalance, refreshedAt>>

Older(e) == IF e.ttl <= 1 THEN NotCached ELSE [e EXCEPT !.ttl = @ - 1]

TimePasses ==
    /\ redisEntry # NotCached \/ lruEntry # NotCached
    /\ redisEntry' = Older(redisEntry)
    /\ lruEntry' = Older(lruEntry)
    /\ UNCHANGED <<ledgerBalance, redisReady, job, streamEntry, horizonEvents, clientBalance, refreshedAt, feedFaults>>

--------------------------------------------------------------------------------
(* getAccount through the cache *)

Reading == [pc |-> "get", balance |-> 0, entry |-> 0, pending |-> FALSE, since |-> 0, raced |-> FALSE]

StartReader(r) ==
    /\ job[r] = NoJob
    /\ job' = [job EXCEPT ![r] = Reading]
    /\ UNCHANGED <<ledgerBalance, redisReady, redisEntry, lruEntry, streamEntry, horizonEvents,
                   clientBalance, refreshedAt, feedFaults>>

\* cache.get: Redis if it has the key, and then an entry about to expire gets the
\* default lifetime; else the LRU.
CacheGet(j) ==
    LET inRedis == redisReady /\ redisEntry # NotCached
        hit == IF inRedis THEN redisEntry ELSE lruEntry IN
    /\ job[j].pc = "get"
    /\ redisEntry' = IF inRedis /\ redisEntry.ttl = 1 THEN [redisEntry EXCEPT !.ttl = DEFAULT_TTL]
                     ELSE redisEntry
    /\ job' = [job EXCEPT ![j] = IF hit = NotCached THEN [@ EXCEPT !.pc = "load"]
                                 ELSE [@ EXCEPT !.pc = "send", !.balance = hit.balance]]
    /\ UNCHANGED <<ledgerBalance, redisReady, lruEntry, streamEntry, horizonEvents, clientBalance,
                   refreshedAt, feedFaults>>

\* server.loadAccount (external), with the retries of withTimeoutAndRetry.
LoadAccount(j) ==
    /\ job[j].pc = "load"
    /\ job' = [job EXCEPT ![j] = [@ EXCEPT !.pc = "set", !.balance = ledgerBalance]]
    /\ UNCHANGED <<ledgerBalance, redisReady, redisEntry, lruEntry, streamEntry, horizonEvents,
                   clientBalance, refreshedAt, feedFaults>>

\* cache.set writes both levels.
CacheSet(j) ==
    LET e == [ttl |-> ACCOUNT_CACHE_TTL, balance |-> job[j].balance] IN
    /\ job[j].pc = "set"
    /\ redisEntry' = IF redisReady THEN e ELSE redisEntry
    /\ lruEntry' = e
    /\ job' = Raced([job EXCEPT ![j].pc = "send"])
    /\ UNCHANGED <<ledgerBalance, redisReady, streamEntry, horizonEvents, clientBalance, refreshedAt, feedFaults>>

ReaderAnswers(r) ==
    /\ job[r].pc = "send"
    /\ job' = [job EXCEPT ![r] = NoJob]
    /\ UNCHANGED <<ledgerBalance, redisReady, redisEntry, lruEntry, streamEntry, horizonEvents,
                   clientBalance, refreshedAt, feedFaults>>

--------------------------------------------------------------------------------
(* SSE clients *)

\* subscribe: the first subscriber opens the Horizon stream.  The client is then
\* seeded with a cached read.
Subscribe(c) ==
    /\ c \notin streamEntry.subscribers /\ job[c] = NoJob
    /\ streamEntry.subscribers = {} => streamEntry.id < MaxEntries
    /\ streamEntry' = [id |-> IF streamEntry.subscribers = {} THEN streamEntry.id + 1 ELSE streamEntry.id,
                       subscribers |-> streamEntry.subscribers \cup {c}]
    /\ job' = [job EXCEPT ![c] = Reading]
    /\ clientBalance' = [clientBalance EXCEPT ![c] = -1]
    /\ UNCHANGED <<ledgerBalance, redisReady, redisEntry, lruEntry, horizonEvents, refreshedAt, feedFaults>>

\* The seed is sent when its read ends, whatever was pushed meanwhile.
SendSeed(c) ==
    /\ job[c].pc = "send"
    /\ clientBalance' = IF c \in streamEntry.subscribers
                        THEN [clientBalance EXCEPT ![c] = job[c].balance] ELSE clientBalance
    /\ job' = [job EXCEPT ![c] = NoJob]
    /\ UNCHANGED <<ledgerBalance, redisReady, redisEntry, lruEntry, streamEntry, horizonEvents, refreshedAt, feedFaults>>

\* unsubscribe: the last one closes the Horizon stream and drops the entry.
Unsubscribe(c) ==
    /\ c \in streamEntry.subscribers
    /\ streamEntry' = [streamEntry EXCEPT !.subscribers = @ \ {c}]
    /\ horizonEvents' = IF streamEntry.subscribers = {c} THEN 0 ELSE horizonEvents
    /\ UNCHANGED <<ledgerBalance, redisReady, redisEntry, lruEntry, job, clientBalance, refreshedAt, feedFaults>>

--------------------------------------------------------------------------------
(* refreshBalance *)

Running == {r \in Refreshes : job[r] # NoJob /\ job[r].entry = streamEntry.id}

Refreshing == [Reading EXCEPT !.pc = "del", !.entry = streamEntry.id]

\* onmessage: a refresh that is under way is asked for one more.
PaymentReported ==
    /\ horizonEvents > 0
    /\ Running = {} => \E r \in Refreshes : job[r] = NoJob
    /\ horizonEvents' = horizonEvents - 1
    /\ job' = IF Running # {} THEN [job EXCEPT ![CHOOSE r \in Running : TRUE].pending = TRUE]
              ELSE [job EXCEPT ![CHOOSE r \in Refreshes : job[r] = NoJob] = Refreshing]
    /\ UNCHANGED <<ledgerBalance, redisReady, redisEntry, lruEntry, streamEntry, clientBalance, refreshedAt, feedFaults>>

DropCache_LruOnlyFault(r) ==
    /\ job[r].pc = "del"
    /\ lruEntry' = NotCached
    /\ refreshedAt' = ledgerBalance
    /\ job' = [job EXCEPT ![r] = [@ EXCEPT !.pc = "get", !.since = ledgerBalance, !.raced = FALSE]]
    /\ UNCHANGED <<ledgerBalance, redisReady, redisEntry, streamEntry, horizonEvents, clientBalance, feedFaults>>

\* cache.del on both levels; Redis keeps its entry while the link is down.
DropCache(r) ==
    /\ job[r].pc = "del"
    /\ redisEntry' = IF redisReady THEN NotCached ELSE redisEntry
    /\ lruEntry' = NotCached
    /\ refreshedAt' = ledgerBalance
    /\ job' = [job EXCEPT ![r] = [@ EXCEPT !.pc = "get", !.since = ledgerBalance, !.raced = FALSE]]
    /\ UNCHANGED <<ledgerBalance, redisReady, streamEntry, horizonEvents, clientBalance, feedFaults>>

\* The end of a refresh: a pending one starts over for the entry of now.
AfterRefresh(r) ==
    IF job[r].pending /\ streamEntry.subscribers # {}
    THEN IF Running \ {r} # {}
         THEN [[job EXCEPT ![CHOOSE s \in Running \ {r} : TRUE].pending = TRUE] EXCEPT ![r] = NoJob]
         ELSE [job EXCEPT ![r] = Refreshing]
    ELSE [job EXCEPT ![r] = NoJob]

Broadcast(r) ==
    /\ job[r].pc = "send"
    /\ clientBalance' = [c \in Clients |-> IF c \in streamEntry.subscribers THEN job[r].balance ELSE clientBalance[c]]
    /\ job' = AfterRefresh(r)
    /\ UNCHANGED <<ledgerBalance, redisReady, redisEntry, lruEntry, streamEntry, horizonEvents, refreshedAt, feedFaults>>

\* Horizon gives up: a reader gets an error, a refresh reports one to its clients.
LoadFails(j) ==
    /\ job[j].pc = "load"
    /\ FeedFault
    /\ job' = IF j \in Refreshes THEN AfterRefresh(j) ELSE [job EXCEPT ![j] = NoJob]
    /\ UNCHANGED <<ledgerBalance, redisReady, redisEntry, lruEntry, streamEntry, horizonEvents, clientBalance, refreshedAt>>

--------------------------------------------------------------------------------
JobStep(j) == CacheGet(j) \/ LoadAccount(j) \/ CacheSet(j)
ReaderStep(r) == JobStep(r) \/ ReaderAnswers(r)
ClientStep(c) == JobStep(c) \/ SendSeed(c)
RefreshStep(r) == DropCache(r) \/ JobStep(r) \/ Broadcast(r)

BalanceFeedNext ==
    \/ PaymentMade \/ RedisFlaps \/ TimePasses \/ PaymentReported
    \/ \E r \in Readers : StartReader(r) \/ ReaderStep(r)
    \/ \E c \in Clients : Subscribe(c) \/ Unsubscribe(c) \/ ClientStep(c)
    \/ \E r \in Refreshes : RefreshStep(r)
    \/ \E j \in FeedJobs : LoadFails(j)

BalanceFeedSpec == BalanceFeedInit /\ [][BalanceFeedNext]_balanceFeedVars

--------------------------------------------------------------------------------
(* A refresh pushes a balance that includes the payment it was started for, *)
(* although getXLMBalance reads through the cache, unless another read put  *)
(* its balance back after the cache was dropped or the Redis link changed.  *)
RefreshIsFresh ==
    \A r \in Refreshes : job[r].pc = "send" /\ ~job[r].raced => job[r].balance >= job[r].since

(* No reported payment is lost when refreshes collapse into one: each time  *)
(* Horizon reports a payment to a watched account, a refresh drops the      *)
(* cache after it, or every client leaves (pendingRefresh).                 *)
EveryPaymentRefreshes ==
    \A n \in Balances :
      (ledgerBalance = n /\ horizonEvents > 0)
        ~> (refreshedAt >= n \/ streamEntry.subscribers = {})

(* The pushed balance is current: no payment goes unnoticed, and a refresh  *)
(* shows it.                                                                *)
FeedIsCurrent == [][RefreshIsFresh']_balanceFeedVars /\ EveryPaymentRefreshes
================================================================================
