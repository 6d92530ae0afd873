# Finchippay: TLA+ models of the contract, the backend and the web client

This directory holds TLA+ specifications of the parts of Finchippay that hold,
move or report money: the Soroban contract (`contracts/finchippay-contract`),
the backend's services that act on their own (executor, webhooks, indexer,
mail, sessions, anchors, price-triggered functions) and the stateful parts of
the web client (offline queue, balance hook, send form, dashboard loaders). TLC
checks them on small instances (the `.cfg` files); TLAPS proves the theorems of
the `*Proofs` modules for every value of the constants. `PROJECT.json` lists
components, runs, the source lines every definition models, findings, hazards
and theorems.

    tlc -workers 4 -config MCStreams.cfg MCStreams     # model-check one run
    tlapm CustodyProofs.tla                            # check the proofs of one module

## 1. The system

| Part | State it keeps | Operations | What makes it correct | Module |
|---|---|---|---|---|
| Token custody (`lib.rs`) | token balance, `LockedBalance`, cached `LastContractBalance`, `Paused` | checked inbound transfer, outbound transfer, locked-balance updates | the balance covers what is owed; locked covers what is owed | TokenCustody |
| Streams (`streams.rs`) | stream records, counter, per-payer index | open, claim, top up, close, reject, transfer | nobody is paid beyond accrual; earnings are never taken back; settlement is final | Streams |
| Escrows (`escrow.rs`) | records in per-recipient lists, arbitrators | create (plain, batch, milestone, disputable), claim, partial claim, cancel, batch claim and cancel, milestone approve and claim, raise and resolve a dispute | claim and cancel windows are disjoint; disputes freeze; refund plus payouts is the deposit | Escrow |
| Multi-sig payments (`multi_sig.rs`) | proposals with approvals | create, approve (pays at the threshold), timeout, cancel | paid exactly by a quorum; no deposit is stuck | MultiSig |
| Administration (`lib.rs`, `layout.rs`) | admin, signer set, threshold, pauser, proposals, versions | initialize, transfer admin, pause, propose, approve/execute | every change has a quorum; governance never locks itself out; layouts never go back | AdminGovernance |
| Emergency withdrawal (`lib.rs`) | pending withdrawals | initiate, approve, execute, cancel | paid after the delay by a quorum, from unlocked tokens only | EmergencyWithdrawal |
| Vesting, airdrops, yield escrows (`batch_send.rs`, `airdrop.rs`, `yield_escrow.rs`, `oracle.rs`) | records per product, claimed leaves | create, claim, revoke or cancel | each grant pays what it promised and no more; locked covers vestings and airdrops | Grants |
| Tips, batch payments, receipts (`lib.rs`, `batch_send.rs`) | records, counts and totals by recipient, receipt index | tip, two kinds of batch, mint a receipt | records are numbered without gaps and add up to the totals | Tips |
| Scheduled executor (`scheduledExecutor.js`) | rows of `scheduled_txn_executions`, Redis locks, worker locals | sweep due runs and retries, claim, submit, finalize, notify | one owner per claim; no claim is lost; failures are notified | ScheduledExecutor |
| Scheduled transactions (`scheduledTransactionService.js`) | schedules, `pending_executions`, a cron table in every process | create, update, delete, cron run, submit a signed XDR, load after a restart | one submission per execution; only the owner's own transactions | PendingExecutions |
| Webhooks (`webhookService.js`) | webhooks, deliveries, dead letters, events, the Horizon stream | register, first attempt, retry sweep, dead-letter retry, replay, restart | a row says delivered only if it was; every delivery settles | WebhookDelivery |
| Event indexer (`eventIndexer.js`) | events, saved cursor, cursors of processes | poll, store, notify, restart | no event is skipped, but for what an RPC error answered as a page hides (section 7) | EventIndexer |
| Sessions (`tokenService.js`, `routes/auth.js`) | refresh tokens in two stores, cookies | login, rotate, reuse detection, revoke one or all, logout | a token is exchanged once; a revoked session stays revoked | RefreshTokens |
| Email (`notificationService.js`, `emailTrackingService.js`) | queue rows, opt-outs, bounces | queue, run, claim, send, settle, unsubscribe, bounce | one mail per row; never to somebody who had opted out at the last look | EmailQueue |
| Inbound secrets (`inboundWebhookSecretService.js`) | secrets with grace periods | first secret, rotate, revoke | an endpoint can always be verified, never with a revoked secret | InboundSecrets |
| Anchor transfers (`sep24Service.js`, signature middleware) | transfers, nonces | open, store, callback, expiry, restart | a callback is applied once; the record holds the last status | AnchorCallbacks |
| Price-triggered functions (`turretsService.js`, `priceFeedService.js`) | deployments, history, price cache | deploy, pause, resume, tick, probe, evaluate, prune | a stop-loss fires on a recent price; nothing runs before it is due | Turrets |
| Balance push (`cacheService.js`, `balanceStreamService.js`) | Redis and in-process cache, one Horizon stream, subscribers | read, subscribe, refresh, broadcast | a refresh shows the payment it was started for | BalanceFeed |
| Offline queue (`lib/offlineQueue.ts`, `public/sw.js`) | two IndexedDB stores | queue, drain by tabs and worker, kill, remove | no payment is lost; what is queued is posted | OfflineQueue |
| Balance hook (`useBalanceStream`) | ticket, event source, timers, generation | connect, reconnect, poll, hide, switch wallet | the balance changes only to one of the connected account | BalanceHook |
| Send form (`SendPaymentForm.tsx`) | form status, modal, toasts, pending list, deltas | confirm, sign, submit, retry, remount, reload, batch | a payment under way is tracked; the form comes back | SendPayment |
| Wallets and loaders (`useWallet.tsx`, `dashboard.tsx`) | account list, selection, JWT, view of a loader | add, remove, select, load, refresh, disconnect | the selection stays valid; a quiet loader shows the account in use unless answers failed or overtook each other | WalletDashboard |

**Interaction.** Every contract product moves tokens through the same helpers
and shares `LockedBalance`; the emergency withdrawal pays "what is not locked",
so an error of one product's accounting is paid by another's depositors. The
administration trips the breaker all products check, and owns the arbitrators.
Backend workers never talk to each other: they meet in database rows and in
Redis. The browser's tabs and its service worker meet in IndexedDB. A balance
reaches the screen through the indexer of Horizon, the cache, the push and the
hook, each with its own idea of what is current.

**What is hard.** In the contract a call is atomic (a panic rolls back), so the
difficulty is the *sequence* of calls of several parties, values frozen at one
call and used at a later one, and the boundary ledgers. In the backend and the
browser every `await` lets another worker, a timer, the owner, a late answer or
a crash in between. The hazards are listed one by one, with their lines, in
`PROJECT.json`.

## 2. Modules

    TokenCustody ─┬─ Streams ── StreamsProofs
                  ├─ Escrow ── EscrowProofs
                  ├─ MultiSig, Grants, Tips ── CustodyProofs
                  └─ AdminGovernance ── EmergencyWithdrawal ── GovernanceProofs
    EventIndexer, PendingExecutions, ScheduledExecutor, Turrets, BalanceFeed ── ServiceProofs
    RefreshTokens, InboundSecrets, WalletDashboard, BalanceHook ── CredentialProofs
    OfflineQueue, WebhookDelivery, AnchorCallbacks, EmailQueue, SendPayment ── DeliveryProofs
    Sums ── SumsProofs (used by Streams, Escrow, MultiSig, Grants, Tips and their proofs)
    Obligations (abstract; instantiated by Streams and MultiSig)
    MCServices, MCClient, MCSafety (several components side by side)

* **TokenCustody** - the variables all products share and the helpers that
  change them. `TransferIn` is `require_transfer_succeeded` (always refreshes
  the cache), `TransferOut` is `contract_transfer_out` (refreshes it if present),
  `RawTransferOut` a plain `token.transfer` (leaves it alone). Donations model
  direct transfers to the contract's address. `CustodyNext` is the environment.
* **Obligations** - abstract specification: `funds`, and per obligation what is
  owed and in which token. Money comes in with an equal rise of one obligation,
  or as a donation, and goes out only against one obligation. `ClosedSpec` is the
  same without donations. **Sums** adds up what all records of a token owe.
* **Streams** - one action per entry point; `ClaimableAt` is `claimable_at`.
  `paused_at_ledger`/`total_paused_duration` are always 0 in the code and are
  left out. `Settle` is the settlement `close_stream` and `reject_stream` share.
* **Escrow** - all three kinds. The recipient's list is represented by the
  record function. The batch calls process the slice of ids given by their
  cursor; a position is skipped exactly if it does not qualify, so their effect
  is a function of the set of ids. `SparesClaimed`, `SparesMilestones`,
  `ReleasesInFull` and `PlansAreFresh` name what the code does not prevent (section
  7), so that runs and theorems can say which of them they need.
* **MultiSig** - signer lists are duplicate-free by the code's check and are sets.
* **AdminGovernance** - proposals of every kind `execute_admin_action` knows, an
  unknown kind (panics, so the approval is rolled back), the pauser, the legacy
  admin.
* **EmergencyWithdrawal** - extends AdminGovernance; the products are
  represented by `Deposit` and `Payout`, what all of them do to the shared
  accounts.
* **Grants** - vestings and airdrops lock what they owe, yield escrows do not
  (`yield_escrow.rs:102`). `InitiateWithdrawal` and `ExecuteWithdrawal` are emergency
  withdrawals next to them: checked against the unlocked balance when they are
  initiated, and never again. A Merkle root stands for the leaves under it.
* **Tips** - `send_tip` and `batch_send_multi` write the counters at every item,
  `batch_send` once at the end from a map. A batch call is one action; its loop is a
  recursive function of the number of items done (`AfterItems`).
* **ScheduledExecutor** - one schedule, several workers. A worker is a program
  counter and its locals, and a step ends where the code awaits. A worker's `id`
  and `attempt` are what it read earlier, which is where staleness comes from.
* **PendingExecutions** - two backend processes, each with its own cron table,
  over one database.
* **WebhookDelivery** - one account; `deliverWebhook` calls, sweeps, owner
  requests and restarts interleave. Two deliveries started with the same object
  share its attempt counter, as in the code (`InsertReports`).
* **EventIndexer** - a ledger holds no event, one, or one that cannot be parsed.
  A JSON-RPC error that comes with HTTP 200 has no `result`: `getEvents` takes it for
  a last page without events (`FetchCutOff`), and the poll goes on with what the
  pages before it held. `missed` records what such an answer hid.
* **RefreshTokens** - every query is a step, and each call decides anew which
  store it works on.
* **EmailQueue, InboundSecrets, AnchorCallbacks, Turrets** - one row or one
  endpoint each, with overlapping runs, requests and expiry. A run of the queue looks
  the address up twice (`CheckSuppressed`, then `LookAgain` in `sendEmail`) and sends
  in a step of its own: opt-outs come between any two of them. A provider reads the
  market at some moment of a request (`PriceRead`), and the price is stamped when the
  answer arrives, up to PROVIDER_TIMEOUT later (`ProbeAnswered`).
* **OfflineQueue** - two drains (a tab, the service worker) that work through the
  records they read at their start and write them back whole.
* **BalanceHook, SendPayment, BalanceFeed, WalletDashboard** - one user's screen;
  a late answer is a step of its own. In BalanceHook a run of the effect without an
  account has no cleanup, so what is set meanwhile outlives it.
* **MCServices, MCClient, MCSafety** - components that share no variable, checked
  in one run: `part` picks whose behaviours are generated, the others keep their
  initial state. The state space is the sum of the parts', not their product.

Conventions: an entry point is an action, a panic or early return without effect
is a false guard, `require_auth` makes the caller a parameter. Ids are indices of
a function whose unused slots hold a `No...` value. A definition `X_...Fault` just
before `X` is `X` with one plausible coding error; no specification uses it. It
documents which property notices that error (`PROJECT.json`, "mutants").
Variables whose comment says *history* are not in the code: they record what the
environment saw (a mail accepted, a payment on the ledger), so that a property can
compare it with what the code believes.

Data left out: memos, events, storage TTLs, wallets' balances (the token refuses
a transfer that is not covered; only the contract's side matters). i128 and u32
overflow panics in the code (`checked_*`); amounts are capped far below, so
integers are unbounded here.

## 3. Runs

| Run | Distinct states | What it shows |
|---|---|---|
| MCStreams | 436,444 | Two streams of three accounts under every order of calls, donations and pauses, with an index that holds one of them: solvency, accrual bounds, finality of settlement, monotone earnings, and refinement of Obligations. |
| MCEscrow | 415,440 | Escrows of all three kinds with single, partial, batch and arbitrated settlement, as long as no batch claim takes a milestone escrow of which a part was claimed: solvency, disjoint claim and cancel windows, finality. |
| MCMilestones | 115,914 | Milestone escrows approved, claimed one by one and cancelled half-way, next to plain escrows: exact locked accounting. |
| MCEscrowDispute | stops at the violation | *Violated:* `DisputeFreezes`. The batch calls settle a disputed escrow, which the single calls refuse to do. |
| MCEscrowMilestoneBatch | stops at the violation | *Violated:* `EscrowsSolvent`. batch_claim_escrow pays the full amount of a milestone escrow part of which was already claimed, out of other escrows' deposits. |
| MCMultiSig | 90,928 | Two proposals with overlapping signers: execution exactly at the threshold, finality, refinement of Obligations by both the balance and the locked balance, and every deposit is eventually paid or refunded although signers and proposers may do nothing and the breaker trips again and again. |
| MCEmergency | 2,244,483 | Two racing proposals of every kind of admin action, expiry and changes of the signer set while proposals are open, or next to one emergency withdrawal with deposits and payouts of the rest of the balance after its check: governance stays reachable and needs its quorum, withdrawals keep delay and quorum, locked funds stay backed. |
| MCEmergencyTwo | stops at the violation | *Violated:* `LockedIsBacked`. Two withdrawals initiated against the same unlocked tokens both execute, the second from locked funds. |
| MCServices | 163,177 | Liveness of the services that retry: every webhook delivery ends delivered or dead, every claimed pending execution and every claimed scheduled execution is resolved, every event on chain that no RPC error hid is stored and notified and the owner hears of failures, under overlapping tasks, two processes, crashes and lost answers; with the safety those retries put at risk. |
| MCClient | 227,750 | The browser's side: signed payments survive tabs, service worker and kills and are sent once online, a form sends once and always comes back, optimistic balances match the ledger, the shown balance changes only to one of the connected wallet, which comes up although streams break, and every payment refreshes the feed behind it. |
| MCSafety | 1,217,280 | Safety of ten components under every interleaving of their queries, awaits and calls: webhooks with two deliveries, refresh tokens, the email queue, webhook secrets, anchor callbacks, wallets, Turrets, the executor with every outcome, the contract's grants and its tips. |
| MCExecutorAttempts | stops at the violation | *Violated:* `AttemptsBounded`. A retry sweep read before another worker's attempt submits the execution a fourth time. |

"Violated" runs state what a comment, a document or an assertion of the
repository says; `PROJECT.json` quotes the sentence and the line of code that
departs from it. `MCEscrow` (`SparingSpec`) leaves out one call, a batch claim of a
milestone escrow of which a part was claimed, and `MCMilestones` has exact accounting
because it makes no batch calls: MCEscrowMilestoneBatch shows what happens otherwise.

Several properties are conjunctions, each part with its own comment in its
module: `StreamBooksBalance`, `EscrowBooksBalance` and `MilestonesAddUp` (solvency
and locked accounting), `PaidByQuorum` (types, quorum, locked accounting),
`DepositsLeaveOnce` (both refinements and finality), `DecisionsHaveAQuorum` and
`DecisionsStand` (governance and withdrawals), `PendingExecutionsAreSafe`,
`DeliveryStatusIsTrue`, `EventsAreIndexed`, `SessionsAreSafe`, `SecretsAreUsable`,
`SendsAreTracked`, `HookFollowsWallet`, `FeedIsCurrent`, `DashboardKeepsAccount`,
`GrantsAddUp`, `RecordsAddUp`, `ExecutionsAreResolved`, `ClaimsAreOwned`.

**Bounds.** Two records of each kind suffice for one product's record to be paid
from another's; two or three accounts give payer, recipient and a third party;
amounts 1 to 3 with limits next to them put every size check on its boundary;
three to five ledgers give before, at and after each deadline. List caps are 1 or 2,
so that they are reached: the payer's index of MCStreams holds one of two streams. Two workers, processes, tabs, calls or ticks are enough
for every race between reading and writing a row, because each step touches one
row and a third party could only repeat what the second does. One fault (crash,
restart, error, lost response, kill) suffices to separate two steps; the bounds
are the constants named `Max...`. Some bounds are next to the composition and keep
a fault away from what it would only multiply: `OnePaymentOrNoFault` (MCClient:
faults of the feed with one payment, two payments without), `RaceOrFunds`
(MCEmergency: two racing proposals while the contract holds at most one token; next to
one proposal it holds two, so that deposits lock tokens and payouts spend them between
the check of a withdrawal and its payment) and, in MCSafety,
`FaultOrManual` (a crash or a run by hand, not both), `FaultOrOverlap` (a Turrets
fault with one log entry and no overlapping ticks, or no fault), `LateOrOverlap` (Turrets
ticks overlap until one unit before the end of time; an answer may be late by all of
PROVIDER_TIMEOUT = 1 in every behaviour), `FaultOrRace` (a
store fault of the tokens without a logout or overlapping requests) and the choice
of one loader outside the wallet part. MCSafety checks the executor with every
outcome, a manual run and Redis down, which leaves the database guards alone to keep
owners apart; MCServices checks it with Redis up or down at every call and retryable
outcomes, for liveness. `MaxBalance` only limits donations. Symmetry over `Accounts`
is used in MCStreams and MCMilestones, where no constant names an account and no
liveness is checked.

**Fairness.** `MultiSig!FairSpec`: ledgers close, a tripped breaker is eventually
reset, and somebody calls `timeout_multisig` for a proposal that stays expired
("anyone can call this"); strong, because the breaker may trip again.
`MCServices!ServicesFairness`: the event loop runs every started call, interval
timers keep firing, time passes and a worker restarts after a crash; nothing is
assumed of owners, payments, endpoints, cron, Redis or the outcome of a
submission. `MCClient!ClientFairness`: started runs go on, the browser is online
again and again and then starts a drain (online, sync and retry handlers), the
server sends a balance as soon as a stream is open, polls do not fail for ever,
the wallet answers, Horizon reports payments on an open stream. With
`MayOverrun = FALSE` a submission is assumed to end within its lease of 120 s, the
premise of the code's lease; set it to TRUE and OneOwner fails (section 7).

## 4. What is proved

TLAPS checks every theorem below for every value of the constants. The
assumptions are the `ASSUME`s of the modules and nothing else: amounts are
integers, limits are naturals, sets of accounts, tokens or ids are finite where
something is counted, bounds of the model are naturals. A theorem that states a
property of a run names it in `PROJECT.json`. Every proof has the same plan: an
invariant that is inductive, one lemma per action or group of actions that
preserves it, and a last step of temporal logic.

**Sums.** A solvency invariant adds up all records. The usual sum is recursive,
and the library's induction theorems cannot be instantiated by the provers, so `Sums` counts *units*: a table
f of naturals has the pairs <<x, 1>> .. <<x, f[x]>>, and `Total(f)` is how many
there are. `SumsProofs` derives what a proof needs from facts about finite sets:
the total of a table one entry of which changes (`TotalChange`), bounds and
monotonicity, and, for debts in several tokens, that a change of one debt moves
the total of its token only (`OwedMoves`). The batch calls need more: many debts added at
once add their total (`TotalAdds`), also under other names (`TotalRenamed`: accepted
items are numbered in order, and `ItemsInOrder` shows that this is a bijection), and a
new entry adds its amount (`TotalGrows`). The one induction over data that the
project needs is stated about a set and not about an operator: a set of naturals that
has 0 and the successor of each member is `Nat` (`SetOfNaturals`; the smallest number
outside, if there were one, comes from the well-foundedness of finite sets by inclusion).

**Streams** (`StreamsProofs`). The inductive invariant is `IInv == TypeOK /\
ClaimedWithinAccrual`. TypeOK alone does not suffice: that `claimed` stays below
`deposited` after a settlement and that a refund is not negative needs the
accrual bound, and the accrual bound needs the types. `ClaimableBounds` and
`ClaimableMonotone` are the arithmetic of `claimable_at`.
* `TypeCorrect`, `AccrualRespected`: the two parts of the invariant.
* `ClosedStaysClosed`: a settled stream never changes again.
* `EarningsAreSafe`: received plus claimable never shrinks.
* `StreamsKeepDoubleEntry`: streams implement Obligations. `IncurStep` and
  `DischargeStep` recognise the abstract step by the change of one obligation.
* `StreamsCanBePaid`: `[]StreamBooksBalance`, i.e. the contract holds what all
  streams are owed together, has locked at least that, and the payer index names
  streams of its payer only and misses an open one only if that payer has opened more
  than an index holds (`OpenKeepsIndex` counts them).

**Escrows** (`EscrowProofs`). The inductive invariant `EscrowInv` adds to TypeOK that a
milestone escrow has release ledger 0 and no arbitrator, which is why
batch_cancel_escrow and the dispute calls never reach one. `KindsOfStep` sorts the
actions by what they do to records and debts; every later proof has one case per kind.
* `EscrowsAreSettledOnce`: `EscrowsSettleOnce`, with no condition: until a dispute only
  the party whose window it is moves the money, and a settled record is final.
* `EscrowsCanBePaid`: `Spec /\ [][SparesClaimed]_vars => []EscrowBooksBalance`. No step
  lowers the difference between what is locked and what is owed (`NoLoss`), except a
  batch claim of a milestone escrow of which a part was claimed. The code does not
  refuse that call, and MCEscrowMilestoneBatch shows what it does; the theorem says
  that nothing else an escrow user can do makes the contract owe more than it holds.
* `MilestonesPayExactly`: with unclaimed plans, no batch claim of milestone escrows and
  arbitrators that release whole escrows, `MilestonesAddUp`: what is locked *equals*
  what is owed, and only the last milestone releases a milestone escrow.

**Multi-sig payments, grants and tips** (`CustodyProofs`).
* `QuorumsPay`: `[]PaidByQuorum`. A proposal is executed exactly by a quorum, and
  the locked balance of a token *equals* the sum of its pending proposals.
* `SettlementsAreFinal`: no call changes an executed, cancelled or expired
  proposal.
* `DepositsAreHandedOnOnce`: both the token balance and the locked balance
  implement Obligations (the latter `ClosedSpec`, without donations).
* `GrantsStayPaid`: `[]GrantsAddUp`, for every price, schedule and set of leaves. The
  invariant `GrantsInv` adds that ids are given out in order (a new grant overwrites
  none), that no withdrawal initiated is negative, that a vesting ends after its cliff (`claim_vesting` divides by the span),
  and that what an airdrop counts as claimed is what its recipients got, none of them
  without being marked. `VestedBounds` is the arithmetic: rounding down never runs
  ahead of the schedule, and a later ledger releases no less.
* `TipsStayCounted`: `[]RecordsAddUp`, for batches of every length. The invariant of the
  loop is `StateSound`: a recipient's records run ahead of its stored counters by exactly
  what `recipient_updates` holds for it. One item preserves it, in either batch call
  (`TippedSound`, `CollectedSound`); `LoopDefined` and `LoopSound` carry it through the
  loop by induction on the items done; `batch_send` then writes what was held
  (`SettledSound`). Collecting a stored count again for a recipient that comes twice
  breaks it, and is the run's mutant.

**Administration and withdrawals** (`GovernanceProofs`).
* `DecisionsNeedAQuorum`: `[]DecisionsHaveAQuorum`. Inductive as it stands,
  because `QuorumIsReachable` makes every threshold that is copied positive.
* `DecisionsAreFinal`: `DecisionsStand`.
* `LockedTokensStay`: `Spec /\ []OneAtATime => []LockedIsBacked`. The code does
  not keep two withdrawals of a token apart, and `MCEmergencyTwo` shows what two
  do; the theorem says that this is the only way to lose locked tokens.

**Indexer, pending executions, executor, Turrets, balance push** (`ServiceProofs`).
* `IndexerIsWellTyped`, `CursorsSkipNothing` (`[]NoEventSkipped`). The invariant adds
  to the cursors that a poll under way started from a covered ledger and holds all
  events of its range that are not in `missed`, because the cursor moves after the
  answer was read and the chain has grown. Without the exception the statement is false
  of the code: an error answered in place of a page moves the cursor (section 7).
* `ExecutionsAreSafe`: `PendingExecutionsAreSafe`. At most one call is past the claim
  of a row, the row is then in `submitting` or deleted, and a deleted row's id does
  not come back while a call still holds it.
* `ClaimsStayOwned`: `ClaimsAreOwned`, provided that `~MayOverrun`. A worker between
  claim and resolution holds the very lease that its row stores, so a claim with an
  expired lease has no owner; and a due run stays below MAX_RETRIES after its first
  attempt, so a requeued row is one the sweep finds. The hypothesis is needed:
  `finalizeClaim` names no owner, so a submission that outlasts its lease may resolve
  the claim of another worker (section 7).
* `DeploymentsRunWhenDue`: `[]RunsAreDue`. A tick decides on rows it read before, so the
  invariant `TurretsInv` says what of a snapshot stays true: type and creation always
  (`SnapshotsHold`), the next run only while ticks do not overlap (`TicksAlone`). A cached
  low price was stamped no later than PROVIDER_TIMEOUT after the market was last low
  (`PricesAreTrue`), so a stop-loss may fire on a price as old as cache lifetime and
  timeout together. The bound
  on the history is the hard part: a logging that counted n rows too many deletes n rows
  unless others delete them first, so the bound alone is not inductive. `HistoryPruned`
  states it for every v: there are at most MaxHistory + v rows and one for each task that
  still removes more than v of them, or has not counted. Deleting uses it at v plus the
  rows deleted; `OldestCount` shows that the n oldest rows are n.
* `RefreshesStayFresh`: `[]RefreshIsFresh`, the safety part of `FeedIsCurrent`. What
  makes a pushed balance fresh is over when it is pushed, so `FeedInv` follows the refresh:
  once it dropped the cache after a payment, and until it is raced, it finds both levels
  empty (`UpToDate`), so it reads Horizon and gets at least the ledger it started from.

**Secrets, sessions, wallet accounts, balance hook** (`CredentialProofs`).
* `SecretsStayUsable`: `[]SecretsAreUsable`. Secrets are born in order, the newest
  has no grace period, and a rotation under way retires only older ones.
* `SessionsStaySafe`: `[]SessionsAreSafe`. The invariant says who may hold a token:
  a token in a browser or in a request was issued, by one client only; a new token
  is unknown until it is answered; a replaced one is spent. The parts about replay
  are guarded by the history of what disturbed the clients (`tangled`, `told`),
  those about a logout by `straddled`, as the property is.
* `DashboardFollowsAccount`: `DashboardKeepsAccount`. The view is about a moment with
  nothing under way; the invariant (`ViewFollows`) says what holds before: until answers
  overtake each other, the newest request is for the account in use, because every change
  of it starts one. `RemovedAccount` is the index arithmetic of `removeAccount`, for lists
  of any length: the selection stays in the list and on the same account. The proof needs
  that the list holds no account twice, else removing one copy would count as leaving it.
* `HookShowsConnected`: `ShownIsConnected`, the safety part of `HookFollowsWallet`. Every
  connect, stream, poll and interval belongs to a run of the effect no later than the
  current one, and one of the current run is for the connected account (`OfThisRun`);
  without an account there is no open stream and no reconnect timer to clean up.
  `TicketRefused` may set the interval of an old run, and the check on the generation in
  the answer is what keeps it off the screen.

**Deliveries** (`DeliveryProofs`). In each of the five, runs work on copies of
rows or share a form, so the invariant says what a run knows at each program point.
* `QueuedPaymentsSurvive`: `[]NoPaymentLost`. A run that is about to delete a record
  has its transaction on the ledger (`AcceptedIsOnLedger`), for the record it took
  from its own list.
* `DeliveriesAreTrue`: `[]DeliveryStatusIsTrue`. A task past an acknowledged POST
  has it in history, works on an inserted row and on the event of that row; rows
  are never deleted and keep their event (`RowsStay`).
* `RecordsFollowTheAnchor`: `[]RecordFollowsAnchor`. Until a fault, a callback past
  the replay check is there once and has not been applied (`SeenOnce`).
* `MailsAreSentAsAsked`: the action property `MailIsSentAsAsked`. An opt-out is stored
  for every address that opted out (`OptOutsAreStored`), so a run that has looked just
  before it sends and found nothing saw an address that had not (`clear`, kept by
  `KnowsRows`); an opt-out after the look is not seen (section 7). A row that was never taken over as stale has
  one run at work on it, which turned it from pending to processing; once the
  server took the mail, that run can only settle it as sent (`RowsHaveOneOwner`).
* `SendsStayTracked`: `[]SendsAreTracked`. What keeps a second payment from being
  confirmed is that the form's status says busy while one is under way
  (`FormShowsItsSend`), and this holds only until the retry button of a toast is used
  on the form. An earlier version of the property allowed two payments only if *one of
  the two* was a retry. It held on two sends and was not inductive: with four, a retry
  that fails resets the form of a payment that still runs (section 7).

## 5. Only model-checked

* *Liveness* (`NoFundsLockedForever`, `EveryDeliverySettles`, `ClaimedIsResolved`,
  `QueuedIsSent`, `FormComesBack` and the temporal parts of `EventsAreIndexed`,
  `ExecutionsAreResolved`, `HookFollowsWallet`, `FeedIsCurrent`): fairness and
  ENABLED are out of the provers' reach.
* The type invariants of the modules that have no theorem.

## 6. Not modelled

Swaps (quotes and fees, one call through external pools); storage TTL and
archival, which belong to the host; rebasing and fee-on-transfer tokens; SEP-12
forms and SEP-38 quotes; push subscriptions, usernames and federation, feature
flags, API keys, the tips index, health reports (single-row record keeping);
HTTP routes, GraphQL and middleware other than those inside a protocol above; the
SDK; contacts, browser storage and rendering; transaction building in
`lib/stellar.ts`. Left out of modelled components: `deleteWebhook` (its route
calls `getWebhookById`, which the service does not export, so it always fails),
`jobs/webhookDeliveryWorker.js` (nothing starts it), the in-memory fallback of
the indexer and its clean-up, topic filters, mail templates and tracking, the
SEP-24 mock store, cache strategies of the service worker. See the notes of
`PROJECT.json`'s components.

## 7. Findings

Four disagreements between the code and what the repository says of it are each
reproduced by a run (section 3) and quoted in `PROJECT.json`. MCEscrowMilestoneBatch
and MCEmergencyTwo move other people's money; MCEscrowDispute lets a party pre-empt
the arbitrator; MCExecutorAttempts submits more often than announced.

Others met while modelling, which the modules reproduce but no run singles out:

*Contract*
* `transfer_stream` pays the old recipient without lowering the locked balance
  (`streams.rs:379`, against the contract's `README.md:58`), and leaves the cached
  balance stale although `lib.rs:758` says the cache matches for standard assets.
* `resolve_dispute` with "release" and a partial amount leaves the rest locked
  and owed to nobody (`escrow.rs:1403`). This is why MCEscrow checks that locked
  *covers* what is owed, not that it equals it.
* `create_milestone_escrow` stores the caller's `claimed` flags but deposits and
  locks every milestone's amount (`escrow.rs:390`).
* Approvals of signers removed since still count, against the threshold frozen
  in the proposal (`lib.rs:1446`); `ExecutedByQuorum` is stated for the
  proposal's own threshold.
* `send_tip` runs `assert_invariants`, whose cost grows with the number of records.

*Executor and scheduled transactions*
* A submission that outlasts its lease shares its execution with the worker that
  reclaimed it, because `finalizeClaim` selects by id alone
  (`scheduledExecutor.js:305`, against line 17).
* A crash between `finalizeClaim` and `notifyFailure` loses the notification
  (`scheduledExecutor.js:665`), hence the exception for faults in
  `FailureIsNotified`.
* `MAX_RETRIES` from the environment is a string, so `MAX_RETRIES + 1`
  concatenates (`scheduledExecutor.js:352`).
* `updateSchedule` writes every column back and undoes a status set in between
  (`scheduledTransactionService.js:250`); a process that dies after flipping a row
  to `submitting` leaves it there (line 344).
* A worker that dies between `finalizeClaim` and `advanceSchedule` leaves the schedule
  due, and the unique id of the run refuses every later claim until cron or the owner
  moves `next_run_at` (`scheduledExecutor.js:524-531`).
* The route that creates schedules does not pass the fields `createSchedule`
  requires, so it answers 400.

*Indexer, prices*
* A JSON-RPC error answered with HTTP 200 is taken for an empty last page
  (`eventIndexer.js:239-241`; `fetchWithRetry` looks only at the HTTP status), and the
  poll moves the cursor to the end of its range (lines 500-503), past events it never
  read, although the comment at 449-450 promises completeness. This is why
  `NoEventSkipped` and `EventsAreIndexed` have the exception `missed`.
* A price is stamped when it arrives (`priceFeedService.js:168-170`), so a cached price
  may be older than the cache lifetime by the timeout of a request.

*Webhooks, mail, sessions, anchors*
* Deliveries started with one object share its attempt counter and may be sent
  twice (`webhookService.js:410`, against its comment at 499-500); the cap on
  webhooks is checked before the insert (line 129); an error of the Horizon stream
  forgets it (line 749).
* An opt-out or a bounce between the last look and `sendMail` is still mailed
  (`notificationService.js:204` and 224).
* `POST /auth/refresh` has no catch: an error of the rotation is not answered
  (`routes/auth.js:140-153`).
* A row taken over as stale can be mailed twice (`notificationService.js:378`,
  against "never double-sent" at 392-394); the hourly limit is read before the
  insert (line 252).
* `isSuppressed` takes the token row that `ensureUnsubscribeToken` creates for
  every mail as an opt-out (`emailTrackingService.js:184-193`,
  `notificationService.js:175`), so queued mail is cancelled.
* A second rotation extends a grace period that had already ended
  (`inboundWebhookSecretService.js:95`, against "bounded grace window").
* `processEmailQueue`, `processGenericQueue` and `notifySubscribers` are called by
  nothing; `routes/stream.js` is mounted nowhere.

*Client*
* `PaymentStatusModal.tsx:128-129`: "error" does not mean that nothing was paid: a
  timeout or a lost answer of the submission ends there too.
* A payment that is retried from its toast while another one of the form is under way
  takes over the form's status (`SendPaymentForm.tsx:1030`). When it fails and its
  modal is closed, the form accepts a third payment while the second still runs.
* A direct change of account leaves the balance of the one before on the screen until
  the new one arrives: only the effect without an account resets it
  (`useBalanceStream.ts:229-239`). That effect returns no cleanup, so an interval a late
  refusal of a ticket sets there outlives it and keeps the next account from polling.
* `useWallet.tsx:252-253` says the JWT always matches the account;
  `setActiveAccount` (line 237) changes the account and keeps the JWT.
* Resuming a completed function runs it again (`turretsService.js:568`).

## 8. Plan

Done: all modules of section 2. Left, in order of importance:

1. **Contract**: streams, escrows, multi-sig payments, grants and withdrawals
   together on one custody state, replacing `Deposit`/`Payout`.
2. **Swap**: fees, slippage bounds and batch swaps with an external pool.
