# A verification project for Codex++ / sub2api

The repository holds a gateway that resells access to language models (`src/sub2api-main`: a Go back
end, a web front end), a desktop client for it (`src/CodexPlusPlus-main`: Rust and TypeScript) and
the contracts, plans and scripts around them. The back end takes money, turns it into balance and
subscriptions, serves requests within limits, and charges them. This directory models the part of it
where a mistake costs money or quota and where unit tests reach least: what several HTTP handlers,
background sweeps and instances do to the same rows and Redis keys, with calls that fail, time out,
are repeated, or take effect without an answer.

Paths below are relative to `src/sub2api-main/backend/internal/`; `service/`, `repository/` and
`handler/` are its directories.

1. [The system](#1-the-system)
2. [The modules](#2-the-modules)
3. [The runs, their bounds and fairness](#3-the-runs-their-bounds-and-fairness)
4. [What is proved](#4-what-is-proved)
5. [Where the code differs from what it says](#5-where-the-code-differs-from-what-it-says)
6. [What is not modelled](#6-what-is-not-modelled)
7. [The plan](#7-the-plan)

## 1. The system

State is in PostgreSQL (rows; READ COMMITTED transactions, often one per call), in Redis (keys with
a time to live, changed by Lua scripts) and in the memory of several instances of one server. A
request is a goroutine that makes a sequence of such calls; background jobs (order expiry, clean-up,
archive, flushers) do the same on a timer. Almost all coordination is by *conditional updates*
(`UPDATE … WHERE status = …`), unique indexes and scripts; there are few locks.

| component | state it keeps | operations | hard behaviour | what makes it correct |
|---|---|---|---|---|
| payment orders (`service/payment_fulfillment.go`, `payment_order.go`, `payment_order_lifecycle.go`) | `payment_orders` row: status, `paid_at`, `expires_at`, `updated_at`; audit rows; a redeem code per order | create, notification, cancel, expire, verify, retry, fulfil | webhook, sweep, user and admin work on one order; every call may fail; notifications are repeated, late, or of another amount | one credit per payment and none without one; nothing confirmed is taken back; a completed order is settled |
| refunds (`service/payment_refund.go`) | the order's status, the balance, audit rows | request, prepare, execute, roll back | deduction, provider's call and roll-back are separate calls; lost answers; retries | one refunder; paid back once; a failed refund costs nothing |
| subscription fulfilment (`service/subscription_service.go`, `codexplus_commerce_entitlement.go`) | `user_subscriptions`: term and notes; audit rows | fulfil, create, extend | several orders extend one row; retries recognise their own work by notes | each order's days are given once and stay |
| idempotency (`service/idempotency.go`, `repository/idempotency_repo.go`) | `idempotency_records` | execute, clean up | claims, reclaims and marks are separate statements; locks and records expire | one execution at a time, one effect per record's life, answers of the same payload |
| concurrency slots (`service/concurrency_service.go`, `repository/concurrency_cache.go`, `handler/gateway_helper.go`) | a sorted set of slots and a counter of waiters per user | acquire, wait, release, clean up | time-outs without renewal, disconnects, restarts of one of several instances | the limit holds; the queue is bounded; counts are explained |
| usage billing (`repository/usage_billing_repo.go`, `dashboard_aggregation_repo.go`) | dedup table and archive, wallet, `api_keys`, `accounts.extra`, outbox | apply, archive | repeated deliveries, moved ids, lost commit answers | charged once and whole; limits announced once |
| API keys (`service/api_key_service.go`, `repository/api_key_repo.go`) | `api_keys`: quota, usage, status | edit, reset | read–modify–write next to charges | usage is counted; keys close and open with their quota |
| billing cache (`service/billing_cache_service.go`, `repository/billing_cache.go`) | a cached balance per user in Redis; a channel of cache writes per instance | check, load, deduct, invalidate, stop | a load that overtakes a deduction or an invalidation, a full queue, a stop while tasks run | every charge and credit reaches the cached balance once |
| user platform quota (`billing_cache_service.go`, `user_platform_quota_repo.go`, `user_platform_quota_flusher.go`, `handler/admin/user_handler.go`) | a row and a Redis hash per user and platform, a dirty set | check, fill, refresh, charge, flush, change, reset | two stores, each overwritten with values computed earlier; windows that end at midnight | both count the day's charges; a changed limit takes effect |
| scheduler snapshot (`service/scheduler_snapshot_service.go`, `repository/scheduler_cache.go`, `account_repo.go`) | accounts, an outbox with a watermark, lists and copies in Redis | change, poll, rebuild, load | ids that commit out of order, rebuilds that meet a lock, older loads with newer versions | every change reaches the lists and copies, or at last the periodic rebuild repairs them |
| key cache (`api_key_auth_cache_impl.go`) | local and Redis copies of keys | load, invalidate | a load that overtakes an invalidation | a copy is not older than its time to live allows |
| pools (`usage_record_worker_pool.go`, `openai_ws_pool.go`, `deferred_service.go`) | queues, leases | submit, lease | full queues | nothing is lost or leased twice |
| locks (`system_operation_lock_service.go`, `leader_lock.go`, `oauth_refresh_api.go`, `user_msg_queue_service.go`) | rows or keys with a time to live | acquire, renew, release | owners slower than their lock | one owner at a time |
| the rest | | forwarding and protocol translation, account scoring, provider clients, authentication, reports, views, the desktop client | | see section 6 |

How they interact: a provider's notification moves an order to PAID and calls the fulfilment, which
creates and redeems a code (balance) or assigns a subscription, then completes the order and decides
the inviter's rebate. A refund takes the order over through its status. A served request holds a
slot of the user and of an account while it runs; when it ends it is handed to the usage pool, whose
task applies the charge, updates the caches and, through the outbox, tells the scheduler that an
account or key reached its limit. The idempotency coordinator wraps the administrator's and user's
POST requests. `PROJECT.json` lists every component with its status and, under `hazards`, the lines
at which each of these is hard to test.

## 2. The modules

One module per component; each has a module of proofs and an MC module that gives TLC its symmetry
and its function-valued constants. Variables are named after columns; an action is named after the
function it stands for, and is one database, Redis or provider call with the code that leads to it.
`PROJECT.json` maps every definition to its lines.

### PaymentOrder, PaymentLedger

`PaymentOrder` is the life of a balance order. A *handler* (`pc`, `op`, `ord`) is one goroutine:
`createOrder`, the webhook, cancel, the expiry sweep, verify and its public twin, the reconciliation
of pending orders, and the admin's retry. All of them meet in `toPaid`, `ExecuteBalanceFulfillment`
and `doBalance`, which are `ConfirmPayment` … `MarkFailed`. A row of `payment_orders` is `status`,
`paidAt`, `overdue` (its `expires_at` is past) and `stale` (its `updated_at` is further back than
the grace period in which a late payment is still taken); every `UPDATE` makes it fresh again, as
ent's `updated_at` does. The provider is `upstream` (the user pays the exact amount or another) and
`acked` (it has had a 2xx). `code` is the order's redeem code, `credits` and `rebates` count what
the user and the inviter were given. The user may also redeem the code at the redeem endpoint
(`byHand`): `RedeemAtEndpoint` is the credit and `RewardAtEndpoint` the invite rebate that the
endpoint accrues by itself, without the audit row that the order looks for. Three kinds of fault: a
call fails without effect, a call takes effect and reports an error (`Outcome`), and a handler dies
or loses its context (`Abort`), after which `markFailed` does not run either. Two of them have a
record of their own. A creation may fail although the provider has the order
(`InvokeProviderInDoubt`, `doubtful`): the row becomes FAILED unconditionally
(`payment_order.go:455`), whatever happened to the order in between. A notification may be answered
with a 2xx although a failed read kept it from being looked at (`NotificationUnread`, `unread`):
when the providers cannot be loaded, or `confirmPayment` cannot read the order
(`payment_fulfillment.go:71`).

`PaymentLedger` is what the service promises: paid, then credited once, then at most one rebate,
then done. An order whose code the user redeemed (`redeemed`) may bring one rebate more, at any
later time, and only a doubtful order may lose the report of its completion (`Withdraw`).
`ImplementsLedger` is the refinement: `paid` is what the provider holds, `done` the completed
orders.

### PaymentRefund

Refunds of the balance orders of one user. `RequestRefund` is the user's, `PrepareRefund` …
`MarkRefundOk` are the administrator's; `deduct` and `amount` are the `RefundPlan`, which is made
from a row (`seen`) and a balance read before the lock. `taken` and `refunded` record what was taken
from the balance and what the provider paid back. The code also takes a refund that is only
*pending* at the provider for a success (`payment_refund.go:364`; all of WeChat Pay, Alipay and
Stripe may answer so): `Accepts` pays back or leaves the amount in `pending`, from where the
provider later settles it (`Settle`) or fails it (`RefundFailsLater`, noted in `defaulted`); the
order hears of neither. What a refund is worth is therefore `Owed`, paid or pending. `unanswered`
holds the orders whose provider refund was executed but reported an error, and `unrestored` those
whose deduction or roll-back was: with them the properties say exactly under which failures the code
keeps its promise. Amounts are small integers; balances may be negative, as in the code.

### SubscriptionOrder

The fulfilment of subscription orders of one user and group. The row's `expires_at` is the set of
orders whose days it includes (`term`), its notes the set of orders whose marker they carry. Finding
a marker is substring search: `LongerIds[o]` are the orders whose number begins with that of `o`.
`ReadSubscription` and `ExtendSubscription` are the read before and the write inside the transaction
of `AssignOrExtendSubscription`. `unprotected` are the orders whose marker was overwritten by
another grant, or whose audit row or notes could not be read.

### Idempotency

`IdempotencyCoordinator.Execute` for the requests with one key. One action per statement:
`CreateProcessing`, `GetExisting`, `TryReclaimExpired`, `GetLatest`, `TryReclaimFailed`, the effect,
`MarkSucceeded`, `MarkFailedRetryable`, and the clean-up job's one statement in two steps:
`PickExpired` is its snapshot of expired rows, `DeleteExpired` the deletion, which under READ
COMMITTED matches a row changed meanwhile by its id alone. A row reclaimed between the two is
deleted within its new life; `swept` records that. A request reads the clock when it starts
(`started`) and computes its lock and expiry from that reading; `late` records that one was slower
than the limits it set, and `InTime` says that neither happened. Abstractions: the instances and the
database share one clock; the reading of the back-off and its update are one step; redaction of the
stored body is left out, its truncation is not; an error of a statement ends the request (`Abort`),
with or without its effect.

### ConcurrencySlots

One user's slots and waiting counter, shared by several instances. `AcquireUserSlot` is the Lua
script (drop lapsed members, compare, add) with its lost answer; `StopWaiting` the time-out of the
wait; `Disconnect` the release by the context's end while the upstream is still read; `Restart`,
`SweepSlots` and `DeleteWaits` the start of an instance. The limit of an upstream account uses the
same scripts. The user's limit is positive; 0 (unlimited) takes no slot. Two comments in the code
read differently from the scripts and are followed by their code: `concurrency_service.go:37` says
that only the first increment sets the counter's time to live (the script refreshes it each time),
and `concurrency_service.go:163` says that `AcquireUserSlot` waits (it returns at once; the handler
polls).

### UsageBilling, BillingLedger

`UsageBillingRepository.Apply`, one *command* per delivery of a charge: claim the request id,
compare the fingerprint on a conflict, look in the archive, write wallet, key and account, commit.
`wrote[c]` is what an open transaction has written, and the row locks that come with it; the other
transactions see it after the commit. The commit may succeed and lose its answer. A charge that
takes the account across its limit adds an event for the scheduler, or none when the outbox has one
of the account that is less than a second old (`AccountEvent`, `dropped`;
`scheduler_outbox_repo.go:99`); that event is of an edit or another limit of the account, which are
not modelled, so both outcomes are always possible. `Archive` moves ids to the archive; how old an
id must be for that is left open, so a retry may meet it at any moment. `ReadKey` and `SaveKey` are
the owner's edit of the key: read, decide, save the whole row. The wallet (balance or subscription
counters) is the set of charges in it; key and account are numbers, because their limits are
compared with numbers. One wallet, one key and one account; the key's rate-limit windows and the
account's daily and weekly quotas, which the same statements write, are left out.

`BillingLedger` is what is promised of it, without transactions: a request that is not yet charged
is charged in one step, on all its rows, and in that step the key is closed if its quota is
exhausted and the scheduler is told if the account reaches its limit, unless it was told of the
account a moment ago. `ImplementsBillingLedger` says that the transactions, under READ COMMITTED and
with their statements interleaved, do the same at their commits: they are serial. An edit of the key
may rewrite the key's row in any way there, as a stale edit does.

### BillingCache

The balance of one user as one instance sees it. `cached` is the Redis key; instead of a number it
is what has been counted in it: the charges and credits that were in the row when it was read
(`read`), and the deductions applied since (`taken`, or `again` for a second time). `Amount` is the
number that the check of a request compares with 0. `Load` is `GetUserBalance` after a miss, with
the single flight that lets others take the leader's balance; `Enqueue`, `Push` and `PushPanics` are
`enqueueCacheWrite`, which reads the stop flag before it takes the lock; workers `Receive` and
`Perform` tasks in any order. A task that is not queued is dropped when it is a balance and applied
by its caller (`Direct`) when it is a deduction. `Credit` and `Invalidate` are the redemption and
the deletion of the key in a goroutine of its own; `SetStopped` … `Forget` are `Stop`. `overtaken`
are the operations counted while a balance from before them was still on its way to the cache,
`early` the charges that such a balance already had, `failed` those whose cache call failed.

### PlatformQuota

The daily quota of one user on one platform. Both stores are modelled: the Redis hash (`entry`:
limit, window, usage) and the row, with the two ways a charge goes from the one to the other: the
direct write of `IncrementUsageWithReset` (`Persist`, `Insert`) and, with the flusher enabled, the
dirty set and the snapshots of several flushers (`Take`, `Write`, `Returned`). Usage is the set of
the day's charges, by number. `CheckHit` … `SetCache` are `checkUserPlatformQuotaEligibility`, with
its fill, its sentinel for a user without a row and its refresh of a past window, all of which write
an entry that was computed before. The administrator's change, removal and reset are a row first
(`SetLimit`, `Remove`, `Reset`) and the deletion of the entry after it (`DropEntry`). `restarted` is
a detail of the code with consequences: a reset begins the row's window at the time of the reset,
which is not the start of the day, and `maybeReset` compares with equality, so that the next direct
write begins the window anew and drops what was written to it meanwhile. `clock` is the other one:
the direct write's goroutine reads the time before its transaction (`gateway_service.go:8637`), so
`Persist` and `Insert` may run with yesterday's date after midnight, and `maybeReset` then takes the
row back to yesterday, together with the charges that other writes had already counted for today.
The time of a reset is read before its update as well. `missed` and `lost` name the charges that
fell into a window of the cache or the row in which the code loses them; `stale` says whether the
entry or the row took a value from before the administrator's change.

### SchedulerSnapshot

Accounts, the outbox and the scheduler's lists. An updater changes the row, inserts an event
(`Insert` takes the id, `Commit` makes it visible; `Duplicate` is the one-second window in which an
event is dropped), then for some operations copies the row to Redis (`SyncRead`, `SyncSet`). An
account also becomes schedulable, or ceases to be, without any update: the query compares its
rate-limit, overload, pause and expiry times with the clock (`account_repo.go:1537`). `TimePasses`
is that change; no event goes with it. A poller lists the visible events above the watermark,
handles each (`ReadAccount`, `SetAccount` and the rebuild of its buckets), and moves the watermark;
the full rebuild and a request that misses run the same rebuild of a bucket: lock, load, take a
version, write the copies, activate, unlock. A version is a *ticket*, which keeps the model finite:
as long as a rebuild's version is above the active one, `tickets` has the rebuilds of its bucket
with such versions up to its own; to activate it voids them all (`Void`), and a void version is not
activated. `Unlock` deletes whatever lock there is, because the code does not check the owner. The
properties say that a drained outbox leaves right lists and copies, up to a change that was
*overlooked*: `doubt` and `stale` name the entries for which this is known (an event not inserted,
dropped as a duplicate, committed below the watermark or naming other groups; a change by the clock,
which has none; a rebuild that met the bucket's lock or wrote older rows under a newer version),
`late` the rebuilds whose rows were old when they took their version, `behind` who holds rows whose
last event was handled meanwhile.

## 3. The runs, their bounds and fairness

| run | module, configuration | what it shows | bounds |
|---|---|---|---|
| `order_safety` | MCPaymentOrder, `PaymentOrder.cfg` | one credit, truthful completion, explained rebates, nothing confirmed is lost; a payment is credited unless the order had expired, a call failed or a notification was acknowledged unread; the service implements the ledger | one order, two handlers, one failing call, one abort; besides them a creation in doubt and a redemption by the user |
| `order_retry` | MCPaymentOrder, `PaymentOrderRetry.cfg` | a counterexample, section 5 | one order, one handler, one abort |
| `refund_safety` | MCPaymentRefund, `PaymentRefund.cfg` | paid back once, truthful status, failure is free, no unfair deduction; no path of `ExecuteRefund` leaves REFUNDING behind | one order of amount 2 (so that there are partial refunds) with or without a trade number, balance 3, two handlers, one error, one lost answer, one abort, the user spends up to 1; every accepted refund may be pending, and settle or fail at any later time; for the liveness, a failing `UPDATE` or an abort does leave REFUNDING behind and is excepted |
| `sub_safety` | MCSubscriptionOrder, `SubscriptionOrder.cfg` | days given once, completion is a grant, the term is noted | orders 12, 120 and 7, three handlers, one error, one abort, one expiry |
| `sub_race` | MCSubscriptionOrder, `SubscriptionOrderRace.cfg` | a counterexample | no id begins another |
| `idem_safety` | MCIdempotency, `Idempotency.cfg` | one execution, first effect once, replays are of the same payload | three requests, two payloads, record life 3, lock 2, back-off 1, clock to 5; the clean-up picks and deletes at any moment |
| `idem_expired` | MCIdempotency, `IdempotencyExpired.cfg` | a counterexample | one payload, life 2, lock 1, clock to 4 |
| `slots_safety` | MCConcurrencySlots, `ConcurrencySlots.cfg` | the limit, slots of the served, the queue's bound, explained counts | three requests on two instances, limit 2, queue 2, lives 2, clock to 3, one error, one restart |
| `billing_safety` | MCUsageBilling, `UsageBilling.cfg` | charged once and whole, truthful answers, one announcement or dropped event, usage is counted, a charge closes its key; the transactions are serial (they implement the ledger) | four deliveries: two of one request, one of the same id with another payload, one of another request; two edits of the key; quotas 1 and 3, account limit 2 |
| `balance` | MCBillingCache, `BillingCache.cfg` | every charge and credit is counted in the cached balance, once; the stop leaves no task behind | two requests, two workers, a queue of one, two charges, one credit, first balance 1 (so that the second charge is made by a request that the credit, a stale balance or the other request lets pass), one fault |
| `quota` | MCPlatformQuota, `PlatformQuota.cfg` | the entry and the row count the day's charges; an administrator's change holds | two requests, two flushers, two charges, one midnight (also between a write's reading of the clock and its transaction), one change, one fault; flusher on and off, a user with a row of limit 1 and one without |
| `sched` | MCSchedulerSnapshot, `SchedulerSnapshot.cfg` | lists and copies follow the changes; lists are right at last | one account and bucket, one poller, one goroutine that rebuilds and serves a miss, one updater, two changes, each by an update or by the clock, one error or death of a worker |

**Why the bounds are enough.** Each hazard needs few actors: two that collide and one that comes
between or after them. Two or three interchangeable handlers give every such order, and a handler of
an order, a refund or a subscription that has returned starts again as another request, so the
*number* of requests on an order is not bounded, only how many run at the same time; the requests of
the other modules run once each. Failures are bounded because each one adds a branch to every later
state; in `order_safety` the call that fails, the handler that dies and the creation in doubt have
bounds of their own, so that all three meet in one behaviour. `quota` and `balance` need two
charges, one that is on its way and one that overtakes it; `sched` needs a second change, so that
one can fall between the reading and the handling of another. Clock bounds reach past one life of a
record or slot plus a lock, so that each expiry can happen and be followed by a whole new claim.
Larger instances were checked once and agreed: slots with four requests and limit 1 (7.9 million
states), billing with the quotas 0 (unlimited), 1 and 3 (4.5 million), two orders in the ledger,
order handling with three handlers, refunds of two orders with a failing call, and quotas with three
charges (7.8 million). The theorems of section 4 have no such bounds.

**Symmetry** is declared for handlers and requests, which the specifications never tell apart, in
runs without liveness only. The requests in `slots_safety` are permuted only within one instance,
and in `billing_safety` only the two equal deliveries and the two edits.

**Deadlock** is checked in `balance` and `sched`, where requests go on arriving. It is not checked
elsewhere: these systems come to rest when nobody asks for anything and the faults of the bound are
used up (a finished order, a refunded one, deliveries that have all been answered, a clock at its
bound).

**Fairness.** Safety runs assume none. `order_safety` and `refund_safety` assume weak fairness of
each handler's next step for their liveness: a goroutine that has started is scheduled until it
returns, and every call in it has a timeout. `order_safety` also assumes strong fairness of the
redelivery of a notification that was not acknowledged, which is what the providers promise and what
`handler/payment_webhook_handler.go` counts on by answering 500; it is strong because a handler must
be free to take it. And it assumes that the expiry ticker goes on
(`payment_order_expiry_service.go:58`), so that an overdue order, or one that has still to run out,
is swept again and again: a notification that was acknowledged unread does not come back, and the
sweep's look at the provider is then all that finds the payment. No run assumes that a user's
verification or an administrator's retry happens. `sched` assumes that a worker goes on with what it
has begun, that the ticker of the full rebuild goes on ticking (`runFullRebuildWorker`), and that
Redis lets a lock run out after its 30 seconds; not that the poller is started or an event is
handled: `ListsSettle` holds by the full rebuild alone.

Each property of a passing run has a mutant: a plausible mistake in a mapped definition (a dropped
condition, a status not reset, a claim that is not compared), under which TLC finds the property
violated in the same configuration. The mutated operator stands right before the definition it
changes.

## 4. What is proved

The modules `…Proofs` prove, with TLAPS and for every value of the constants that the named
assumptions of each module allow (any number of orders, handlers, requests and faults, any times to
live, quotas and costs), that an inductive invariant `IInv` holds (`Invariance`), and from it the
type invariant and the safety properties of the component, each as a theorem of `Spec`. Those that
follow from the shape of the guards more than from an argument over several steps (the type
invariants of all modules but SchedulerSnapshot, `CreditOnlyForPayment`, `OneFulfiller`,
`OneRefunder`, `RefundIsFinal`) are proved and no longer also run. The argument is the same in each:
`IInv` is a conjunction of named parts; a lemma per part shows that every step keeps it (one proof
step per action that can disturb it); `InitIInv` and `NextIInv`, or the steps of `Invariance`,
combine them. TLC checked each `IInv` as an invariant before it was proved.

| module | theorems | why the properties are not inductive by themselves |
|---|---|---|
| PaymentOrderProofs | `CreditOnce`, `CreditNeedsPayment`, `CompletionIsTruthful`, `RebateOnce`, `FulfilmentIsExclusive`, `PaymentKept`, `LedgerImplemented` | the credit is tied to the code row (`CodeInv`), evidence of payment to every handler past the check (`PaidInv`), the lock to the handler's position (`LockInv`: the one holder outside RECHARGING is a completion whose answer was lost), completion to how far the fulfilment got (`SettleInv`), and each rebate to the audit row or to the user's own redemption (`RebateInv`). `CreateInv` says when the unconditional FAILED after a failed creation is harmless: if the provider does not have the order, nobody can pay it, so the handler is alone with it. For a doubtful order it is not: `OneFulfiller` and the part of `PaymentIsNotLost` about COMPLETED except it |
| PaymentRefundProofs | `RefundIsExclusive`, `RefundOnce`, `RefundTruth`, `FailureIsFree`, `RefundIsFair`, `FinalForEver` | what was taken for an order is exactly the deduction of the refund in progress (`TakenInv`), nothing is owed or paid back before `markOk` (`PaidBackInv`, over `Owed`), what a final status says was accepted (`TruthInv`), a plan's deduction is bounded by its amount (`PlanInv`) |
| SubscriptionOrderProofs | `GrantOnce`, `CompletionIsGranted`, `TermAndNotes` | a grant whose marker nobody overwrote is in the notes, and a handler on its way to a grant has not seen one (`MarkerInv`); what was read is noted too (`NotesInv`) |
| IdempotencyProofs | `MutualExclusion`, `FirstEffectOnce`, `ReplayMatches` | who can still reclaim a record saw it expired before any later claim (`SeenInv`, the argument against ABA as far as it goes), an owner's record is as it left it (`OwnerInv`), the first effect's record is in the row while it lives (`FirstInv`); all of it as long as `InTime` holds: no request was late, and the clean-up has not deleted a record within its life |
| RequestProofs, of ConcurrencySlots (here the invariant is `SlotsInv`, with `SlotsInvariance` and `SlotsTypeCorrect`) | `ServedHaveSlots`, `LimitIsKept`, `QueueIsKept`, `CountIsKept` | the script bounds the set (`SlotsBounded`), the limit follows from "served requests have slots" by cardinality; the queue's bound from "counted requests are in the counter or lost" (`QueueInv`) |
| RequestProofs, of UsageBilling | `ChargeOnce`, `ChargeWhole`, `TrueAnswer`, `OneAnnouncement`, `UsageKept`, `CrossingCloses`, `LedgerImplemented` | a fingerprint, once committed, is kept in the table or the archive; an open claim excludes every other delivery of its id; row locks make what a statement decided still true at the commit (`WroteInv`, `LockInv`, `DecidedInv`); so the commit is a charge of the ledger, with the event or with the drop that the statement found (`CommitIsCharge`), and no other step of a transaction shows |
| PlatformQuotaProofs | `CacheCounts`, `RowCounts`, `ChangesHold` | what each task holds and from when (`TaskInv`), that a charge's number is new (`NumberInv`), what the entry lacks for every entry on its way to Redis (`CacheInv`); the row is compared with the charges still being written directly (`DirectInv`, which also says that a write of one of today's charges has today's clock: the write that takes the row back to yesterday carries a charge of yesterday) or with the entry that the dirty set or a flusher stands for (`FlushInv`); a value on its way is marked when it is from before a change (`ChangeInv`). `RowsAssumption` names what a registration may have written |
| BillingCacheProofs | `ChargesCounted`, `CreditsSeen`, `CountOnce`, `StopIsClean` | the cached balance is written from balances that were read earlier, so whatever a queued or held balance may lack is bounded as the cached one is (`HeldInv`, `CachedInv`); a deduction is in one place only, the queue, a worker or a request (`PlaceInv`), and charges are numbered as they are made (`NumberInv`); a worker has ended only when the channel is closed and empty (`StopInv`). `ConstantsAssumption` has at least one worker, as the code has ten |
| SchedulerSnapshotProofs | `Lists`, `Copies` | the properties speak of a drained outbox only; between, what is *old* (lacks the account's last change and is not known to have missed it) is announced above the watermark, or an update has still to announce it (`ListInv` for lists and rebuilds with a version, `CopyInv` for copies and whoever holds rows). A change by the clock makes nothing old that is not noted in the same step (`TimeStep`). The watermark may move because of what a batch has handled: nothing of it is old, except in the buckets the batch has still to rebuild (`Due`), in those its own rebuild is about to replace (`OldFor`), and for events the batch does not have or has not come to (`Heard`), see below |

The argument for the scheduler has three turns that are easy to get wrong in the code. A batch
rebuilds a bucket once, at the first of its events that names it, although later events of the batch
may name it too; that is enough because every event of the batch was visible, hence its row
committed, before that rebuild read the rows (`BatchListInv`: for a bucket that was `seen`, only the
events the batch does not have count). A rebuild may lose its version to a newer one after its event
was handled; the newer one is then as new, or is noted in `late`, because the versions of a bucket
are ordered (`OrderInv`) and `OldFor` looks at every rebuild above the batch's own. An id that
commits late is passed by the watermark; it was open when the batch was listed (`gap`, kept by
`StageInv`), so `Mark` finds it and notes it as overlooked. A failed event, a failed rebuild or the
death of the poller ends the batch before the watermark moves, and the events are read again.
`Least` and `Largest` are the only places where the proof needs well-foundedness (of the event ids).

Only model-checked: liveness (`PaymentIsFulfilled`, `RefundingEnds`, `ListsSettle`), which is out of
the prover's reach, and the counterexamples. The refinements of the two ledgers are both checked
(`order_safety`, `billing_safety`) and proved (`LedgerImplemented` of PaymentOrderProofs and of
RequestProofs).

## 5. Where the code differs from what it says

Each run marked as a violation checks one sentence of the repository and finds a behaviour of the
code against it; `PROJECT.json` quotes the sentences.

| run | in short |
|---|---|
| `order_retry` | a fulfilment that dies after taking the lock leaves a paid order in RECHARGING, which neither the webhook nor the admin's retry accepts |
| `sub_race` | of two orders of one subscription fulfilled at the same time, one loses its days |
| `idem_expired` | two requests that find one expired record both execute |

Other limits of the code appear as the condition of a property that holds, and are what that
condition is for:

- `PaymentIsFulfilled` excepts an expired order: a payment made in the last moment of an order, with
  a notification after the grace period, is acknowledged and not credited (`alreadyProcessed`). It
  also excepts a cancelled order whose notification was acknowledged without being read
  (`payment_fulfillment.go:71-75`, `payment_webhook_handler.go:90-99`): the provider does not send
  it again, and no sweep looks at a cancelled order. A pending order has the sweep, so it needs no
  exception. FAILED after a failing call, or after a creation in doubt, is left to the
  administrator's retry.
- `RebatesAreAccounted` allows two rebates of one payment: the redeem endpoint accrues one without
  an audit row (`redeem_service.go:497`, `:551`), and the order, which finds no row, accrues its
  own. The comment at `redeem_service.go:35` says that the fulfilment handles the rebate separately
  "with audit-log deduplication"; the deduplication covers the fulfilment's rebates alone.
- `OneFulfiller` and `PaymentIsNotLost` except doubtful orders: `payment_order.go:455-464` sets
  FAILED without a condition, also over an order that is being fulfilled or is completed. The model
  lets the user pay such an order. No handler returns its `pay_url` after the failure, so whether
  that can happen depends on the provider; the properties do not rely on it.
- `RefundIsTruthful` and `TakesNoMoreThanPaidBack` except an order whose accepted refund failed at
  the provider later (`defaulted`): it stays REFUNDED and the deduction stays, because nothing asks
  for the outcome of a pending refund.
- `CompletedIsGranted` lets an order be completed by the marker of another (`LongerIds`): order 12,
  paid after order 120 was granted, is taken for granted.
- `OneExecution` and `EffectOnce` hold while no request outlives the lock and the record that it set
  for itself (`late`); nothing renews them. They also except a clean-up that deletes a record which
  was reclaimed between its snapshot and its deletion (`swept`): `idempotency_repo.go:221-231` does
  not look at `expires_at` again, and the next request executes next to the owner of the deleted
  record. Conversely the lock time of a processing record is not looked at while the record lives,
  so a request that died blocks its key until the record expires, and a stored answer that was cut
  at the length limit (`body = "truncated"`) is not replayed.
- `LimitHolds` and `ServedHasSlot` except the slots that lapsed (`expired`) and those that a
  starting instance removed from the others (`swept`).
- `UsageIsCounted` excepts an edit that saved a row it was behind of (`stale`): a charge between its
  read and its save is gone from `quota_used`.
- `LimitIsAnnounced` counts a dropped event as an announcement: within a second of another event of
  the account, the outbox does not take the one of the crossing. The poller may have handled the
  other before the charge commits; the lists then keep the exhausted account until another event or
  the full rebuild.
- `FailureCostsNothing`, `TakesNoMoreThanPaidBack` and `PaidBackOnce` except the orders with a
  balance call (`unrestored`) or a provider's refund (`unanswered`) that reported an error.
- `FailureCostsNothing` excepts an order whose roll-back failed: its retry finds the
  REFUND_ROLLBACK_FAILED row and deducts nothing (`payment_refund.go:292`); when the provider
  refuses again there is nothing to give back, so the order is set to COMPLETED and the answer says
  "rolled back" (`:391`) while the balance is still deducted.
- `ChargesAreCounted` and `CreditsAreSeen` except the operations that a queued balance overtook. The
  wrong balance stays as long as the user is active, because every deduction renews its time to live
  (`billing_cache.go:82`). The balance is also changed without any invalidation by a refund
  (`payment_refund.go:288`, `:415`).
- `failed` in BillingCache includes the deductions lost to a panic: `Stop` closes the channel and
  leaves `cacheWriteChan` set until the workers have ended, so an enqueuer that read the flag before
  the stop sends on a closed channel. `cmd/server/wire.go` stops the cache and the pool of usage
  tasks side by side; the pool recovers (`usage_record_worker_pool.go:322`) and drops the rest of
  that task, although the comment at `QueueDeductBalance` (`billing_cache_service.go:378`) wants no
  critical deduction dropped silently.
- `UsageIsCounted` and `RowIsRight` of the quota except what the code loses: a charge that meets no
  entry, or one of another day; an entry filled or refreshed from an earlier read; a first insert
  that meets a row whose window has no start. Such a row (a NULL window) makes the next hit after
  the fill zero the charges counted on it, so that even requests one after another pass the limit
  once more; the comment at `billing_cache_service.go:677` limits the overrun to requests in flight.
  `RowIsRight` also excepts the charges that a write with the clock of before midnight took away
  from the row of the new day. The comment at `billing_cache_service.go:1068` relies on the row
  there: the write heals the window by itself, and what is persisted is always right. The flusher's
  own comment (`user_platform_quota_flusher.go:178`) admits the race of two snapshots.
- `ChangeHolds` excepts a failed deletion of the entry: the log line at `user_handler.go:757` says
  that the change is then delayed by at most the sentinel's hour, but an entry with limits lives a
  day, and every charge renews it.
- `ListsFollowChanges` and `CopiesFollowChanges` except overlooked changes (section 2), those by the
  clock among them: when a rate limit runs out no event is written, and the lists lack the account
  until something else rebuilds them; `ListsSettle` shows that the full rebuild repairs the lists;
  of the copies it writes only those of listed accounts.

## 6. What is not modelled

`PROJECT.json` gives the reason for each component. In short: code without state of its own
(protocol translation, provider clients, prices and validation, views, reports), generated code,
external programs (backup, monitors), and the components the plan below still has: the key cache,
the refresh of OAuth tokens, the user message queue, the pools of usage tasks and websocket
connections, the usage clean-up with its leader lock, the system operation lock, the failover loop,
and the desktop client. Most of the repository's lines are of the first two kinds: the generated
`ent` package alone is larger than everything modelled here, and the gateway services translate
between the protocols of providers.

Within the modelled components: limits checked at the creation of an order; the administrator's
operations on codes and subscriptions; refunds of subscription orders; `ExtendProcessingLock`, which
only the system operation lock calls; the account's daily and weekly quotas and the key's rate
limit; an administrator's edits of accounts; the older billing path that is used when no billing
repository is configured; the cache of subscriptions and rate limits, the circuit breaker, simple
mode, the queues of several instances and a Redis call that takes effect and loses its answer (the
model's failing calls have no effect) in BillingCache; the weekly and monthly windows in
PlatformQuota; bulk and group events (among them `AutoPauseExpiredAccounts`, `account_repo.go:1307`,
which clears `schedulable` of all expired accounts under one full-rebuild event and leaves their
copies alone), the times that an older copy carries (a copy that is not equal to the row keeps its
verdict when the clock moves), the bucket of ungrouped accounts, platforms and modes, and updates of
credentials, which write no event, in SchedulerSnapshot; the administrator's change of a balance,
which is a read and a write (`admin_service.go:985`).

## 7. The plan

Done, in this order: PaymentOrder and PaymentLedger (where the money comes in), PaymentRefund,
SubscriptionOrder (where it goes out again or becomes days), Idempotency, ConcurrencySlots (what
protects the API), UsageBilling (where it is spent), then the copies that decide whether a request
is served: PlatformQuota, BillingCache and SchedulerSnapshot. The safety properties of all of them
are proved.

Next, most important first:

1. **AuthCache**: local and shared cache of keys over two instances, invalidation messages, negative
   entries; property: after an invalidation nobody admits a key for longer than the local time to
   live. Composed with the key of UsageBilling.
2. **OAuthRefresh** and **UserMessageQueue**: locks with a time to live, with and without a check of
   the owner.
3. **UsageCleanup** with the leader lock; the system operation lock as an extension of Idempotency;
   **UsageRecordPool** and **WsPool**: bounded queues and leases.
4. Extensions: pending and daily limits at the creation of orders, manual redemption and deletion of
   codes, refunds of subscription orders, the account's quotas and edits in UsageBilling, the
   failover loop of the gateway, bulk and group events in SchedulerSnapshot.

Theorems worth proving there: mutual exclusion of the user message queue under the condition that
owners are faster than their lock. The refinement of a single abstract "paid once, charged once"
account by PaymentOrder, UsageBilling and BillingCache together is the goal of the composition.
