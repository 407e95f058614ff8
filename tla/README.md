# TLA+ verification of the marketplace API

This directory holds a formal model of the marketplace back end in `src/`: a NestJS
API over PostgreSQL, an outbox relay, a RabbitMQ consumer, a BullMQ worker and a Redis
cache. The modules are translated from the TypeScript sources, checked with TLC on small
instances, and the most important results are proved with TLAPS for every value of the
constants. Every component that keeps state and can be raced, interrupted or delayed has a
module; section 7 names the rest. `PROJECT.json` lists components, runs, hazards, theorems, and
for every definition the source lines it stands for.

1. Inventory
2. The modules and how they correspond to the code
3. The runs: what is checked, with which bounds
4. Fairness
5. What is proved, and how
6. Where code and documentation disagree
7. What is only model-checked, and what is not modelled
8. The plan

## 1. Inventory

Paths are relative to `src/src/`.

| Component | State it keeps | Operations | Talks to | What is hard about it |
|---|---|---|---|---|
| Checkout (`checkout/checkout.ts`, `orders/place-order.ts`) | `orders`, `order_items`, `products.stock`, `users.balance_cents` | one transaction: reserve stock per product in id order, charge the buyer, insert order, items, task and outbox row | runs inside the idempotency transaction; feeds outbox and tasks | overlapping checkouts of the same products and buyers, lock order, partial failure, lost answers |
| Idempotency (`common/idempotency.ts`) | `idempotency_keys` | claim the key, replay the stored answer, refuse a key used for another body | wraps checkout and product creation | concurrent requests with one key, a row that disappears between two statements |
| Outbox relay (`events/relay.ts`, `relay.ts`) | `outbox` | select a batch FOR UPDATE SKIP LOCKED, publish, record the outcome, back off, bury | database, publisher; one in each API pod and one as a process | several relays at once, a crash between publish and commit, lost confirms, a lost session |
| Publisher (`events/publisher.ts`) | connection, confirm channel, pending `open()` | `connect`, `publish`, `deadLetter`, `close`, reconnect | RabbitMQ | connection loss while confirms are outstanding, two callers of `open()`, a channel that closes alone |
| Broker topology (`events/topology.ts`) | work, retry, dead-letter and unrouted queues | declared queues and their arguments | RabbitMQ itself is external | redelivery, delivery limit, TTL retries |
| Fulfilment consumer (`events/consumer.ts`, `consumer.ts`) | `processed_messages`, `shipments`, x-retry header | parse, mark + ship in one transaction, add the confirmation job, ack / retry / reject, stop | broker, database, job queue | duplicates, crashes between effect and ack, a handler per unacked message |
| Job queue (`queue/queue.ts`, `queue/jobs.ts`, `queue-worker.ts`) | BullMQ jobs in Redis | `enqueue` with a timeout and a jobId, three attempts, schedulers | Redis; consumer enqueues, worker processes, the refresh job works on the cache | an add that times out and happens all the same, a worker that dies in a job |
| Task worker (`tasks/worker.ts`) | `tasks` | claim one task with SKIP LOCKED, handle it in a savepoint, done or retry or failed | database | several workers, a handler that fails half-way |
| Order status and event stream (`orders/orders.service.ts`, `orders/order-events.service.ts`, `orders/order-status.ts`) | `orders.status`, `order_events`, the in-process `Subject`, per-stream `pending`/`last` | change a status and append an event, publish after the commit, replay missed events, then go live | database; SSE clients | commits and publishes in different orders, events between history and live stream, several processes |
| WebSocket gateway and owner guard (`orders/orders.gateway.ts`, `orders/order-owner.guard.ts`) | sockets and rooms of a process | open, join, emit, disconnect | the same `Subject` | ownership is checked at the join, events come later |
| Product card cache (`redis/cache-aside.ts`, `products/product-card.ts`) | Redis values, locks with tokens | `getOrLoad`, `release`, `invalidate` | Redis, database; checkout invalidates, worker refreshes | a value loaded before and stored after an invalidation, an expired lock |
| Auth tokens (`auth/auth.service.ts`, `auth/jwt.ts`, `auth/auth.guard.ts`) | `refresh_tokens`, `access_denylist`, keyrings in the configs of the processes | login, refresh with rotation and reuse detection, logout, authenticate, key rotation | database | revoking a family while a refresh inserts into it, processes that know different keys |
| Sessions (`redis/session.store.ts`) | `session:*` keys | create, touch, destroy | Redis | single commands: nothing to interleave |
| Rate limiter (`redis/rate-limiter.ts`) | a sorted set per client | `hit` (one Lua script) | Redis, clocks of the pods | clocks that differ, boundary of the window |
| Retention (`prune.ts`) | deletes from five tables | one DELETE per rule | database | takes away rows others still rely on |
| Retry helper (`common/retry.ts`) | none | runs a transaction again on 40001/40P01 | used by `demo-retry.ts` | conflicts that repeat, attempts at the limit |
| Pagination (`common/pagination.ts`) | none | cursor encoding, page building | order and product lists | orders that commit out of id order between two pages |
| HTTP layer, DTOs, health, config, OpenAPI, migrations, reports, demos, scripts | none of their own | plumbing | | not modelled, see section 7 |

What makes each part correct:

* **Checkout and idempotency.** One key, one order, whatever overlaps, fails or is
  retried; the books balance; nothing is oversold or overdrawn; a replay returns the
  original order; no two checkouts wait for each other in a circle; to its callers the
  endpoint is atomic.
* **Outbox and relay.** A committed order is handed to the broker or buried, and never
  forgotten; a settled outcome is never changed; several relays do not duplicate each
  other's work.
* **Consumer.** A message is answered only when its work is done or buried; the mark and
  the shipment go together; the customer of every shipped order is told; duplicates have
  no second effect.
* **The pipeline.** Every placed order is shipped once and its customer told, or its event
  lies in the dead-letter queue for an operator.
* **Event stream.** An order's events are its history without a gap. A client sees an event
  once, in order, and misses only what was published behind a later event. Only the owner and
  admins hear an order.
* **Cache.** A card is stale only for a known cause; one loader at a time while locks last; a
  lock is released by its owner only; every call ends.
* **Job queue.** A job completes, or is given up after its attempts.
* **Tokens.** A refresh token is exchanged once; after reuse or logout nothing of the family
  works any more; no token is refused without a cause while keys are rotated.
* **Tasks.** Each task is done once with its writes, or failed after its attempts with none; no
  task is left behind by workers that leave.
* **Publisher.** One connection per process, and publishing goes on when the broker is back.
* **Rate limiter and pages.** However late stamps are, no span of the window less the delay has
  more counted hits than the limit; a walk over the pages gives every order that was there once.

## 2. The modules and how they correspond to the code

```
 OrderBook  <--implements--  Checkout --EXTENDS--> Shop
                                ^
                        MCCheckout (instance)

 OrderFulfillment <--implements-- Delivery --EXTENDS--> Relay, Consumer --EXTENDS--> Broker
                                   Outbox  --EXTENDS--> Relay
                                   Fulfillment --EXTENDS--> Consumer

 OrderBook, OrderFulfillment  <--implements--  Backend --EXTENDS--> Checkout, Delivery
                                                  ^
                                          MCBackend (instance)

 OrderFeed <--implements-- Realtime --EXTENDS--> OrderRooms --> OrderStream --> OrderChanges
                              ^
                        MCRealtime (instance)

 Cards    --EXTENDS--> CacheAside, JobQueue                             (MCCards)
 Tokens   --EXTENDS--> SigningKeys
 Workers  --EXTENDS--> Tasks, TopUp, Publisher                          (MCWorkers)
 Pages    --EXTENDS--> RateLimiter                                      (MCPages)
```

The theorems are in `CheckoutProofs`, `DeliveryProofs`, `RealtimeProofs`, `CardsProofs`,
`TokensProofs`, `WorkersProofs` and `PagesProofs`; `Induction` has the lemmas about numbers,
finite sets and recursive definitions that several of them use.

### Shop, Checkout, OrderBook (POST /orders)

`Shop` has the data: requests with their `Idempotency-Key` and body, products, accounts.
Bodies are told apart as their fingerprints do; `Quantity[b]` is what the Map in
`checkout.ts` computes when it merges the lines of a body.

`Checkout` has one action per SQL statement that can wait or fail. PostgreSQL runs at READ
COMMITTED: `stored`, `orders`, `stock` and `balance` are the *committed* tables, and what an
open transaction has written is `pc[q]` and `reserved[q]` until its commit. A statement
that touches a row another transaction has written waits: that is the guard `ProductFree`,
`AccountFree` or `KeyFree`. A failing check needs no wait to be seen (the row as committed
already refuses), but is also evaluated again after one, so `ReserveRefused` and
`ChargeRefused` have no such guard.

| Action | Code |
|---|---|
| `Claim` | `INSERT INTO idempotency_keys ... ON CONFLICT DO NOTHING RETURNING` |
| `Lookup` | the SELECT of the stored fingerprint, replay or `IdempotencyKeyReuseError` |
| `Reserve`, `ReserveRefused` | `UPDATE products ... WHERE stock >= $2`, product by product in id order (`IsNextLine`) |
| `Charge`, `ChargeRefused` | `UPDATE users ... WHERE balance_cents >= $2` |
| `CommitOrder` | the INSERTs of order, items, task and outbox row (they conflict with nobody), the key's result, COMMIT |
| `Lose` | any error, timeout or crash: rolled back, or committed with the answer lost |
| `PruneKey` | `prune.ts` deletes keys older than 24 hours |

`OrderBook` is the same endpoint as its caller may think of it: each request takes effect in
one step. `ImplementsOrderBook` says that `Checkout` implements it.

### Broker, Relay, Consumer and the pipeline

`Broker` is RabbitMQ as `topology.ts` configures it: the quorum work queue with its delivery
limit, the TTL retry queue that flows back into it, the dead-letter queue. Queues are bags:
several consumers prefetch, returned messages rejoin, so the code cannot rely on an order.
A dead-lettered message stays; the queue is a set of events.

`Relay` is the outbox table and any number of relays. A pass is a transaction:
`SelectBatch` locks the oldest due rows nobody else holds, each row is published
(`PublishConfirmed` / `PublishFails`), buried when its attempts are spent (`BuryConfirmed` /
`BuryFails`), and updated in the transaction's `draft` (`UpdateRow`); `Commit` makes the
draft the rows. `PublishFails` covers a lost confirm: the broker may have the message.
`LoseSession` is the server ending the session under a relay that goes on publishing and
finds out at its next statement (`Abort`); `RelayCrash` is kill -9 at any point.
`PlaceOrder` stands for a checkout's commit, `PruneOutbox` for `prune.ts`.

`Consumer` has a handler per unacknowledged message. Its stages follow the awaits of
`handle()`: received, `Mark` (insert into `processed_messages`, waiting for a concurrent
transaction of the same event), `CommitShipment` (shipment and COMMIT), `EnqueueConfirmation`
(the `afterEffect` hook, also for duplicates), `Ack`; or `EffectFails` / `EnqueueFails` /
`OrderMissing`, then `ScheduleRetry` or `GiveUp`. `ConsumerCrash` loses a process with all
its handlers; `ReturnToQueue` is the broker taking a message back and counting it;
`StopConsuming` and `Replaced` are the graceful shutdown.

`Outbox` and `Fulfillment` close the two halves on their own, so that each can be checked
with more events and faults than the whole allows; in `Fulfillment`, `Arrive` is anybody
publishing. `Delivery` composes both over the one broker. `OrderFulfillment` is what the
pipeline promises with none of its machinery: `ImplementsPromise` is its specification under
the mapping `placed <- {e : the outbox row exists or existed}`, `aside <- dlq`.

`Backend` puts the checkout before the pipeline. `checkout.ts` inserts the outbox row in the
transaction that inserts the order (`InsertOutboxRow`), so the commit of an order is the
`PlaceOrder` of `Relay` and no other step is; a request and the event of its order have the same
number. What relays, broker, consumers and `prune.ts` do to the outbox leaves the checkout alone,
and pruning a key leaves the pipeline alone.

### OrderChanges, OrderStream, OrderRooms and Realtime (status events)

`OrderChanges` is `PATCH /orders/{id}/status`. `Lock` is `SELECT ... FOR UPDATE`, `Refuse` a
missing order or a transition that `order-status.ts` does not allow, `Commit` the status with
its `order_events` row (`record`: the next `seq` of the order), `Publish` the call of
`OrderEventsService.publish` after the transaction, `Fail` a transaction that fails,
`CommitUnheard` one that commits with the answer lost, so that its event is in the history and
never published, `Crash` a process that dies with its changes, before or after they are committed.

`OrderStream` is an SSE client over all its connections. `Connect` passes the owner guard and
subscribes to the process's `Subject` with the client's Last-Event-ID; `ReadHistory` is the
query, `Replay` hands over the history and what was heard meanwhile (`pending`) and goes live,
`Hear` is an event of the `Subject` in any of these stages, `Arrive` what the client really
receives of what was written to the socket. `deliver()` drops ids not above `last` (`Deliver`);
`Delivered` does it for a list of events, one after the other. `OrderRooms` is the socket.io
gateway with the same guard; a socket goes by itself (`Leave`) or with its process.

`Realtime` composes them: `Subject.next` calls its subscribers synchronously, so `Announce` is
one step of the change, the streams and the rooms of that process. `Down` takes a process with
everything that hangs on it. `HistoryFails` is a failing history query: `stream()` forwards the
error to a subscriber without an error handler, RxJS throws it outside any request, and the
process dies of it. That is modelled as the code has it; no text of the repository speaks of it.

`OrderFeed` is the same endpoint as a reader may think of it: an order has a history that only
grows, and the reader is shown events of it, each after it was recorded and after those shown
before. `ImplementsFeed` is its specification under `history <- log`, `feed <- shown`. It allows
events to be missed, since the code does (section 6); which ones is what `NothingBetween` says.

### CacheAside, JobQueue and Cards (product cards)

`CacheAside` is `getOrLoad` with a step per await: `Call` (GET), `TakeLock` / `LockTaken` (SET NX
PX), `WaitedHit` (the polling wait of the others), `Load`, `Write`, `Release`
(`RELEASE_IF_OWNED`); `ReadFails`, `LockFails`, `WriteFails`, `ReleaseFails` are Redis failing at
each of them, which the code answers by loading directly or by carrying on; `PollFails` is EXISTS
failing in the waiting loop, which the code answers by raising (section 6), `LoadFails` the
database failing. A SET NX that fails may have taken the lock, which is then left to its PX.
`LockExpires` is the PX of a lock left behind, `LockOutlived` that of one whose call is still at
work, and the auxiliary `outlived` names the calls it has happened to; `Expire` is the value's. A
card is the version of the product it was loaded from.

`JobQueue` is the BullMQ queue with three attempts: `TakeJob`, `Complete`, `Throw`,
`BackoffEnds`, and `WorkerDies`, after which a job comes back as stalled once. `Cards` adds what
changes the products and their cards: purchases that invalidate after their commit
(`Buy`, `Invalidate`, `NotInvalidated`), cancellations and new products, which do not
(`Cancel`, `Create`), and the `catalog.refresh` job as a caller of the same cache
(`Start`, `RefreshNext` with its DEL, or `NotDropped` when that fails, `RefreshCall` or
`RefreshReadFails`, `Finish`, `Again`, `Die`).

### SigningKeys and Tokens (authentication)

`SigningKeys` has the config each process runs with. The README's rotation of the signing key
is three config changes, rolled out process by process (`Rotate`); a token carries the `kid` it
was signed with. `Tokens` is `AuthService` over `refresh_tokens` and `access_denylist`. A pair is
a refresh token and the access token issued with it. `Exchange` is the `SELECT ... FOR UPDATE`
that finds a good row and the INSERT of the next one, `CommitExchange` its commit. `Reuse` is the
same SELECT finding a spent or revoked row. `revokeFamily` is one UPDATE at READ COMMITTED:
`Sweep` takes its snapshot, `RevokeRow` goes on to a row when nobody holds it, `CommitRevoked`
commits; `DeadlockVictim` is the server ending one of several UPDATEs that wait for each other,
`Abort` a transaction that fails. `GuardAnswer` is `AuthGuard`. The auxiliary `escaped` names the
pairs a refresh added to a family while its revocation was under way, and `killed` the families
whose revocation was answered.

### Tasks, TopUp, Publisher and Workers

`Tasks` is the pool of `tasks/worker.ts`: `Claim` (SELECT ... FOR UPDATE SKIP LOCKED), `Write` and
`Finish` or `Fail` (the savepoint goes, the attempt stays), `FindNone` and `Count` (the loop's exit:
nobody leaves on "nothing to claim" alone), `Die`. `TopUp` is `withRetry` at the transactions of
`demo-retry.ts`: a REPEATABLE READ balance that is read, conflicts and runs again. `Publisher` is
`EventPublisher` in one process: `Send` opens a connection when there is none, `Dialed` and
`Checked` are `connectAndCheck` (the exchange must be there), `Confirmed` the confirm;
`ConnectionLost`, `BrokerDown`, `ChannelClosed` and `Refused` are what may end each of these, and
`Close` the shutdown of the relay process.

`Workers` closes the three for one run. They share no variable, so steps of different parts
commute and every behaviour projects to one of each part; `part` chooses in the initial state
which of them moves, which leaves out nothing that a property of a single part could tell.

### RateLimiter and Pages

`RateLimiter` is the Lua script of `rate-limiter.ts` for one client. The stamp is taken in the
guard (`Send`) and the script runs up to `MaxDelay` later, so stamps may come out of order;
`Allow` and `Refuse` are the two outcomes of the script, with the trimming of old hits, the
key's PEXPIRE and Retry-After; `LetThrough` is the guard when Redis fails, before the script ran
or after it, with the hit counted and the answer lost. The processes are taken to share one clock,
and what they differ by is part of `MaxDelay`.

`Pages` walks `GET /orders` behind that limiter while orders are inserted (`Insert`: the id is
taken) and committed (`Commit`: it can be read) in any order. `Page` is `findAll` with `buildPage`:
one row more than the limit is asked for, the cursor is the last row shown. The OpenAPI contract
refuses a limit below 1 before the code sees it, hence `PageLimit \in Nat \ {0}`.

Definitions whose comment starts with "Bug:" are not part of the specifications. Each is a
mutated form of the definition after it, and the mutants in `PROJECT.json` use them to show
that every checked property can be broken by a plausible mistake in the code.

## 3. The runs: what is checked, with which bounds

| Run | Module, cfg | What it asks | Properties |
|---|---|---|---|
| `checkout` | `MCCheckout` | six overlapping requests: a retry, a key used for another body, a race for the last unit, a buyer who cannot pay everything, an unknown product, an unknown buyer; one key pruned, two requests lost | `OneOrderPerKey`, `BooksBalance`, `ReplayIsOriginal`, `NoDeadlock`, `ImplementsOrderBook`, `EveryRequestAnswered` |
| `refusal` | `MCCheckout`, `MCRefusal.cfg` | is a refused key always one used with another body? (no: section 6) | `RefusedForAnotherBody` |
| `outbox` | `Outbox` | two relays, two events, three faults | `SettledMeansHandedOver`, `DuplicatesOnlyFromFaults`, `OutcomeIsFinal`, `EventuallySettled` |
| `fulfillment` | `Fulfillment` | two consumer processes, one good, one malformed and one orderless event, two faults, retries and delivery limit reached | `NoMessageLost`, `ProcessedMeansShipped`, `ConfirmationOwed`, `NothingForMissingOrders`, `EventuallyFulfilled` |
| `backend` | `MCBackend` | from the request to the warehouse: a request and its retry, one lost answer, one pruned key, a relay and a consumer with one fault | `ShippedAsSold`, `AnsweredIsCarried`, `ImplementsPromise`, `EveryOrderSettled` |
| `stream` | `MCRealtime` | two changes of one order and one of another in two processes, an SSE client with two connections, a socket that tries both rooms, one crash | `StatusFollowsEvents`, `NothingBetween`, `OnlyOwnersHear`, `ImplementsFeed`, `StreamCatchesUp` |
| `gap` | `MCRealtime`, `MCGap.cfg` | does a reconnect replay whatever was missed? (no: section 6) | `MissedIsReplayed` |
| `cards` | `MCCards` | two readers, a refresh job and a failing job over one card that is created, bought and returned, one fault | `OneLoaderPerLock`, `StaleForCause`, `GivenUpForCause`, `OnlyOwnLockReleased`, `EverythingSettles` |
| `tokens` | `Tokens`, `MCTokens.cfg` | three pairs of one family, two concurrent calls, two processes, a rotation of the key, pruning | `OneSuccessor`, `RevocationReaches`, `RefusedForCause`, `SomeCallGoesOn` |
| `revoked` | `Tokens`, `MCRevoked.cfg` | is a family dead once its logout is answered? (no: section 6) | `RevokedFamilyIsDead` |
| `workers` | `MCWorkers` | three workers over four tasks, two deaths; four top-ups; a publisher with three breaks | `SettledOnce`, `LastOneOut`, `EveryTopUpCounts`, `OneKnownConnection`, `PublisherRecovers` |
| `pages` | `MCPages` | an admin and an owner at one address over three orders, limit 2 in a window of 3, one outage | `LimitHolds`, `WalkMissesNothing` |

The bounds are constants of their own:

* `MaxFaults` bounds crashes, lost confirms, lost sessions, failed calls and shutdowns
  together. Two or three are enough for a crash to meet a second fault during the recovery
  from the first; a single relay pass already needs two to bury a row and lose the confirm.
  In `Cards` one fault at any of its places is enough: a lock that runs out under its call is one
  already, every other must let no second loader in by itself, and the theorems have any number.
* `MaxRetries`, `DeliveryLimit`, `MaxAttempts`, `Batch` are the code's constants (3, 3, 5, 100)
  made small, so that the limit is reached and passed in a run. In `outbox`, `Batch = 2` lets a
  pass hold two rows while the other finds none; in `backend`, `Batch = 1`.
* `backend` asks what only the whole can show: that a lost answer, a retry and a pruned key on
  one side and a fault on the other keep orders, rows and shipments together. With `MaxPrunes = 1`
  the retry may order again, so two orders are under way. One fault is a lost confirm, a crash or
  a burial (`MaxAttempts = 1`); several relays, consumers and faults meet in `outbox` and
  `fulfillment`, and the theorems about `Backend` have any number of each.
* `MaxCopies` bounds what arrives in the closed-off `Fulfillment`. Further copies of an event
  come from crashes after the retry copy is published, which the faults provide.
* `Slots = {1}` with two processes: two handlers interleave. Two handlers of one process
  differ only in that they crash together.
* `MaxPrunes`, `MaxLost`: one pruned key is enough for both the second order of a key and the
  row that vanishes between two statements; two lost requests are enough for a committed and
  a rolled-back one.
* `MCBalance` and `MCStock` are chosen so that every refusal happens after some locks are
  taken, and so that two requests of one buyer with no product in common meet at the account.
* `stream`: two changes of one order are the least that can be published in the wrong order,
  the third shows that orders do not disturb each other; `MaxConnects = 2` is one reconnect. A
  crash or a lost answer may fall between a commit and its publish.
* `MaxVersion = 3`: created, bought, cancelled. The refresh and the failing job share one worker
  slot, so that a death takes whichever is active.
* `tokens`: three pairs are a login and two refreshes, or a token presented twice and its
  successor; with two calls every transaction meets every other, a refresh meets a revocation,
  and two revocations meet. `TokensProofs` does not depend on either number.
* `workers`: tasks that succeed, fail once and fail always; two deaths with three workers leave
  one. `MaxRuns = 4` equals the number of writers, the least for which nobody gives up
  (`TopUpAssumption`); `demo-retry.ts` allows five more.
* `pages`: the window of 3 with a delay of 1 lets a late stamp meet a hit that is about to leave
  and a key that expires; `PageLimit = 1` gives three pages and an empty last one.

Runs stop when everything is settled and nothing more may fail, so `CHECK_DEADLOCK FALSE` is
set: an idle system is not an error here. That nobody waits for ever is said by `NoDeadlock`,
`SomeCallGoesOn`, the liveness properties and the theorems named `...GoOn` instead.

## 4. Fairness

* A request, a relay or a handler whose next statement can run will run it (weak fairness of
  `Step(q)` in `CheckoutFairSpec`, of `RelayStep(r)` and `HandlerStep(h)` in `RelayFairness` and
  `ConsumerFairness`; `BackendFairSpec` has the last two, and requests owe nothing there: the
  property speaks of orders that were placed). These are awaits in running processes; a relay
  re-arms its timer after every pass, failed or not (`relay.ts`, `start`), and a crashed process
  is started again by its supervisor. Weak fairness is enough because the waits are
  for transactions that end (`CheckoutsGoOn`, `PipelineGoesOn` in section 5).
* Timers elapse: `BackoffElapses`, `RetryExpires`.
* The broker delivers what is ready, and takes back what a dead channel held:
  `Receive`, `ReturnToQueue`. A stopped process is replaced: `Replaced`.
* A committed status change is published, and an SSE stream reads its history, replays and
  passes on what it has written (`Announce`, `ReadHistory`, `Replay`, `Arrive`): promises of a
  running process. Clients owe no reconnect.
* A `getOrLoad` call goes on, locks left behind expire (`PX`), jobs are taken, finished and come
  back from their back-off (`CallStep`, `LockExpires`, `JobStep`, `RefreshStep`).
* The publisher dials, checks, sends again and gets its confirms (`PublisherStep`); that the
  broker comes back is not assumed: `PublisherRecovers` speaks of a broker that is up.
* Nothing that goes wrong is fair, and neither are new orders or pruning.

Under the fault bound, faults stop eventually. The liveness properties therefore say: once
the environment lets them, the processes finish the work, whatever state the faults left
behind. They do not say that work finishes while every publish fails.

## 5. What is proved, and how

All theorems are for every value of the constants, under the `ASSUME`s of the modules.

**Pipeline** (`DeliveryProofs`). `NoOrderForgotten` (in every state each order's event is
pending, in transit, shipped or with an operator) is not inductive: a pass
that has drafted a row "published" will overwrite the committed row with it, long after the
publish. `Inv` in `Delivery` adds what the drafts rest on (`DraftsBacked`), that everything in
motion is about a committed order (`OnlyPlaced`), and that a handler past its commit has a
shipment behind it (`AppliedMeansShipped`). There is one lemma per action and `Invariance`
combines them. From it:

* `NothingForgotten`, `ConfirmationNeverDropped`, `HandedOver`, `MarkHasShipment`: the safety
  properties of the runs. `HandedOver` and `MarkHasShipment` are stated of the composed
  specification, where consumers and relays disturb each other's broker.
* `TypeCorrect` is a separate induction, since everything else uses it.
* `LocksApart`: two passes never hold one row, and a held row is pending. `OutcomesStand`
  follows: only a pass that still holds its rows commits, and those rows were pending.
* `PromiseKept`: `Spec => ImplementsPromise`. `Inv` is what makes a `GiveUp` or a burial one of
  an order that was placed, and so a `PutAside` of the abstract specification.
* `NoMessageDropped`: no accepted message is answered before its work is done or buried, in the
  composed system.
* `CopiesNeedFaults`: `accepted[e] <= 1 + faults` for any number of relays. The
  invariant `CopiesInv` gives every accepted copy of an event somebody who accounts for it: one
  is vouched for by its row or by the pass that holds it (`Vouched`), every other by a fault, and
  so is every pass that has lost its session unawares and may still publish (`Unaware`). A lost
  session then moves an event from one side to the other at the price of its fault, and never
  both: a row that is drafted is no longer in the pass's list.
* `OnlyRealOrders`: nothing is done for malformed events and missing orders.
  `ChecksPassed` says what each stage of a handler has behind it; for a duplicate it is the mark
  of an earlier transaction, by `ProcessedMeansShipped`.
* `PipelineGoesOn`: while an order is not done with, the guard of some relay, handler, broker or
  timer step holds. Somebody answers for the order by `Inv`; a row others have locked leads to the
  pass that holds it, a mark another transaction has made to that transaction's handler, a message
  to a handler that is free or to a process to be replaced.

**The whole** (`DeliveryProofs`, last part). `PartsOfTheWhole`: a behaviour of `Backend` is one of
`Checkout` and one of `Delivery`, since each step of the whole is a step or a stutter of either.
So all the theorems of both hold of it, and `WholeKeepsBoth` names the two refinements. What
neither can say alone: `RowsMatchOrders` (an outbox row for every order and for nothing else, by
`InsertOutboxRow`), with it `AnswersAreKept` (whoever was answered 201 has an order somebody
answers for, from `ReplayIsOriginal` and `NoOrderForgotten`) and `SoldAndShipped` (shipments per
key and per product are bounded by orders, from `OneOrderPerKey`, `BooksBalance` and `OnlyPlaced`).
`Requests = Events` is the numbering of `Backend`, not a restriction.

**Checkout** (`CheckoutProofs`). `CheckoutInv` says who holds what: at most one transaction is past
the claim of a key (`ClaimsHold`), a reservation stays covered by the committed stock because
nobody else can write that row (`ReservationsHold`), the same for the charge (`ChargesHold`),
and key rows are unique (`KeysUnique`). From it:

* `CheckoutIsAtomic`: `Spec => ImplementsOrderBook`. The commit is the linearization point: all
  reservations and the charge still hold there, so the whole purchase can happen at once.
* `NothingOverdrawn`: stock and balances are natural numbers in every state, so the CHECK
  constraints of `products` and `users` never fire.
* `OneOrder`: the orders of a key are counted exactly (`OrdersCounted`): its row, if there is
  one, and those whose row was pruned.
* `DeadlockFree`: `ReservedInOrder` says locks are taken in the order of the product ids. Who
  is waited for and waits itself, waits for a product larger than all it holds (`WaitsUp`);
  so in a set of requests that all wait within the set, the one whose product is largest
  would wait for nobody. `NoCircle` makes this an argument about a well-founded order on the
  product ids.
* `BooksAreBalanced`: to the unit and the cent, what is gone from stock and balances is what the
  committed orders took. `BooksBalance` is preserved together with `CheckoutInv`: a commit adds one
  order to two sums over finite sets (`UnitsFacts`, `CostFacts`) and writes the difference.
* `CheckoutsGoOn`: while a request is unanswered the guard of some request's `Step` holds
  (`StepReady`): who cannot go on waits for another one that is open (`StuckWaits`), and if all did
  that would be a circle, which `NoCircle` excludes. `CheckoutsEnd`: every move of a request lowers
  the number of statements it has left (`StatementsLeft`), and no move of another raises it. The two
  are `EveryRequestAnswered` but for the fairness.

**Status events** (`RealtimeProofs`). `ChangesInv`: a change that holds the row lock has read the
status that is still there (`LocksFresh`), so its event continues the history: `HistoryIsComplete`.
`ClientsInv`: every room a socket is in, and every stream that is open, belongs to an order its
user may see, so what either is told does: `OthersHearNothing`.

The other three rest on `StreamInv`, which says of every stream what it has heard (`Heard`: the
positions of the bus since it subscribed, in its process), and then

* what it keeps before the replay is what it heard, in that order (`KeptInOrder`);
* what is on the wire continues what the client has, and `last` is the end of it (`InOrder`);
* once live, it has passed on what the history query saw and all it heard before any later event
  (`PassedOn`).

`DeliveredFollows` says what `deliver()` makes of any list of events, whatever their order. From
these `StreamsInOrder` (the property `InOrderOnce` of `OrderStream`) and `NothingFallsBetween`.
`FeedInv` adds that nothing is asked for, read or shown that is not in the history; with it every
step shows a client one more event of it, or records one, or stutters: `StreamIsFeed`, that is
`Spec => ImplementsFeed`.
`StreamsGoOn`: an open stream with nothing to read, to replay or on the wire has shown its client
the newest event it owes. Besides `NothingBetween` this takes that a client never has less than the
Last-Event-ID its stream was opened with (`Rejoined`).

**Product cards** (`CardsProofs`). `CardsInv`: a loaded card is that of the database unless a change
has overtaken its load (`LoadsAreFresh`), which is what makes the write of a stale card have one
of the causes `StaleForCause` names: `StaleHasCause`. A call that works behind a lock has it unless
that lock has run out under it, and then it has it no more (`LocksKept`). So of two calls that load
one card behind its lock one has outlived it: `SingleFlight`; and what takes a lock from a running
call is its own release or its expiry: `LocksAreKept`, an action property.
`JobsGetTheirAttempts` is an induction over the queue alone. `CardsGoOn`: while a request or a job
is not at its end some call, lock expiry or job has a step to take. A call that waits for a lock
leads to its holder, which goes on or has left the lock to expire (`CallGoesOn`); a job that waits
for a slot leads to one that is active, and a refresh is inside `getOrLoad` only while its job is
(`RefreshesInJobs`).

**Tokens** (`TokensProofs`). `TokensInv` has five parts. `RotationHolds`: the processes are one
config apart at most, and the old key is dropped only when no token of it is left. `RowsHold` and
`LocksHold`: what a call has locked is of its family and locked by no other, and a row it is
about to insert is nobody's. `SuccessorsHold`: who has a successor is spent. `RevocationHolds`: a
revocation under way has every row of its family in hand, still to do, dead, or escaped. From it
`ExchangedOnce`, `RevocationIsComplete` and `RotationIsSmooth`. `CallsGoOn`: while calls are under
way, the guards of one call's next step hold (`Ready`). If none could go on, each busy call would
wait for rows held by other busy calls, and that is the circle of which PostgreSQL ends one.

**Workers** (`WorkersProofs`). `TasksInv`: a claimed row is pending and claimed once, with the
writes of its own transaction only (`TasksSettleOnce`), and who leaves has seen no pending row
(`PoolIsLeftEmpty`). `TopUpInv` counts: each conflict of a writer is another's commit since its
last snapshot, so with `MaxRuns` at least the number of writers nobody gives up
(`TopUpsAllCount`). `PublisherInv` relates the connection that is held, the one that is being
opened and those that exist (`NoStrayConnection`). `PublisherGoesOn`: who awaits `open()` awaits a
connection that is dialled or whose channel is there to be checked, and who awaits a confirm
awaits it on an open channel (`WaitsEnd`), so until it is closed the publisher has a step to take.

**Limiter and pages** (`PagesProofs`). `RateInv`: a hit that still counts in some span is in the
bucket, because the script drops it and Redis expires the key only when its window has passed
(`ForgottenInTime`); so the script that counts one more (`CountsKeep`) has seen all of a span of
`Window - MaxDelay`, whatever stamps came late: `LimitIsKept`. Of a whole window this holds without
delays only: with a limit of 2 and a window of 3, stamps 0, 0, 3 and then a late 2 are all counted,
and three of them lie in [0, 3). `WalkInv`: up to its cursor a walk has been given all it had to
be given, in order, and nothing beyond (`Walked`). `PageIsPrefix` says what one page is: the
smallest of the rows found, sorted, so nothing is skipped between it and its cursor:
`WalkIsComplete`.

**Induction.** The library's induction theorems take a predicate as a parameter, which the provers
cannot instantiate. `Induction` states what is needed with a *set* in the place of the predicate:
`UpTo` (what holds of 0 and is passed on holds up to n), `AllParts` (the same over finite sets).
`Iterate` says that a function defined step by step up to n exists and is the only one, which
gives `Delivered` its value; `SumFacts` says the same of a sum over a finite set; `Sortable` and
`SortedIsComplete` that a finite set of numbers has its sorted sequence and that this misses none.

Assumptions. Besides typing, the constants need little: requests, products, relays and writers are
finite sets where they are counted or summed, `MaxRuns >= Cardinality(Writers)`, `Window >
MaxDelay`, `Concurrency > 0`, that refreshes are not requests, that the initial route of a change
names a process, and that stream clients ask for orders that exist (for others the owner guard
answers 404). `Products \subseteq Nat` is what `Number(a) - Number(b)` in `checkout.ts` relies on.
That the total of a body is a natural number is not assumed: `TotalType` proves it of the sum.

## 6. Where code and documentation disagree

`IdempotencyKeyReuseError` says that the key "was already used with a different request body"
(`common/idempotency.ts:11`), and the API description in `src/README.md:171` promises the same
answer for the same key and body. `idempotency.ts:40` raises it also when the SELECT finds no
row. That happens when the retention job deletes the key between the INSERT that met it and
the SELECT: at READ COMMITTED the two statements see different snapshots. The `refusal` run
shows it: a client retries its own order after 24 hours and is told that it used the key
for something else.

`src/README.md:887-888` says that an SSE reconnect to any instance replays what was missed. Events
are published after their commit, each in a step of its own
(`orders/orders.service.ts:102`), so two changes of one order can be published in the other
order. `deliver()` then drops the earlier one (`order-events.service.ts:70`), and since the client
has been shown the later id, no reconnect asks for the earlier. The `gap` run shows it.
`NothingBetween` says exactly what a live stream does owe, and holds.

`src/README.md:1482` says that once `revoked_at` is on the family a refresh token is dead.
`revokeFamily` (`auth/auth.service.ts:160`) is one UPDATE at READ COMMITTED: a refresh that has
locked its row and inserted the next one, but not committed, is waited for, and the new row is not
in the UPDATE's snapshot. It stays exchangeable after the logout was answered. The `revoked` run
shows it; `RevocationReaches` says that this is the only way anything survives.

`src/README.md:1265-1266` says of the cache that every Redis operation is wrapped ("кожна операція
з Redis обгорнута") and that with Redis unavailable one goes to the database directly. The EXISTS
of the waiting loop (`redis/cache-aside.ts:79`) is in no try: when it fails, `getOrLoad` rejects
and the request with it, although the database could have answered. `PollFails` has it as the code
does; `EverythingSettles` counts such a call as ended, and no other property depends on it.

Three remarks that contradict no text. `StaleForCause` names all that leaves a stale card for its
TTL: a change that overtakes a load, a lost DEL or a process that dies before it, a cancellation,
and a product created while its absence is cached. A channel that the broker closes without the
connection stays in `this.channel`, and publishes fail until the connection goes too
(`StaleChannel`; `src/README.md:951-952` promises reconnection after a lost connection only).
`HistoryFails` is described in section 2.

## 7. What is only model-checked, and what is not modelled

Only with TLC: everything under fairness (`EventuallySettled`, `EventuallyFulfilled`,
`EveryOrderSettled`, `EveryRequestAnswered`, `StreamCatchesUp`, `EverythingSettles`,
`PublisherRecovers`), and that the guards `Ready(c)` are all that `ENABLED CallStep(c)` asks for,
which `SomeCallGoesOn` checks: liveness and ENABLED are out of the prover's reach. What is proved
of these properties is the part that needs neither: `CheckoutsGoOn`, `CheckoutsEnd`,
`PipelineGoesOn`, `StreamsGoOn`, `CardsGoOn`, `CallsGoOn` and `PublisherGoesOn` say that the
*guards* of the fair steps never all fail while something is left to do. The guards are written
out as formulas (`StepReady`, `CallReady` and the like), and TLC agreed on the instances of the
runs that they are what `ENABLED` of the steps means. What the theorems leave open is that the
steps taken come to an end and that every process gets its turn. Every other property of a passing
run is a theorem of section 5.

Not modelled: sessions (each operation is one Redis command on one key, nothing can come between);
scrypt and the timing of the login; the text of messages, DTO validation, controllers and OpenAPI
contract (stateless); the product search (a query); migrations (the schema they produce is what
the modules assume); configuration, health checks, reports, seeds and demo scripts (no logic of
the system); backup, restore and password rotation scripts (operations outside the program).
Money and stock are `integer` and `bigint` columns guarded by CHECKs; the model uses natural
numbers and does not reach their limits. The unrouted exchange is not modelled: the topology
binds the only event type. PostgreSQL, RabbitMQ, Redis and BullMQ themselves are external; the
model has what the code relies on of them, and PostgreSQL is taken to keep what it committed.
Redis is taken to lose keys at any time (`Expire`, `Evict`), but not to lose a lock without an
expiry.

## 8. The plan

Done: every component with state that others can race, checkout and pipeline as one system, the
runs, and the theorems of section 5.
What could follow:

1. `Tasks` in `Backend`: the new task, like the outbox row, a part of the checkout's commit instead
   of a given set.
2. `Publisher` as the sender `Relay` assumes: its `last` refining `PublishConfirmed` and
   `PublishFails`.
