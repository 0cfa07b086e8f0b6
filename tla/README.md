# Verification of inventory_management

TLA+ models of the order system of this repository, TLC configurations that
check them on small instances, and TLAPS proofs of what matters most for
instances of every size. File names below are relative to the repository's
`src/` root; `worker.js:60` is line 60 of that file.

## The system

Four kinds of process and four stores:

| Part | Code | State it keeps | Operations |
|---|---|---|---|
| API | `commands/CreateOrderCommandHandler.js`, `controllers/OrderController.js`, `events/*` | one request handler per order | check the request, save, publish `order.created`, publish a snapshot, answer 202 or 400 |
| Order worker | `worker.js`, `worker/retryPolicy.js`, `services/OrderProcessingService.js` | the message it works on, what it has read | find, check stock, decrement stock, decide, publish a snapshot, acknowledge; on failure retry or dead-letter |
| Sync worker | `syncWorker.js`, `readmodel/*` | up to five unacknowledged snapshots | upsert, acknowledge, requeue |
| Queries | `queries/*` | none | read one document, or fifty |
| MySQL | `schema.sql`, `repositories/*` | orders with a version, their lines, `quantity_available` per product | save in one transaction, guarded UPDATEs one statement at a time |
| RabbitMQ | `config/rabbitmq.js` | processing, retry, dead-letter and snapshot queues | deliver, take back what a closed channel held, expire a TTL into the processing queue |
| MongoDB | `config/mongo.js` | one document per order | replace |
| Authentication | `services/AuthService.js`, `controllers/AuthController.js`, `repositories/RefreshTokenRepository.js`, `UserRepository.js` | one request handler per call; accounts and refresh tokens in MySQL | register, log in, refresh, log out |
| Gateway | `middleware/*`, `routes/orderRoutes.js`, `app.js`, `config/redis.js` | the requests on their way to a handler, one connection to Redis | limiters, `authenticate`, `authorize`; fail open when Redis does not answer |
| Redis | the script in `middleware/rateLimiter.js` | token buckets | one Lua script |

They interact only through the queues and the stores. A request stores the order
as PENDING and publishes two messages; the worker that gets `order.created`
decides the order in MySQL and publishes a snapshot; the sync worker copies
snapshots into MongoDB; `GET` reads MongoDB alone. Every request passes the
gateway first; authentication shares nothing with orders but the process and the
database. All requests of the API process publish through one cached channel.

What is hard about it: every `await` is a point where another process runs and
where this one may die. Stock is read in one statement and taken in another, the
lines of an order one after the other, the status after the stock, the snapshot
after the status, the acknowledgement after the snapshot, with no transaction
around any two of them. What the API publishes is in its own memory when it answers
202. RabbitMQ delivers at least once and without publisher
confirms; a closed connection hands a message to a second worker while the first
still works on it. In authentication the check of a token, its revocation and its
replacement are three statements of concurrent requests. A command to Redis may be
late, run twice, or be answered by nobody. The cached channel is shared by calls
that open it, calls that use it and a handler that clears it. `PROJECT.json` lists
the hazards line by line.

What makes each part correct:

* Order aggregate: lines only while DRAFT, no empty submission, decided once.
* Write path: no oversale; confirmed means reserved; rejected means short;
  nothing forgets an order the broker knows of; whatever is announced is true.
* Read side: never ahead of MySQL, no snapshot dropped, every accepted order
  eventually decided (or dead-lettered) and readable. A 202 stands for an event
  and a snapshot that exist somewhere, unless the API lost them from its buffer.
* Tokens: a refresh token works once (it does not, see below), one that
  was retired before it is read never again (a refresh that has read it already
  still replaces it, even past a logout); nobody is logged out while nothing fails.
* Gateway: a bucket grants no more than burst and refill; nobody gets around it;
  its expiry forgets nothing; asking too often costs nothing.
* Channel: what is cached works; requests fail only for a reason; the process
  heals itself.

## The modules

| Module | Models |
|---|---|
| `OrderLifecycle` | abstract specification: the life of an order's status (`domain/Order.js:20-42`) |
| `Order` | the aggregate object under any sequence of calls (`domain/Order.js`) |
| `RetryPolicy` | `decideRetry` (`worker/retryPolicy.js`) |
| `OrderPipeline` | the write path: API, broker, workers, MySQL |
| `ReadModelSync` | the sync worker and MongoDB, without saying who publishes or what fails |
| `OrderSystem` | `OrderPipeline` and `ReadModelSync` joined by the snapshot queue |
| `AuthTokens` | accounts and refresh tokens under concurrent requests |
| `TokenBucket` | the Lua script, as functions of the hash it finds |
| `Gateway` | limiters, `authenticate` and `authorize` around `TokenBucket`, time, and the connection to Redis |
| `LazyChannel` | `getChannel`, `setupTopology` and the close handler of `config/rabbitmq.js` |
| `MC...` | the instances TLC checks |
| `OrderPipelineProofs`, `OrderSystemProofs`, `OrderProofs`, `AuthTokensProofs`, `GatewayProofs`, `LazyChannelProofs` | theorems about the module they are named after |
| `OrderStockProofs`, `OrderCopiesProofs` | theorems about `OrderPipeline` that count: units of stock, and copies of an order's event |

`Order` and `OrderPipeline` are both shown to implement `OrderLifecycle`: the
first as the object in memory, the second as the rows in MySQL, where a row that
does not exist yet stands for the draft in the memory of the handler that will
store it.

### OrderPipeline

One action per awaited call or per statement that another process can observe.

* **Requests** (`api[o]`): `new`, then `saved`, `published` and `accepted`
  (202), or `failed` (400), or `dropped` when the API process dies.
  `RefuseOrder` is every check that throws before `save`; `SaveFails` rolls back
  or commits with the answer lost. `PublishThrows` is a `getChannel` that cannot
  connect.
* **The API's buffer** (`api[o].event`, `api[o].snapshot`): `channel.publish` only
  fills it, no confirm is awaited, and the 202 is written in the same turn of the
  event loop, so the two messages are `buffered` when an order is `accepted`.
  `FlushEvent` and `FlushSnapshot` are the broker reading them, an order's event
  first. `ApiCrash` and `ApiLosesConnection` lose what is still buffered, of orders
  that were answered too: such an order stays PENDING for good, and is in MongoDB
  only if its snapshot got through. A worker has a buffer as well, but no state for
  it: to be killed with messages in it is to be killed before publishing them, and
  what a closing connection takes out of it are `LoseSnapshot` and `LoseAck`.
* **Queues** are bags: functions from message to count. A message is an order and
  its `x-retry-count`; ids, times, trace headers and error texts are left out.
  A bag allows every order of delivery, FIFO included.
* **Workers** (`worker[w]`): `pc` names the call the handler is about to make;
  the other fields are its arguments and local variables. `find` is `findById`,
  `check` one `findBySku` of the first loop, `reserve` one `decrementStock` of
  the second, `confirm`/`reject` the guarded `updateStatus`, `snapshot` the
  publication, `ack` the acknowledgement, `fail` `handleFailure`. `live` says
  whether the channel the message came on is still open. When it closes, the
  broker requeues the message and the handler runs on without knowing; its
  `ack` then throws, nobody handles the rejection, and the process ends. A worker
  without a message notices nothing and never subscribes again
  (`config/rabbitmq.js:52-56` only clears the variables): it is idle and deaf.
* **Database errors** (`DbError`): the statement was applied or not, and throws.
* `taken[o][i]` is a history variable: how often the stock of line `i` of order
  `o` was decremented.
* **Quantities** of a request are counted in `Parts` of a unit, as nothing checks
  that they are whole. `Rounded` is what the `INT` column keeps. Less than half a
  unit is stored as zero, and `findById`, which builds an `OrderLineItem` from
  every row, throws for it for ever (`Readable`).
* `HasTotal`: of `Money` only the currency check matters here. An order in two
  currencies is stored and processed, but every publication of its snapshot
  throws; no snapshot of it ever exists.

Faults are spent from `FaultBudget`, the bound that keeps the instances finite.
The proofs put no limit on it.

### ReadModelSync and OrderSystem

`held` and `applied` count the snapshots whose handler is before or after its
upsert: the code runs up to `prefetch` handlers concurrently
(`syncWorker.js:60-62`). `LoseSubscription` leaves a process whose handlers run
on with snapshots that are back in the queue. `OrderSystem` adds no state: it
joins the two by the variable `sync` and says which faults occur. A write to
MongoDB lands before its process dies or not at all; one that lands after the
restart is not modelled.

### AuthTokens

`request[r]` is a slot for a request in flight; `pc` names the query it is about
to make. `FindEmail`, `FindUser`, `FindToken`, `FindLogout` begin a request with its
first query; `CreateUser`, `Revoke`, `FindOwner`, `Issue`, `Logout` are the others, in
the order of `AuthService`. A request that is refused before it changed anything
is no step. `tokens[t]` is the row of a refresh token; `from`, the token it
replaced, and `late`, whether that one had been retired when it was read, are
history, as are `registered`, `retired` and `loggedOut`. `known` are the tokens
that reached a client; only those are sent back. Tokens expire at any time
(`Expire`). `DbError` answers 400 or 401 after the statement was executed or not;
`Crash` ends all requests of the process.

### TokenBucket and Gateway

`TokenBucket` counts time in ticks and tokens in shares (`Cost` per request,
`Refill` per tick), so that every rational refill rate is a ratio of integers.
`Present` is what `HMGET` finds, given the expiry; `Write` is the hash after the
script. `granted`, `spent`, `rewound` and `losses` are history.

`Gateway` runs a sequence of requests through `LimitersOf` their route:
`Arrive` sends the first limiter's command, `Execute` is Redis running the next
command of the wire, `Pass` and `Refuse` the reply, `FailOpen` the catch. `GoOn`
is everything between one await and the next: `next()`, `authenticate`,
`authorize`, the next limiter's command. Commands and replies keep their order on
the one connection. `Disconnect` takes the replies along, and the buckets with
them if Redis lost its memory; `Reconnect` sends unanswered commands again, so the
script may run twice; `GiveUp` is `maxRetriesPerRequest: 1`, after which every
command of the wire rejects. `Tick` and `SetBack` move the one clock of the host.

### LazyChannel

A call of `getChannel` and the two publications that follow, of event and snapshot,
which run in one turn of the event loop on the channel that is cached by then:
`Begin` (cached or not), `Connected`, `Opened`, one `Declare` per answered
declaration, `Arrive` (both messages reach the broker), `Answer`. The twelve
declarations are counted as four: those that event, retries and dead letters need,
the exchange of the snapshots, its queue, and their binding. A message finds what
the broker has when it arrives, at least what was sent before it on its channel
(`Found`). Before the last binding the snapshot is dropped; before the exchange the
broker closes the channel (`ExchangeIsMissing`), and the request that is still
declaring on it fails. That a channel error nobody listens for makes amqplib give up
the connection is not in this repository; it is modelled as a connection that died.
`NoticeClose` is the `'close'` handler, which clears whatever is cached; between a
connection's end (`Drop`, `Stop`, `ExchangeIsMissing`) and that event the process
believes in it. `Published` throws when the cached variable is null again by the
time the call returns it. `early` is history: a request found the channel cached
before the broker had the exchange of the snapshots. Two first calls that overlap
each open a connection, and one of them leaks (`config/rabbitmq.js:48-50`);
`overlapped` records that, and `OneConnection` says that nothing else does.

## What TLC checks

| Run | Instance | Shows |
|---|---|---|
| `pipeline_faults` | 2 orders, 2 workers, 1 unit contested, one crash and one lost connection anywhere, or one database error, or one fault beside an order that goes no further; carts: empty, one line, two lines in two currencies, less than half a unit (427,000 states) | type invariant, the inductive invariants `IInv` and `FaultFreeInv`, `ReservedBeforeConfirmed`, `NoOversell`, `RejectedOnlyIfShort`, `SnapshotsTellTheTruth`, `CopiesBounded`, `DeadLettersMeanFaults`, `ExactReservation`, `AcceptedIsTracked`, `EventsHeldUntilResolved`, `ImplementsLifecycle` |
| `order_system` | 1 order, 2 workers, sync worker with prefetch 2, one crash, one database error, one lost connection; carts of every kind (335,000) | `ReadStoreNeverAhead`, `AcceptedIsShown`, `SnapshotHeldUntilShown` |
| `system_liveness` | the same carts with one crash and one database error, fairness, no symmetry (40,000) | `AcceptedIsSettled`, `AcceptedIsReadable` |
| `order_aggregate` | 2 products, quantities 0 to 2, 3 lines (500) | the documented invariants of `Order`, `ImplementsLifecycle` |
| `auth_tokens` | 2 requests in flight, 2 users, 1 address, 4 tokens, 1 fault (480,000) | `RegisteredOnce`, `RetiredIsRevoked`, `NoLateReissue`, `ForksNeedOverlap`, `SessionSurvives` |
| `gateway` | 3 requests through 3 limiters, 5 ticks, keys that live 4 or 5, commands up to 1 tick late, clock set back once, connection lost once (2,350,000) | `GrantsBounded`, `ExpiryForgetsNothing`, `PollingIsFree`, `NobodyGetsAround` |
| `lazy_channel` | 2 callers, 2 drops or broker restarts, fresh or set-up broker, fairness (575,000) | type invariant, `CachedChannelWorks`, `NoFailureWithoutFault`, `OneConnection`, `SelfHeals` |
| `rejected_stock` | 1 order, 1 worker, no fault | **violated**: `RejectedLeavesStock` |
| `double_decrement` | 1 order, 1 worker, 1 crash | **violated**: `NeverDecrementedTwice` |
| `decision_snapshot` | 1 order, 1 worker, 1 crash | **violated**: `DecisionIsPublished` |
| `stale_document` | 1 order, 1 worker, prefetch 2, no fault | **violated**: `ReadStoreSettles` |
| `refresh_race` | 2 requests, no fault | **violated**: `SingleUse` |

Every property of a passing run is shown to notice a plausible mistake: the
definitions marked "Fault" in the modules (an UPDATE without its guard, `<=` for
`<`, an acknowledgement without a retry copy, ...) each make the property named
in `PROJECT.json` fail.

**Bounds.** Two workers are enough for one to overtake the other; a third would
have to overtake both. Two orders fight for one unit. Two lines per cart make a partial
reservation possible. `MaxAttempts` is 1 or 2, so that the dead-letter queue is
reached. One fault of a kind suffices for each known failure; the proofs cover
any number. `pipeline_faults` has three constraints to end in time: a
database error together with another fault is left to `order_system`; beside an
order that cannot be read, whose event was lost in the API's buffer, or whose request
ended without a 202, there is one fault (`OneFaultBesideIdle`); and snapshots leave
the buffer before a worker begins with an event (`SnapshotSoonSent`). What these leave
out happens to the one order of `order_system`, and the proofs have no such bounds.
A cart of two fifths of a unit stands for all that round to zero.

Two requests in flight are what a race needs; a third adds longer forks, which
`ForkInv` covers. Four tokens allow a login, two rotations at once and one more.
Three requests in `gateway` empty a bucket and meet it again, after a short wait or
one that outlasts its key: the general limiter's expires after 5 ticks and the clock
goes to 5, so that a command on the wire, also a late one, does find an expired key. They are of the routes `list`, `auth` and `create`, one of them a 403; a 401 and the
route `read` take the same path. `MaxDelay + MaxBack <= Slack`
is an assumption: `Slack` are the 60 seconds of `rateLimiter.js:47`, and a command
that waits longer, on a clock set back further, may find a bucket expired that was
not full. With one host there is one clock (`docker-compose.yml`); with several
API hosts, skew counts as setting back. `MaxConnections` is 8, and with
more no ninth is ever in use. In `lazy_channel` a caller calls again
and again, so requests never run out.

Deadlock is checked where the system must go on (`lazy_channel`). Elsewhere it may
rest: every order is answered and every queue empty, ids and tokens are used up,
or all requests were answered, and requests are never forced to happen.

**Fairness.** A handler that has started runs to its end (nothing in the code
blocks for ever); the broker delivers what is ready while a subscribed consumer
is idle, and lets TTLs expire, per message; Docker restarts what has exited
(`docker-compose.yml:127,149`). No fairness for requests or faults. The liveness
run allows no lost connection: with one, an idle worker stays deaf for good. Its
crash may be the API's, which takes the buffer along, so an event or a snapshot that
was lost there is the one exception both properties make. The API's event loop and
the broker empty the buffer. `lazy_channel` assumes that the event
loop runs what is ready, that the broker answers while it runs, that Docker
starts it again (`docker-compose.yml:22-33`), and that a worker starts and declares
the topology (`worker.js:126-128`): with requests alone, each new one may close the
channel under the one that is declaring, for ever; `AuthTokens` and `Gateway` state no
liveness, as nothing there waits but for a reply or a client's patience.

### Disagreements between code and documents

1. `rejected_stock`: a cart that names a product twice passes the check line by
   line, is refused at the second decrement, and is rejected by the retry with
   the first line's stock gone. `tests/orderEvents.test.js:145` says "leaves
   inventory untouched", `README.md:149` "atomically decrements".
2. `double_decrement`: a crash between decrement and status update makes the
   redelivered event decrement again; `syncWorker.js:42-43` says the worker
   "must never double-decrement stock".
3. `decision_snapshot`: a crash between status update and publication leaves the
   read store PENDING, as the redelivered event is skipped; `README.md:185` says
   a snapshot is published "after each transition".
4. `stale_document`: concurrent handlers may write the older snapshot last;
   `README.md:203` says out of order "is harmless".

5. `refresh_race`: two requests that refresh the same token at once both read it
   unrevoked, both revoke it and both get a new one; `tests/auth.test.js:94` says
   "single use", `services/AuthService.js:55` "old token is now dead".

Met on the way, without a run of their own: a request answered 400 whose order is
nevertheless stored and processed (`routes/orderRoutes.js:55-56` documents 400
as a validation error); consumers that never subscribe again after a lost
connection; TTLs in one queue that expire only at its head. An order for less than
half a unit is answered 202, can never be read and ends in the dead-letter queue,
PENDING (the API documents integers, `config/swagger.js:66`, and checks
`quantity <= 0`, `domain/Order.js:8`). A crash between `revoke`
(`AuthService.js:55`) and `create` (`:60`) logs an active user out, against
`AuthService.js:40`. The comment at `AuthService.js:42-43` has the reuse of an old
token revoke "the entire token immediately"; the code only throws, and
`revokeAllForUser` is never called. `routes/authRoutes.js:107` has a logout always
succeed; a failing query is a 400. On a fresh broker a request that finds the
channel cached while another one still declares the topology loses its snapshot
without an error, or has the channel closed under both (`config/rabbitmq.js:58-59`
caches the channel first, line 82 declares the exchange late). An order answered with
202 is never processed when the API process is killed before the broker has read its
event (`events/OrderEventPublisher.js:17`).

## What is proved

Eight modules hold theorems, proved by TLAPS for every value of the constants that
satisfies the named assumption of the module. Each states an invariant that is
inductive, shows `Init` and every action to respect it, one lemma per action or
group of actions, and derives the properties. Every invariant and every action
property of a passing run is stated by a theorem; what is left to TLC is liveness.

### OrderPipelineProofs

From `PipelineAssumption` (products are among the names a cart may use, stocks,
limits and budgets are natural numbers, carts are sequences of lines):

* `Invariance`: `Spec => []IInv`
* `TypeCorrect`, `ConfirmedIsReserved`, `RejectedIsShort`, `SnapshotsAreTrue`:
  the conjuncts of `IInv` a reader cares about
* `EventsAreHeld`: `Spec => EventsHeldUntilResolved`
* `Refinement`: `Spec => ImplementsLifecycle`

The argument. `ReservedBeforeConfirmed` alone is not inductive: a worker at
`confirm` writes CONFIRMED on the strength of decrements it made earlier, which
nothing in the row records. `WorkerInv` states what a handler knows at each step:
its order is stored, the version it read is 1, lines before the current one are
taken, a shortage it noticed is still there (stock never grows), and at
`snapshot` the row has the outcome it is about to announce. `RowsInv` ties the
version to the status, which is why the optimistic lock on the version is a lock
on PENDING. `EventsInv` and `RequestsInv` say that whoever handles an order finds
it stored. Steps of other processes preserve what a handler knows because every
step *keeps* each order (`Keeps`): lines do not change, decisions stand, what was
taken stays taken, what is short stays short. With that, each action is a lemma;
actions that touch no table share `QuietStep`, those that do share `TableStep`.
`EventsAreHeld` follows the event through every action (`TrackedByOthers`):
it is only given up by an `ack`, and `WorkerInv` says the order is decided then.

### OrderStockProofs

`NothingOversold`: `Spec => []NoOversell`, a sum over confirmed orders. The sums are
avoided by naming every unit: `Gone(s)` holds one element for each unit of the
product `s` that some decrement took, and `StockInv` says that what is gone and what
is on the shelf are together no more than there was. A decrement adds as many
elements as it takes from the shelf, as its UPDATE is guarded. Lines of confirmed
orders were taken (`ReservedBeforeConfirmed`), so the units they promise are among `Gone(s)`
(`PromisedIsGone`).

### OrderCopiesProofs

* `CopiesInvariance`, `CopiesAreBounded`: `Copies(o)` counts what the queues and the
  workers hold of an order's event. `CopiesInv`: none before the publication, and
  then one, plus one for each crash and each lost connection. An event moves from
  queue to queue in two steps, publish and ack; only a fault between the two leaves
  both copies.
* `FaultFreeInvariance`: while nothing has failed the single copy means a single
  handler (`SoleHandler`), so that `UndisturbedInv` may say what it knows: the order
  it works on stays undecided up to its own decision. A retry is `Excused`: the
  first handling lost a race for stock (then the stock is short for good) or
  decided the order and could not announce it; the second handling, which finds the
  stock short, rejects. `TakenByFirst` follows `taken`: a first handling finds an
  order's lines untouched and takes one after the other; a retry takes nothing,
  as the shortage that excused it stops it at the check.
* `OnlyUnreadableDie` follows: with two retries or more nobody reaches the limit who
  can be read at all. So does `StockTakenExactly`: the lines of a confirmed order of
  any length were taken exactly once, although the decrements are in no transaction.
  It is not true of rejected orders of two lines, which is what `rejected_stock`
  shows.
* `AcceptedAreTracked`: an order that was answered with 202 is decided, or its event
  is in the API's buffer, in a queue or with a worker, or was lost in that buffer by a
  crash or with a connection. `BufferInv` says it stage by stage: an event that was
  sent exists until its order is decided, and none is lost without a fault.

### OrderSystemProofs

`SystemTypeCorrect`, `NeverAhead`, `SnapshotsAreShown`, from `SystemInv`: `IInv` of
the write side, which the read side does not disturb, and what the sync worker
holds: snapshots it holds tell the truth (`HeldAreTruthful`), and what the handlers
of a closed channel still hold is in the queue again (`TakenBack`), so that nothing
is lost when the process ends. Truth is stable: decisions stand.

`WritePathIsSafe`, `SystemHoldsEvents` and `SystemRefinement` take what was proved of
the write path over to the composition. That is not for free: a sync worker removes
snapshots from the queue, which `OrderPipeline` alone only fills, and spends faults
from the same budget. `PathInv` is the conjunction of the invariants above;
`ReadStepPath` shows that a step of the sync worker keeps it.
`AcceptedAreShown` is about both sides: behind a 202 there is a document, or a
snapshot in the API's buffer, in the queue or with the sync worker, unless a crash or
a lost connection took it out of that buffer. `ShownInv` says it of every snapshot
that was sent, which no later step undoes.

### OrderProofs

`TypeCorrect`, `NeverEmpty`, `ReasonsFit`, `LinesAreFrozen`, and `Refinement` of
`OrderLifecycle`. `SubmittedHasLines` and `ReasonFitsStatus` are inductive together
with the types.

### AuthTokensProofs

`TypeCorrect`, `RetiredRevoked`, `NoReissue`, `OneAccount`, `SessionsSurvive`,
`ForksBounded`. `IInv` is `TypeOK /\ RetiredIsRevoked`: a token whose rotation is
past its UPDATE is revoked already, and nothing ever clears the flag, so an answer
finds it revoked and a later read refuses it. `ForksBounded` needs `ForkInv`: a
token that is not revoked has no heirs, and heirs plus requests that may still add
one are at most the slots; a request starts a rotation only while there are no
heirs.

### GatewayProofs

`TypeCorrect`, `BucketsBounded`, `ExpirySafe`, `RefillsKept`, `NobodyFree`, for every chain of
requests, capacities, rates and faults within `GatewayAssumption`. `IInv` is `TypeOK`
with `Stamps` (a command on the wire is no older than `MaxDelay` and from the
future by no more than the clock was set back), `Written` (the stamp of a bucket
is ahead of its writing by at most `MaxBack`) and `Silent` (a broken connection
brings no replies). `ExpirySafe` adds the two up against `Slack`. `Bounded` is an
account of one bucket that the script, run any number of times with any stamps,
keeps balanced; `Refilled` compares a bucket with what came back since its last
charge. That a ceiling covers the refill is a lemma of its own. For `NobodyFree`
the requests that were let through are not enough: one whose command has run, and
whose reply is still on its way, is about to be. `Granted` has both, and `Charged`
says that each is paid for; a command that runs twice adds one request at most and
pays twice.

### LazyChannelProofs

`TypeCorrect`, `CacheWorks`, `FaultsExplainFailures`, `OneConnectionAtATime`. `IInv`
adds to the properties: who names a connection finds it (`NamedConnections`); a
call no fault touched waits in a calm system and, once it cached a channel, has one
(`UntouchedInv`); whatever died, died of a fault or of messages that were early
(`CauseInv`); a cached channel has its topology or somebody declaring it
(`TopologyInv`); without overlap, one call is in `getChannel` and every connection is
the cached one or its own (`AloneInv`).

### Only model-checked

The liveness of `system_liveness` (`AcceptedIsSettled`, `AcceptedIsReadable`) and
`SelfHeals`: liveness under fairness rests on `ENABLED`, which is out of the prover's
reach. The properties of the runs that expect a violation are false.

## Not modelled

* Health routes (`routes/healthRoutes.js`), configuration, logging, tracing and API
  documents: no state that interleavings could break.
* Scripts (`scripts/*`): tools run by hand. `scripts/seed.js` sets the stock of
  known products back; run beside workers it would break the assumption that
  nothing restocks, on which `RejectedOnlyIfShort` rests.
* Queries are reads of `readStore`; limit and order of the list are left out.
* Amounts of money, texts and their lengths (a rejection reason beyond
  `VARCHAR(500)`), ids, times of orders, the length of delays. A quantity that is
  no number at all is stored as zero like one that rounds to it, and its request
  fails besides; one beyond `INT` is cut off by `INSERT IGNORE`. Neither is
  modelled.
* Passwords, the contents of access tokens beyond user and role, TTLs that hold
  each other back at the head of a queue, the race of two first calls of `getDb` (`config/mongo.js:9`; both clients
  work), a snapshot or event that is not JSON (acknowledged and dropped; the code
  publishes none).

## Plan

Done: 1 `OrderLifecycle`, `Order`; 2 `OrderPipeline`; 3 `ReadModelSync`, `OrderSystem`;
4 `AuthTokens`; 5 `TokenBucket`, `Gateway`; 6 `LazyChannel`; 7 the storage of
quantities; 8 the proofs of all of these; 9 the proofs that count, what a 202 stands
for, and the safety of the composition; 10 the API's buffer, and both publications
in `LazyChannel`.

Left: TTLs that expire in the order of their queue.
