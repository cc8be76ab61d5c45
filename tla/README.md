# Formal model of the delivery service

TLA+ modules that model the transactions, request handlers, events, promo codes, rate
limiting, caching and process lifecycle of this repository, TLC runs that check them on small instances, and proofs
for all instances checked by TLAPS. The source of every definition is named, by
file and line, in `PROJECT.json` under `map`.

    tlc -workers 2 -config MCDispatch_two_orders.cfg MCDispatch.tla
    tlapm DispatchProofs.tla

## 1. Inventory

The program is one HTTP server (Go) in front of PostgreSQL, Redis and Kafka.
Every request runs in a goroutine of its own; all state that is shared lives in the
three services, so concurrency means interleaved SQL statements, Redis commands and
messages, of one server or of several.

| Component | State it keeps | Operations | Hard because | Correct when |
|---|---|---|---|---|
| OrderService (`internal/services/order_service.go`) | tables orders, order_items, reviews, order_status_history | CreateOrder, UpdateOrderStatus, CreateReview, reads | transactions of several statements at READ COMMITTED, two triggers, foreign-key locks, cancelled requests | each request is atomic; the audit trail is legal; delivery and its time are final; one review per order |
| CourierService (`courier_service.go`) | table couriers | CreateCourier, UpdateCourierStatus, AssignOrderToCourier | locks courier and order in the opposite order of UpdateOrderStatus | no courier is booked twice; transactions end |
| Rating trigger (`migrations/002_reviews.up.sql`) | couriers.rating, total_reviews | runs in INSERT INTO reviews | read-modify-write in a trigger, rounding, DECIMAL(5,2) | no review is lost; the rating follows the reviews |
| PromoService (`promo_service.go`) | table promo_codes | create, update, delete, ApplyPromoWithTx | limited uses under concurrency, changes by administrators meanwhile | limits and expiry hold at commit; uses are orders |
| PricingService (`pricing_service.go`) | – | CalculateCost | rounding, clamping | stored total and discount add up to the cent |
| RateLimiter (`rate_limiter.go`) | a counter with TTL per client in Redis | Allow, Usage | two Redis commands that are not atomic | limit per window; windows last, and end |
| Cache (handlers, `analytics_service.go`, `internal/redis`) | orders, couriers, analytics in Redis, with TTL | Set after read or insert, Delete after change, DeleteByPrefix | cache-aside without locks, failing and cancelled calls | stale only while a deletion is due, or as long as an old version from a known race is about; never for good |
| Handlers (`internal/handlers`) | – | read, commit, publish, cache | other requests, failures and the end of the process between any two of these | what they say is true, and complete unless something failed |
| Automatic assignment (`courier_assignment_service.go`) | – | AutoAssignCourier | chooses from stale reads | a choice that became wrong is refused; the best known courier is chosen; one is announced |
| Events (`internal/kafka`) | topics, consumer offsets | publish after commit, consume, mark | lost and reordered events, redelivery, rebalances | what is published was committed; no mark passes an unhandled message; stored events are handled |
| Analytics queries (`analytics_service.go`) | – | KPIs, per courier | three queries, no common snapshot | later parts contain earlier ones |
| Geocoding (`geocoding_service.go`) | cache of coordinates | Geocode | fallback cached like an answer | – |
| Server (`cmd/server/main.go`) | connections | start, serve, stop | partial start-up, order and deadline of shutdown, crashes | shutdown ends, repeats nothing, and loses no event before its 30 seconds are over |
| Configuration, logging, errors, health, routing | – | – | – | – |

A request of the order or courier handlers calls the service (commit), then publishes
events, then deletes or stores cache keys; nothing ties the three together. Reviews
reach the couriers through the trigger, status changes reach the history through
another one. Auto-assignment, in its own endpoint or within CreateOrder, ends in
AssignOrderToCourier.

## 2. Plan

Done: order and courier transactions, rating arithmetic, promo codes and pricing, rate
limiter, cache (first); then the handlers with their events, automatic assignment and
report (`Requests`), the consumer group and the life of the processes (`Consumer`,
`Server`), each with its proofs. Every safety property of the runs is proved (section 5). The three refinements are `Dispatch` ⇒
`OrderLifecycle`, `Requests` ⇒ `OrderLifecycle` and `Server` ⇒ `AtLeastOnce`.

Left, in this order:

1. **Analytics filter** (`handlers/analytics.go:104-187`): the accepted date ranges as
   a function of the request (see section 6).
2. **Geocoding**, a cache of its own with a fallback, if a property beyond what the code
   says in one line is found for it.

## 3. Modules

| Module | Models | Extends / instantiates |
|---|---|---|
| `OrderRows` | rows of the tables, allowed status changes, the new rows the statements compute | – |
| `OrderLifecycle` | abstract specification: every request is one atomic step | OrderRows |
| `Dispatch` | the transactions statement by statement, row locks, deadlocks, aborts | OrderRows, INSTANCE OrderLifecycle |
| `MCDispatch` | instances for TLC | Dispatch |
| `Rounding` | rounding of non-negative quotients (its lemmas are in `CourierRatingProofs`) | – |
| `CourierRating` | arithmetic of the rating trigger | Rounding |
| `Pricing` | delivery cost, discount, total | Rounding |
| `PromoCodes` | promo codes and the transactions that use them | Pricing |
| `MCPromoCodes` | instance for TLC | PromoCodes |
| `RateLimiter` | Allow as Redis commands | – |
| `RowCache` | cached rows and analytics | – |
| `CourierChoice` | scores of automatic assignment, what they are computed from | OrderRows |
| `Requests` | the handlers of orders, couriers and reports, their reads, transactions and events | CourierChoice, INSTANCE OrderLifecycle |
| `MCRequests` | instance for TLC, with starts underway | Requests |
| `AtLeastOnce` | abstract specification: what the consumer group promises | – |
| `Consumer` | topics, offsets, claims and marks of the consumer group | – |
| `Server` | life of the processes: build, serve, publish, stop, crash | Consumer, INSTANCE AtLeastOnce |
| `…Proofs` | theorems of the module they are named after | the module, TLAPS; `DispatchProofs` and `RequestsProofs` also INSTANCE OrderLifecycleProofs, whose theorems they carry over |

### Dispatch

`tx[s]` is what session `s` has done of its transaction. A step is one statement that
may wait for a row lock:

| Code | Actions |
|---|---|
| `AssignOrderToCourier` | `BeginAssign` (SELECT courier FOR UPDATE, status check), `UpdateAssignedOrder` or `RefuseAssign` (UPDATE orders … WHERE status = 'created'), `CommitAssign` |
| `UpdateOrderStatus` | `BeginUpdate` (SELECT order FOR UPDATE), `RefuseUpdate` (transition, foreign key) or `CommitUpdate` (UPDATE with foreign-key check and audit trigger) |
| `CreateReview` | `BeginReview` (SELECT order FOR UPDATE), `RefuseReview` or `InsertReview` (INSERT: KEY SHARE on the courier), `LockRatedCourier` (trigger: SELECT FOR UPDATE), `CommitReview` |
| `CreateOrder`, `CreateCourier`, `UpdateCourierStatus` | one action each |
| failures | `Abort` (any statement, cancelled context, lost connection), `AbortDeadlocked` |

The locks follow from the step a session is at. Of PostgreSQL the model uses: row
locks are held to the end of the transaction; an UPDATE whose WHERE clause does not
match skips the row without waiting; foreign-key checks take FOR KEY SHARE, which only
FOR UPDATE conflicts with, and are made when the key column is written with a new
value (and by the audit trigger's INSERT); one session of a waiting cycle is
aborted. Changes become visible at commit, so each transaction writes the tables
in its last action. `booked` is a history variable.

Abstracted: names, addresses, positions, comments, items; money is in `PromoCodes`;
`time.Now()` is any element of `Times`.

### PromoCodes, Pricing

Amounts are in tenths of a cent, so that the values the code does not round (prices
with three digits, a fixed discount cut to the total) are told apart from the ones it
does. Floating point is abstracted to exact arithmetic. What is stored is rounded to
cents once more, because `total_amount` and `discount_amount` are `DECIMAL(10,2)` columns:
`Row` does that, and keeps the price before the discount, unrounded, as the history field
`base`. `PricesAddUp` is about the stored amounts. `BeginOrder` is CreateOrder up to its INSERT: price, SELECT … FOR UPDATE,
checks, discount; `CommitOrder` is the UPDATE of `used_count`, the INSERTs and COMMIT. A
refused code is a stuttering step.

### CourierRating

Ratings are in hundredths. `Mean` is the trigger's expression with the rounding of
`DECIMAL(3,2)`; `Fits` is the cast to `DECIMAL(5,2)`. The reviews of a courier are
applied one after the other, which `Dispatch` shows (`Isolation`).

### RateLimiter

`Incr`, `Expire`, `Answer` are the commands of one `Allow`; `IncrLost`, `ExpireFails`
and `Crash` are the ways in which they fail. `age` and `lost` are history variables.

### RowCache

The database is reduced to the version of each row. A handler's state is the sequence of
Redis calls (and, for `auto_assign`, the assignment) it still has to make after its
commit. All keys of the analytics are one key, which changes of orders and
couriers make stale in the way the queries depend on them: status updates, reviews
and new couriers do, assignments do not, as only delivered orders are counted.
`overtaken` is a history variable: it notes why an old version may be cached (`Notes`), and
forgets the note when no old version is cached or held by a handler (`Astray`), so that the
next race of the same key needs a reason of its own.

### Requests, CourierChoice

`hand[h]` is the state of a request in flight: `at` says what it does next, the other
fields hold what it has read and the events it has still to publish.

| Code | Actions |
|---|---|
| `CreateOrder` (`orders.go:41`) | `CreateOrder` (transaction), `Publish`, and with `auto_assign` the actions of AutoAssignCourier |
| `UpdateOrderStatus` (`orders.go:188`) | `ReadOrder` (GetOrder for the old status), `UpdateOrderStatus` (transaction), `Publish` |
| `AssignOrderToCourier` (`couriers.go:284`) | `AssignOrderToCourier` (transaction), `Publish` twice; the old status is the constant "created" |
| `AutoAssignCourier` (`courier_assignment_service.go:64`, `orders.go:407`) | `ReadUnassigned`, `ListCouriers`, `CountOrders` per candidate, `AssignBest`, `ReadAssigned`, `Publish` twice |
| `UpdateCourierStatus` (`couriers.go:112`) | `ReadCourier`, `UpdateCourierStatus` (sets or erases the position), `Publish` once or twice |
| `CreateCourier` | one action; it publishes nothing |
| `GetKPIs` (`analytics_service.go:67`) | `ReadPart` three times |
| answers, refusals, failing statements, a lost answer to COMMIT, the end of the process | `Stop`, from any state; `PublishFails` |

A transaction is one step of `OrderLifecycle`, which is what `Dispatch` is shown to
implement. The reads of a handler are single statements outside it. `seen` and `at` of an
`order.status_changed` event are not in the message: they say to which rows of
order_status_history the read and the update belong, so that "true" can be stated.

The total score is 0.4·(1 − km/50) + 0.3·rating/5 + 0.3·(1 − active/5), the first and
last part not below 0. `Score` is 5000 times that, a whole number of the distance
in km, the rating in hundredths and the count. Floating point is abstracted to exact
arithmetic, distances to whole km; of equal scores any may win (the code takes the
first of the list). Ratings of couriers are a constant: reviews publish nothing. The
place an order goes to is any place, chosen when the couriers are listed (the request names
it, or it is geocoded); a count that fails is 0, as in the code. Topics are sets, as the key
of a message is random and partitions therefore order nothing. `lost` is a history
variable: the events that were due when a publication failed or a handler ended.

### Consumer, Server

`Consumer` is the group: `log[p]` the messages of a partition, `committed[p]` the committed
offset, `owner[p]` the member the coordinator has assigned, `claim[s][p]` what the member
itself believes and does. `Take` and `Handle` are the loop of `ConsumeClaim`: a message
that is handled without an error is marked, one that cannot be decoded is not, and the loop
goes on either way. What `ConsumeClaim` rests on (sarama, the brokers) is modelled
from the configuration the code gives it: `OffsetOldest` (`Grant`), automatic commits
(`AutoCommit`, on by default, and at the end of a session: `EndSession`), a session timeout
(`Evict`). A commit by a member that is not the owner any more is ignored.

`Server` is `main`: `phase[s]` follows it from `buildApplication` (`Connect`,
`ConnectFails`) over serving to `consumer.Stop` (`stopping`), `server.Shutdown`
(`draining`), and the closing of the producer, Redis and
the database (`Close`). The context of `Shutdown` gets its 30 seconds before `Stop` is
called (`main.go:67`), so `Stop`, which has no deadline, may use them up: then `s` is in
`late` as soon as `Stopped(s)` happens, otherwise when `DeadlinePasses(s)`, at any moment of the
drain. `Drained` is the return of `Shutdown` with no request left, `DrainTimeout` its return
with a request still running, of a process that is late. `inflight[s]` is a request that is served: `Accept`,
`Commit`, `Publish`; `Requests` has it in detail. `Join`, `Leave`, `Rebalance` and
`Timeout` compose the life of the process with the claims of its consumer.

What may go wrong is counted by `mishaps`: a connection that cannot be opened, a publication
that fails or whose acknowledgement is lost (so that the producer sends the event
again), late heartbeats, a crash. SIGTERM and
rebalances are counted by `ends` and are no mishaps; a slow `Stop` or a deadline that passes
is not counted at all, it can happen at every stop. Foreign messages, which
cannot be decoded, stand for every error of `processMessage`: the registered
handlers (`main.go:324`) only log and return nil. `tried`, `again` and `untold` are history
variables; `untold` says whether events were lost by processes that were not late ("early")
or that were ("late").

## 4. Runs

| Run | Instance | States | Checks |
|---|---|---|---|
| `dispatch_two_orders` | 2 orders, 1 courier, 2 sessions | 301 385 | `TypeOK`, `NoDoubleBooking`, `SomebodyProceeds`, `HistoryIsLegal`, `OneReviewPerOrder`, `TotalsCountReviews` |
| `dispatch_three_sessions` | 1 order, 2 couriers, 3 sessions, 2 times | 107 740 | `Isolation`, `ImplementsLifecycle`, `DeliveredAtIsFinal`, `CourierIsNeverErased` |
| `dispatch_progress` | 2 orders, 1 courier, 2 sessions | 89 129 | `TransactionsEnd` |
| `readme_step5` | 1 order, 1 courier, 1 session | | `AcceptedOrdersCanBeDelivered` is violated |
| `courier_rating` | ratings 1–5, 9 reviews | 305 | `TypeOK`, `RatingTracksMean`, `RatingFollowsReview` |
| `rating_overflow` | rating 5, 250 reviews | | `RatingsAreAccepted` is violated |
| `promo_codes` | 1 code, 5 terms, 3 sessions, 3 orders, 2 instants | 709 524 | `TypeOK`, `UsesAreOrders`, `UsesAreWithinTerms`, `PricesAddUp` |
| `rate_limiter` | 1 client, 3 handlers, limit 2, window 3 | 1 507 | `TypeOK`, `AdmittedWithinLimit`, `OneExpirePerKey`, `WindowsLast`, `WindowsEndUnlessLost` |
| `rate_limiter_docs` | 1 client, 2 handlers, limit 1, window 2 | | `WindowsEnd` is violated |
| `row_cache` | 1 order, 1 courier, analytics, 2 handlers, 3 versions | 74 047 | `TypeOK`, `FreshUnlessOvertaken`, `FreshInTheEnd` |
| `requests` | 2 orders, 2 couriers, 2 places, 2 handlers, 2 requests | 187 149 | `TypeOK`, `EventsAreTrue`, `ChangesAreTold`, `AnnouncedOnce`, `NobodyBetterPassedOver`, `LaterPartsShowMore` |
| `server` | 2 processes, 1 partition, 2 messages, 2 ends, 1 mishap | 204 211 | `TypeOK`, `MarksFollowHandling`, `GracefulStopIsClean`, `DeliversAtLeastOnce`, `ShutdownEnds` |

Why the bounds are enough:

- *Dispatch.* Every conflict is between two transactions on one order or one courier;
  two orders of one courier are needed for the lock cycles and the double booking,
  two couriers for reassignment, a third session for waiting queues. The statuses and
  their transitions are all there. `dispatch_progress` starts from states in which
  two orders are delivered (their reviews share the courier) or one is reviewed and the
  other has just been created (`UnderwayFairSpec`), because the interesting waiting
  happens there; its courier is available.
- *CourierRating.* Nine reviews are enough for several roundings in the same
  direction; the proof has no bound. `rating_overflow` needs some 200 reviews.
- *PromoCodes.* Terms with a limit of one and of two uses, with expiry, without limit,
  inactive, and one that takes half of the price; baskets of 6.6 and 8.3 cents, so that
  price, discount and total have digits that the code or the columns round, up and down, and
  one is cheaper than the fixed discount. Three sessions race for two uses.
- *RateLimiter.* A limit of 2 and 3 handlers lets requests within and beyond the limit
  overlap with the end of a window. `MaxCount` only merges values above the limit.
- *RowCache.* `MaxVersion = 3` allows an insertion and two changes of every row, or a
  new courier and one more change of the analytics; a stale
  store needs two handlers and one change, and a second race of the key one more. The run with
  4 versions passes as well (392 364 states).
- *Requests.* All properties relate two requests: one reads or publishes while another
  commits, or both assign. An order would need five requests to be delivered, so `MCSpec` also
  starts from an order that waits or is on its way in every status, with the
  history and the events of that way (`Underway`); from each of these any two requests
  follow. One place is near and one beyond 50 km, where the distance scores nothing; the
  courier that is rated higher is not the one listed first. The proofs, from `Init` and
  without bounds, show that nothing depends on the starts.
- *Server.* Two processes are needed for a partition to change hands while the old owner
  goes on; two messages for a mark that passes a failed one; two ends for both to be stopped
  or a rebalance and a stop. One mishap (a crash, an eviction, a lost acknowledgement) is
  enough to repeat or lose an event. Two mishaps with one end (313 603 states), and three
  messages with one end and one mishap (364 425), pass as well, the liveness
  properties included.

`CHECK_DEADLOCK FALSE` is used for `CourierRating`, where the number of reviews is
bounded and where, in the code too, every rating can be refused, and for `MCRequests`, where
nothing happens any more when `MaxRequests` requests are done and all couriers exist.

### What three runs say against the documents

- `readme_step5`: README.md:652 sets `delivered` on an order that was just assigned.
  `isValidOrderStatusTransition` (`order_service.go:465`) lets an accepted order become
  `preparing` or `cancelled` only, so that step of the walk-through is answered with a
  conflict, and the review after it too. (README.md:648 also warns that a request
  without `courier_id` erases the assignment: it does not, see `CourierIsNeverErased`.)
- `rating_overflow`: the sum of a courier's ratings is cast to `DECIMAL(5,2)`
  (`002_reviews.up.sql:33`), which cannot hold 1000. The 200th review of 5 stars fails; a
  lower one may still fit (after 199 fives, which add up to 995, a 4 makes 999), but not for
  long. The proofs say how far this reaches: the first 199 reviews of
  a courier are accepted whatever the ratings (`FirstReviewsAreAccepted`), and nobody gets a
  1000th one, the lowest ratings included (`ReviewsEndBeforeAThousand`).
- `rate_limiter_docs`: rate_limiter.go:16 describes a fixed window. When the single
  `Expire` of a window is lost the key has no TTL and the window never ends;
  `WindowsEndUnlessLost` shows that this is the only way, and `LostKeysStay` proves that no
  later request repairs such a key.

### Fairness

- *Dispatch.* `SF(Proceed(s))`: PostgreSQL grants row locks in the order of arrival, so a
  transaction that can proceed again and again eventually does. `WF(AbortDeadlocked(s))`: the
  deadlock detector runs when a wait lasts (`deadlock_timeout`). No request has to come, and
  `Abort` never has to happen. Without the detector (`InWaitCycle` replaced by FALSE)
  `TransactionsEnd` fails: the opposite lock orders are real.
- *RateLimiter.* Time passes (`WF(Tick)`) and a live handler goes on; a crash and a
  failing command are always possible and never required.
- *RowCache.* `WF(Proceed(h))`: a handler makes its calls, each of which succeeds or
  fails. `WF(Expire(k))`: Redis deletes keys whose TTL has passed, as `Set` is always
  called with one (15 minutes, or the TTL of the analytics).
- *Server.* `WF(Proceeds(s))`: main goes on, and a process that is down is started again
  (`restart: always` in docker-compose.yml); `DrainTimeout` is part of it, as `Shutdown` looks at
  its context again and again. `WF(DeadlinePasses(s))`: the timer of that context.
  `WF(Consuming(s, p))`: claims go on, in goroutines of their own. No request has to end:
  `ShutdownEnds` holds because of the deadline. `WF` of `Join` for some
  member: the coordinator assigns a partition that nobody has as long as a member is there.
  `WF(Timeout(p))`: the session timer. Requests, signals, commits of offsets and mishaps
  need not happen. Ends and mishaps are bounded, so delivery is shown for partitions that stay
  with a living member in the end; a group that rebalances for ever delivers nothing.

## 5. Proofs

All theorems are for arbitrary sets of orders, couriers, sessions, handlers, codes,
terms and baskets; the assumptions are the `ASSUME`s of the modules
(`RowsAssumption`, `SessionsAssumption`, `RatingAssumption`, `FaresAssumption`,
`PromoAssumption`, `LimiterAssumption`, `CacheAssumption`, `ChoiceAssumption`,
`RequestsAssumption`, `ConsumerAssumption`, `ServerAssumption`), which type the constants and keep
the null values apart from the others. Finite are assumed to be: the sessions (the pool of
connections has 25, `database.go:30`; only `TransactionsNeverHalt` needs it), the orders
whose number a courier has to be counted (`ChoiceAssumption`), and the processes
(`ConsumerAssumption`).

- **OrderLifecycleProofs**: types of the computed rows, type correctness of the atomic specification, then its four
  promises. `HistoryIsLegal` is inductive with `TypeOK`. `DeliveredAtIsFinal` needs that
  every delivered order is dated (`DeliveredIsDated`), `CourierIsNeverErased` that an
  absent order has no courier. `TotalsCountReviews` is about cardinalities of sets
  of indices and needs that a review adds one index to one courier's set.
  `OrdersNeverComeBack` says what a legal trail amounts to: it enters no status twice and
  has five rows at most (`TrailsAdvance`: every allowed change goes to a status further on,
  or to "cancelled", from which none leads back).
- **DispatchProofs**: `TypeOK`, then `Isolation` = locks exclude ∧ reads are current ∧
  foreign keys hold. This is the inductive invariant of the locking
  protocol: `ReadsAreCurrent` alone is not inductive, because a session's read is only
  protected if nobody else holds the lock, and locks exclude each other only as the
  steps check them. From it follows `DispatchImplementsLifecycle`: a commit computes
  the tables from what was read, what was read is current, so it is one step of
  `OrderLifecycle`; all other steps stutter. The promises of `OrderLifecycle` are
  then carried over to `Dispatch` by the refinement. `NoDoubleBooking` is about a history
  variable of `Dispatch` and is proved directly.
  `TransactionsNeverHalt` (`SomebodyProceeds`) is the safety part of progress. By
  `WaitingIsForLocks` a transaction that cannot take its next statement waits for a session that
  holds a lock, and every such session has a transaction itself. If no transaction could go
  on, every one of them would have a successor in the graph of waits; in a
  finite graph some node then lies on a cycle (`SomeNodeIsOnACycle`: a smallest non-empty
  set that is closed under waiting is reached from each of its members), and that
  is what `AbortDeadlocked` looks for. The smallest set is taken by the well-foundedness of `<`
  on the naturals (`LeastNumber`), as induction itself is out of reach here. `CanProceed`
  states the guards of `Proceed`, as ENABLED cannot be reasoned about; TLC has compared the two on
  both instances of `Dispatch`, in every reachable state.
- **CourierRatingProofs**: a rounded quotient is nearest, and lies between
  bounds of the mean; so the rating stays in 1.00–5.00, follows each review, and
  drifts by at most (n + 1)/4 hundredths after n reviews (non-linear arithmetic,
  done by hand in small steps). The same bounds of the rating say when the cast in the trigger
  overflows: never before 199 reviews, always at the 1000th.
- **PromoCodesProofs**: `UsesAreWithinTerms` from the exclusion of the locks of a code
  and `CheckedTermsHold` (what was checked under the lock still holds);
  `UsesAreOrders` with `BornEarlier` (a code is not younger than the orders counted for
  it); `PricesAddUp` with `DiscountsFit` (in every transaction the total and the discount, each
  rounded to cents, make the price rounded to cents: `AddsUp`). A discount is either a whole
  number of cents, and then taking it away and rounding commute (`WholeCentsAddUp`), or the
  price itself, and then nothing is left; for all tariffs.
- **RowCacheProofs**: `FreshUnlessOvertaken` is inductive with `TypeOK` and
  `HeldRowsAreNoted`: a handler that still holds an old version has been noted as
  overtaken. A note is forgotten only where no old version is left (`Noted`), so what it
  excuses in the next state is excused still (`NotedIsEnough`). `CommitStep` is the core: commits that delete what they change keep the
  invariant.
- **RateLimiterProofs**: `OneExpirePerKey`, which is inductive with `TypeOK`, is the core of the
  rest: only the request that INCR answers with 1 opens a window, so at most one `Expire`
  is under way per key, and none outlives its window, because a key without TTL does
  not end. `AdmittedWithinLimit` needs that no more requests are admitted than are counted
  (`CountedFirst`), `WindowsLast` that age and TTL together make a whole window
  (`WindowsAreWhole`). `LostKeysStay` follows from `OneExpirePerKey`: when the only
  `Expire` of a key is lost, nobody else is going to send one.
- **RequestsProofs**: `TypeCorrect` first; `RequestsUseTransactions` shows that every step
  of a handler is one of `OrderLifecycle` or leaves the tables alone. `EventsAreTrue` is not
  inductive: it needs `TrailEnds` (a history ends with the present status of its order)
  and `ReadsHold` (what a handler has read is in the history at the length it
  noted, and histories only grow). `ChangesAreTold` is inductive with them, because each
  commit puts the event of the row it adds among the pending ones and no step removes an event
  from pending, published and lost together. `AnnouncedOnce` needs `AnnouncedAfter` (the
  history of an order whose courier is announced begins with created → accepted, so
  that no further assignment of it can commit). `NobodyBetterPassedOver` needs `ChosenIsBest` (the chosen courier has
  the highest score of the lists that are still held) and the monotonicity of
  `Score`. `LaterPartsShowMore` needs `PartsGrow` (every part is contained in the
  orders delivered now). By `RequestsUseTransactions` the handlers keep what `OrderLifecycle`
  promises (`HistoryStaysLegal`, `DeliveryIsFinal`, `CourierStays`), whatever they have read
  before their transactions.
- **ServerProofs**: the inductive invariant `IInv` is the types and `ClaimsAreSound`:
  everything below a claim's next offset, but for the message in hand, was tried,
  and marks and committed offsets rest on events, also in the claims of members that have lost
  their partition. From it follow `TypeOK` and `MarksFollowHandling`, and,
  with `LogsAreCounted` (a log is no longer than the requests and mishaps that can have
  written to it), the safety part of the refinement, `Spec => Group!Spec`. `CleanStops` needs
  `PhasesAgree` (which connections are open, and whether a request is served, in each phase),
  `NothingUntold` (a request that outlives the drain belongs to a process that is late, so the
  producer is closed only under such), and `NothingAgain` (without mishaps only owners claim, and everything
  tried is marked or committed or a malformed message: `LastMark`). `OffsetsNeverFall` needs
  `OwnersAreAhead`: only the owner's commits count, and it has marked no less than what is
  committed, since it began there.

Only model-checked: liveness (`TransactionsEnd`, `WindowsEndUnlessLost`,
`FreshInTheEnd`, `ShutdownEnds` and the liveness of `DeliversAtLeastOnce`), which rests on
fairness and ENABLED and is beyond this prover. Every invariant and action property
of the passing runs is proved. Of the three properties that runs find violated, section 4 names
what is proved about two of them instead (`rating_overflow`, `rate_limiter_docs`).

## 6. What the results do not say

- A courier's status is not tied to its orders: `UpdateCourierStatus` looks at no order,
  and nothing frees a courier whose order was delivered or cancelled. `NoDoubleBooking`
  is therefore stated between two settings of the status.
- `delivered` → `delivered` may name another courier, also after a review.
- `FreshUnlessOvertaken` is what cache-aside without locks gives: a row stored after a
  commit that overtook its reader stays until its TTL ends, or the next change of the row
  deletes it. `FreshInTheEnd` is the
  guarantee that remains, and it rests on the TTL: without one it fails.
- Events are best effort. `ChangesAreTold` says which are missing when a publication fails or a
  handler ends (those in `lost`, and nobody publishes them later). Their order is
  not guaranteed, and `old_status` may be that of an earlier moment (`EventsAreTrue`).
- SIGTERM can lose events. `consumer.Stop` may take the 30 seconds that were meant for the
  requests, for example while the group is being rebalanced; `Shutdown` then returns at once,
  and the producer is closed under requests that go on to commit. The same happens to a
  request that takes more than 30 seconds itself. `GracefulStopIsClean` says that SIGTERM and
  rebalances lose no event in another way, and repeat none; it does not say that they lose none.
- `NobodyBetterPassedOver` is about what the handler believes: a count of orders that fails
  is taken to be 0 (`courier_assignment_service.go:199`), and the busiest courier may then be
  the best.
- The prices of the items are rounded by a column of their own (`order_items.price`), each by
  itself: their sum may differ from the stored total by more than a cent. `PricesAddUp` is
  about the row of the order.
- An assignment makes the courier busy without `courier.status_changed`, and a status update
  without coordinates erases the known ones without an event
  (`courier_service.go:100`); both are in the model, and the properties are stated with them.
- `MarksFollowHandling` says that every message up to a committed offset was handled, not that
  it was handled with success: the mark of the next message commits a failed one too.
- The date range of analytics is not modelled. `analytics.go:134` compares the first moment of
  `from` with the last moment of the day `max - 1` days before `to`, so a range of
  exactly the maximal number of days is refused, the default range included.
- Not modelled: geocoding (a cache with a fallback; what it returns only chooses the target of
  an assignment, which is any place in `Requests`); sums, grouping and filters of
  analytics; configuration, logging, health checks, formats, which keep no state a
  property could be about.
