------------------------------- MODULE Dispatch -------------------------------
(***************************************************************************)
(* The transactions of OrderService and CourierService as PostgreSQL runs  *)
(* them at READ COMMITTED: each session executes one transaction at a      *)
(* time, takes row locks with SELECT ... FOR UPDATE, with UPDATE and with  *)
(* foreign-key checks, and what it writes is visible when it commits.      *)
(*                                                                         *)
(* A step is one statement that may have to wait for a row lock.  BEGIN    *)
(* and the statement that takes the first lock are one step (a session     *)
(* that holds nothing blocks nobody), and so are the last statement and    *)
(* COMMIT.  The locks follow from the step a session is at.  The answer to *)
(* the client, the cache and the events are not modelled here.             *)
(***************************************************************************)
EXTENDS OrderRows

CONSTANT Sessions   \* database sessions, one per transaction in flight

ASSUME SessionsAssumption == Null \notin Sessions /\ IsFiniteSet(Sessions)

VARIABLES orders, history, couriers, reviews,   \* the committed tables
          tx,        \* the transaction of each session
          booked     \* history variable: the orders assigned to a courier
                     \* since somebody last set the courier's status

tables == <<orders, history, couriers, reviews>>
vars == <<orders, history, couriers, reviews, tx, booked>>

\* idle:      no transaction
\* assigning: AssignOrderToCourier has the courier row, next UPDATE orders
\* assigned:  ... has updated the order, next UPDATE couriers and COMMIT
\* updating:  UpdateOrderStatus has the order row, next UPDATE and COMMIT
\* reviewing: CreateReview has the order row, next INSERT INTO reviews
\* inserted:  ... has inserted the review, next the trigger's SELECT
\* rated:     ... the trigger has the courier row, next UPDATEs and COMMIT
Steps == {"idle", "assigning", "assigned", "updating",
          "reviewing", "inserted", "rated"}

\* order, courier, status, rating: the request; row: the order row as the
\* transaction has read it; total: total_reviews as the trigger computed it.
Transaction == [at : Steps, order : Orders \cup {Null}, courier : Couriers \cup {Null},
                status : Statuses \cup {Null}, rating : Ratings \cup {Null},
                row : OrderRow, total : Nat]

Idle == [at |-> "idle", order |-> Null, courier |-> Null, status |-> Null,
         rating |-> Null, row |-> AbsentOrder, total |-> 0]

\* A transaction carries the parts of its request that its steps need.
WellFormed(t) ==
  /\ t.at = "idle" => t = Idle
  /\ t.at # "idle" => t.order \in Orders
  /\ t.at \in {"assigning", "assigned", "inserted", "rated"} => t.courier \in Couriers
  /\ t.at = "updating" => t.status \in Statuses
  /\ t.at \in {"reviewing", "inserted", "rated"} => t.rating \in Ratings

Init ==
  /\ orders = [o \in Orders |-> AbsentOrder]
  /\ history = [o \in Orders |-> <<>>]
  /\ couriers = [c \in Couriers |-> [status |-> "absent", total |-> 0]]
  /\ reviews = <<>>
  /\ tx = [s \in Sessions |-> Idle]
  /\ booked = [c \in Couriers |-> {}]

------------------------------------------------------------------------------
(* Row locks                                                               *)

\* s holds the row of the order o FOR UPDATE (or has updated it).
HoldsOrder(s, o) == tx[s].at \notin {"idle", "assigning"} /\ tx[s].order = o

\* s holds the row of the courier c FOR UPDATE.
HoldsCourier(s, c) == tx[s].at \in {"assigning", "assigned", "rated"} /\ tx[s].courier = c

\* s holds the row of the courier c FOR KEY SHARE: a foreign key check.
SharesCourier(s, c) == tx[s].at = "inserted" /\ tx[s].courier = c

\* Mutant of OrderIsFree: the order row is read without FOR UPDATE.
OrderIsNotLocked(s, o) == TRUE

OrderIsFree(s, o) == \A t \in Sessions \ {s} : ~HoldsOrder(t, o)

\* FOR KEY SHARE and a plain UPDATE of the row conflict with FOR UPDATE only.
CourierIsShareable(s, c) == \A t \in Sessions \ {s} : ~HoldsCourier(t, c)

\* Mutant of CourierIsFree: the courier row is read without FOR UPDATE.
CourierIsNotLocked(s, c) == TRUE

\* Mutant of CourierIsFree: the trigger's statement has a transaction of its
\* own, for which the one that has inserted the review is another.
CourierIsFreeOfAll(s, c) ==
  \A t \in Sessions : ~HoldsCourier(t, c) /\ ~SharesCourier(t, c)

CourierIsFree(s, c) ==
  \A t \in Sessions \ {s} : ~HoldsCourier(t, c) /\ ~SharesCourier(t, c)

\* The courier whose row the foreign keys of orders and order_status_history
\* make the UPDATE of an order check: none if neither key is written.
CheckedCourier(s) ==
  LET new == MovedOrder(tx[s].row, tx[s].row, tx[s].status, tx[s].courier, Null)
  IN IF new.courier # tx[s].row.courier \/ new.status # tx[s].row.status
     THEN new.courier ELSE Null

\* The sessions whose locks keep the next statement of s waiting.
WaitsFor(s) ==
  LET t == tx[s] IN
  CASE t.at = "assigning" /\ orders[t.order].status = "created"
         -> {u \in Sessions \ {s} : HoldsOrder(u, t.order)}
    [] t.at = "updating" /\ CanMove(t.row.status, t.status)
         -> {u \in Sessions \ {s} : HoldsCourier(u, CheckedCourier(s))}
    [] t.at = "reviewing" /\ Reviewable(t.row)
         -> {u \in Sessions \ {s} : HoldsCourier(u, t.row.courier)}
    [] t.at = "inserted"
         -> {u \in Sessions \ {s} : HoldsCourier(u, t.courier) \/ SharesCourier(u, t.courier)}
    [] OTHER -> {}

\* s waits, through others or not, for itself: every set of sessions that
\* has those s waits for, and those its own members wait for, contains s.
InWaitCycle(s) ==
  \A S \in SUBSET Sessions :
    WaitsFor(s) \subseteq S /\ (\A t \in S : WaitsFor(t) \subseteq S) => s \in S

\* Mutant of Rollback: the transaction of a refused request is left open.
NoRollback(s) == UNCHANGED vars

\* The deferred tx.Rollback(), or that of the database.
Rollback(s) ==
  /\ tx' = [tx EXCEPT ![s] = Idle]
  /\ UNCHANGED <<tables, booked>>

------------------------------------------------------------------------------
(* Requests that need no transaction of several statements                 *)

\* CreateOrder inserts new rows only, which nobody else can lock or see.
CreateOrder(o) ==
  /\ orders[o].status = "absent"
  /\ orders' = [orders EXCEPT ![o] = CreatedOrder]
  /\ UNCHANGED <<history, couriers, reviews, tx, booked>>

CreateCourier(c) ==
  /\ couriers[c].status = "absent"
  /\ couriers' = [couriers EXCEPT ![c].status = "offline"]
  /\ UNCHANGED <<orders, history, reviews, tx, booked>>

\* One UPDATE, committed at once, that looks at no order of the courier.
UpdateCourierStatus(c, status) ==
  /\ couriers[c].status # "absent"
  /\ \A s \in Sessions : ~HoldsCourier(s, c)
  /\ couriers' = [couriers EXCEPT ![c].status = status]
  /\ booked' = [booked EXCEPT ![c] = {}]
  /\ UNCHANGED <<orders, history, reviews, tx>>

------------------------------------------------------------------------------
(* AssignOrderToCourier: the courier row first, then the order row         *)

\* SELECT status FROM couriers ... FOR UPDATE.
BeginAssign(s, o, c) ==
  /\ tx[s] = Idle
  /\ CourierIsFree(s, c)
  /\ couriers[c].status = "available"
  /\ tx' = [tx EXCEPT ![s] = [Idle EXCEPT !.at = "assigning", !.order = o, !.courier = c]]
  /\ UNCHANGED <<tables, booked>>

\* UPDATE orders ... WHERE status = 'created' finds the row.
UpdateAssignedOrder(s) ==
  LET o == tx[s].order IN
  /\ tx[s].at = "assigning"
  /\ orders[o].status = "created"
  /\ OrderIsFree(s, o)
  /\ tx' = [tx EXCEPT ![s].at = "assigned", ![s].row = orders[o]]
  /\ UNCHANGED <<tables, booked>>

\* ... or finds none: the order does not exist or has left "created".
RefuseAssign(s) ==
  /\ tx[s].at = "assigning"
  /\ orders[tx[s].order].status # "created"
  /\ Rollback(s)

\* Mutant of CommitAssign: the courier is left available.
CommitAssignOnly(s) ==
  LET o == tx[s].order
      c == tx[s].courier
  IN
  /\ tx[s].at = "assigned"
  /\ couriers[c].status = "available"
  /\ orders' = [orders EXCEPT ![o] = AssignedOrder(@, c)]
  /\ history' = [history EXCEPT ![o] = Logged(@, orders[o].status, "accepted")]
  /\ booked' = [booked EXCEPT ![c] = @ \cup {o}]
  /\ tx' = [tx EXCEPT ![s] = Idle]
  /\ UNCHANGED <<couriers, reviews>>

\* UPDATE couriers ... WHERE status = 'available', then COMMIT.
CommitAssign(s) ==
  LET o == tx[s].order
      c == tx[s].courier
  IN
  /\ tx[s].at = "assigned"
  /\ couriers[c].status = "available"
  /\ orders' = [orders EXCEPT ![o] = AssignedOrder(@, c)]
  /\ history' = [history EXCEPT ![o] = Logged(@, orders[o].status, "accepted")]
  /\ couriers' = [couriers EXCEPT ![c].status = "busy"]
  /\ booked' = [booked EXCEPT ![c] = @ \cup {o}]
  /\ tx' = [tx EXCEPT ![s] = Idle]
  /\ UNCHANGED reviews

------------------------------------------------------------------------------
(* UpdateOrderStatus: the order row, then the courier's foreign key        *)

\* SELECT status, courier_id, delivered_at FROM orders ... FOR UPDATE.
BeginUpdate(s, o, to, courier) ==
  /\ tx[s] = Idle
  /\ orders[o].status # "absent"
  /\ OrderIsFree(s, o)
  /\ tx' = [tx EXCEPT ![s] = [Idle EXCEPT !.at = "updating", !.order = o,
                              !.courier = courier, !.status = to, !.row = orders[o]]]
  /\ UNCHANGED <<tables, booked>>

UpdateIsValid(s) ==
  /\ CanMove(tx[s].row.status, tx[s].status)
  /\ CheckedCourier(s) # Null => couriers[CheckedCourier(s)].status # "absent"

\* The transition is not allowed, or the foreign key check fails.
RefuseUpdate(s) ==
  /\ tx[s].at = "updating"
  /\ ~UpdateIsValid(s)
  /\ Rollback(s)

\* UPDATE orders with its foreign key checks and audit trigger, then COMMIT.
CommitUpdate(s, now) ==
  LET o == tx[s].order
      t == tx[s]
  IN
  /\ t.at = "updating"
  /\ UpdateIsValid(s)
  /\ CheckedCourier(s) # Null => CourierIsShareable(s, CheckedCourier(s))
  /\ orders' = [orders EXCEPT ![o] = MovedOrder(@, t.row, t.status, t.courier, now)]
  /\ history' = [history EXCEPT ![o] = Logged(@, orders[o].status, t.status)]
  /\ tx' = [tx EXCEPT ![s] = Idle]
  /\ UNCHANGED <<couriers, reviews, booked>>

------------------------------------------------------------------------------
(* CreateReview: the order row, the courier's foreign key, the courier row *)

\* Mutant of BeginReview: an order that was not found is gone on with.
BeginReviewOfNothing(s, o, rating) ==
  /\ tx[s] = Idle
  /\ OrderIsFree(s, o)
  /\ tx' = [tx EXCEPT ![s] = [Idle EXCEPT !.at = "reviewing", !.order = o,
                              !.rating = rating, !.row = orders[o]]]
  /\ UNCHANGED <<tables, booked>>

\* SELECT courier_id, status, rating FROM orders ... FOR UPDATE.
BeginReview(s, o, rating) ==
  /\ tx[s] = Idle
  /\ orders[o].status # "absent"
  /\ OrderIsFree(s, o)
  /\ tx' = [tx EXCEPT ![s] = [Idle EXCEPT !.at = "reviewing", !.order = o,
                              !.rating = rating, !.row = orders[o]]]
  /\ UNCHANGED <<tables, booked>>

\* No courier, not delivered, or reviewed already.
RefuseReview(s) ==
  /\ tx[s].at = "reviewing"
  /\ ~Reviewable(tx[s].row)
  /\ Rollback(s)

\* INSERT INTO reviews: its foreign key shares the courier row.
InsertReview(s) ==
  LET c == tx[s].row.courier IN
  /\ tx[s].at = "reviewing"
  /\ Reviewable(tx[s].row)
  /\ CourierIsShareable(s, c)
  /\ tx' = [tx EXCEPT ![s].at = "inserted", ![s].courier = c]
  /\ UNCHANGED <<tables, booked>>

\* Mutant of LockRatedCourier: the trigger reads the courier without a lock.
ReadRatedCourier(s) ==
  /\ tx[s].at = "inserted"
  /\ tx' = [tx EXCEPT ![s].at = "rated", ![s].total = couriers[tx[s].courier].total + 1]
  /\ UNCHANGED <<tables, booked>>

\* The trigger: SELECT total_reviews + 1 ... FROM couriers ... FOR UPDATE.
LockRatedCourier(s) ==
  LET c == tx[s].courier IN
  /\ tx[s].at = "inserted"
  /\ CourierIsFree(s, c)
  /\ tx' = [tx EXCEPT ![s].at = "rated", ![s].total = couriers[c].total + 1]
  /\ UNCHANGED <<tables, booked>>

\* The trigger's UPDATE couriers, UPDATE orders, then COMMIT.
CommitReview(s) ==
  LET o == tx[s].order
      c == tx[s].courier
  IN
  /\ tx[s].at = "rated"
  /\ couriers' = [couriers EXCEPT ![c].total = tx[s].total]
  /\ reviews' = Append(reviews, [order |-> o, courier |-> c, rating |-> tx[s].rating])
  /\ orders' = [orders EXCEPT ![o].rating = tx[s].rating]
  /\ tx' = [tx EXCEPT ![s] = Idle]
  /\ UNCHANGED <<history, booked>>

------------------------------------------------------------------------------
(* Transactions that fail                                                  *)

\* At any moment a statement may fail, the client may hang up (the request's
\* context cancels the transaction), the server or the connection may die.
Abort(s) ==
  /\ tx[s] # Idle
  /\ Rollback(s)

\* PostgreSQL aborts a transaction that waits in a cycle.
AbortDeadlocked(s) ==
  /\ InWaitCycle(s)
  /\ Rollback(s)

------------------------------------------------------------------------------

\* What the server and the database do for a transaction that has begun.
Proceed(s) ==
  \/ UpdateAssignedOrder(s)
  \/ RefuseAssign(s)
  \/ CommitAssign(s)
  \/ RefuseUpdate(s)
  \/ \E now \in Times : CommitUpdate(s, now)
  \/ RefuseReview(s)
  \/ InsertReview(s)
  \/ LockRatedCourier(s)
  \/ CommitReview(s)

Next ==
  \/ \E o \in Orders : CreateOrder(o)
  \/ \E c \in Couriers : CreateCourier(c)
  \/ \E c \in Couriers, status \in CourierStatuses : UpdateCourierStatus(c, status)
  \/ \E s \in Sessions :
       \/ \E o \in Orders, c \in Couriers : BeginAssign(s, o, c)
       \/ \E o \in Orders, to \in Statuses, courier \in Couriers \cup {Null} :
            BeginUpdate(s, o, to, courier)
       \/ \E o \in Orders, rating \in Ratings : BeginReview(s, o, rating)
       \/ Proceed(s)
       \/ Abort(s)
       \/ AbortDeadlocked(s)

Spec == Init /\ [][Next]_vars

\* A transaction that can go on does, and row locks are granted in the order
\* of arrival, so one that becomes available again and again is obtained.
\* The deadlock detector runs whenever a wait lasts.  Nobody has to send a
\* request, and no transaction has to be aborted otherwise.
Fairness ==
  \A s \in Sessions : SF_vars(Proceed(s)) /\ WF_vars(AbortDeadlocked(s))

FairSpec == Spec /\ Fairness

------------------------------------------------------------------------------
(* Properties                                                              *)

\* The refinement mapping: the committed tables are the abstract ones.
Lifecycle == INSTANCE OrderLifecycle
  WITH orders <- orders, history <- history, couriers <- couriers, reviews <- reviews

\* Every transaction takes effect as one atomic operation on the tables,
\* computed from their present contents.
ImplementsLifecycle == Lifecycle!Spec

\* The tables and the transactions in flight have their types; a transaction
\* past its first SELECT has found its order.
TypeOK ==
  /\ orders \in [Orders -> OrderRow]
  /\ history \in [Orders -> Seq(Statuses \X Statuses)]
  /\ couriers \in [Couriers -> CourierRow]
  /\ reviews \in Seq(ReviewRow)
  /\ tx \in [Sessions -> Transaction]
  /\ booked \in [Couriers -> SUBSET Orders]
  /\ \A s \in Sessions :
       /\ WellFormed(tx[s])
       /\ tx[s].at \notin {"idle", "assigning"} => orders[tx[s].order].status # "absent"

\* Two transactions never hold an order row, and who holds a courier row
\* FOR UPDATE shares it with nobody.
LocksExclude ==
  \A s, t \in Sessions : s # t =>
    /\ \A o \in Orders : ~(HoldsOrder(s, o) /\ HoldsOrder(t, o))
    /\ \A c \in Couriers :
         ~(HoldsCourier(s, c) /\ (HoldsCourier(t, c) \/ SharesCourier(t, c)))

\* What a transaction has read it may still rely on when it writes: the order
\* row is the committed one, the courier to be assigned is still available,
\* the number of reviews the trigger has read is still the courier's.
ReadIsCurrent(s) ==
  LET t == tx[s] IN
  /\ t.at \notin {"idle", "assigning"} => t.row = orders[t.order]
  /\ t.at \in {"assigning", "assigned"} => couriers[t.courier].status = "available"
  /\ t.at = "assigned" => t.row.status = "created"
  /\ t.at \in {"inserted", "rated"} => Reviewable(t.row) /\ t.courier = t.row.courier
  /\ t.at = "rated" => t.total = couriers[t.courier].total + 1

ReadsAreCurrent == \A s \in Sessions : ReadIsCurrent(s)

\* The row locks of OrderService, CourierService and the rating trigger
\* isolate their transactions at READ COMMITTED: locks exclude each other,
\* what was read under them stays current until COMMIT, and orders refer
\* only to couriers that exist.
Isolation == LocksExclude /\ ReadsAreCurrent /\ Lifecycle!CouriersExist

\* Between two settings of a courier's status, AssignOrderToCourier gives the
\* courier at most one order, and the courier stays busy with it: concurrent
\* assignments cannot both find the courier available.
NoDoubleBooking ==
  \A c \in Couriers :
    /\ \A o, p \in booked[c] : o = p
    /\ booked[c] # {} => couriers[c].status = "busy"

\* The guards of the steps of Proceed(s): the next statement of s, or its
\* refusal, needs no lock that another session has.
CanProceed(s) ==
  LET t == tx[s] IN
  \/ t.at = "assigning" /\ (orders[t.order].status = "created" => OrderIsFree(s, t.order))
  \/ t.at = "assigned" /\ couriers[t.courier].status = "available"
  \/ t.at = "updating" /\ (UpdateIsValid(s) /\ CheckedCourier(s) # Null
                             => CourierIsShareable(s, CheckedCourier(s)))
  \/ t.at = "reviewing" /\ (Reviewable(t.row) => CourierIsShareable(s, t.row.courier))
  \/ t.at = "inserted" /\ CourierIsFree(s, t.courier)
  \/ t.at = "rated"

\* The transactions never all come to a halt: while there is one, some
\* transaction can go on, or waits in a cycle, which PostgreSQL ends by
\* aborting it; and it aborts none that could have gone on.
SomebodyProceeds ==
  /\ (\E s \in Sessions : tx[s] # Idle)
       => \E s \in Sessions : CanProceed(s) \/ InWaitCycle(s)
  /\ \A s \in Sessions : InWaitCycle(s) => ~CanProceed(s)

\* The audit trail of every order is a path of allowed status changes to its
\* present status, although updates, assignments and cancellations race.
HistoryIsLegal == Lifecycle!HistoryIsLegal

\* Concurrent reviews of an order leave one review, whose rating the order
\* shows; only delivered orders have one.  The table has no unique key on
\* order_id: only the lock of the order row prevents a second review.
OneReviewPerOrder == Lifecycle!OneReviewPerOrder

\* No increment of couriers.total_reviews by the rating trigger is lost when
\* orders of one courier are reviewed at the same time.
TotalsCountReviews == Lifecycle!TotalsCountReviews

\* Once an order is delivered, the time of its delivery is never changed, by
\* a repeated or a concurrent request to set the status "delivered".
DeliveredAtIsFinal == Lifecycle!DeliveredAtIsFinal

\* An order that has got a courier keeps one through every status update:
\* a request without courier_id cannot write back a NULL it read before.
CourierIsNeverErased == Lifecycle!CourierIsNeverErased

\* Every transaction ends: sessions that wait for each other's order and
\* courier rows (assignments take them in the opposite order of status
\* updates; two reviews both share the courier row before locking it) do not
\* wait for ever.
TransactionsEnd == \A s \in Sessions : (tx[s] # Idle) ~> (tx[s] = Idle)

\* The walk-through of README.md (step 5, lines 648-652) sets the status
\* "delivered" right after the courier was assigned, that is on an accepted
\* order: such a request, with the order's courier, is not refused.
AcceptedOrdersCanBeDelivered ==
  [][\A s \in Sessions :
       LET t == tx[s] IN
       t.at = "updating" /\ t.row.status = "accepted" /\ t.status = "delivered"
         /\ t.courier = t.row.courier
         => ~RefuseUpdate(s)]_vars
==============================================================================
