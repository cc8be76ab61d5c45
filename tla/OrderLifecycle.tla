---------------------------- MODULE OrderLifecycle ----------------------------
(***************************************************************************)
(* What the service promises about orders, couriers and reviews: every     *)
(* request takes effect at once or not at all.  Module Dispatch, where     *)
(* requests are transactions that lock rows and interleave, implements it. *)
(* A request that is refused changes nothing and is a stuttering step.     *)
(***************************************************************************)
EXTENDS OrderRows

VARIABLES orders,    \* the table orders
          history,   \* order_status_history, per order, oldest row first
          couriers,  \* the table couriers
          reviews    \* the table reviews, in the order of insertion

tables == <<orders, history, couriers, reviews>>

Init ==
  /\ orders = [o \in Orders |-> AbsentOrder]
  /\ history = [o \in Orders |-> <<>>]
  /\ couriers = [c \in Couriers |-> [status |-> "absent", total |-> 0]]
  /\ reviews = <<>>

CreateOrder(o) ==
  /\ orders[o].status = "absent"
  /\ orders' = [orders EXCEPT ![o] = CreatedOrder]
  /\ UNCHANGED <<history, couriers, reviews>>

CreateCourier(c) ==
  /\ couriers[c].status = "absent"
  /\ couriers' = [couriers EXCEPT ![c].status = "offline"]
  /\ UNCHANGED <<orders, history, reviews>>

UpdateCourierStatus(c, status) ==
  /\ couriers[c].status # "absent"
  /\ couriers' = [couriers EXCEPT ![c].status = status]
  /\ UNCHANGED <<orders, history, reviews>>

AssignOrderToCourier(o, c) ==
  /\ couriers[c].status = "available"
  /\ orders[o].status = "created"
  /\ orders' = [orders EXCEPT ![o] = AssignedOrder(@, c)]
  /\ history' = [history EXCEPT ![o] = Logged(@, "created", "accepted")]
  /\ couriers' = [couriers EXCEPT ![c].status = "busy"]
  /\ UNCHANGED reviews

\* courier = Null is a request without courier_id.
UpdateOrderStatus(o, to, courier, now) ==
  /\ orders[o].status # "absent"
  /\ CanMove(orders[o].status, to)
  /\ courier # Null => couriers[courier].status # "absent"
  /\ orders' = [orders EXCEPT ![o] = MovedOrder(@, @, to, courier, now)]
  /\ history' = [history EXCEPT ![o] = Logged(@, orders[o].status, to)]
  /\ UNCHANGED <<couriers, reviews>>

CreateReview(o, rating) ==
  LET c == orders[o].courier IN
  /\ Reviewable(orders[o])
  /\ orders' = [orders EXCEPT ![o].rating = rating]
  /\ reviews' = Append(reviews, [order |-> o, courier |-> c, rating |-> rating])
  /\ couriers' = [couriers EXCEPT ![c].total = @ + 1]
  /\ UNCHANGED history

Next ==
  \/ \E o \in Orders : CreateOrder(o)
  \/ \E c \in Couriers : CreateCourier(c)
  \/ \E c \in Couriers, status \in CourierStatuses : UpdateCourierStatus(c, status)
  \/ \E o \in Orders, c \in Couriers : AssignOrderToCourier(o, c)
  \/ \E o \in Orders, to \in Statuses, courier \in Couriers \cup {Null}, now \in Times :
       UpdateOrderStatus(o, to, courier, now)
  \/ \E o \in Orders, rating \in Ratings : CreateReview(o, rating)

Spec == Init /\ [][Next]_tables

------------------------------------------------------------------------------

\* The tables hold rows of their types.
TypeOK ==
  /\ orders \in [Orders -> OrderRow]
  /\ history \in [Orders -> Seq(Statuses \X Statuses)]
  /\ couriers \in [Couriers -> CourierRow]
  /\ reviews \in Seq(ReviewRow)

\* `log' is a path of allowed status changes from "created" to `status'.
LegalTrail(log, status) ==
  /\ \A i \in 1 .. Len(log) :
       /\ log[i] \in Moves
       /\ log[i][1] = IF i = 1 THEN "created" ELSE log[i - 1][2]
  /\ IF log = <<>> THEN status \in {"absent", "created"}
     ELSE status = log[Len(log)][2]

\* The audit trail of an order leads by allowed changes to its present
\* status: no transaction overwrites a status it has not seen
\* (UpdateOrderStatus, AssignOrderToCourier, the audit trigger).
HistoryIsLegal == \A o \in Orders : LegalTrail(history[o], orders[o].status)

\* A delivered order has a time of delivery, stays delivered and keeps that
\* time, however often the status "delivered" is requested again.
DeliveredAtIsFinal ==
  [][\A o \in Orders : orders[o].status = "delivered" =>
       /\ orders[o].deliveredAt # Null
       /\ orders'[o].status = "delivered"
       /\ orders'[o].deliveredAt = orders[o].deliveredAt]_tables

\* An order that has a courier always has one: a status update without
\* courier_id does not erase the assignment.
CourierIsNeverErased ==
  [][\A o \in Orders : orders[o].courier # Null => orders'[o].courier # Null]_tables

\* An order refers only to a courier that exists (the foreign key).
CouriersExist ==
  \A o \in Orders : orders[o].courier # Null
                      => couriers[orders[o].courier].status # "absent"

\* An order has at most one review; orders.rating is the rating of that
\* review, and only delivered orders have one (CreateReview).
OneReviewPerOrder ==
  /\ \A i, j \in 1 .. Len(reviews) : reviews[i].order = reviews[j].order => i = j
  /\ \A i \in 1 .. Len(reviews) :
       /\ orders[reviews[i].order].rating = reviews[i].rating
       /\ orders[reviews[i].order].status = "delivered"
  /\ \A o \in Orders : orders[o].rating # Null
                         => \E i \in 1 .. Len(reviews) : reviews[i].order = o

ReviewsOf(c) == {i \in 1 .. Len(reviews) : reviews[i].courier = c}

\* couriers.total_reviews counts the reviews of the courier: no increment of
\* the rating trigger is lost.
TotalsCountReviews ==
  \A c \in Couriers : couriers[c].total = Cardinality(ReviewsOf(c))
==============================================================================
