------------------------------ MODULE OrderRows ------------------------------
(***************************************************************************)
(* The rows of the tables orders, order_status_history, couriers and       *)
(* reviews, and the pure functions with which the services compute a new   *)
(* row from the one they have read.  Order contents, names, phones and     *)
(* prices are left out; a NULL column is Null.                             *)
(***************************************************************************)
EXTENDS Naturals, Sequences, FiniteSets

CONSTANTS Orders,    \* identifiers of the orders that are ever created
          Couriers,  \* identifiers of the couriers that are ever registered
          Times,     \* values time.Now() may return
          Ratings,   \* ratings the clients give
          Null       \* SQL NULL, an omitted field of a request

ASSUME RowsAssumption ==
  /\ Ratings \subseteq 1 .. 5
  /\ Null \notin Orders \cup Couriers \cup Times \cup Ratings

Statuses == {"created", "accepted", "preparing", "ready", "in_delivery",
             "delivered", "cancelled"}

CourierStatuses == {"offline", "available", "busy"}

\* A row that has not been inserted yet has the status "absent".
OrderRow == [status      : Statuses \cup {"absent"},
             courier     : Couriers \cup {Null},
             deliveredAt : Times \cup {Null},
             rating      : Ratings \cup {Null}]

CourierRow == [status : CourierStatuses \cup {"absent"}, total : Nat]

ReviewRow == [order : Orders, courier : Couriers, rating : Ratings]

AbsentOrder == [status |-> "absent", courier |-> Null,
                deliveredAt |-> Null, rating |-> Null]

CreatedOrder == [AbsentOrder EXCEPT !.status = "created"]

\* The status changes the services allow, other than keeping the status.
Moves == {<<"created", "accepted">>, <<"accepted", "preparing">>,
          <<"preparing", "ready">>, <<"ready", "in_delivery">>,
          <<"in_delivery", "delivered">>}
         \cup ({"created", "accepted", "preparing", "ready", "in_delivery"}
               \X {"cancelled"})

CanMove(from, to) == from = to \/ <<from, to>> \in Moves

\* Mutant of DeliveredAt: every request to set "delivered" dates it anew.
DatedAgain(row, to, now) == IF to = "delivered" THEN now ELSE Null

\* delivered_at after a status update of the row `row' to the status `to'.
DeliveredAt(row, to, now) ==
  IF to # "delivered" THEN Null
  ELSE IF row.status = "delivered" /\ row.deliveredAt # Null
       THEN row.deliveredAt ELSE now

\* Mutant of MovedOrder: the courier column is written as requested.
MovedAsRequested(row, seen, to, courier, now) ==
  [row EXCEPT !.status = to, !.courier = courier,
              !.deliveredAt = DeliveredAt(seen, to, now)]

\* What UPDATE orders writes over `row' when the transaction has read `seen':
\* the requested courier replaces the one that was read, an omitted one
\* keeps it, and the columns the statement does not set keep their value.
MovedOrder(row, seen, to, courier, now) ==
  [row EXCEPT !.status = to,
              !.courier = IF courier = Null THEN seen.courier ELSE courier,
              !.deliveredAt = DeliveredAt(seen, to, now)]

AssignedOrder(row, courier) ==
  [row EXCEPT !.status = "accepted", !.courier = courier]

\* Mutant of Reviewable: the check of orders.rating is forgotten.
ReviewableAgain(row) == row.courier # Null /\ row.status = "delivered"

\* CreateReview accepts a review of the row it has read.
Reviewable(row) ==
  row.courier # Null /\ row.status = "delivered" /\ row.rating = Null

\* The audit trigger: one history row per change of status.
Logged(log, from, to) ==
  IF from = to THEN log ELSE Append(log, <<from, to>>)
==============================================================================
