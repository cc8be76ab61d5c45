------------------------- MODULE OrderLifecycleProofs -------------------------
(***************************************************************************)
(* OrderLifecycle keeps its promises, for all orders, couriers, ratings.   *)
(***************************************************************************)
EXTENDS OrderLifecycle, FiniteSetTheorems, TLAPS

------------------------------------------------------------------------------
(* What the row functions of OrderRows return, for any rows                *)

\* Moves is a relation on statuses, and never leaves a final status.
LEMMA MovesType ==
  ASSUME NEW from, NEW to, <<from, to>> \in Moves
  PROVE  /\ from \in Statuses
         /\ to \in Statuses
         /\ from # to
         /\ from \notin {"delivered", "cancelled"}
BY DEF Moves, Statuses

\* An UPDATE of an order, computed from a row read before, writes a row.
LEMMA MovedOrderType ==
  ASSUME NEW row \in OrderRow, NEW seen \in OrderRow, NEW to \in Statuses,
         NEW courier \in Couriers \cup {Null}, NEW now \in Times
  PROVE  MovedOrder(row, seen, to, courier, now) \in OrderRow
BY ZenonT(30) DEF OrderRow, MovedOrder, DeliveredAt

LEMMA AssignedOrderType ==
  ASSUME NEW row \in OrderRow, NEW courier \in Couriers
  PROVE  AssignedOrder(row, courier) \in OrderRow
BY DEF OrderRow, AssignedOrder, Statuses

LEMMA LoggedType ==
  ASSUME NEW log \in Seq(Statuses \X Statuses), NEW from \in Statuses, NEW to \in Statuses
  PROVE  Logged(log, from, to) \in Seq(Statuses \X Statuses)
BY DEF Logged

LEMMA AbsentOrderType == AbsentOrder \in OrderRow /\ CreatedOrder \in OrderRow
BY DEF AbsentOrder, CreatedOrder, OrderRow, Statuses

LEMMA RatedOrderType ==
  ASSUME NEW row \in OrderRow, NEW rating \in Ratings
  PROVE  [row EXCEPT !.rating = rating] \in OrderRow
BY DEF OrderRow

LEMMA CountedCourierType ==
  ASSUME NEW row \in CourierRow
  PROVE  [row EXCEPT !.total = @ + 1] \in CourierRow
<1>1. row.total + 1 \in Nat
  BY DEF CourierRow
<1>2. ASSUME NEW n \in Nat  PROVE [row EXCEPT !.total = n] \in CourierRow
  BY DEF CourierRow
<1> QED
  BY <1>1, <1>2

------------------------------------------------------------------------------
(* The atomic specification                                                *)

\* The tables keep rows of their types.
THEOREM TypeCorrect == Spec => []TypeOK
<1>1. Init => TypeOK
  BY AbsentOrderType DEF Init, TypeOK, CourierRow
<1>2. TypeOK /\ [Next]_tables => TypeOK'
  <2> SUFFICES ASSUME TypeOK, [Next]_tables PROVE TypeOK'
    OBVIOUS
  <2> USE DEF TypeOK
  <2>1. ASSUME NEW o \in Orders, CreateOrder(o)  PROVE TypeOK'
    BY <2>1, AbsentOrderType DEF CreateOrder
  <2>2. ASSUME NEW c \in Couriers, CreateCourier(c)  PROVE TypeOK'
    BY <2>2 DEF CreateCourier, CourierRow, CourierStatuses
  <2>3. ASSUME NEW c \in Couriers, NEW status \in CourierStatuses,
               UpdateCourierStatus(c, status)
        PROVE  TypeOK'
    BY <2>3 DEF UpdateCourierStatus, CourierRow
  <2>4. ASSUME NEW o \in Orders, NEW c \in Couriers, AssignOrderToCourier(o, c)
        PROVE  TypeOK'
    <3>1. AssignedOrder(orders[o], c) \in OrderRow
      BY AssignedOrderType
    <3>2. Logged(history[o], "created", "accepted") \in Seq(Statuses \X Statuses)
      BY LoggedType DEF Statuses
    <3>3. [couriers[c] EXCEPT !.status = "busy"] \in CourierRow
      BY DEF CourierRow, CourierStatuses
    <3> QED
      BY <2>4, <3>1, <3>2, <3>3 DEF AssignOrderToCourier
  <2>5. ASSUME NEW o \in Orders, NEW to \in Statuses, NEW courier \in Couriers \cup {Null},
               NEW now \in Times, UpdateOrderStatus(o, to, courier, now)
        PROVE  TypeOK'
    <3>1. MovedOrder(orders[o], orders[o], to, courier, now) \in OrderRow
      BY MovedOrderType
    <3>2. orders[o].status \in Statuses
      BY <2>5 DEF UpdateOrderStatus, OrderRow
    <3>3. Logged(history[o], orders[o].status, to) \in Seq(Statuses \X Statuses)
      BY <3>2, LoggedType
    <3> QED
      BY <2>5, <3>1, <3>3 DEF UpdateOrderStatus
  <2>6. ASSUME NEW o \in Orders, NEW rating \in Ratings, CreateReview(o, rating)
        PROVE  TypeOK'
    <3> DEFINE c == orders[o].courier
    <3>1. c \in Couriers
      <4>1. orders[o] \in OrderRow /\ c # Null
        BY <2>6 DEF CreateReview, Reviewable
      <4> QED
        BY <4>1 DEF OrderRow
    <3>2. [orders[o] EXCEPT !.rating = rating] \in OrderRow
      BY RatedOrderType
    <3>3. [couriers[c] EXCEPT !.total = @ + 1] \in CourierRow
      BY <3>1, CountedCourierType
    <3>4. [order |-> o, courier |-> c, rating |-> rating] \in ReviewRow
      BY <3>1 DEF ReviewRow
    <3>5. /\ orders' = [orders EXCEPT ![o].rating = rating]
          /\ reviews' = Append(reviews, [order |-> o, courier |-> c, rating |-> rating])
          /\ couriers' = [couriers EXCEPT ![c].total = @ + 1]
          /\ UNCHANGED history
      BY <2>6 DEF CreateReview
    <3> HIDE DEF c
    <3> QED
      BY <3>1, <3>2, <3>3, <3>4, <3>5
  <2>7. CASE UNCHANGED tables
    BY <2>7 DEF tables
  <2> QED
    BY <2>1, <2>2, <2>3, <2>4, <2>5, <2>6, <2>7 DEF Next
<1>3. QED
  BY <1>1, <1>2, PTL DEF Spec

------------------------------------------------------------------------------
(* The audit trail                                                         *)

\* A status update the transition table allows, logged by the trigger,
\* continues the trail.
LEMMA TrailContinues ==
  ASSUME NEW log \in Seq(Statuses \X Statuses), NEW from \in Statuses, NEW to \in Statuses,
         LegalTrail(log, from), CanMove(from, to)
  PROVE  LegalTrail(Logged(log, from, to), to)
<1>1. CASE from = to
  BY <1>1 DEF Logged
<1>2. CASE from # to
  <2> DEFINE new == Append(log, <<from, to>>)
  <2>1. /\ Logged(log, from, to) = new
        /\ <<from, to>> \in Moves
    BY <1>2 DEF Logged, CanMove
  <2>2. /\ Len(new) = Len(log) + 1 /\ Len(log) \in Nat /\ new # <<>>
        /\ new[Len(new)] = <<from, to>>
        /\ \A i \in 1 .. Len(log) : new[i] = log[i]
    <3>1. Len(new) = Len(log) + 1 /\ Len(log) \in Nat
      OBVIOUS
    <3>2. new[Len(log) + 1] = <<from, to>>
      OBVIOUS
    <3>3. \A i \in 1 .. Len(log) : new[i] = log[i]
      OBVIOUS
    <3>4. new # <<>>
      BY <3>1
    <3> QED
      BY <3>1, <3>2, <3>3, <3>4
  <2>3. from = IF log # <<>> THEN log[Len(log)][2] ELSE "created"
    BY DEF LegalTrail, Statuses
  <2>4. ASSUME NEW i \in 1 .. Len(new)
        PROVE  new[i] \in Moves /\ new[i][1] = IF i = 1 THEN "created" ELSE new[i - 1][2]
    <3>1. CASE i \in 1 .. Len(log)
      BY <2>2, <3>1 DEF LegalTrail
    <3>2. CASE i = Len(new) /\ log = <<>>
      BY <2>1, <2>2, <2>3, <3>2
    <3>3. CASE i = Len(new) /\ log # <<>>
      <4>1. i - 1 = Len(log) /\ i - 1 \in 1 .. Len(log) /\ i # 1
        BY <2>2, <3>3
      <4> QED
        BY <2>1, <2>2, <2>3, <3>3, <4>1
    <3> QED
      BY <2>2, <3>1, <3>2, <3>3
  <2> HIDE DEF new
  <2>5. to = new[Len(new)][2]
    BY <2>2
  <2> QED
    BY <2>1, <2>2, <2>4, <2>5 DEF LegalTrail
<1> QED
  BY <1>1, <1>2

\* Every order's audit trail leads by allowed changes to its status.
THEOREM HistoryStaysLegal == Spec => []HistoryIsLegal
<1>1. Init => HistoryIsLegal
  BY DEF Init, HistoryIsLegal, LegalTrail, AbsentOrder
<1>2. TypeOK /\ HistoryIsLegal /\ [Next]_tables => HistoryIsLegal'
  <2> SUFFICES ASSUME TypeOK, HistoryIsLegal, [Next]_tables PROVE HistoryIsLegal'
    OBVIOUS
  <2>1. CASE \A o \in Orders : history'[o] = history[o] /\ orders'[o].status = orders[o].status
    BY <2>1 DEF HistoryIsLegal
  <2>2. ASSUME NEW o \in Orders, CreateOrder(o)  PROVE HistoryIsLegal'
    <3>1. LegalTrail(history[o], "created")
      BY <2>2 DEF CreateOrder, HistoryIsLegal, LegalTrail, TypeOK, Moves
    <3> QED
      BY <2>2, <3>1 DEF CreateOrder, HistoryIsLegal, CreatedOrder, AbsentOrder, TypeOK
  <2>3. ASSUME NEW o \in Orders, NEW c \in Couriers, AssignOrderToCourier(o, c)
        PROVE  HistoryIsLegal'
    <3>1. LegalTrail(Logged(history[o], "created", "accepted"), "accepted")
      <4>1. LegalTrail(history[o], "created") /\ history[o] \in Seq(Statuses \X Statuses)
        BY <2>3 DEF AssignOrderToCourier, HistoryIsLegal, TypeOK
      <4>2. CanMove("created", "accepted") /\ "created" \in Statuses /\ "accepted" \in Statuses
        BY DEF CanMove, Moves, Statuses
      <4> QED
        BY <4>1, <4>2, TrailContinues
    <3>2. AssignedOrder(orders[o], c).status = "accepted"
      BY DEF AssignedOrder, TypeOK, OrderRow
    <3> QED
      BY <2>3, <3>1, <3>2 DEF AssignOrderToCourier, HistoryIsLegal, TypeOK
  <2>4. ASSUME NEW o \in Orders, NEW to \in Statuses, NEW courier \in Couriers \cup {Null},
               NEW now \in Times, UpdateOrderStatus(o, to, courier, now)
        PROVE  HistoryIsLegal'
    <3> DEFINE from == orders[o].status
    <3>1. LegalTrail(Logged(history[o], from, to), to)
      <4>1. LegalTrail(history[o], from) /\ history[o] \in Seq(Statuses \X Statuses)
        BY DEF HistoryIsLegal, TypeOK
      <4>2. CanMove(from, to) /\ from \in Statuses
        BY <2>4 DEF UpdateOrderStatus, TypeOK, OrderRow
      <4> QED
        BY <4>1, <4>2, TrailContinues
    <3>2. MovedOrder(orders[o], orders[o], to, courier, now).status = to
      BY DEF MovedOrder, TypeOK, OrderRow
    <3> QED
      BY <2>4, <3>1, <3>2 DEF UpdateOrderStatus, HistoryIsLegal, TypeOK
  <2>5. ASSUME NEW o \in Orders, NEW rating \in Ratings, CreateReview(o, rating)
        PROVE  HistoryIsLegal'
    <3>1. /\ UNCHANGED history
          /\ \A p \in Orders : orders'[p].status = orders[p].status
      BY <2>5 DEF CreateReview, TypeOK, OrderRow
    <3> QED
      BY <2>1, <3>1
  <2> QED
    BY <2>1, <2>2, <2>3, <2>4, <2>5
       DEF Next, tables, CreateCourier, UpdateCourierStatus
<1>3. QED
  BY <1>1, <1>2, TypeCorrect, PTL DEF Spec

\* An order never comes back to a status: the trail has a row per status it
\* has entered, five at most.
NeverComesBack(log) ==
  /\ Len(log) \leq 5
  /\ \A i, j \in 1 .. Len(log) : i < j => log[i][2] # log[j][2]
  /\ \A i \in 1 .. Len(log) : log[i][2] # "created"

LEMMA TrailsAdvance ==
  ASSUME NEW log \in Seq(Statuses \X Statuses), NEW status, LegalTrail(log, status)
  PROVE  NeverComesBack(log)
<1> DEFINE n == Len(log)
           to(i) == log[i][2]
<1>1. n \in Nat
  OBVIOUS
<1>2. ASSUME NEW i \in 1 .. n
      PROVE  <<IF i = 1 THEN "created" ELSE to(i - 1), to(i)>> \in Moves
  <2>1. /\ log[i] \in Moves /\ log[i] \in Statuses \X Statuses
        /\ log[i][1] = IF i = 1 THEN "created" ELSE log[i - 1][2]
    BY DEF LegalTrail
  <2>2. log[i] = <<log[i][1], log[i][2]>>
    BY <2>1
  <2> QED
    BY <2>1, <2>2
<1> HIDE DEF n, to
<1>3. 1 \leq n => to(1) \in {"accepted", "cancelled"}
  <2> SUFFICES ASSUME 1 \leq n  PROVE to(1) \in {"accepted", "cancelled"}
    OBVIOUS
  <2>1. <<"created", to(1)>> \in Moves
    BY <1>1, <1>2
  <2> QED
    BY <2>1 DEF Moves
<1>4. 2 \leq n => to(1) = "accepted" /\ to(2) \in {"preparing", "cancelled"}
  <2> SUFFICES ASSUME 2 \leq n  PROVE to(1) = "accepted" /\ to(2) \in {"preparing", "cancelled"}
    OBVIOUS
  <2>1. <<to(1), to(2)>> \in Moves /\ to(1) \in {"accepted", "cancelled"}
    BY <1>1, <1>2, <1>3
  <2> QED
    BY <2>1 DEF Moves
<1>5. 3 \leq n => to(2) = "preparing" /\ to(3) \in {"ready", "cancelled"}
  <2> SUFFICES ASSUME 3 \leq n  PROVE to(2) = "preparing" /\ to(3) \in {"ready", "cancelled"}
    OBVIOUS
  <2>1. <<to(2), to(3)>> \in Moves /\ to(2) \in {"preparing", "cancelled"}
    BY <1>1, <1>2, <1>4
  <2> QED
    BY <2>1 DEF Moves
<1>6. 4 \leq n => to(3) = "ready" /\ to(4) \in {"in_delivery", "cancelled"}
  <2> SUFFICES ASSUME 4 \leq n  PROVE to(3) = "ready" /\ to(4) \in {"in_delivery", "cancelled"}
    OBVIOUS
  <2>1. <<to(3), to(4)>> \in Moves /\ to(3) \in {"ready", "cancelled"}
    BY <1>1, <1>2, <1>5
  <2> QED
    BY <2>1 DEF Moves
<1>7. 5 \leq n => to(4) = "in_delivery" /\ to(5) \in {"delivered", "cancelled"}
  <2> SUFFICES ASSUME 5 \leq n  PROVE to(4) = "in_delivery" /\ to(5) \in {"delivered", "cancelled"}
    OBVIOUS
  <2>1. <<to(4), to(5)>> \in Moves /\ to(4) \in {"in_delivery", "cancelled"}
    BY <1>1, <1>2, <1>6
  <2> QED
    BY <2>1 DEF Moves
<1>8. ~(6 \leq n)
  <2> SUFFICES ASSUME 6 \leq n  PROVE FALSE
    OBVIOUS
  <2>1. <<to(5), to(6)>> \in Moves /\ to(5) \in {"delivered", "cancelled"}
    BY <1>1, <1>2, <1>7
  <2> QED
    BY <2>1 DEF Moves
<1>9. ASSUME NEW i \in 1 .. n, NEW j \in 1 .. n, i < j  PROVE to(i) # to(j)
  <2>1. i \in 1 .. 5 /\ j \in 1 .. 5 /\ j \leq n
    BY <1>1, <1>8
  <2>2. CASE j = 5
    BY <1>1, <1>3, <1>4, <1>5, <1>6, <1>7, <1>9, <2>1, <2>2
  <2>3. CASE j = 4
    BY <1>1, <1>3, <1>4, <1>5, <1>6, <1>9, <2>1, <2>3
  <2>4. CASE j = 3
    BY <1>1, <1>3, <1>4, <1>5, <1>9, <2>1, <2>4
  <2>5. CASE j = 2
    BY <1>1, <1>3, <1>4, <1>9, <2>1, <2>5
  <2> QED
    BY <1>9, <2>1, <2>2, <2>3, <2>4, <2>5
<1>10. ASSUME NEW i \in 1 .. n  PROVE to(i) # "created"
  <2>1. i \in {1, 2, 3, 4, 5}
    BY <1>1, <1>8
  <2> QED
    BY <1>3, <1>4, <1>5, <1>6, <1>7, <1>1, <2>1
<1>11. n \leq 5
  BY <1>1, <1>8
<1> USE DEF n, to
<1> QED
  BY <1>9, <1>10, <1>11 DEF NeverComesBack

\* No order returns to a status it has left, and its audit trail has at most
\* five rows, however many status updates are requested.
THEOREM OrdersNeverComeBack == Spec => []\A o \in Orders : NeverComesBack(history[o])
<1>1. TypeOK /\ HistoryIsLegal => \A o \in Orders : NeverComesBack(history[o])
  <2> SUFFICES ASSUME TypeOK, HistoryIsLegal, NEW o \in Orders  PROVE NeverComesBack(history[o])
    OBVIOUS
  <2>1. /\ history[o] \in Seq(Statuses \X Statuses)
        /\ LegalTrail(history[o], orders[o].status)
    BY DEF TypeOK, HistoryIsLegal
  <2> QED
    BY <2>1, TrailsAdvance
<1>2. QED
  BY <1>1, TypeCorrect, HistoryStaysLegal, PTL

------------------------------------------------------------------------------
(* Deliveries and couriers                                                 *)

\* Only a delivered order has a time of delivery, and it has one.
DeliveredIsDated ==
  \A o \in Orders : orders[o].status = "delivered" <=> orders[o].deliveredAt # Null

LEMMA DeliveriesAreDated == Spec => []DeliveredIsDated
<1>1. Init => DeliveredIsDated
  BY DEF Init, DeliveredIsDated, AbsentOrder
<1>2. TypeOK /\ DeliveredIsDated /\ [Next]_tables => DeliveredIsDated'
  <2> SUFFICES ASSUME TypeOK, DeliveredIsDated, [Next]_tables PROVE DeliveredIsDated'
    OBVIOUS
  <2>1. CASE UNCHANGED orders
    BY <2>1 DEF DeliveredIsDated
  <2>2. ASSUME NEW o \in Orders, CreateOrder(o)  PROVE DeliveredIsDated'
    BY <2>2 DEF CreateOrder, CreatedOrder, AbsentOrder, DeliveredIsDated, TypeOK
  <2>3. ASSUME NEW o \in Orders, NEW c \in Couriers, AssignOrderToCourier(o, c)
        PROVE  DeliveredIsDated'
    <3>1. /\ AssignedOrder(orders[o], c).status = "accepted"
          /\ AssignedOrder(orders[o], c).deliveredAt = orders[o].deliveredAt
      BY DEF AssignedOrder, TypeOK, OrderRow
    <3>2. orders[o].deliveredAt = Null
      BY <2>3 DEF AssignOrderToCourier, DeliveredIsDated
    <3> QED
      BY <2>3, <3>1, <3>2 DEF AssignOrderToCourier, DeliveredIsDated, TypeOK
  <2>4. ASSUME NEW o \in Orders, NEW to \in Statuses, NEW courier \in Couriers \cup {Null},
               NEW now \in Times, UpdateOrderStatus(o, to, courier, now)
        PROVE  DeliveredIsDated'
    <3> DEFINE new == MovedOrder(orders[o], orders[o], to, courier, now)
    <3>1. new.status = to /\ (to = "delivered" <=> new.deliveredAt # Null)
      BY RowsAssumption DEF MovedOrder, DeliveredAt, TypeOK, OrderRow
    <3>2. orders' = [orders EXCEPT ![o] = new]
      BY <2>4 DEF UpdateOrderStatus
    <3> HIDE DEF new
    <3> QED
      BY <3>1, <3>2 DEF DeliveredIsDated, TypeOK
  <2>5. ASSUME NEW o \in Orders, NEW rating \in Ratings, CreateReview(o, rating)
        PROVE  DeliveredIsDated'
    BY <2>5 DEF CreateReview, DeliveredIsDated, TypeOK, OrderRow
  <2> QED
    BY <2>1, <2>2, <2>3, <2>4, <2>5
       DEF Next, tables, CreateCourier, UpdateCourierStatus
<1>3. QED
  BY <1>1, <1>2, TypeCorrect, PTL DEF Spec

\* A delivered order stays delivered and keeps its time of delivery.
THEOREM DeliveryIsFinal == Spec => DeliveredAtIsFinal
<1>1. ASSUME TypeOK, DeliveredIsDated, [Next]_tables,
             NEW o \in Orders, orders[o].status = "delivered"
      PROVE  /\ orders[o].deliveredAt # Null
             /\ orders'[o].status = "delivered"
             /\ orders'[o].deliveredAt = orders[o].deliveredAt
  <2>1. orders[o].deliveredAt # Null
    BY <1>1 DEF DeliveredIsDated
  <2>2. CASE UNCHANGED orders
    BY <1>1, <2>1, <2>2
  <2>3. ASSUME NEW p \in Orders, CreateOrder(p)  PROVE orders'[o] = orders[o]
    BY <1>1, <2>3 DEF CreateOrder, TypeOK
  <2>4. ASSUME NEW p \in Orders, NEW c \in Couriers, AssignOrderToCourier(p, c)
        PROVE  orders'[o] = orders[o]
    BY <1>1, <2>4 DEF AssignOrderToCourier, TypeOK
  <2>5. ASSUME NEW p \in Orders, NEW to \in Statuses, NEW courier \in Couriers \cup {Null},
               NEW now \in Times, UpdateOrderStatus(p, to, courier, now)
        PROVE  orders'[o].status = "delivered" /\ orders'[o].deliveredAt = orders[o].deliveredAt
    <3>1. CASE p # o
      BY <1>1, <2>5, <3>1 DEF UpdateOrderStatus, TypeOK
    <3>2. CASE p = o
      <4>1. to = "delivered"
        BY <1>1, <2>5, <3>2, MovesType DEF UpdateOrderStatus, CanMove
      <4>2. orders'[o] = MovedOrder(orders[o], orders[o], to, courier, now)
        BY <1>1, <2>5, <3>2 DEF UpdateOrderStatus, TypeOK
      <4>3. orders[o] \in OrderRow
        BY <1>1 DEF TypeOK
      <4> QED
        BY <1>1, <2>1, <4>1, <4>2, <4>3 DEF MovedOrder, DeliveredAt, OrderRow
    <3> QED
      BY <3>1, <3>2
  <2>6. ASSUME NEW p \in Orders, NEW rating \in Ratings, CreateReview(p, rating)
        PROVE  orders'[o].status = "delivered" /\ orders'[o].deliveredAt = orders[o].deliveredAt
    BY <1>1, <2>6 DEF CreateReview, TypeOK, OrderRow
  <2> QED
    BY <1>1, <2>1, <2>2, <2>3, <2>4, <2>5, <2>6
       DEF Next, tables, CreateCourier, UpdateCourierStatus
<1>2. TypeOK /\ DeliveredIsDated /\ [Next]_tables =>
        [\A o \in Orders : orders[o].status = "delivered" =>
           /\ orders[o].deliveredAt # Null
           /\ orders'[o].status = "delivered"
           /\ orders'[o].deliveredAt = orders[o].deliveredAt]_tables
  BY <1>1
<1>3. QED
  BY <1>2, TypeCorrect, DeliveriesAreDated, PTL DEF Spec, DeliveredAtIsFinal

\* A row that has not been inserted has no courier.
AbsentHasNoCourier ==
  \A o \in Orders : orders[o].status = "absent" => orders[o].courier = Null

LEMMA AbsentOrdersHaveNoCourier == Spec => []AbsentHasNoCourier
<1>1. Init => AbsentHasNoCourier
  BY DEF Init, AbsentHasNoCourier, AbsentOrder
<1>2. TypeOK /\ AbsentHasNoCourier /\ [Next]_tables => AbsentHasNoCourier'
  <2> SUFFICES ASSUME TypeOK, AbsentHasNoCourier, [Next]_tables PROVE AbsentHasNoCourier'
    OBVIOUS
  <2>1. CASE UNCHANGED orders
    BY <2>1 DEF AbsentHasNoCourier
  <2>2. ASSUME NEW o \in Orders, CreateOrder(o)  PROVE AbsentHasNoCourier'
    BY <2>2 DEF CreateOrder, CreatedOrder, AbsentOrder, AbsentHasNoCourier, TypeOK
  <2>3. ASSUME NEW o \in Orders, NEW c \in Couriers, AssignOrderToCourier(o, c)
        PROVE  AbsentHasNoCourier'
    <3>1. AssignedOrder(orders[o], c).status # "absent"
      BY DEF AssignedOrder, TypeOK, OrderRow
    <3> QED
      BY <2>3, <3>1 DEF AssignOrderToCourier, AbsentHasNoCourier, TypeOK
  <2>4. ASSUME NEW o \in Orders, NEW to \in Statuses, NEW courier \in Couriers \cup {Null},
               NEW now \in Times, UpdateOrderStatus(o, to, courier, now)
        PROVE  AbsentHasNoCourier'
    <3>1. MovedOrder(orders[o], orders[o], to, courier, now).status # "absent"
      BY DEF MovedOrder, TypeOK, OrderRow, Statuses
    <3> QED
      BY <2>4, <3>1 DEF UpdateOrderStatus, AbsentHasNoCourier, TypeOK
  <2>5. ASSUME NEW o \in Orders, NEW rating \in Ratings, CreateReview(o, rating)
        PROVE  AbsentHasNoCourier'
    BY <2>5 DEF CreateReview, AbsentHasNoCourier, TypeOK, OrderRow
  <2> QED
    BY <2>1, <2>2, <2>3, <2>4, <2>5
       DEF Next, tables, CreateCourier, UpdateCourierStatus
<1>3. QED
  BY <1>1, <1>2, TypeCorrect, PTL DEF Spec

\* No operation takes the courier away from an order.
THEOREM CourierStays == Spec => CourierIsNeverErased
<1>1. ASSUME TypeOK, AbsentHasNoCourier, [Next]_tables, NEW o \in Orders,
             orders[o].courier # Null
      PROVE  orders'[o].courier # Null
  <2>1. CASE UNCHANGED orders
    BY <1>1, <2>1
  <2>2. ASSUME NEW p \in Orders, CreateOrder(p)  PROVE orders'[o].courier # Null
    BY <1>1, <2>2 DEF CreateOrder, TypeOK, AbsentHasNoCourier
  <2>3. ASSUME NEW p \in Orders, NEW c \in Couriers, AssignOrderToCourier(p, c)
        PROVE  orders'[o].courier # Null
    <3>1. AssignedOrder(orders[p], c).courier = c /\ c # Null
      BY <1>1, RowsAssumption DEF AssignedOrder, TypeOK, OrderRow
    <3> QED
      BY <1>1, <2>3, <3>1 DEF AssignOrderToCourier, TypeOK
  <2>4. ASSUME NEW p \in Orders, NEW to \in Statuses, NEW courier \in Couriers \cup {Null},
               NEW now \in Times, UpdateOrderStatus(p, to, courier, now)
        PROVE  orders'[o].courier # Null
    <3> DEFINE new == MovedOrder(orders[p], orders[p], to, courier, now)
    <3>1. new.courier = IF courier = Null THEN orders[p].courier ELSE courier
      BY <1>1 DEF MovedOrder, TypeOK, OrderRow
    <3>2. orders' = [orders EXCEPT ![p] = new]
      BY <2>4 DEF UpdateOrderStatus
    <3> HIDE DEF new
    <3> QED
      BY <1>1, <3>1, <3>2 DEF TypeOK
  <2>5. ASSUME NEW p \in Orders, NEW rating \in Ratings, CreateReview(p, rating)
        PROVE  orders'[o].courier # Null
    BY <1>1, <2>5 DEF CreateReview, TypeOK, OrderRow
  <2> QED
    BY <1>1, <2>1, <2>2, <2>3, <2>4, <2>5
       DEF Next, tables, CreateCourier, UpdateCourierStatus
<1>2. TypeOK /\ AbsentHasNoCourier /\ [Next]_tables =>
        [\A o \in Orders : orders[o].courier # Null => orders'[o].courier # Null]_tables
  BY <1>1
<1>3. QED
  BY <1>2, TypeCorrect, AbsentOrdersHaveNoCourier, PTL DEF Spec, CourierIsNeverErased

------------------------------------------------------------------------------
(* Reviews                                                                 *)

\* An order is reviewed once, and shows the rating of its review.
THEOREM OrdersAreReviewedOnce == Spec => []OneReviewPerOrder
<1>1. Init => OneReviewPerOrder
  BY DEF Init, OneReviewPerOrder, AbsentOrder
<1>2. TypeOK /\ OneReviewPerOrder /\ [Next]_tables => OneReviewPerOrder'
  <2> SUFFICES ASSUME TypeOK, OneReviewPerOrder, [Next]_tables PROVE OneReviewPerOrder'
    OBVIOUS
  <2>1. \A i \in 1 .. Len(reviews) : reviews[i].order \in Orders /\ reviews[i].rating \in Ratings
    <3>1. ASSUME NEW i \in 1 .. Len(reviews)  PROVE reviews[i] \in ReviewRow
      BY DEF TypeOK
    <3> QED
      BY <3>1 DEF ReviewRow
  <2>2. ASSUME UNCHANGED reviews,
               \A o \in Orders : orders'[o].rating = orders[o].rating,
               \A o \in Orders : orders[o].status = "delivered" => orders'[o].status = "delivered"
        PROVE  OneReviewPerOrder'
    BY <2>1, <2>2 DEF OneReviewPerOrder
  <2>3. ASSUME NEW o \in Orders, CreateOrder(o)  PROVE OneReviewPerOrder'
    <3>1. \A i \in 1 .. Len(reviews) : reviews[i].order # o
      BY <2>3 DEF CreateOrder, OneReviewPerOrder
    <3>2. /\ orders'[o].rating = Null /\ UNCHANGED reviews
          /\ \A p \in Orders : p # o => orders'[p] = orders[p]
      BY <2>3 DEF CreateOrder, CreatedOrder, AbsentOrder, TypeOK
    <3> QED
      BY <2>1, <3>1, <3>2 DEF OneReviewPerOrder
  <2>4. ASSUME NEW o \in Orders, NEW c \in Couriers, AssignOrderToCourier(o, c)
        PROVE  OneReviewPerOrder'
    <3>1. AssignedOrder(orders[o], c).rating = orders[o].rating
      BY DEF AssignedOrder, TypeOK, OrderRow
    <3> QED
      BY <2>2, <2>4, <3>1 DEF AssignOrderToCourier, TypeOK
  <2>5. ASSUME NEW o \in Orders, NEW to \in Statuses, NEW courier \in Couriers \cup {Null},
               NEW now \in Times, UpdateOrderStatus(o, to, courier, now)
        PROVE  OneReviewPerOrder'
    <3> DEFINE new == MovedOrder(orders[o], orders[o], to, courier, now)
    <3>1. new.rating = orders[o].rating /\ new.status = to
      BY DEF MovedOrder, TypeOK, OrderRow
    <3>2. orders[o].status = "delivered" => to = "delivered"
      BY <2>5, MovesType DEF UpdateOrderStatus, CanMove
    <3>3. orders' = [orders EXCEPT ![o] = new] /\ UNCHANGED reviews
      BY <2>5 DEF UpdateOrderStatus
    <3> HIDE DEF new
    <3> QED
      BY <2>2, <3>1, <3>2, <3>3 DEF TypeOK
  <2>6. ASSUME NEW o \in Orders, NEW rating \in Ratings, CreateReview(o, rating)
        PROVE  OneReviewPerOrder'
    <3> DEFINE row == [order |-> o, courier |-> orders[o].courier, rating |-> rating]
    <3>1. /\ Len(reviews) \in Nat /\ Len(reviews') = Len(reviews) + 1
          /\ reviews'[Len(reviews) + 1] = row
          /\ \A i \in 1 .. Len(reviews) : reviews'[i] = reviews[i]
      <4>1. reviews' = Append(reviews, row) /\ reviews \in Seq(ReviewRow)
        BY <2>6 DEF CreateReview, TypeOK
      <4> HIDE DEF row
      <4>2. Len(reviews) \in Nat /\ Len(reviews') = Len(reviews) + 1
        BY <4>1
      <4>3. reviews'[Len(reviews) + 1] = row
        BY <4>1
      <4>4. \A i \in 1 .. Len(reviews) : reviews'[i] = reviews[i]
        BY <4>1
      <4> QED
        BY <4>2, <4>3, <4>4
    <3>2. row.order = o /\ row.rating = rating
      OBVIOUS
    <3>3. \A i \in 1 .. Len(reviews) : reviews[i].order # o
      BY <2>1, <2>6, RowsAssumption DEF CreateReview, Reviewable, OneReviewPerOrder
    <3>4. /\ orders'[o].rating = rating /\ orders'[o].status = "delivered"
          /\ \A p \in Orders : p # o => orders'[p] = orders[p]
      BY <2>6 DEF CreateReview, Reviewable, TypeOK, OrderRow
    <3> HIDE DEF row
    <3>5. \A i \in 1 .. Len(reviews') : i \in 1 .. Len(reviews) \/ i = Len(reviews) + 1
      BY <3>1
    <3>6. \A i, j \in 1 .. Len(reviews') : reviews'[i].order = reviews'[j].order => i = j
      BY <3>1, <3>2, <3>3, <3>5 DEF OneReviewPerOrder
    <3>7. \A i \in 1 .. Len(reviews') :
            /\ orders'[reviews'[i].order].rating = reviews'[i].rating
            /\ orders'[reviews'[i].order].status = "delivered"
      BY <2>1, <3>1, <3>2, <3>3, <3>4, <3>5 DEF OneReviewPerOrder
    <3>8. ASSUME NEW p \in Orders, orders'[p].rating # Null
          PROVE  \E i \in 1 .. Len(reviews') : reviews'[i].order = p
      <4>1. CASE p = o
        BY <3>1, <3>2, <4>1
      <4>2. CASE p # o
        BY <3>1, <3>4, <3>8, <4>2 DEF OneReviewPerOrder
      <4> QED
        BY <4>1, <4>2
    <3> QED
      BY <3>6, <3>7, <3>8 DEF OneReviewPerOrder
  <2> QED
    BY <2>2, <2>3, <2>4, <2>5, <2>6
       DEF Next, tables, CreateCourier, UpdateCourierStatus
<1>3. QED
  BY <1>1, <1>2, TypeCorrect, PTL DEF Spec

\* couriers.total_reviews is the number of the courier's reviews.
THEOREM TotalsStayCounts == Spec => []TotalsCountReviews
<1>1. Init => TotalsCountReviews
  <2>1. ASSUME Init, NEW c \in Couriers  PROVE couriers[c].total = Cardinality(ReviewsOf(c))
    <3>1. ReviewsOf(c) = {} /\ couriers[c].total = 0
      BY <2>1 DEF Init, ReviewsOf
    <3> QED
      BY <3>1, FS_EmptySet
  <2> QED
    BY <2>1 DEF TotalsCountReviews
<1>2. TypeOK /\ TotalsCountReviews /\ [Next]_tables => TotalsCountReviews'
  <2> SUFFICES ASSUME TypeOK, TotalsCountReviews, [Next]_tables PROVE TotalsCountReviews'
    OBVIOUS
  <2>1. ASSUME UNCHANGED reviews, \A c \in Couriers : couriers'[c].total = couriers[c].total
        PROVE  TotalsCountReviews'
    BY <2>1 DEF TotalsCountReviews, ReviewsOf
  <2>2. ASSUME NEW c \in Couriers, NEW status,
               UNCHANGED reviews, couriers' = [couriers EXCEPT ![c].status = status]
        PROVE  TotalsCountReviews'
    BY <2>1, <2>2 DEF TypeOK, CourierRow
  <2>3. ASSUME NEW o \in Orders, NEW rating \in Ratings, CreateReview(o, rating)
        PROVE  TotalsCountReviews'
    <3> DEFINE c == orders[o].courier
               n == Len(reviews)
               row == [order |-> o, courier |-> c, rating |-> rating]
    <3>1. /\ reviews' = Append(reviews, row) /\ reviews \in Seq(ReviewRow)
          /\ couriers' = [couriers EXCEPT ![c].total = @ + 1]
      BY <2>3 DEF CreateReview, TypeOK
    <3>2. row.courier = c
      OBVIOUS
    <3> HIDE DEF row
    <3>3. n \in Nat /\ Len(reviews') = n + 1
      BY <3>1
    <3>4. reviews'[n + 1] = row /\ \A i \in 1 .. n : reviews'[i] = reviews[i]
      <4>1. reviews'[n + 1] = row
        BY <3>1
      <4>2. \A i \in 1 .. n : reviews'[i] = reviews[i]
        BY <3>1
      <4> QED
        BY <4>1, <4>2
    <3> HIDE DEF n, c
    <3>5. ASSUME NEW d \in Couriers
          PROVE  ReviewsOf(d)' = IF d = c THEN ReviewsOf(d) \cup {n + 1} ELSE ReviewsOf(d)
      BY <3>2, <3>3, <3>4 DEF ReviewsOf, n
    <3>6. ASSUME NEW d \in Couriers
          PROVE  IsFiniteSet(ReviewsOf(d)) /\ n + 1 \notin ReviewsOf(d)
      <4>1. IsFiniteSet(1 .. n) /\ ReviewsOf(d) \in SUBSET (1 .. n)
        BY <3>3, FS_Interval DEF ReviewsOf, n
      <4>2. n + 1 \notin 1 .. n
        BY <3>3
      <4> QED
        BY <4>1, <4>2, FS_Subset
    <3>7. ASSUME NEW d \in Couriers  PROVE couriers'[d].total = Cardinality(ReviewsOf(d)')
      <4>1. couriers[d].total = Cardinality(ReviewsOf(d)) /\ couriers[d] \in CourierRow
        BY DEF TotalsCountReviews, TypeOK
      <4>2. CASE d = c
        <5>1. couriers'[d].total = couriers[d].total + 1
          BY <3>1, <4>1, <4>2 DEF TypeOK, CourierRow
        <5>2. Cardinality(ReviewsOf(d) \cup {n + 1}) = Cardinality(ReviewsOf(d)) + 1
          BY <3>6, FS_AddElement
        <5>3. ReviewsOf(d)' = ReviewsOf(d) \cup {n + 1}
          BY <3>5, <4>2
        <5> QED
          BY <4>1, <5>1, <5>2, <5>3
      <4>3. CASE d # c
        <5>1. couriers'[d] = couriers[d] /\ ReviewsOf(d)' = ReviewsOf(d)
          BY <3>1, <3>5, <4>3 DEF TypeOK
        <5> QED
          BY <4>1, <5>1
      <4> QED
        BY <4>2, <4>3
    <3> QED
      BY <3>7 DEF TotalsCountReviews
  <2>4. ASSUME NEW c \in Couriers, NEW status \in CourierStatuses, UpdateCourierStatus(c, status)
        PROVE  TotalsCountReviews'
    BY <2>2, <2>4 DEF UpdateCourierStatus
  <2>5. ASSUME NEW c \in Couriers, CreateCourier(c)  PROVE TotalsCountReviews'
    BY <2>2, <2>5 DEF CreateCourier
  <2>6. ASSUME NEW o \in Orders, NEW c \in Couriers, AssignOrderToCourier(o, c)
        PROVE  TotalsCountReviews'
    BY <2>2, <2>6 DEF AssignOrderToCourier
  <2> QED
    BY <2>1, <2>3, <2>4, <2>5, <2>6 DEF Next, tables, CreateOrder, UpdateOrderStatus
<1>3. QED
  BY <1>1, <1>2, TypeCorrect, PTL DEF Spec
================================================================================
