---------------------------- MODULE DispatchProofs ----------------------------
(***************************************************************************)
(* Dispatch, for every number of orders, couriers and sessions.            *)
(***************************************************************************)
EXTENDS Dispatch, FiniteSetTheorems, WellFoundedInduction, TLAPS

LEMMA NewOrderType == AbsentOrder \in OrderRow /\ CreatedOrder \in OrderRow
BY DEF AbsentOrder, CreatedOrder, OrderRow, Statuses

LEMMA MovedRowType ==
  ASSUME NEW row \in OrderRow, NEW seen \in OrderRow, NEW to \in Statuses,
         NEW courier \in Couriers \cup {Null}, NEW now \in Times
  PROVE  MovedOrder(row, seen, to, courier, now) \in OrderRow
BY ZenonT(30) DEF OrderRow, MovedOrder, DeliveredAt

LEMMA AssignedRowType ==
  ASSUME NEW row \in OrderRow, NEW courier \in Couriers
  PROVE  AssignedOrder(row, courier) \in OrderRow
BY DEF OrderRow, AssignedOrder, Statuses

LEMMA LogType ==
  ASSUME NEW log \in Seq(Statuses \X Statuses), NEW from \in Statuses, NEW to \in Statuses
  PROVE  Logged(log, from, to) \in Seq(Statuses \X Statuses)
BY DEF Logged

LEMMA IdleType == Idle \in Transaction /\ WellFormed(Idle)
BY NewOrderType DEF Idle, Transaction, Steps, WellFormed

\* The tables and the transactions in flight keep their types.
THEOREM TypeCorrect == Spec => []TypeOK
<1>1. Init => TypeOK
  BY RowsAssumption, NewOrderType, IdleType DEF Init, TypeOK, CourierRow, Idle
<1>2. TypeOK /\ [Next]_vars => TypeOK'
  <2> SUFFICES ASSUME TypeOK, [Next]_vars PROVE TypeOK'
    OBVIOUS
  <2> USE DEF TypeOK
  <2>0. ASSUME NEW s \in Sessions, Rollback(s)  PROVE TypeOK'
    BY <2>0, IdleType DEF Rollback, tables, Idle
  <2>1. ASSUME NEW o \in Orders, CreateOrder(o)  PROVE TypeOK'
    BY <2>1, NewOrderType DEF CreateOrder
  <2>2. ASSUME NEW c \in Couriers, CreateCourier(c)  PROVE TypeOK'
    BY <2>2 DEF CreateCourier, CourierRow, CourierStatuses
  <2>3. ASSUME NEW c \in Couriers, NEW status \in CourierStatuses,
               UpdateCourierStatus(c, status)
        PROVE  TypeOK'
    BY <2>3 DEF UpdateCourierStatus, CourierRow
  <2>4. ASSUME NEW s \in Sessions, NEW o \in Orders, NEW c \in Couriers, BeginAssign(s, o, c)
        PROVE  TypeOK'
    <3> DEFINE t == [Idle EXCEPT !.at = "assigning", !.order = o, !.courier = c]
    <3>1. t \in Transaction /\ WellFormed(t)
      BY IdleType DEF Transaction, Steps, WellFormed, Idle
    <3> QED
      BY <2>4, <3>1 DEF BeginAssign, tables
  <2>5. ASSUME NEW s \in Sessions, NEW o \in Orders, NEW to \in Statuses,
               NEW courier \in Couriers \cup {Null}, BeginUpdate(s, o, to, courier)
        PROVE  TypeOK'
    <3> DEFINE t == [Idle EXCEPT !.at = "updating", !.order = o, !.courier = courier,
                                 !.status = to, !.row = orders[o]]
    <3>1. t \in Transaction /\ WellFormed(t)
      BY <2>5, IdleType DEF BeginUpdate, Transaction, Steps, WellFormed, Idle
    <3> QED
      BY <2>5, <3>1 DEF BeginUpdate, tables
  <2>6. ASSUME NEW s \in Sessions, NEW o \in Orders, NEW rating \in Ratings,
               BeginReview(s, o, rating)
        PROVE  TypeOK'
    <3> DEFINE t == [Idle EXCEPT !.at = "reviewing", !.order = o,
                                 !.rating = rating, !.row = orders[o]]
    <3>1. t \in Transaction /\ WellFormed(t)
      BY <2>6, IdleType DEF BeginReview, Transaction, Steps, WellFormed, Idle
    <3> QED
      BY <2>6, <3>1 DEF BeginReview, tables
  <2>7. ASSUME NEW s \in Sessions, UpdateAssignedOrder(s)  PROVE TypeOK'
    <3> DEFINE t == [tx[s] EXCEPT !.at = "assigned", !.row = orders[tx[s].order]]
    <3>1. t \in Transaction /\ WellFormed(t)
      <4>1. /\ tx[s] \in Transaction /\ WellFormed(tx[s]) /\ tx[s].at = "assigning"
            /\ orders[tx[s].order] \in OrderRow
        BY <2>7 DEF UpdateAssignedOrder, WellFormed
      <4>2. t \in Transaction
        BY <4>1 DEF Transaction, Steps
      <4>3. t.at = "assigned" /\ t.order = tx[s].order /\ t.courier = tx[s].courier
        BY <4>1 DEF Transaction
      <4> QED
        BY <4>1, <4>2, <4>3 DEF WellFormed
    <3> QED
      BY <2>7, <3>1 DEF UpdateAssignedOrder, tables
  <2>8. ASSUME NEW s \in Sessions, CommitAssign(s)  PROVE TypeOK'
    <3> DEFINE o == tx[s].order
               c == tx[s].courier
    <3>1. o \in Orders /\ c \in Couriers /\ orders[o].status \in Statuses
      BY <2>8 DEF CommitAssign, WellFormed, OrderRow
    <3>2. AssignedOrder(orders[o], c) \in OrderRow
      BY <3>1, AssignedRowType
    <3>3. Logged(history[o], orders[o].status, "accepted") \in Seq(Statuses \X Statuses)
      BY <3>1, LogType DEF Statuses
    <3>4. [couriers[c] EXCEPT !.status = "busy"] \in CourierRow
      BY <3>1 DEF CourierRow, CourierStatuses
    <3>5. AssignedOrder(orders[o], c).status # "absent"
      BY <3>1 DEF AssignedOrder, OrderRow
    <3>6. \A u \in Sessions : WellFormed(tx'[u])
      BY <2>8, IdleType DEF CommitAssign
    <3> HIDE DEF o, c
    <3>7. orders' \in [Orders -> OrderRow] /\ history' \in [Orders -> Seq(Statuses \X Statuses)]
      BY <2>8, <3>1, <3>2, <3>3 DEF CommitAssign, o, c
    <3>8. couriers' \in [Couriers -> CourierRow] /\ booked' \in [Couriers -> SUBSET Orders]
      BY <2>8, <3>1, <3>4 DEF CommitAssign, o, c
    <3> QED
      BY <2>8, <3>1, <3>5, <3>6, <3>7, <3>8, IdleType DEF CommitAssign, Idle, o, c
  <2>9. ASSUME NEW s \in Sessions, NEW now \in Times, CommitUpdate(s, now)  PROVE TypeOK'
    <3> DEFINE t == tx[s]
               o == tx[s].order
               row == MovedOrder(orders[o], t.row, t.status, t.courier, now)
    <3>1. /\ o \in Orders /\ t.status \in Statuses /\ t.row \in OrderRow
          /\ t.courier \in Couriers \cup {Null} /\ orders[o] \in OrderRow
          /\ orders[o].status \in Statuses
      BY <2>9 DEF CommitUpdate, WellFormed, OrderRow, Transaction
    <3>2. row \in OrderRow
      BY <3>1, MovedRowType
    <3>3. Logged(history[o], orders[o].status, t.status) \in Seq(Statuses \X Statuses)
      BY <3>1, LogType
    <3>4. row.status # "absent"
      BY <3>1 DEF MovedOrder, OrderRow, Statuses
    <3>5. orders' = [orders EXCEPT ![o] = row] /\ UNCHANGED <<couriers, reviews, booked>>
          /\ tx' = [tx EXCEPT ![s] = Idle]
          /\ history' = [history EXCEPT ![o] = Logged(@, orders[o].status, t.status)]
      BY <2>9 DEF CommitUpdate
    <3> HIDE DEF row, o, t
    <3> QED
      BY <3>1, <3>2, <3>3, <3>4, <3>5, IdleType DEF Idle
  <2>10. ASSUME NEW s \in Sessions, InsertReview(s)  PROVE TypeOK'
    <3> DEFINE t == [tx[s] EXCEPT !.at = "inserted", !.courier = tx[s].row.courier]
    <3>1. t \in Transaction /\ WellFormed(t)
      <4>1. /\ tx[s] \in Transaction /\ WellFormed(tx[s]) /\ tx[s].at = "reviewing"
            /\ tx[s].row.courier # Null
        BY <2>10 DEF InsertReview, Reviewable
      <4>2. tx[s].order \in Orders /\ tx[s].rating \in Ratings /\ tx[s].row.courier \in Couriers
        BY <4>1 DEF WellFormed, Transaction, OrderRow
      <4> QED
        BY <4>1, <4>2 DEF Transaction, Steps, WellFormed
    <3>2. t.order = tx[s].order /\ tx[s].at \notin {"idle", "assigning"}
      BY <2>10 DEF InsertReview, Transaction
    <3>3. tx' = [tx EXCEPT ![s] = t] /\ UNCHANGED <<tables, booked>>
      BY <2>10 DEF InsertReview
    <3> HIDE DEF t
    <3> QED
      BY <3>1, <3>2, <3>3 DEF tables
  <2>11. ASSUME NEW s \in Sessions, LockRatedCourier(s)  PROVE TypeOK'
    <3> DEFINE t == [tx[s] EXCEPT !.at = "rated", !.total = couriers[tx[s].courier].total + 1]
    <3>1. t \in Transaction /\ WellFormed(t)
      <4>1. tx[s] \in Transaction /\ WellFormed(tx[s]) /\ tx[s].at = "inserted"
        BY <2>11 DEF LockRatedCourier
      <4>2. /\ tx[s].order \in Orders /\ tx[s].rating \in Ratings /\ tx[s].courier \in Couriers
            /\ couriers[tx[s].courier].total + 1 \in Nat
        BY <4>1 DEF WellFormed, CourierRow
      <4> QED
        BY <4>1, <4>2 DEF Transaction, Steps, WellFormed
    <3>2. t.order = tx[s].order /\ tx[s].at \notin {"idle", "assigning"}
      BY <2>11 DEF LockRatedCourier, Transaction
    <3>3. tx' = [tx EXCEPT ![s] = t] /\ UNCHANGED <<tables, booked>>
      BY <2>11 DEF LockRatedCourier
    <3> HIDE DEF t
    <3> QED
      BY <3>1, <3>2, <3>3 DEF tables
  <2>12. ASSUME NEW s \in Sessions, CommitReview(s)  PROVE TypeOK'
    <3> DEFINE t == tx[s]
               o == tx[s].order
               c == tx[s].courier
    <3>1. /\ o \in Orders /\ c \in Couriers /\ t.rating \in Ratings /\ t.total \in Nat
          /\ orders[o].status # "absent" /\ orders[o] \in OrderRow
      <4>1. /\ tx[s] \in Transaction /\ WellFormed(tx[s]) /\ tx[s].at = "rated"
            /\ orders[tx[s].order].status # "absent"
        BY <2>12 DEF CommitReview
      <4>2. tx[s].order \in Orders /\ tx[s].courier \in Couriers /\ tx[s].rating \in Ratings
        BY <4>1 DEF WellFormed
      <4> QED
        BY <4>1, <4>2 DEF Transaction
    <3>2. [orders[o] EXCEPT !.rating = t.rating] \in OrderRow
      BY <3>1 DEF OrderRow
    <3>3. [couriers[c] EXCEPT !.total = t.total] \in CourierRow
      BY <3>1 DEF CourierRow
    <3>4. [order |-> o, courier |-> c, rating |-> t.rating] \in ReviewRow
      BY <3>1 DEF ReviewRow
    <3>5. /\ couriers' = [couriers EXCEPT ![c].total = t.total]
          /\ reviews' = Append(reviews, [order |-> o, courier |-> c, rating |-> t.rating])
          /\ orders' = [orders EXCEPT ![o].rating = t.rating]
          /\ tx' = [tx EXCEPT ![s] = Idle]
          /\ UNCHANGED <<history, booked>>
      BY <2>12 DEF CommitReview
    <3>6. [orders[o] EXCEPT !.rating = t.rating].status = orders[o].status
      BY <3>1 DEF OrderRow
    <3> HIDE DEF t, o, c
    <3> QED
      BY <3>1, <3>2, <3>3, <3>4, <3>5, <3>6, IdleType DEF Idle
  <2>13. CASE UNCHANGED vars
    BY <2>13 DEF vars
  <2> QED
    BY <2>0, <2>1, <2>2, <2>3, <2>4, <2>5, <2>6, <2>7, <2>8, <2>9, <2>10, <2>11, <2>12, <2>13
       DEF Next, Proceed, RefuseAssign, RefuseUpdate, RefuseReview, Abort, AbortDeadlocked
<1>3. QED
  BY <1>1, <1>2, PTL DEF Spec

------------------------------------------------------------------------------
(* Isolation                                                               *)

\* A step of one session that gives it locks nobody else holds, or fewer
\* locks than it had, keeps the locks exclusive.
LEMMA LocksStayExclusive ==
  ASSUME TypeOK, LocksExclude, NEW s \in Sessions, NEW t,
         tx' = [tx EXCEPT ![s] = t],
         \A o \in Orders : HoldsOrder(s, o)' => HoldsOrder(s, o) \/ OrderIsFree(s, o),
         \A c \in Couriers : HoldsCourier(s, c)' => HoldsCourier(s, c) \/ CourierIsFree(s, c),
         \A c \in Couriers : SharesCourier(s, c)'
                               => SharesCourier(s, c) \/ CourierIsShareable(s, c)
  PROVE  LocksExclude'
<1>1. ASSUME NEW u \in Sessions, u # s
      PROVE  /\ \A o \in Orders : HoldsOrder(u, o)' <=> HoldsOrder(u, o)
             /\ \A c \in Couriers : HoldsCourier(u, c)' <=> HoldsCourier(u, c)
             /\ \A c \in Couriers : SharesCourier(u, c)' <=> SharesCourier(u, c)
  BY <1>1 DEF HoldsOrder, HoldsCourier, SharesCourier, TypeOK
<1>2. SUFFICES ASSUME NEW u \in Sessions, NEW v \in Sessions, u # v
               PROVE  /\ \A o \in Orders : ~(HoldsOrder(u, o)' /\ HoldsOrder(v, o)')
                      /\ \A c \in Couriers :
                           ~(HoldsCourier(u, c)' /\ (HoldsCourier(v, c)' \/ SharesCourier(v, c)'))
  BY DEF LocksExclude
<1>3. CASE u # s /\ v # s
  BY <1>1, <1>2, <1>3 DEF LocksExclude
<1>4. CASE u = s
  BY <1>1, <1>2, <1>4 DEF LocksExclude, OrderIsFree, CourierIsFree, CourierIsShareable
<1>5. CASE v = s
  BY <1>1, <1>2, <1>5 DEF LocksExclude, OrderIsFree, CourierIsFree, CourierIsShareable
<1> QED
  BY <1>3, <1>4, <1>5

LEMMA LocksExcludeStep == TypeOK /\ LocksExclude /\ [Next]_vars => LocksExclude'
<1> SUFFICES ASSUME TypeOK, LocksExclude, [Next]_vars PROVE LocksExclude'
  OBVIOUS
<1> USE DEF HoldsOrder, HoldsCourier, SharesCourier
<1>1. ASSUME UNCHANGED tx  PROVE LocksExclude'
  BY <1>1 DEF LocksExclude
<1>2. ASSUME NEW s \in Sessions, tx' = [tx EXCEPT ![s] = Idle]  PROVE LocksExclude'
  BY <1>2, LocksStayExclusive DEF Idle, TypeOK
<1>3. ASSUME NEW s \in Sessions, NEW o \in Orders, NEW c \in Couriers, BeginAssign(s, o, c)
      PROVE  LocksExclude'
  <2> DEFINE t == [Idle EXCEPT !.at = "assigning", !.order = o, !.courier = c]
  <2>1. /\ tx' = [tx EXCEPT ![s] = t] /\ CourierIsFree(s, c)
        /\ t.at = "assigning" /\ t.order = o /\ t.courier = c
    BY <1>3 DEF BeginAssign, Idle
  <2> HIDE DEF t
  <2> QED
    BY <2>1, LocksStayExclusive DEF TypeOK
<1>4. ASSUME NEW s \in Sessions, NEW o \in Orders, NEW to \in Statuses,
             NEW courier \in Couriers \cup {Null}, BeginUpdate(s, o, to, courier)
      PROVE  LocksExclude'
  <2> DEFINE t == [Idle EXCEPT !.at = "updating", !.order = o, !.courier = courier,
                               !.status = to, !.row = orders[o]]
  <2>1. /\ tx' = [tx EXCEPT ![s] = t] /\ OrderIsFree(s, o)
        /\ t.at = "updating" /\ t.order = o
    BY <1>4 DEF BeginUpdate, Idle
  <2> HIDE DEF t
  <2> QED
    BY <2>1, LocksStayExclusive DEF TypeOK
<1>5. ASSUME NEW s \in Sessions, NEW o \in Orders, NEW rating \in Ratings,
             BeginReview(s, o, rating)
      PROVE  LocksExclude'
  <2> DEFINE t == [Idle EXCEPT !.at = "reviewing", !.order = o,
                               !.rating = rating, !.row = orders[o]]
  <2>1. /\ tx' = [tx EXCEPT ![s] = t] /\ OrderIsFree(s, o)
        /\ t.at = "reviewing" /\ t.order = o
    BY <1>5 DEF BeginReview, Idle
  <2> HIDE DEF t
  <2> QED
    BY <2>1, LocksStayExclusive DEF TypeOK
<1>6. ASSUME NEW s \in Sessions, UpdateAssignedOrder(s)  PROVE LocksExclude'
  <2> DEFINE t == [tx[s] EXCEPT !.at = "assigned", !.row = orders[tx[s].order]]
  <2>1. /\ tx' = [tx EXCEPT ![s] = t] /\ tx[s].at = "assigning"
        /\ OrderIsFree(s, tx[s].order)
        /\ t.at = "assigned" /\ t.order = tx[s].order /\ t.courier = tx[s].courier
    BY <1>6 DEF UpdateAssignedOrder, TypeOK, Transaction
  <2> HIDE DEF t
  <2>2. tx'[s] = t
    BY <2>1 DEF TypeOK
  <2>3. /\ \A o \in Orders : HoldsOrder(s, o)' => OrderIsFree(s, o)
        /\ \A c \in Couriers : HoldsCourier(s, c)' => HoldsCourier(s, c)
        /\ \A c \in Couriers : ~SharesCourier(s, c)'
    BY <2>1, <2>2
  <2> QED
    BY <2>1, <2>3, LocksStayExclusive
<1>7. ASSUME NEW s \in Sessions, InsertReview(s)  PROVE LocksExclude'
  <2> DEFINE t == [tx[s] EXCEPT !.at = "inserted", !.courier = tx[s].row.courier]
  <2>1. /\ tx' = [tx EXCEPT ![s] = t] /\ tx[s].at = "reviewing"
        /\ t.at = "inserted" /\ t.order = tx[s].order
        /\ CourierIsShareable(s, t.courier)
    BY <1>7 DEF InsertReview, TypeOK, Transaction
  <2> HIDE DEF t
  <2> QED
    BY <2>1, LocksStayExclusive DEF TypeOK
<1>8. ASSUME NEW s \in Sessions, LockRatedCourier(s)  PROVE LocksExclude'
  <2> DEFINE t == [tx[s] EXCEPT !.at = "rated", !.total = couriers[tx[s].courier].total + 1]
  <2>1. /\ tx' = [tx EXCEPT ![s] = t] /\ tx[s].at = "inserted"
        /\ t.at = "rated" /\ t.order = tx[s].order /\ t.courier = tx[s].courier
        /\ CourierIsFree(s, tx[s].courier)
    BY <1>8 DEF LockRatedCourier, TypeOK, Transaction
  <2> HIDE DEF t
  <2> QED
    BY <2>1, LocksStayExclusive, ZenonT(30) DEF TypeOK
<1> QED
  BY <1>1, <1>2, <1>3, <1>4, <1>5, <1>6, <1>7, <1>8
     DEF Next, vars, Proceed, CreateOrder, CreateCourier, UpdateCourierStatus, CommitAssign,
         CommitUpdate, CommitReview, RefuseAssign, RefuseUpdate, RefuseReview, Abort,
         AbortDeadlocked, Rollback

\* A session's reads stay current in a step of somebody else that does not
\* change the rows the session has locked.
LEMMA LockedReadsStayCurrent ==
  ASSUME TypeOK, NEW u \in Sessions, ReadIsCurrent(u), tx'[u] = tx[u],
         \A o \in Orders : HoldsOrder(u, o) => orders'[o] = orders[o],
         \A c \in Couriers : HoldsCourier(u, c) => couriers'[c] = couriers[c]
  PROVE  ReadIsCurrent(u)'
<1>1. WellFormed(tx[u])
  BY DEF TypeOK
<1> QED
  BY <1>1 DEF ReadIsCurrent, HoldsOrder, HoldsCourier, WellFormed

LEMMA ReadsAreCurrentStep ==
  TypeOK /\ LocksExclude /\ ReadsAreCurrent /\ [Next]_vars => ReadsAreCurrent'
<1> SUFFICES ASSUME TypeOK, LocksExclude, ReadsAreCurrent, [Next]_vars
             PROVE  ReadsAreCurrent'
  OBVIOUS
<1>1. CASE UNCHANGED vars
  BY <1>1 DEF vars, ReadsAreCurrent, ReadIsCurrent
<1>2. ASSUME NEW o \in Orders, CreateOrder(o)  PROVE ReadsAreCurrent'
  <2> SUFFICES ASSUME NEW u \in Sessions PROVE ReadIsCurrent(u)'
    BY DEF ReadsAreCurrent
  <2>1. ~HoldsOrder(u, o)
    BY <1>2 DEF CreateOrder, HoldsOrder, TypeOK
  <2> QED
    BY <1>2, <2>1, LockedReadsStayCurrent DEF CreateOrder, ReadsAreCurrent, TypeOK
<1>3. ASSUME NEW c \in Couriers, CreateCourier(c)  PROVE ReadsAreCurrent'
  <2> SUFFICES ASSUME NEW u \in Sessions PROVE ReadIsCurrent(u)'
    BY DEF ReadsAreCurrent
  <2>1. /\ couriers'[c].total = couriers[c].total /\ couriers[c].status = "absent"
        /\ \A d \in Couriers : d # c => couriers'[d] = couriers[d]
        /\ UNCHANGED <<orders, tx>>
    BY <1>3 DEF CreateCourier, TypeOK, CourierRow
  <2>2. WellFormed(tx[u]) /\ ReadIsCurrent(u)
    BY DEF TypeOK, ReadsAreCurrent
  <2> QED
    BY <2>1, <2>2 DEF ReadIsCurrent, WellFormed
<1>4. ASSUME NEW c \in Couriers, NEW status \in CourierStatuses, UpdateCourierStatus(c, status)
      PROVE  ReadsAreCurrent'
  BY <1>4, LockedReadsStayCurrent DEF UpdateCourierStatus, ReadsAreCurrent, TypeOK
<1> DEFINE Others(s) == \A u \in Sessions \ {s} : ReadIsCurrent(u)'
<1>5. ASSUME NEW s \in Sessions, NEW t, tx' = [tx EXCEPT ![s] = t], UNCHANGED tables
      PROVE  Others(s)
  BY <1>5, LockedReadsStayCurrent DEF tables, ReadsAreCurrent, TypeOK
<1>6. ASSUME NEW s \in Sessions, Rollback(s)  PROVE ReadsAreCurrent'
  <2>1. ReadIsCurrent(s)'
    BY <1>6 DEF Rollback, ReadIsCurrent, Idle, TypeOK
  <2> QED
    BY <1>5, <1>6, <2>1 DEF Rollback, ReadsAreCurrent
<1>7. ASSUME NEW s \in Sessions, NEW o \in Orders, NEW c \in Couriers, BeginAssign(s, o, c)
      PROVE  ReadsAreCurrent'
  <2>1. ReadIsCurrent(s)'
    BY <1>7 DEF BeginAssign, ReadIsCurrent, Idle, TypeOK, tables
  <2> QED
    BY <1>5, <1>7, <2>1 DEF BeginAssign, ReadsAreCurrent
<1>8. ASSUME NEW s \in Sessions, NEW o \in Orders, NEW to \in Statuses,
             NEW courier \in Couriers \cup {Null}, BeginUpdate(s, o, to, courier)
      PROVE  ReadsAreCurrent'
  <2>1. ReadIsCurrent(s)'
    BY <1>8 DEF BeginUpdate, ReadIsCurrent, Idle, TypeOK, tables
  <2> QED
    BY <1>5, <1>8, <2>1 DEF BeginUpdate, ReadsAreCurrent
<1>9. ASSUME NEW s \in Sessions, NEW o \in Orders, NEW rating \in Ratings,
             BeginReview(s, o, rating)
      PROVE  ReadsAreCurrent'
  <2>1. ReadIsCurrent(s)'
    BY <1>9 DEF BeginReview, ReadIsCurrent, Idle, TypeOK, tables
  <2> QED
    BY <1>5, <1>9, <2>1 DEF BeginReview, ReadsAreCurrent
<1>10. ASSUME NEW s \in Sessions, UpdateAssignedOrder(s)  PROVE ReadsAreCurrent'
  <2> DEFINE t == [tx[s] EXCEPT !.at = "assigned", !.row = orders[tx[s].order]]
  <2>1. /\ tx' = [tx EXCEPT ![s] = t] /\ tx[s].at = "assigning" /\ UNCHANGED tables
        /\ t.at = "assigned" /\ t.order = tx[s].order /\ t.courier = tx[s].courier
        /\ t.row = orders[t.order] /\ t.row.status = "created"
    BY <1>10 DEF UpdateAssignedOrder, TypeOK, Transaction
  <2> HIDE DEF t
  <2>2. ReadIsCurrent(s)'
    BY <2>1 DEF ReadsAreCurrent, ReadIsCurrent, TypeOK, tables
  <2> QED
    BY <1>5, <2>1, <2>2 DEF ReadsAreCurrent
<1>11. ASSUME NEW s \in Sessions, InsertReview(s)  PROVE ReadsAreCurrent'
  <2> DEFINE t == [tx[s] EXCEPT !.at = "inserted", !.courier = tx[s].row.courier]
  <2>1. /\ tx' = [tx EXCEPT ![s] = t] /\ tx[s].at = "reviewing" /\ UNCHANGED tables
        /\ t.at = "inserted" /\ t.order = tx[s].order /\ t.row = tx[s].row
        /\ t.courier = t.row.courier /\ Reviewable(t.row)
    BY <1>11 DEF InsertReview, TypeOK, Transaction
  <2> HIDE DEF t
  <2>2. ReadIsCurrent(s)'
    BY <2>1 DEF ReadsAreCurrent, ReadIsCurrent, TypeOK, tables
  <2> QED
    BY <1>5, <2>1, <2>2 DEF ReadsAreCurrent
<1>12. ASSUME NEW s \in Sessions, LockRatedCourier(s)  PROVE ReadsAreCurrent'
  <2> DEFINE t == [tx[s] EXCEPT !.at = "rated", !.total = couriers[tx[s].courier].total + 1]
  <2>1. /\ tx' = [tx EXCEPT ![s] = t] /\ tx[s].at = "inserted" /\ UNCHANGED tables
        /\ t.at = "rated" /\ t.order = tx[s].order /\ t.row = tx[s].row
        /\ t.courier = tx[s].courier /\ t.total = couriers[t.courier].total + 1
    BY <1>12 DEF LockRatedCourier, TypeOK, Transaction
  <2> HIDE DEF t
  <2>2. ReadIsCurrent(s)'
    BY <2>1 DEF ReadsAreCurrent, ReadIsCurrent, TypeOK, tables
  <2> QED
    BY <1>5, <2>1, <2>2 DEF ReadsAreCurrent
<1>13. ASSUME NEW s \in Sessions, tx' = [tx EXCEPT ![s] = Idle],
              \A o \in Orders : HoldsOrder(s, o) \/ orders'[o] = orders[o],
              \A c \in Couriers : HoldsCourier(s, c) \/ couriers'[c] = couriers[c]
       PROVE  ReadsAreCurrent'
  <2> SUFFICES ASSUME NEW u \in Sessions PROVE ReadIsCurrent(u)'
    BY DEF ReadsAreCurrent
  <2>1. CASE u = s
    BY <1>13, <2>1 DEF ReadIsCurrent, Idle, TypeOK
  <2>2. CASE u # s
    BY <1>13, <2>2, LockedReadsStayCurrent DEF LocksExclude, ReadsAreCurrent, TypeOK
  <2> QED
    BY <2>1, <2>2
<1>14. ASSUME NEW s \in Sessions, CommitAssign(s)  PROVE ReadsAreCurrent'
  BY <1>13, <1>14 DEF CommitAssign, HoldsOrder, HoldsCourier, TypeOK
<1>15. ASSUME NEW s \in Sessions, NEW now \in Times, CommitUpdate(s, now)
       PROVE  ReadsAreCurrent'
  BY <1>13, <1>15 DEF CommitUpdate, HoldsOrder, HoldsCourier, TypeOK
<1>16. ASSUME NEW s \in Sessions, CommitReview(s)  PROVE ReadsAreCurrent'
  BY <1>13, <1>16 DEF CommitReview, HoldsOrder, HoldsCourier, TypeOK
<1> QED
  BY <1>1, <1>2, <1>3, <1>4, <1>6, <1>7, <1>8, <1>9, <1>10, <1>11, <1>12, <1>14, <1>15, <1>16
     DEF Next, Proceed, RefuseAssign, RefuseUpdate, RefuseReview, Abort, AbortDeadlocked

LEMMA CouriersExistStep ==
  TypeOK /\ Isolation /\ [Next]_vars => Lifecycle!CouriersExist'
<1> SUFFICES ASSUME TypeOK, Isolation, [Next]_vars PROVE Lifecycle!CouriersExist'
  OBVIOUS
<1> USE DEF Lifecycle!CouriersExist, Isolation
<1>1. CASE UNCHANGED <<orders, couriers>>
  BY <1>1
<1>2. ASSUME NEW o \in Orders, CreateOrder(o)  PROVE Lifecycle!CouriersExist'
  BY <1>2 DEF CreateOrder, CreatedOrder, AbsentOrder, TypeOK
<1>3. ASSUME NEW c \in Couriers, NEW status \in CourierStatuses,
             CreateCourier(c) \/ UpdateCourierStatus(c, status)
      PROVE  Lifecycle!CouriersExist'
  <2>1. /\ UNCHANGED orders
        /\ \A d \in Couriers : couriers[d].status # "absent" => couriers'[d].status # "absent"
    <3>1. PICK new \in CourierStatuses :
            UNCHANGED orders /\ couriers' = [couriers EXCEPT ![c].status = new]
      BY <1>3 DEF CreateCourier, UpdateCourierStatus, CourierStatuses
    <3>2. new # "absent"
      BY DEF CourierStatuses
    <3> QED
      BY <3>1, <3>2 DEF TypeOK, CourierRow
  <2> QED
    BY <2>1 DEF TypeOK, OrderRow
<1>4. ASSUME NEW s \in Sessions, CommitAssign(s)  PROVE Lifecycle!CouriersExist'
  <2>1. tx[s].order \in Orders /\ tx[s].courier \in Couriers
    BY <1>4 DEF CommitAssign, TypeOK, WellFormed
  <2>2. AssignedOrder(orders[tx[s].order], tx[s].courier).courier = tx[s].courier
    BY <2>1 DEF AssignedOrder, TypeOK, OrderRow
  <2> QED
    BY <1>4, <2>1, <2>2 DEF CommitAssign, TypeOK, OrderRow, CourierRow
<1>5. ASSUME NEW s \in Sessions, NEW now \in Times, CommitUpdate(s, now)
      PROVE  Lifecycle!CouriersExist'
  <2> DEFINE t == tx[s]
             o == tx[s].order
             new == MovedOrder(orders[o], t.row, t.status, t.courier, now)
  <2>1. o \in Orders /\ t.row = orders[o] /\ t.row \in OrderRow /\ t.courier \in Couriers \cup {Null}
    BY <1>5 DEF CommitUpdate, TypeOK, WellFormed, ReadsAreCurrent, ReadIsCurrent, Transaction
  <2>2. new.courier = IF t.courier = Null THEN t.row.courier ELSE t.courier
    BY <2>1 DEF MovedOrder, OrderRow
  <2>3. CheckedCourier(s) \in {Null, new.courier}
        /\ (new.courier # t.row.courier => CheckedCourier(s) = new.courier)
    BY <2>1, <2>2 DEF CheckedCourier, MovedOrder, OrderRow
  <2>4. new.courier # Null => couriers[new.courier].status # "absent"
    <3>1. CASE new.courier = t.row.courier
      BY <2>1, <3>1
    <3>2. CASE new.courier # t.row.courier
      BY <1>5, <2>3, <3>2 DEF CommitUpdate, UpdateIsValid
    <3> QED
      BY <3>1, <3>2
  <2>5. orders' = [orders EXCEPT ![o] = new] /\ UNCHANGED couriers
    BY <1>5 DEF CommitUpdate
  <2> HIDE DEF new, o
  <2> QED
    BY <2>1, <2>4, <2>5 DEF TypeOK
<1>6. ASSUME NEW s \in Sessions, CommitReview(s)  PROVE Lifecycle!CouriersExist'
  <2> DEFINE o == tx[s].order
             c == tx[s].courier
  <2>1. o \in Orders /\ c \in Couriers
    BY <1>6 DEF CommitReview, TypeOK, WellFormed
  <2>2. /\ \A p \in Orders : orders'[p].courier = orders[p].courier
        /\ \A d \in Couriers : couriers'[d].status = couriers[d].status
    BY <1>6, <2>1 DEF CommitReview, TypeOK, OrderRow, CourierRow
  <2> QED
    BY <2>2 DEF TypeOK, OrderRow
<1> QED
  BY <1>1, <1>2, <1>3, <1>4, <1>5, <1>6
     DEF Next, vars, Proceed, BeginAssign, BeginUpdate, BeginReview, UpdateAssignedOrder,
         InsertReview, LockRatedCourier, RefuseAssign, RefuseUpdate, RefuseReview, Abort,
         AbortDeadlocked, Rollback, tables, CourierStatuses

\* The row locks isolate the transactions: what one has read under its locks
\* is current until it commits.
THEOREM TransactionsAreIsolated == Spec => []Isolation
<1>1. Init => Isolation
  BY DEF Init, Isolation, LocksExclude, HoldsOrder, HoldsCourier, SharesCourier, Idle,
         ReadsAreCurrent, ReadIsCurrent, Lifecycle!CouriersExist, AbsentOrder
<1>2. TypeOK /\ Isolation /\ [Next]_vars => Isolation'
  BY LocksExcludeStep, ReadsAreCurrentStep, CouriersExistStep DEF Isolation
<1>3. QED
  BY <1>1, <1>2, TypeCorrect, PTL DEF Spec

------------------------------------------------------------------------------
(* Waiting                                                                 *)

\* A set of natural numbers has a least element.
LEMMA LeastNumber ==
  ASSUME NEW T, T \subseteq Nat, T # {}
  PROVE  \E x \in T : \A y \in T : x <= y
<1> DEFINE R == {p \in Nat \X Nat : p[1] < p[2]}
<1>1. PICK x \in T : \A y \in T : <<y, x>> \notin R
  <2>1. IsWellFoundedOn(R, Nat)
    BY NatLessThanWellFounded DEF OpToRel
  <2> HIDE DEF R
  <2> QED
    BY <2>1, WFMin
<1>2. ASSUME NEW y \in T  PROVE x <= y
  <2>1. x \in Nat /\ y \in Nat
    OBVIOUS
  <2>2. ~(y < x)
    BY <1>1, <2>1
  <2> QED
    BY <2>1, <2>2
<1> QED
  BY <1>2

\* In a finite graph without sinks some node is on a cycle: every set of nodes
\* that has the node's successors and is closed under succession contains it.
LEMMA SomeNodeIsOnACycle ==
  ASSUME NEW S, IsFiniteSet(S), S # {}, NEW next \in [S -> SUBSET S],
         \A s \in S : next[s] # {}
  PROVE  \E s \in S : \A T \in SUBSET S :
           next[s] \subseteq T /\ (\A t \in T : next[t] \subseteq T) => s \in T
<1> DEFINE Closed == {T \in SUBSET S : T # {} /\ \A t \in T : next[t] \subseteq T}
           Sizes == {Cardinality(T) : T \in Closed}
<1>1. \A T \in Closed : IsFiniteSet(T) /\ Cardinality(T) \in Nat
  BY FS_Subset, FS_CardinalityType
<1>2. S \in Closed
  OBVIOUS
<1>3. PICK C \in Closed : \A T \in Closed : Cardinality(C) <= Cardinality(T)
  <2>1. Sizes \subseteq Nat /\ Sizes # {}
    BY <1>1, <1>2
  <2>2. PICK n \in Sizes : \A m \in Sizes : n <= m
    <3> HIDE DEF Sizes
    <3> QED
      BY <2>1, LeastNumber
  <2> QED
    BY <2>2
<1>4. PICK s \in C : TRUE
  OBVIOUS
<1>5. ASSUME NEW T \in SUBSET S, next[s] \subseteq T, \A t \in T : next[t] \subseteq T
      PROVE  s \in T
  <2>1. T \cap C \in Closed
    BY <1>4, <1>5
  <2>2. Cardinality(C) <= Cardinality(T \cap C)
    BY <1>3, <2>1
  <2>3. IsFiniteSet(C) /\ T \cap C \subseteq C
    BY <1>1
  <2>4. T \cap C = C
    <3>1. Cardinality(T \cap C) <= Cardinality(C)
      BY <2>3, FS_Subset
    <3>2. Cardinality(T \cap C) = Cardinality(C)
      BY <1>1, <2>1, <2>2, <3>1
    <3> QED
      BY <2>3, <3>2, FS_Subset
  <2> QED
    BY <1>4, <2>4
<1>6. s \in S
  BY <1>4
<1> QED
  BY <1>5, <1>6

\* Nobody holds a courier row without a courier.
LEMMA HeldCouriersExist ==
  ASSUME TypeOK, Isolation, NEW s \in Sessions, NEW c, HoldsCourier(s, c)
  PROVE  c \in Couriers /\ couriers[c].status # "absent"
<1>1. /\ tx[s].courier = c /\ c \in Couriers
      /\ tx[s].at \in {"assigning", "assigned", "rated"}
  BY DEF HoldsCourier, TypeOK, WellFormed
<1>2. CASE tx[s].at \in {"assigning", "assigned"}
  BY <1>1, <1>2 DEF Isolation, ReadsAreCurrent, ReadIsCurrent
<1>3. CASE tx[s].at = "rated"
  <2>1. /\ tx[s].row = orders[tx[s].order] /\ tx[s].courier = tx[s].row.courier
        /\ Reviewable(tx[s].row) /\ tx[s].order \in Orders
    BY <1>3 DEF Isolation, ReadsAreCurrent, ReadIsCurrent, TypeOK, WellFormed
  <2> QED
    BY <1>1, <2>1 DEF Isolation, Lifecycle!CouriersExist, Reviewable
<1> QED
  BY <1>1, <1>2, <1>3

\* A transaction that cannot go on waits for one that is under way.
LEMMA WaitingIsForLocks ==
  ASSUME TypeOK, Isolation, NEW s \in Sessions
  PROVE  /\ CanProceed(s) <=> tx[s] # Idle /\ WaitsFor(s) = {}
         /\ WaitsFor(s) \subseteq {u \in Sessions : tx[u] # Idle}
<1> USE DEF OrderIsFree, CourierIsFree, CourierIsShareable
<1> DEFINE t == tx[s]
<1>1. /\ t.at \in Steps /\ (t.at = "idle" <=> t = Idle)
      /\ t.at \notin {"idle", "assigning"} => t.row = orders[t.order]
  BY DEF TypeOK, WellFormed, Transaction, Isolation, ReadsAreCurrent, ReadIsCurrent, Idle
<1>2. ASSUME NEW u \in WaitsFor(s)  PROVE u \in Sessions /\ tx[u] # Idle
  BY <1>2 DEF WaitsFor, HoldsOrder, HoldsCourier, SharesCourier, Idle
<1> SUFFICES CanProceed(s) <=> t # Idle /\ WaitsFor(s) = {}
  BY <1>2
<1>3. CASE t.at = "idle"
  BY <1>1, <1>3 DEF CanProceed
<1>4. CASE t.at = "assigning"
  <2>1. WaitsFor(s) = IF orders[t.order].status = "created"
                      THEN {u \in Sessions \ {s} : HoldsOrder(u, t.order)} ELSE {}
    BY <1>4 DEF WaitsFor
  <2>2. CanProceed(s) <=> (orders[t.order].status = "created"
                             => \A u \in Sessions \ {s} : ~HoldsOrder(u, t.order))
    BY <1>4 DEF CanProceed
  <2> QED
    BY <1>1, <1>4, <2>1, <2>2
<1>5. CASE t.at = "assigned"
  <2>1. WaitsFor(s) = {}
    BY <1>5 DEF WaitsFor
  <2>2. CanProceed(s)
    BY <1>5 DEF CanProceed, Isolation, ReadsAreCurrent, ReadIsCurrent
  <2> QED
    BY <1>1, <1>5, <2>1, <2>2
<1>6. CASE t.at = "updating"
  <2> DEFINE c == CheckedCourier(s)
  <2>1. \A u \in Sessions : HoldsCourier(u, c) => c # Null /\ couriers[c].status # "absent"
    BY HeldCouriersExist, RowsAssumption
  <2>2. WaitsFor(s) = IF CanMove(t.row.status, t.status)
                      THEN {u \in Sessions \ {s} : HoldsCourier(u, c)} ELSE {}
    BY <1>6 DEF WaitsFor
  <2>3. CanProceed(s) <=> (UpdateIsValid(s) /\ c # Null
                             => \A u \in Sessions \ {s} : ~HoldsCourier(u, c))
    BY <1>6 DEF CanProceed
  <2>4. UpdateIsValid(s) <=> CanMove(t.row.status, t.status)
                               /\ (c # Null => couriers[c].status # "absent")
    BY DEF UpdateIsValid
  <2> HIDE DEF c
  <2> QED
    BY <1>1, <1>6, <2>1, <2>2, <2>3, <2>4
<1>7. CASE t.at = "reviewing"
  <2>1. WaitsFor(s) = IF Reviewable(t.row)
                      THEN {u \in Sessions \ {s} : HoldsCourier(u, t.row.courier)} ELSE {}
    BY <1>7 DEF WaitsFor
  <2>2. CanProceed(s) <=> (Reviewable(t.row)
                             => \A u \in Sessions \ {s} : ~HoldsCourier(u, t.row.courier))
    BY <1>7 DEF CanProceed
  <2> QED
    BY <1>1, <1>7, <2>1, <2>2
<1>8. CASE t.at = "inserted"
  <2>1. WaitsFor(s) = {u \in Sessions \ {s} :
                         HoldsCourier(u, t.courier) \/ SharesCourier(u, t.courier)}
    BY <1>8 DEF WaitsFor
  <2>2. CanProceed(s) <=> \A u \in Sessions \ {s} :
                            ~HoldsCourier(u, t.courier) /\ ~SharesCourier(u, t.courier)
    BY <1>8 DEF CanProceed
  <2> QED
    BY <1>1, <1>8, <2>1, <2>2
<1>9. CASE t.at = "rated"
  <2>1. WaitsFor(s) = {} /\ CanProceed(s)
    BY <1>9 DEF WaitsFor, CanProceed
  <2> QED
    BY <1>1, <1>9, <2>1
<1> QED
  BY <1>1, <1>3, <1>4, <1>5, <1>6, <1>7, <1>8, <1>9 DEF Steps

\* However many transactions wait for each other's rows, they do not come to
\* a halt: one of them can go on or PostgreSQL finds it in a cycle of waits.
THEOREM TransactionsNeverHalt == Spec => []SomebodyProceeds
<1>1. TypeOK /\ Isolation => SomebodyProceeds
  <2> SUFFICES ASSUME TypeOK, Isolation  PROVE SomebodyProceeds
    OBVIOUS
  <2> DEFINE Active == {s \in Sessions : tx[s] # Idle}
             next == [s \in Active |-> WaitsFor(s)]
  <2>1. ASSUME NEW s \in Sessions, InWaitCycle(s)  PROVE ~CanProceed(s)
    <3>1. CASE WaitsFor(s) = {}
      BY <2>1, <3>1 DEF InWaitCycle
    <3> QED
      BY <3>1, WaitingIsForLocks
  <2>2. ASSUME Active # {}, \A s \in Active : ~CanProceed(s)
        PROVE  \E s \in Sessions : InWaitCycle(s)
    <3>1. next \in [Active -> SUBSET Active] /\ \A s \in Active : next[s] # {}
      BY <2>2, WaitingIsForLocks
    <3>2. IsFiniteSet(Active)
      BY SessionsAssumption, FS_Subset
    <3>3. PICK s \in Active : \A T \in SUBSET Active :
            next[s] \subseteq T /\ (\A t \in T : next[t] \subseteq T) => s \in T
      <4> HIDE DEF Active, next
      <4> QED
        BY <2>2, <3>1, <3>2, SomeNodeIsOnACycle
    <3>4. ASSUME NEW T \in SUBSET Sessions, WaitsFor(s) \subseteq T,
                 \A t \in T : WaitsFor(t) \subseteq T
          PROVE  s \in T
      <4>1. \A t \in T \cap Active : next[t] \subseteq T \cap Active
        BY <3>1, <3>4
      <4>2. next[s] \subseteq T \cap Active
        BY <3>1, <3>4
      <4> QED
        BY <3>3, <4>1, <4>2
    <3> QED
      BY <3>4 DEF InWaitCycle
  <2> QED
    BY <2>1, <2>2 DEF SomebodyProceeds
<1>2. QED
  BY <1>1, TypeCorrect, TransactionsAreIsolated, PTL

------------------------------------------------------------------------------
(* Booking                                                                 *)

\* A courier never gets a second order by AssignOrderToCourier before
\* somebody has set the courier's status again.
THEOREM CouriersAreBookedOnce == Spec => []NoDoubleBooking
<1>1. Init => NoDoubleBooking
  BY DEF Init, NoDoubleBooking
<1>2. TypeOK /\ NoDoubleBooking /\ [Next]_vars => NoDoubleBooking'
  <2> SUFFICES ASSUME TypeOK, NoDoubleBooking, [Next]_vars PROVE NoDoubleBooking'
    OBVIOUS
  <2> USE DEF NoDoubleBooking
  <2>1. CASE UNCHANGED <<couriers, booked>>
    BY <2>1
  <2>2. ASSUME NEW c \in Couriers, CreateCourier(c)  PROVE NoDoubleBooking'
    BY <2>2 DEF CreateCourier, TypeOK, CourierRow
  <2>3. ASSUME NEW c \in Couriers, NEW status \in CourierStatuses,
               UpdateCourierStatus(c, status)
        PROVE  NoDoubleBooking'
    BY <2>3 DEF UpdateCourierStatus, TypeOK, CourierRow
  <2>4. ASSUME NEW s \in Sessions, CommitAssign(s)  PROVE NoDoubleBooking'
    <3> DEFINE c == tx[s].courier
    <3>1. c \in Couriers /\ couriers[c].status = "available"
      BY <2>4 DEF CommitAssign, TypeOK, WellFormed
    <3>2. booked[c] = {}
      BY <3>1
    <3>3. couriers'[c].status = "busy" /\ booked'[c] = {tx[s].order}
      BY <2>4, <3>1, <3>2 DEF CommitAssign, TypeOK, CourierRow
    <3>4. \A d \in Couriers : d # c => couriers'[d] = couriers[d] /\ booked'[d] = booked[d]
      BY <2>4 DEF CommitAssign, TypeOK
    <3> QED
      BY <3>3, <3>4
  <2>5. ASSUME NEW s \in Sessions, CommitReview(s)  PROVE NoDoubleBooking'
    <3>1. UNCHANGED booked /\ \A d \in Couriers : couriers'[d].status = couriers[d].status
      BY <2>5 DEF CommitReview, TypeOK, CourierRow
    <3> QED
      BY <3>1
  <2> QED
    BY <2>1, <2>2, <2>3, <2>4, <2>5
       DEF Next, vars, Proceed, CreateOrder, BeginAssign, BeginUpdate, BeginReview,
           UpdateAssignedOrder, InsertReview, LockRatedCourier, CommitUpdate, RefuseAssign,
           RefuseUpdate, RefuseReview, Abort, AbortDeadlocked, Rollback, tables
<1>3. QED
  BY <1>1, <1>2, TypeCorrect, PTL DEF Spec

------------------------------------------------------------------------------
(* Refinement                                                              *)

\* The row functions mean the same in both specifications.
LEMMA SameRows ==
  /\ Lifecycle!Statuses = Statuses
  /\ Lifecycle!CourierStatuses = CourierStatuses
  /\ Lifecycle!AbsentOrder = AbsentOrder
  /\ Lifecycle!CreatedOrder = CreatedOrder
  /\ \A from, to : Lifecycle!CanMove(from, to) <=> CanMove(from, to)
  /\ \A row : Lifecycle!Reviewable(row) <=> Reviewable(row)
  /\ \A row, seen, to, courier, now :
       Lifecycle!MovedOrder(row, seen, to, courier, now) = MovedOrder(row, seen, to, courier, now)
  /\ \A row, courier : Lifecycle!AssignedOrder(row, courier) = AssignedOrder(row, courier)
  /\ \A log, from, to : Lifecycle!Logged(log, from, to) = Logged(log, from, to)
BY DEF Lifecycle!Statuses, Statuses, Lifecycle!CourierStatuses, CourierStatuses,
       Lifecycle!AbsentOrder, AbsentOrder, Lifecycle!CreatedOrder, CreatedOrder,
       Lifecycle!CanMove, CanMove, Lifecycle!Moves, Moves, Lifecycle!Reviewable, Reviewable,
       Lifecycle!MovedOrder, MovedOrder, Lifecycle!DeliveredAt, DeliveredAt,
       Lifecycle!AssignedOrder, AssignedOrder, Lifecycle!Logged, Logged

\* A committed transaction is one atomic operation of OrderLifecycle on the
\* tables as they are at that moment; every other step leaves them alone.
LEMMA StepRefines ==
  TypeOK /\ Isolation /\ [Next]_vars => [Lifecycle!Next]_(Lifecycle!tables)
<1> SUFFICES ASSUME TypeOK, Isolation, Next
             PROVE  Lifecycle!Next \/ UNCHANGED Lifecycle!tables
  BY DEF vars, Lifecycle!tables
<1>1. CASE UNCHANGED tables
  BY <1>1 DEF tables, Lifecycle!tables
<1>2. ASSUME NEW o \in Orders, CreateOrder(o)  PROVE Lifecycle!Next
  <2>1. Lifecycle!CreateOrder(o)
    BY <1>2, SameRows DEF CreateOrder, Lifecycle!CreateOrder
  <2> QED
    BY <2>1 DEF Lifecycle!Next
<1>3. ASSUME NEW c \in Couriers, CreateCourier(c)  PROVE Lifecycle!Next
  <2>1. Lifecycle!CreateCourier(c)
    BY <1>3 DEF CreateCourier, Lifecycle!CreateCourier
  <2> QED
    BY <2>1 DEF Lifecycle!Next
<1>4. ASSUME NEW c \in Couriers, NEW status \in CourierStatuses, UpdateCourierStatus(c, status)
      PROVE  Lifecycle!Next
  <2>1. Lifecycle!UpdateCourierStatus(c, status)
    BY <1>4 DEF UpdateCourierStatus, Lifecycle!UpdateCourierStatus
  <2> QED
    BY <2>1, SameRows DEF Lifecycle!Next
<1>5. ASSUME NEW s \in Sessions, CommitAssign(s)  PROVE Lifecycle!Next
  <2> DEFINE o == tx[s].order
             c == tx[s].courier
  <2>1. /\ o \in Orders /\ c \in Couriers
        /\ orders[o].status = "created" /\ couriers[c].status = "available"
    BY <1>5 DEF CommitAssign, TypeOK, WellFormed, Isolation, ReadsAreCurrent, ReadIsCurrent
  <2>2. Lifecycle!AssignOrderToCourier(o, c)
    BY <1>5, <2>1, SameRows DEF CommitAssign, Lifecycle!AssignOrderToCourier, TypeOK
  <2> QED
    BY <2>1, <2>2 DEF Lifecycle!Next
<1>6. ASSUME NEW s \in Sessions, NEW now \in Times, CommitUpdate(s, now)
      PROVE  Lifecycle!Next
  <2> DEFINE t == tx[s]
             o == tx[s].order
  <2>1. /\ o \in Orders /\ t.status \in Statuses /\ t.courier \in Couriers \cup {Null}
        /\ t.row = orders[o] /\ orders[o] \in OrderRow /\ orders[o].status # "absent"
    BY <1>6 DEF CommitUpdate, TypeOK, WellFormed, Transaction, Isolation, ReadsAreCurrent,
                ReadIsCurrent
  <2>2. t.courier # Null => couriers[t.courier].status # "absent"
    <3>1. CASE t.courier = orders[o].courier
      BY <2>1, <3>1 DEF Isolation, Lifecycle!CouriersExist
    <3>2. CASE t.courier # orders[o].courier /\ t.courier # Null
      <4>1. CheckedCourier(s) = t.courier
        BY <2>1, <3>2 DEF CheckedCourier, MovedOrder, OrderRow
      <4> QED
        BY <1>6, <3>2, <4>1 DEF CommitUpdate, UpdateIsValid
    <3> QED
      BY <3>1, <3>2
  <2>3. /\ CanMove(orders[o].status, t.status)
        /\ orders' = [orders EXCEPT ![o] = MovedOrder(@, @, t.status, t.courier, now)]
        /\ history' = [history EXCEPT ![o] = Logged(@, orders[o].status, t.status)]
        /\ UNCHANGED <<couriers, reviews>>
    BY <1>6, <2>1 DEF CommitUpdate, UpdateIsValid, TypeOK
  <2>4. Lifecycle!UpdateOrderStatus(o, t.status, t.courier, now)
    BY <2>1, <2>2, <2>3, SameRows DEF Lifecycle!UpdateOrderStatus
  <2> HIDE DEF t, o
  <2> QED
    BY <2>1, <2>4, SameRows DEF Lifecycle!Next
<1>7. ASSUME NEW s \in Sessions, CommitReview(s)  PROVE Lifecycle!Next
  <2> DEFINE t == tx[s]
             o == tx[s].order
             c == tx[s].courier
  <2>1. /\ o \in Orders /\ t.rating \in Ratings /\ c \in Couriers
        /\ Reviewable(orders[o]) /\ c = orders[o].courier
        /\ t.total = couriers[c].total + 1
    BY <1>7 DEF CommitReview, TypeOK, WellFormed, Isolation, ReadsAreCurrent, ReadIsCurrent
  <2>2. /\ orders' = [orders EXCEPT ![o].rating = t.rating]
        /\ reviews' = Append(reviews, [order |-> o, courier |-> c, rating |-> t.rating])
        /\ couriers' = [couriers EXCEPT ![c].total = t.total]
        /\ UNCHANGED history
    BY <1>7 DEF CommitReview
  <2>3. couriers' = [couriers EXCEPT ![c].total = @ + 1]
    BY <2>1, <2>2 DEF TypeOK
  <2>4. Lifecycle!CreateReview(o, t.rating)
    BY <2>1, <2>2, <2>3, SameRows DEF Lifecycle!CreateReview
  <2> HIDE DEF t, o
  <2> QED
    BY <2>1, <2>4 DEF Lifecycle!Next
<1> QED
  BY <1>1, <1>2, <1>3, <1>4, <1>5, <1>6, <1>7
     DEF Next, Proceed, BeginAssign, BeginUpdate, BeginReview, UpdateAssignedOrder,
         InsertReview, LockRatedCourier, RefuseAssign, RefuseUpdate, RefuseReview, Abort,
         AbortDeadlocked, Rollback

\* Whatever the interleaving of the transactions, their locks, aborts and
\* deadlocks, the tables change as if every request took effect at once.
THEOREM DispatchImplementsLifecycle == Spec => ImplementsLifecycle
<1>1. Init => Lifecycle!Init
  BY SameRows DEF Init, Lifecycle!Init
<1>2. QED
  BY <1>1, StepRefines, TypeCorrect, TransactionsAreIsolated, PTL
     DEF Spec, ImplementsLifecycle, Lifecycle!Spec

------------------------------------------------------------------------------
(* What OrderLifecycle promises, Dispatch keeps                            *)

Promises == INSTANCE OrderLifecycleProofs

LEMMA SameStep ==
  /\ Lifecycle!Init <=> Promises!Init
  /\ Lifecycle!Next <=> Promises!Next
  /\ Lifecycle!tables = Promises!tables
BY DEF Lifecycle!Statuses, Promises!Statuses, Lifecycle!CourierStatuses,
       Promises!CourierStatuses, Lifecycle!AbsentOrder, Promises!AbsentOrder,
       Lifecycle!CreatedOrder, Promises!CreatedOrder, Lifecycle!Moves, Promises!Moves,
       Lifecycle!CanMove, Promises!CanMove, Lifecycle!DeliveredAt, Promises!DeliveredAt,
       Lifecycle!MovedOrder, Promises!MovedOrder, Lifecycle!AssignedOrder,
       Promises!AssignedOrder, Lifecycle!Reviewable, Promises!Reviewable,
       Lifecycle!Logged, Promises!Logged, Lifecycle!tables, Promises!tables,
       Lifecycle!Init, Promises!Init, Lifecycle!CreateOrder, Promises!CreateOrder,
       Lifecycle!CreateCourier, Promises!CreateCourier, Lifecycle!UpdateCourierStatus,
       Promises!UpdateCourierStatus, Lifecycle!AssignOrderToCourier,
       Promises!AssignOrderToCourier, Lifecycle!UpdateOrderStatus,
       Promises!UpdateOrderStatus, Lifecycle!CreateReview, Promises!CreateReview,
       Lifecycle!Next, Promises!Next

LEMMA PromisesSpec == Spec => Promises!Spec
<1>1. Lifecycle!Init => Promises!Init
  BY SameStep
<1>2. [Lifecycle!Next]_(Lifecycle!tables) => [Promises!Next]_(Promises!tables)
  BY SameStep DEF Lifecycle!tables, Promises!tables
<1>3. QED
  BY <1>1, <1>2, DispatchImplementsLifecycle, PTL
     DEF ImplementsLifecycle, Lifecycle!Spec, Promises!Spec

\* The audit trail of every order stays a path of allowed changes to its
\* status, however many updates, assignments and cancellations race.
THEOREM HistoryStaysLegal == Spec => []HistoryIsLegal
<1>1. Promises!HistoryIsLegal => HistoryIsLegal
  BY DEF HistoryIsLegal, Lifecycle!HistoryIsLegal, Promises!HistoryIsLegal,
         Lifecycle!LegalTrail, Promises!LegalTrail, Lifecycle!Moves, Promises!Moves
<1>2. Promises!Spec => []Promises!HistoryIsLegal
  BY RowsAssumption, Promises!HistoryStaysLegal, PTL DEF Promises!RowsAssumption
<1>3. QED
  BY <1>1, <1>2, PromisesSpec, PTL

\* However many clients review an order at the same time, one review is kept,
\* and the order shows its rating.
THEOREM OrdersAreReviewedOnce == Spec => []OneReviewPerOrder
<1>1. Promises!OneReviewPerOrder => OneReviewPerOrder
  BY DEF OneReviewPerOrder, Lifecycle!OneReviewPerOrder, Promises!OneReviewPerOrder
<1>2. Promises!Spec => []Promises!OneReviewPerOrder
  BY RowsAssumption, Promises!OrdersAreReviewedOnce, PTL DEF Promises!RowsAssumption
<1>3. QED
  BY <1>1, <1>2, PromisesSpec, PTL

\* The rating trigger loses no increment of couriers.total_reviews.
THEOREM TotalsStayCounts == Spec => []TotalsCountReviews
<1>1. Promises!TotalsCountReviews => TotalsCountReviews
  BY DEF TotalsCountReviews, Lifecycle!TotalsCountReviews, Promises!TotalsCountReviews,
         Lifecycle!ReviewsOf, Promises!ReviewsOf, Lifecycle!Cardinality, Promises!Cardinality
<1>2. Promises!Spec => []Promises!TotalsCountReviews
  BY RowsAssumption, Promises!TotalsStayCounts, PTL DEF Promises!RowsAssumption
<1>3. QED
  BY <1>1, <1>2, PromisesSpec, PTL

\* No later request, concurrent or not, moves the time of a delivery.
THEOREM DeliveryIsFinal == Spec => DeliveredAtIsFinal
<1>1. Promises!Spec => Promises!DeliveredAtIsFinal
  BY RowsAssumption, Promises!DeliveryIsFinal DEF Promises!RowsAssumption
<1>2. Promises!tables = Lifecycle!tables
  BY SameStep
<1>3. Promises!DeliveredAtIsFinal => DeliveredAtIsFinal
  BY <1>2, PTL DEF DeliveredAtIsFinal, Lifecycle!DeliveredAtIsFinal, Promises!DeliveredAtIsFinal,
        Lifecycle!tables, Promises!tables
<1>4. QED
  BY <1>1, <1>3, PromisesSpec

\* No status update takes the courier from an order that has one.
THEOREM CourierStays == Spec => CourierIsNeverErased
<1>1. Promises!Spec => Promises!CourierIsNeverErased
  BY RowsAssumption, Promises!CourierStays DEF Promises!RowsAssumption
<1>2. Promises!CourierIsNeverErased => CourierIsNeverErased
  BY PTL DEF CourierIsNeverErased, Lifecycle!CourierIsNeverErased,
             Promises!CourierIsNeverErased, Lifecycle!tables, Promises!tables
<1>3. QED
  BY <1>1, <1>2, PromisesSpec
================================================================================
