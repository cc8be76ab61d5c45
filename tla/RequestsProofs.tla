---------------------------- MODULE RequestsProofs ----------------------------
(***************************************************************************)
(* Requests, for every number of orders, couriers, places and requests.    *)
(***************************************************************************)
EXTENDS Requests, SequenceTheorems, FiniteSetTheorems, TLAPS

------------------------------------------------------------------------------
(* The transactions, as Requests uses them                                 *)

\* The row functions mean the same in the specification of the transactions.
LEMMA SameRows ==
  /\ L!Statuses = Statuses
  /\ L!CourierStatuses = CourierStatuses
  /\ L!AbsentOrder = AbsentOrder
  /\ L!CreatedOrder = CreatedOrder
  /\ L!Moves = Moves
  /\ L!OrderRow = OrderRow
  /\ L!CourierRow = CourierRow
  /\ \A from, to : L!CanMove(from, to) <=> CanMove(from, to)
  /\ \A row, seen, to, courier, now :
       L!MovedOrder(row, seen, to, courier, now) = MovedOrder(row, seen, to, courier, now)
  /\ \A row, courier : L!AssignedOrder(row, courier) = AssignedOrder(row, courier)
  /\ \A log, from, to : L!Logged(log, from, to) = Logged(log, from, to)
BY DEF L!Statuses, Statuses, L!CourierStatuses, CourierStatuses, L!AbsentOrder, AbsentOrder,
       L!CreatedOrder, CreatedOrder, L!CanMove, CanMove, L!Moves, Moves, L!MovedOrder,
       MovedOrder, L!DeliveredAt, DeliveredAt, L!AssignedOrder, AssignedOrder, L!Logged, Logged,
       L!OrderRow, OrderRow, L!CourierRow, CourierRow

\* What each transaction changes.
LEMMA Transactions ==
  /\ \A o : L!CreateOrder(o) =>
       /\ orders[o].status = "absent"
       /\ orders' = [orders EXCEPT ![o] = CreatedOrder]
       /\ UNCHANGED <<history, couriers>>
  /\ \A o, to, courier, now : L!UpdateOrderStatus(o, to, courier, now) =>
       /\ orders[o].status # "absent"
       /\ CanMove(orders[o].status, to)
       /\ orders' = [orders EXCEPT ![o] = MovedOrder(@, @, to, courier, now)]
       /\ history' = [history EXCEPT ![o] = Logged(@, orders[o].status, to)]
       /\ UNCHANGED couriers
  /\ \A o, c : L!AssignOrderToCourier(o, c) =>
       /\ orders[o].status = "created"
       /\ orders' = [orders EXCEPT ![o] = AssignedOrder(@, c)]
       /\ history' = [history EXCEPT ![o] = Logged(@, "created", "accepted")]
       /\ couriers' = [couriers EXCEPT ![c].status = "busy"]
  /\ \A c : L!CreateCourier(c) =>
       /\ couriers' = [couriers EXCEPT ![c].status = "offline"]
       /\ UNCHANGED <<orders, history>>
  /\ \A c, status : L!UpdateCourierStatus(c, status) =>
       /\ couriers[c].status # "absent"
       /\ couriers' = [couriers EXCEPT ![c].status = status]
       /\ UNCHANGED <<orders, history>>
BY SameRows DEF L!CreateOrder, L!UpdateOrderStatus, L!AssignOrderToCourier, L!CreateCourier,
                L!UpdateCourierStatus

------------------------------------------------------------------------------
(* Types                                                                   *)

LEMMA RowTypes ==
  /\ AbsentOrder \in OrderRow /\ CreatedOrder \in OrderRow
  /\ \A row \in OrderRow, to \in Statuses, courier \in Couriers \cup {Null}, now \in Times :
       MovedOrder(row, row, to, courier, now) \in OrderRow
  /\ \A row \in OrderRow, c \in Couriers : AssignedOrder(row, c) \in OrderRow
  /\ \A row \in CourierRow, status \in CourierStatuses :
       [row EXCEPT !.status = status] \in CourierRow
<1>1. AbsentOrder \in OrderRow /\ CreatedOrder \in OrderRow
  BY DEF AbsentOrder, CreatedOrder, OrderRow, Statuses
<1>2. ASSUME NEW row \in OrderRow, NEW to \in Statuses, NEW courier \in Couriers \cup {Null},
             NEW now \in Times
      PROVE  MovedOrder(row, row, to, courier, now) \in OrderRow
  BY DEF OrderRow, MovedOrder, DeliveredAt
<1>3. ASSUME NEW row \in OrderRow, NEW c \in Couriers  PROVE AssignedOrder(row, c) \in OrderRow
  BY DEF OrderRow, AssignedOrder, Statuses
<1>4. ASSUME NEW row \in CourierRow, NEW status \in CourierStatuses
      PROVE  [row EXCEPT !.status = status] \in CourierRow
  BY DEF CourierRow
<1> QED
  BY <1>1, <1>2, <1>3, <1>4

LEMMA LogType ==
  ASSUME NEW log \in Seq(Statuses \X Statuses), NEW from \in Statuses, NEW to \in Statuses
  PROVE  Logged(log, from, to) \in Seq(Statuses \X Statuses)
BY DEF Logged

LEMMA EventTypes ==
  /\ \A o \in Orders : OrderCreated(o) \in Event
  /\ \A o \in Orders, c \in Couriers \cup {Null}, old \in Statuses, new \in Statuses,
        seen \in Nat, at \in Nat : StatusChanged(o, c, old, new, seen, at) \in Event
  /\ \A o \in Orders, c \in Couriers :
       /\ CourierAssigned(o, c) \in Event
       /\ AssignmentEvents(o, c) \in Seq(Event) /\ AssignmentEvents(o, c) # <<>>
  /\ \A c \in Couriers, old \in CourierStatuses, new \in CourierStatuses :
       CourierStatusChanged(c, old, new) \in Event
  /\ \A c \in Couriers, p \in Places : LocationUpdated(c, p) \in Event
<1>1. \A o \in Orders : OrderCreated(o) \in Event
  BY DEF Event
<1>2. \A o \in Orders, c \in Couriers \cup {Null}, old \in Statuses, new \in Statuses,
        seen \in Nat, at \in Nat : StatusChanged(o, c, old, new, seen, at) \in Event
  BY DEF Event, StatusChanged
<1>3. \A o \in Orders, c \in Couriers : CourierAssigned(o, c) \in Event
  BY DEF Event
<1>4. \A o \in Orders, c \in Couriers :
        AssignmentEvents(o, c) \in Seq(Event) /\ AssignmentEvents(o, c) # <<>>
  <2> TAKE o \in Orders, c \in Couriers
  <2>1. StatusChanged(o, c, "created", "accepted", 0, 1) \in Event
    BY <1>2 DEF Statuses
  <2> QED
    BY <1>3, <2>1 DEF AssignmentEvents
<1>5. \A c \in Couriers, old \in CourierStatuses, new \in CourierStatuses :
        CourierStatusChanged(c, old, new) \in Event
  BY DEF Event, CourierStatusChanged
<1>6. \A c \in Couriers, p \in Places : LocationUpdated(c, p) \in Event
  BY DEF Event
<1> QED
  BY <1>1, <1>2, <1>3, <1>4, <1>5, <1>6

LEMMA IdleType == WellFormed(Idle)
<1>1. EmptyList \in List
  BY DEF EmptyList, List
<1>2. <<>> \in Seq(Event) /\ <<>> \in Seq(SUBSET Orders)
  OBVIOUS
<1>3. Idle \in Handler
  BY <1>1, <1>2 DEF Idle, Handler, Steps
<1> QED
  BY <1>3 DEF WellFormed, Idle

LEMMA PublishingType ==
  ASSUME NEW events \in Seq(Event), events # <<>>
  PROVE  WellFormed(Publishing(events))
<1>1. Publishing(events) \in Handler
  BY IdleType DEF WellFormed, Publishing, Handler, Steps
<1>2. /\ Publishing(events).at = "publishing" /\ Publishing(events).events = events
      /\ ~Publishing(events).auto
  BY DEF Publishing, Idle
<1> QED
  BY <1>1, <1>2 DEF WellFormed

\* A step that leaves one handler in a proper state does so with all.
LEMMA HandType ==
  ASSUME TypeOK, NEW h \in Handlers, NEW state, WellFormed(state), Becomes(h, state)
  PROVE  DOMAIN hand' = Handlers /\ \A g \in Handlers : WellFormed(hand'[g])
BY DEF TypeOK, Becomes

\* What is left of a request that has published an event.
LEMMA AfterEventType ==
  ASSUME NEW state, WellFormed(state), state.at = "publishing"
  PROVE  /\ WellFormed(AfterEvent(state))
         /\ Head(state.events) \in Event
<1>1. state \in Handler /\ state.events \in Seq(Event) /\ state.events # <<>>
  BY DEF WellFormed, Handler
<1>2. Head(state.events) \in Event /\ Tail(state.events) \in Seq(Event)
      /\ Len(Tail(state.events)) = Len(state.events) - 1
  BY <1>1, HeadTailProperties
<1>3. CASE Len(state.events) > 1
  <2> DEFINE new == [state EXCEPT !.events = Tail(@)]
  <2>1. Tail(state.events) # <<>>
    <3> DEFINE rest == Tail(state.events)
    <3>1. Len(state.events) \in Nat
      BY <1>1
    <3>2. rest \in Seq(Event) /\ Len(rest) > 0
      BY <1>2, <1>3, <3>1
    <3> HIDE DEF rest
    <3>3. rest # <<>>
      BY <3>2
    <3> QED
      BY <3>3 DEF rest
  <2>2. new \in Handler
    BY <1>1, <1>2 DEF Handler
  <2>3. /\ new.events = Tail(state.events) /\ new.at = state.at /\ new.auto = state.auto
        /\ new.order = state.order
    BY <1>1 DEF Handler
  <2>4. WellFormed(new)
    <3> HIDE DEF new
    <3> QED
      BY <2>1, <2>2, <2>3 DEF WellFormed
  <2> QED
    BY <1>2, <1>3, <2>4 DEF AfterEvent
<1>4. CASE ~(Len(state.events) > 1) /\ state.auto
  <2> DEFINE new == [Idle EXCEPT !.at = "asked", !.order = state.order]
  <2>1. state.order \in Orders
    BY <1>4 DEF WellFormed
  <2>2. new \in Handler
    BY <2>1, IdleType DEF WellFormed, Handler, Steps
  <2>3. new.events = <<>> /\ new.at = "asked" /\ new.auto = FALSE /\ new.order = state.order
    BY DEF Idle
  <2>4. WellFormed(new)
    <3> HIDE DEF new
    <3> QED
      BY <2>1, <2>2, <2>3 DEF WellFormed
  <2> QED
    BY <1>2, <1>4, <2>4 DEF AfterEvent
<1> QED
  BY <1>1, <1>2, <1>3, <1>4, IdleType DEF AfterEvent

\* A handler that has read something, or goes on.
LEMMA WaitingType ==
  /\ \A o \in Orders, status \in Statuses, n \in Nat :
       WellFormed([Idle EXCEPT !.at = "updating", !.order = o, !.old = status, !.seen = n])
  /\ \A o \in Orders : WellFormed([Idle EXCEPT !.at = "listing", !.order = o])
  /\ \A c \in Couriers, status \in CourierStatuses :
       WellFormed([Idle EXCEPT !.at = "shifting", !.courier = c, !.old = status])
  /\ \A o \in Orders, auto \in BOOLEAN :
       WellFormed([Publishing(<<OrderCreated(o)>>) EXCEPT !.order = o, !.auto = auto])
<1>1. ASSUME NEW o \in Orders, NEW status \in Statuses, NEW n \in Nat
      PROVE  WellFormed([Idle EXCEPT !.at = "updating", !.order = o, !.old = status, !.seen = n])
  <2> DEFINE new == [Idle EXCEPT !.at = "updating", !.order = o, !.old = status, !.seen = n]
  <2>1. new \in Handler
    BY IdleType DEF WellFormed, Handler, Steps
  <2>2. new.events = <<>> /\ new.at = "updating" /\ ~new.auto /\ new.order = o /\ new.old = status
    BY DEF Idle
  <2> HIDE DEF new
  <2>3. WellFormed(new)
    BY <2>1, <2>2 DEF WellFormed
  <2> QED
    BY <2>3 DEF new
<1>2. ASSUME NEW o \in Orders  PROVE WellFormed([Idle EXCEPT !.at = "listing", !.order = o])
  <2> DEFINE new == [Idle EXCEPT !.at = "listing", !.order = o]
  <2>1. new \in Handler
    BY IdleType DEF WellFormed, Handler, Steps
  <2>2. new.events = <<>> /\ new.at = "listing" /\ ~new.auto /\ new.order = o
    BY DEF Idle
  <2> HIDE DEF new
  <2>3. WellFormed(new)
    BY <2>1, <2>2 DEF WellFormed
  <2> QED
    BY <2>3 DEF new
<1>3. ASSUME NEW c \in Couriers, NEW status \in CourierStatuses
      PROVE  WellFormed([Idle EXCEPT !.at = "shifting", !.courier = c, !.old = status])
  <2> DEFINE new == [Idle EXCEPT !.at = "shifting", !.courier = c, !.old = status]
  <2>1. new \in Handler
    BY IdleType DEF WellFormed, Handler, Steps
  <2>2. new.events = <<>> /\ new.at = "shifting" /\ ~new.auto /\ new.courier = c /\ new.old = status
    BY DEF Idle
  <2> HIDE DEF new
  <2>3. WellFormed(new)
    BY <2>1, <2>2 DEF WellFormed
  <2> QED
    BY <2>3 DEF new
<1>4. ASSUME NEW o \in Orders, NEW auto \in BOOLEAN
      PROVE  WellFormed([Publishing(<<OrderCreated(o)>>) EXCEPT !.order = o, !.auto = auto])
  <2> DEFINE old == Publishing(<<OrderCreated(o)>>)
             new == [old EXCEPT !.order = o, !.auto = auto]
  <2>1. WellFormed(old) /\ old.at = "publishing"
    <3>1. <<OrderCreated(o)>> \in Seq(Event) /\ <<OrderCreated(o)>> # <<>>
      BY EventTypes
    <3> QED
      BY <3>1, PublishingType DEF Publishing, Idle
  <2> HIDE DEF old
  <2>2. new \in Handler
    BY <2>1 DEF WellFormed, Handler
  <2>3. new.events = old.events /\ new.at = "publishing" /\ new.order = o
    BY <2>1 DEF WellFormed, Handler
  <2> HIDE DEF new
  <2>4. WellFormed(new)
    BY <2>1, <2>2, <2>3 DEF WellFormed
  <2> QED
    BY <2>4 DEF new, old
<1> QED
  BY <1>1, <1>2, <1>3, <1>4

\* A transaction leaves rows of their types.
LEMMA TransactionTypes ==
  ASSUME TypeOK
  PROVE  /\ \A o \in Orders : L!CreateOrder(o) =>
              orders' \in [Orders -> OrderRow] /\ UNCHANGED <<history, couriers>>
         /\ \A o \in Orders, to \in Statuses, courier \in Couriers \cup {Null}, now \in Times :
              L!UpdateOrderStatus(o, to, courier, now) =>
                /\ orders' \in [Orders -> OrderRow]
                /\ history' \in [Orders -> Seq(Statuses \X Statuses)]
                /\ UNCHANGED couriers
         /\ \A o \in Orders, c \in Couriers : L!AssignOrderToCourier(o, c) =>
              /\ orders' \in [Orders -> OrderRow]
              /\ history' \in [Orders -> Seq(Statuses \X Statuses)]
              /\ couriers' \in [Couriers -> CourierRow]
         /\ \A c \in Couriers : L!CreateCourier(c) =>
              couriers' \in [Couriers -> CourierRow] /\ UNCHANGED <<orders, history>>
         /\ \A c \in Couriers, status \in CourierStatuses : L!UpdateCourierStatus(c, status) =>
              couriers' \in [Couriers -> CourierRow] /\ UNCHANGED <<orders, history>>
<1> USE DEF TypeOK
<1>1. ASSUME NEW o \in Orders, L!CreateOrder(o)
      PROVE  orders' \in [Orders -> OrderRow] /\ UNCHANGED <<history, couriers>>
  BY <1>1, Transactions, RowTypes, ZenonT(30)
<1>2. ASSUME NEW o \in Orders, NEW to \in Statuses, NEW courier \in Couriers \cup {Null},
             NEW now \in Times, L!UpdateOrderStatus(o, to, courier, now)
      PROVE  /\ orders' \in [Orders -> OrderRow]
             /\ history' \in [Orders -> Seq(Statuses \X Statuses)]
             /\ UNCHANGED couriers
  <2>1. orders[o].status \in Statuses
    BY <1>2, Transactions DEF OrderRow
  <2>2. Logged(history[o], orders[o].status, to) \in Seq(Statuses \X Statuses)
    BY <2>1, LogType
  <2>3. MovedOrder(orders[o], orders[o], to, courier, now) \in OrderRow
    BY RowTypes
  <2>4. /\ orders' = [orders EXCEPT ![o] = MovedOrder(orders[o], orders[o], to, courier, now)]
        /\ history' = [history EXCEPT ![o] = Logged(history[o], orders[o].status, to)]
        /\ UNCHANGED couriers
    BY <1>2, Transactions
  <2> QED
    BY <2>2, <2>3, <2>4
<1>3. ASSUME NEW o \in Orders, NEW c \in Couriers, L!AssignOrderToCourier(o, c)
      PROVE  /\ orders' \in [Orders -> OrderRow]
             /\ history' \in [Orders -> Seq(Statuses \X Statuses)]
             /\ couriers' \in [Couriers -> CourierRow]
  <2>1. Logged(history[o], "created", "accepted") \in Seq(Statuses \X Statuses)
    BY LogType DEF Statuses
  <2>2. [couriers[c] EXCEPT !.status = "busy"] \in CourierRow
    BY RowTypes DEF CourierStatuses
  <2>3. AssignedOrder(orders[o], c) \in OrderRow
    BY RowTypes
  <2>4. /\ orders' = [orders EXCEPT ![o] = AssignedOrder(orders[o], c)]
        /\ history' = [history EXCEPT ![o] = Logged(history[o], "created", "accepted")]
        /\ couriers' = [couriers EXCEPT ![c] = [couriers[c] EXCEPT !.status = "busy"]]
    BY <1>3, Transactions
  <2> QED
    BY <2>1, <2>2, <2>3, <2>4
<1>4. ASSUME NEW c \in Couriers, L!CreateCourier(c)
      PROVE  couriers' \in [Couriers -> CourierRow] /\ UNCHANGED <<orders, history>>
  <2>1. [couriers[c] EXCEPT !.status = "offline"] \in CourierRow
    BY RowTypes DEF CourierStatuses
  <2>2. /\ couriers' = [couriers EXCEPT ![c] = [couriers[c] EXCEPT !.status = "offline"]]
        /\ UNCHANGED <<orders, history>>
    BY <1>4, Transactions
  <2> QED
    BY <2>1, <2>2
<1>5. ASSUME NEW c \in Couriers, NEW status \in CourierStatuses,
             L!UpdateCourierStatus(c, status)
      PROVE  couriers' \in [Couriers -> CourierRow] /\ UNCHANGED <<orders, history>>
  <2>1. [couriers[c] EXCEPT !.status = status] \in CourierRow
    BY RowTypes
  <2>2. /\ couriers' = [couriers EXCEPT ![c] = [couriers[c] EXCEPT !.status = status]]
        /\ UNCHANGED <<orders, history>>
    BY <1>5, Transactions
  <2> QED
    BY <2>1, <2>2
<1> QED
  BY <1>1, <1>2, <1>3, <1>4, <1>5

\* A step by which the handler h goes on as `state' keeps the types.
LEMMA GoesOn ==
  ASSUME TypeOK, NEW h \in Handlers, NEW state, WellFormed(state), Becomes(h, state),
         orders' \in [Orders -> OrderRow],
         history' \in [Orders -> Seq(Statuses \X Statuses)],
         couriers' \in [Couriers -> CourierRow],
         place' \in [Couriers -> Places \cup {Null}],
         topic' \subseteq Event, lost' \subseteq Event, begun' \in 0 .. MaxRequests
  PROVE  TypeOK'
BY HandType DEF TypeOK

LEMMA BeginsType == ASSUME TypeOK, NEW h \in Handlers, Begins(h)
                    PROVE  begun' \in 0 .. MaxRequests
BY RequestsAssumption DEF TypeOK, Begins

\* What a handler holds that is not idle.
LEMMA HandlerType ==
  ASSUME TypeOK, NEW h \in Handlers
  PROVE  WellFormed(hand[h]) /\ hand[h] \in Handler
BY DEF TypeOK, WellFormed

\* The events a handler has still to publish are events.
LEMMA PendingType ==
  ASSUME NEW state, WellFormed(state)
  PROVE  Pending(state) \subseteq Event
<1>1. \A i \in 1 .. Len(state.events) : state.events[i] \in Event
  <2>1. state.events \in Seq(Event)
    BY DEF WellFormed, Handler
  <2> QED
    BY <2>1
<1>2. ASSUME state.at = "assigned", NEW i \in {1, 2}
      PROVE  AssignmentEvents(state.order, state.courier)[i] \in Event
  <2>1. state.order \in Orders /\ state.courier \in Couriers
    BY <1>2 DEF WellFormed
  <2>2. AssignmentEvents(state.order, state.courier) \in Seq(Event)
    BY <2>1, EventTypes
  <2>3. Len(AssignmentEvents(state.order, state.courier)) = 2
    BY DEF AssignmentEvents
  <2> QED
    BY <2>2, <2>3
<1> QED
  BY <1>1, <1>2 DEF Pending

\* The tables, the handlers and the events keep their types.
THEOREM TypeCorrect == Spec => []TypeOK
<1>1. Init => TypeOK
  <2>1. /\ L!Init => /\ orders = [o \in Orders |-> AbsentOrder]
                     /\ history = [o \in Orders |-> <<>>]
                     /\ couriers = [c \in Couriers |-> [status |-> "absent", total |-> 0]]
    BY SameRows DEF L!Init
  <2>2. [status |-> "absent", total |-> 0] \in CourierRow
    BY DEF CourierRow
  <2>3. 0 \in 0 .. MaxRequests /\ \A o \in Orders : <<>> \in Seq(Statuses \X Statuses)
    BY RequestsAssumption
  <2>4. Init => hand = [h \in Handlers |-> Idle]
    BY DEF Init
  <2>5. Init => DOMAIN hand = Handlers /\ \A h \in Handlers : WellFormed(hand[h])
    BY <2>4, IdleType
  <2> QED
    BY <2>1, <2>2, <2>3, <2>5, RowTypes DEF Init, TypeOK
<1>2. TypeOK /\ [Next]_vars => TypeOK'
  <2> SUFFICES ASSUME TypeOK, [Next]_vars PROVE TypeOK'
    OBVIOUS
  <2>0. CASE UNCHANGED vars
    BY <2>0 DEF TypeOK, vars, tables
  <2>1. ASSUME NEW h \in Handlers, NEW o \in Orders, NEW auto \in BOOLEAN,
               CreateOrder(h, o, auto)
        PROVE  TypeOK'
    BY <2>1, WaitingType, TransactionTypes, GoesOn, BeginsType DEF CreateOrder, TypeOK
  <2>2. ASSUME NEW h \in Handlers, NEW o \in Orders, ReadOrder(h, o)  PROVE TypeOK'
    <3>1. orders[o].status \in Statuses /\ Len(history[o]) \in Nat
      BY <2>2 DEF ReadOrder, TypeOK, OrderRow
    <3> QED
      BY <2>2, <3>1, WaitingType, GoesOn, BeginsType DEF ReadOrder, TypeOK, tables
  <2>3. ASSUME NEW h \in Handlers, NEW to \in Statuses, NEW courier \in Couriers \cup {Null},
               NEW now \in Times, UpdateOrderStatus(h, to, courier, now)
        PROVE  TypeOK'
    <3> DEFINE o == hand[h].order
               e == StatusChanged(o, courier, hand[h].old, to, hand[h].seen, Len(history'[o]))
    <3>1. o \in Orders /\ hand[h].old \in Statuses /\ hand[h].seen \in Nat
      BY <2>3, HandlerType DEF UpdateOrderStatus, WellFormed, Handler
    <3>2. /\ orders' \in [Orders -> OrderRow]
          /\ history' \in [Orders -> Seq(Statuses \X Statuses)] /\ UNCHANGED couriers
      BY <2>3, <3>1, TransactionTypes DEF UpdateOrderStatus
    <3>3. e \in Event
      <4>1. Len(history'[o]) \in Nat
        BY <3>1, <3>2
      <4> QED
        BY <3>1, <4>1, EventTypes
    <3>4. Becomes(h, Publishing(<<e>>)) /\ UNCHANGED <<place, topic, lost, begun>>
      BY <2>3 DEF UpdateOrderStatus
    <3> HIDE DEF e
    <3>5. WellFormed(Publishing(<<e>>))
      <4>1. <<e>> \in Seq(Event) /\ <<e>> # <<>>
        BY <3>3
      <4> QED
        BY <4>1, PublishingType
    <3> QED
      BY <3>2, <3>4, <3>5, GoesOn DEF TypeOK
  <2>4. ASSUME NEW h \in Handlers, NEW o \in Orders, NEW c \in Couriers,
               AssignOrderToCourier(h, o, c)
        PROVE  TypeOK'
    BY <2>4, EventTypes, PublishingType, TransactionTypes, GoesOn, BeginsType
       DEF AssignOrderToCourier, TypeOK
  <2>5. ASSUME NEW h \in Handlers, NEW o \in Orders, ReadUnassigned(h, o)  PROVE TypeOK'
    BY <2>5, WaitingType, GoesOn, BeginsType DEF ReadUnassigned, TypeOK, tables
  <2>6. ASSUME NEW h \in Handlers, NEW target \in Places, ListCouriers(h, target)
        PROVE  TypeOK'
    <3> DEFINE km == [c \in Couriers |-> IF c \in Candidates(couriers, place)
                                           THEN Distance[place[c], target] ELSE Null]
               new == [hand[h] EXCEPT !.at = "counting", !.km = km]
    <3>1. km \in List
      BY ChoiceAssumption DEF TypeOK, List, Candidates
    <3>2. Becomes(h, new) /\ hand[h].at = "listing"
          /\ UNCHANGED <<tables, place, topic, lost, begun>>
      BY <2>6 DEF ListCouriers
    <3> HIDE DEF km
    <3>3. new \in Handler /\ new.at = "counting" /\ new.events = hand[h].events
          /\ new.auto = hand[h].auto /\ new.order = hand[h].order
      BY <3>1, HandlerType DEF Handler, Steps
    <3> HIDE DEF new
    <3>4. WellFormed(new)
      BY <3>2, <3>3, HandlerType DEF WellFormed
    <3> QED
      BY <3>2, <3>4, GoesOn DEF TypeOK, tables
  <2>7. ASSUME NEW h \in Handlers, NEW c \in Couriers, CountOrders(h, c)  PROVE TypeOK'
    <3>1. Cardinality(ActiveOrders(orders, c)) \in Nat
      BY ChoiceAssumption, FS_Subset, FS_CardinalityType DEF ActiveOrders
    <3>2. PICK n \in {0, Cardinality(ActiveOrders(orders, c))} :
                 Becomes(h, [hand[h] EXCEPT !.load[c] = n])
      BY <2>7 DEF CountOrders
    <3>3. n \in Nat /\ hand[h].at = "counting" /\ UNCHANGED <<tables, place, topic, lost, begun>>
      BY <2>7, <3>1 DEF CountOrders
    <3> DEFINE new == [hand[h] EXCEPT !.load[c] = n]
    <3>4. new \in Handler /\ new.at = "counting" /\ new.events = hand[h].events
          /\ new.auto = hand[h].auto /\ new.order = hand[h].order
      <4>1. [hand[h].load EXCEPT ![c] = n] \in List
        BY <3>3, HandlerType DEF Handler, List
      <4> QED
        BY <3>3, <4>1, HandlerType DEF Handler
    <3>5. Becomes(h, new)
      BY <3>2
    <3> HIDE DEF new
    <3>6. WellFormed(new)
      BY <3>3, <3>4, HandlerType DEF WellFormed
    <3> QED
      BY <3>3, <3>5, <3>6, GoesOn DEF TypeOK, tables
  <2>8. ASSUME NEW h \in Handlers, NEW c \in Couriers, AssignBest(h, c)  PROVE TypeOK'
    <3> DEFINE new == [hand[h] EXCEPT !.at = "assigned", !.courier = c]
    <3>1. hand[h].at = "counting" /\ hand[h].order \in Orders
      BY <2>8, HandlerType DEF AssignBest, WellFormed
    <3>2. /\ orders' \in [Orders -> OrderRow] /\ couriers' \in [Couriers -> CourierRow]
          /\ history' \in [Orders -> Seq(Statuses \X Statuses)]
      BY <2>8, <3>1, TransactionTypes DEF AssignBest
    <3>3. new \in Handler /\ new.at = "assigned" /\ new.events = hand[h].events
          /\ new.auto = hand[h].auto /\ new.order = hand[h].order /\ new.courier = c
      BY HandlerType DEF Handler, Steps
    <3>4. Becomes(h, new) /\ UNCHANGED <<place, topic, lost, begun>>
      BY <2>8 DEF AssignBest
    <3> HIDE DEF new
    <3>5. WellFormed(new)
      BY <3>1, <3>3, HandlerType DEF WellFormed
    <3> QED
      BY <3>2, <3>4, <3>5, GoesOn DEF TypeOK
  <2>9. ASSUME NEW h \in Handlers, ReadAssigned(h)  PROVE TypeOK'
    <3>1. hand[h].order \in Orders /\ hand[h].courier \in Couriers
      BY <2>9, HandlerType DEF ReadAssigned, WellFormed
    <3> QED
      BY <2>9, <3>1, EventTypes, PublishingType, GoesOn DEF ReadAssigned, TypeOK, tables
  <2>10. ASSUME NEW h \in Handlers, NEW c \in Couriers, ReadCourier(h, c)  PROVE TypeOK'
    <3>1. couriers[c].status \in CourierStatuses
      BY <2>10 DEF ReadCourier, TypeOK, CourierRow
    <3> QED
      BY <2>10, <3>1, WaitingType, GoesOn, BeginsType DEF ReadCourier, TypeOK, tables
  <2>11. ASSUME NEW h \in Handlers, NEW status \in CourierStatuses,
                NEW p \in Places \cup {Null}, UpdateCourierStatus(h, status, p)
         PROVE  TypeOK'
    <3> DEFINE c == hand[h].courier
               events == <<CourierStatusChanged(c, hand[h].old, status)>> \o LocationEvents(c, p)
    <3>1. c \in Couriers /\ hand[h].old \in CourierStatuses
      BY <2>11, HandlerType DEF UpdateCourierStatus, WellFormed
    <3>2. couriers' \in [Couriers -> CourierRow] /\ UNCHANGED <<orders, history>>
      BY <2>11, <3>1, TransactionTypes DEF UpdateCourierStatus
    <3>3. events \in Seq(Event) /\ events # <<>>
      <4>1. CourierStatusChanged(c, hand[h].old, status) \in Event
        BY <3>1, EventTypes
      <4>2. LocationEvents(c, p) \in Seq(Event)
        BY <3>1, EventTypes DEF LocationEvents
      <4> QED
        BY <4>1, <4>2
    <3>4. place' \in [Couriers -> Places \cup {Null}]
      BY <2>11 DEF UpdateCourierStatus, TypeOK
    <3>5. Becomes(h, Publishing(events)) /\ UNCHANGED <<topic, lost, begun>>
      BY <2>11 DEF UpdateCourierStatus
    <3> HIDE DEF events
    <3>6. WellFormed(Publishing(events))
      BY <3>3, PublishingType
    <3> QED
      BY <3>2, <3>4, <3>5, <3>6, GoesOn DEF TypeOK
  <2>12. ASSUME NEW h \in Handlers, ReadPart(h)  PROVE TypeOK'
    <3> DEFINE new == [hand[h] EXCEPT !.at = "report", !.parts = Append(@, Delivered)]
    <3>1. hand[h].events = <<>> /\ ~hand[h].auto /\ begun' \in 0 .. MaxRequests
      <4>1. CASE Begins(h)
        <5>1. begun' \in 0 .. MaxRequests
          BY <4>1, BeginsType
        <5>2. hand[h] = Idle
          BY <4>1 DEF Begins
        <5>3. Idle.events = <<>> /\ ~Idle.auto
          BY DEF Idle
        <5> QED
          BY <5>1, <5>2, <5>3
      <4>2. CASE hand[h].at = "report" /\ UNCHANGED begun
        BY <4>2, HandlerType DEF WellFormed, TypeOK
      <4> QED
        BY <2>12, <4>1, <4>2 DEF ReadPart
    <3>2. Becomes(h, new) /\ UNCHANGED <<tables, place, topic, lost>>
      BY <2>12 DEF ReadPart
    <3>3. new \in Handler /\ new.at = "report" /\ new.events = hand[h].events
          /\ new.auto = hand[h].auto
      <4>1. Append(hand[h].parts, Delivered) \in Seq(SUBSET Orders)
        BY HandlerType DEF Handler, Delivered
      <4> QED
        BY <4>1, HandlerType DEF Handler, Steps
    <3> HIDE DEF new
    <3>4. WellFormed(new)
      BY <3>1, <3>3 DEF WellFormed
    <3> QED
      BY <3>1, <3>2, <3>4, GoesOn DEF TypeOK, tables
  <2>13. ASSUME NEW h \in Handlers, Publish(h)  PROVE TypeOK'
    BY <2>13, HandlerType, AfterEventType, GoesOn DEF Publish, TypeOK, tables
  <2>14. ASSUME NEW h \in Handlers, PublishFails(h)  PROVE TypeOK'
    BY <2>14, HandlerType, AfterEventType, GoesOn DEF PublishFails, TypeOK, tables
  <2>15. ASSUME NEW h \in Handlers, Stop(h)  PROVE TypeOK'
    BY <2>15, HandlerType, PendingType, IdleType, GoesOn DEF Stop, TypeOK, tables
  <2>16. ASSUME NEW c \in Couriers, CreateCourier(c)  PROVE TypeOK'
    BY <2>16, TransactionTypes DEF CreateCourier, TypeOK
  <2> QED
    BY <2>0, <2>1, <2>2, <2>3, <2>4, <2>5, <2>6, <2>7, <2>8, <2>9, <2>10, <2>11, <2>12,
       <2>13, <2>14, <2>15, <2>16 DEF Next, Step
<1>3. QED
  BY <1>1, <1>2, PTL DEF Spec

------------------------------------------------------------------------------
(* The transactions of the requests                                        *)

\* The steps of a handler that change no table.
Quiet(h) ==
  \/ \E o \in Orders : ReadOrder(h, o)
  \/ \E o \in Orders : ReadUnassigned(h, o)
  \/ \E target \in Places : ListCouriers(h, target)
  \/ \E c \in Couriers : CountOrders(h, c)
  \/ ReadAssigned(h)
  \/ \E c \in Couriers : ReadCourier(h, c)
  \/ ReadPart(h)
  \/ Publish(h)
  \/ PublishFails(h)
  \/ Stop(h)

LEMMA QuietTables == ASSUME NEW h \in Handlers, Quiet(h)  PROVE UNCHANGED <<tables, place>>
BY DEF Quiet, ReadOrder, ReadUnassigned, ListCouriers, CountOrders, ReadAssigned, ReadCourier,
       ReadPart, Publish, PublishFails, Stop

\* A step is a quiet one or a transaction.
LEMMA StepKinds ==
  ASSUME [Next]_vars
  PROVE  \/ UNCHANGED vars
         \/ \E h \in Handlers :
              \/ Quiet(h)
              \/ \E o \in Orders, auto \in BOOLEAN : CreateOrder(h, o, auto)
              \/ \E to \in Statuses, courier \in Couriers \cup {Null}, now \in Times :
                   UpdateOrderStatus(h, to, courier, now)
              \/ \E o \in Orders, c \in Couriers : AssignOrderToCourier(h, o, c)
              \/ \E c \in Couriers : AssignBest(h, c)
              \/ \E status \in CourierStatuses, p \in Places \cup {Null} :
                   UpdateCourierStatus(h, status, p)
         \/ \E c \in Couriers : CreateCourier(c)
BY DEF Next, Step, Quiet

\* Handlers change the tables by the transactions of OrderLifecycle, one at a
\* step, whatever they have read before and whatever they publish after.
THEOREM RequestsUseTransactions == Spec => L!Spec
<1>1. Init => L!Init
  BY DEF Init
<1>2. TypeOK /\ [Next]_vars => [L!Next]_(L!tables)
  <2> SUFFICES ASSUME TypeOK, [Next]_vars
               PROVE  L!Next \/ UNCHANGED <<orders, history, couriers>>
    BY DEF L!tables
  <2>1. ASSUME NEW h \in Handlers, NEW o \in Orders, NEW auto \in BOOLEAN,
               CreateOrder(h, o, auto)
        PROVE  L!Next
    BY <2>1 DEF CreateOrder, L!Next
  <2>2. ASSUME NEW h \in Handlers, NEW to \in Statuses, NEW courier \in Couriers \cup {Null},
               NEW now \in Times, UpdateOrderStatus(h, to, courier, now)
        PROVE  L!Next
    <3>1. hand[h].order \in Orders /\ to \in L!Statuses
      BY <2>2, SameRows, HandlerType DEF UpdateOrderStatus, WellFormed
    <3> QED
      BY <2>2, <3>1 DEF UpdateOrderStatus, L!Next
  <2>3. ASSUME NEW h \in Handlers, NEW o \in Orders, NEW c \in Couriers,
               AssignOrderToCourier(h, o, c)
        PROVE  L!Next
    BY <2>3 DEF AssignOrderToCourier, L!Next
  <2>4. ASSUME NEW h \in Handlers, NEW c \in Couriers, AssignBest(h, c)  PROVE L!Next
    <3>1. hand[h].order \in Orders
      BY <2>4, HandlerType DEF AssignBest, WellFormed
    <3> QED
      BY <2>4, <3>1 DEF AssignBest, L!Next
  <2>5. ASSUME NEW h \in Handlers, NEW status \in CourierStatuses, NEW p \in Places \cup {Null},
               UpdateCourierStatus(h, status, p)
        PROVE  L!Next
    <3>1. hand[h].courier \in Couriers /\ status \in L!CourierStatuses
      BY <2>5, SameRows, HandlerType DEF UpdateCourierStatus, WellFormed
    <3> QED
      BY <2>5, <3>1 DEF UpdateCourierStatus, L!Next
  <2>6. ASSUME NEW c \in Couriers, CreateCourier(c)  PROVE L!Next
    BY <2>6 DEF CreateCourier, L!Next
  <2> QED
    BY <2>1, <2>2, <2>3, <2>4, <2>5, <2>6, StepKinds, QuietTables DEF vars, tables
<1>3. QED
  BY <1>1, <1>2, TypeCorrect, PTL DEF Spec, L!Spec

\* What a step may do to an order: create it, move it and log that, or leave
\* its status alone.
LEMMA OrderStep ==
  ASSUME TypeOK, [Next]_vars, NEW o \in Orders
  PROVE  \/ history'[o] = history[o] /\ orders'[o].status = orders[o].status
         \/ /\ history'[o] = history[o]
            /\ orders[o].status = "absent" /\ orders'[o].status = "created"
         \/ /\ <<orders[o].status, orders'[o].status>> \in Moves
            /\ history'[o] = Append(history[o], <<orders[o].status, orders'[o].status>>)
<1> USE DEF TypeOK
<1>1. ASSUME NEW x \in Orders, L!CreateOrder(x)
      PROVE  /\ history'[o] = history[o]
             /\ \/ orders'[o].status = orders[o].status
                \/ orders[o].status = "absent" /\ orders'[o].status = "created"
  <2>1. /\ orders[x].status = "absent" /\ orders' = [orders EXCEPT ![x] = CreatedOrder]
        /\ UNCHANGED history
    BY <1>1, Transactions
  <2>2. CreatedOrder.status = "created"
    BY DEF CreatedOrder, AbsentOrder
  <2> QED
    BY <2>1, <2>2
<1>2. ASSUME NEW x \in Orders, NEW c \in Couriers, L!AssignOrderToCourier(x, c)
      PROVE  \/ history'[o] = history[o] /\ orders'[o].status = orders[o].status
             \/ /\ <<orders[o].status, orders'[o].status>> \in Moves
                /\ history'[o] = Append(history[o], <<orders[o].status, orders'[o].status>>)
  <2>1. /\ orders[x].status = "created"
        /\ orders' = [orders EXCEPT ![x] = AssignedOrder(orders[x], c)]
        /\ history' = [history EXCEPT ![x] = Logged(history[x], "created", "accepted")]
    BY <1>2, Transactions
  <2>2. AssignedOrder(orders[x], c).status = "accepted"
    BY DEF AssignedOrder, OrderRow
  <2> QED
    BY <2>1, <2>2 DEF Logged, Moves
<1>3. ASSUME NEW x \in Orders, NEW to \in Statuses, NEW courier \in Couriers \cup {Null},
             NEW now \in Times, L!UpdateOrderStatus(x, to, courier, now)
      PROVE  \/ history'[o] = history[o] /\ orders'[o].status = orders[o].status
             \/ /\ <<orders[o].status, orders'[o].status>> \in Moves
                /\ history'[o] = Append(history[o], <<orders[o].status, orders'[o].status>>)
  <2>1. /\ CanMove(orders[x].status, to)
        /\ orders' = [orders EXCEPT ![x] = MovedOrder(orders[x], orders[x], to, courier, now)]
        /\ history' = [history EXCEPT ![x] = Logged(history[x], orders[x].status, to)]
    BY <1>3, Transactions
  <2>2. MovedOrder(orders[x], orders[x], to, courier, now).status = to
    BY DEF MovedOrder, OrderRow
  <2> QED
    BY <2>1, <2>2 DEF Logged, CanMove
<1>4. ASSUME NEW h \in Handlers,
             \/ \E to \in Statuses, courier \in Couriers \cup {Null}, now \in Times :
                  UpdateOrderStatus(h, to, courier, now)
             \/ \E c \in Couriers : AssignBest(h, c)
      PROVE  hand[h].order \in Orders
  BY <1>4, HandlerType DEF UpdateOrderStatus, AssignBest, WellFormed
<1>5. ASSUME NEW c \in Couriers, NEW status,
             L!CreateCourier(c) \/ L!UpdateCourierStatus(c, status)
      PROVE  UNCHANGED <<orders, history>>
  BY <1>5, Transactions
<1>6. ASSUME NEW h \in Handlers, NEW status \in CourierStatuses, NEW p \in Places \cup {Null},
             UpdateCourierStatus(h, status, p)
      PROVE  UNCHANGED <<orders, history>>
  BY <1>6, <1>5, HandlerType DEF UpdateCourierStatus, WellFormed
<1> QED
  <2> USE StepKinds
  <2>1. CASE \E h \in Handlers : \E x \in Orders, auto \in BOOLEAN : CreateOrder(h, x, auto)
    BY <2>1, <1>1 DEF CreateOrder
  <2>2. CASE \E h \in Handlers : \E x \in Orders, c \in Couriers : AssignOrderToCourier(h, x, c)
    BY <2>2, <1>2 DEF AssignOrderToCourier
  <2>3. CASE \E h \in Handlers : \E c \in Couriers : AssignBest(h, c)
    BY <2>3, <1>2, <1>4 DEF AssignBest
  <2>4. CASE \E h \in Handlers : \E to \in Statuses, courier \in Couriers \cup {Null},
               now \in Times : UpdateOrderStatus(h, to, courier, now)
    BY <2>4, <1>3, <1>4 DEF UpdateOrderStatus
  <2>5. CASE UNCHANGED <<orders, history>>
    BY <2>5
  <2> QED
    BY <2>1, <2>2, <2>3, <2>4, <2>5, <1>5, <1>6, QuietTables DEF CreateCourier, vars, tables

\* An order keeps its history, and what is added comes at the end.
LEMMA HistoryGrows ==
  ASSUME TypeOK, TypeOK', [Next]_vars, NEW o \in Orders
  PROVE  /\ Len(history[o]) \in Nat /\ Len(history'[o]) \in Nat
         /\ Len(history[o]) <= Len(history'[o])
         /\ \A i \in 1 .. Len(history[o]) : history'[o][i] = history[o][i]
         /\ \A n \in 0 .. Len(history[o]) : StatusAt(history'[o], n) = StatusAt(history[o], n)
<1>1. /\ Len(history[o]) \in Nat /\ Len(history'[o]) \in Nat
      /\ Len(history[o]) <= Len(history'[o])
      /\ \A i \in 1 .. Len(history[o]) : history'[o][i] = history[o][i]
  <2>1. history[o] \in Seq(Statuses \X Statuses) /\ history'[o] \in Seq(Statuses \X Statuses)
    BY DEF TypeOK
  <2>2. CASE history'[o] = history[o]
    BY <2>1, <2>2
  <2>3. ASSUME NEW move \in Statuses \X Statuses, history'[o] = Append(history[o], move)
        PROVE  /\ Len(history[o]) <= Len(history'[o])
               /\ \A i \in 1 .. Len(history[o]) : history'[o][i] = history[o][i]
    BY <2>1, <2>3
  <2>4. \A move \in Moves : move \in Statuses \X Statuses
    BY DEF Moves, Statuses
  <2>5. \/ history'[o] = history[o]
        \/ \E move \in Statuses \X Statuses : history'[o] = Append(history[o], move)
    BY <2>4, OrderStep
  <2> QED
    BY <2>1, <2>2, <2>3, <2>5
<1> QED
  BY <1>1 DEF StatusAt

\* The last status that was logged is the present one.
TrailEnds ==
  \A o \in Orders :
    IF history[o] = <<>> THEN orders[o].status \in {"absent", "created"}
    ELSE /\ orders[o].status = history[o][Len(history[o])][2]
         /\ orders[o].status # "created"
         /\ history[o][1][1] = "created"

LEMMA TrailsEnd == Spec => []TrailEnds
<1>1. Init => TrailEnds
  <2>1. L!Init => /\ orders = [o \in Orders |-> AbsentOrder]
                  /\ history = [o \in Orders |-> <<>>]
    BY SameRows DEF L!Init
  <2> QED
    BY <2>1 DEF Init, TrailEnds, AbsentOrder
<1>2. TypeOK /\ TypeOK' /\ TrailEnds /\ [Next]_vars => TrailEnds'
  <2> SUFFICES ASSUME TypeOK, TypeOK', TrailEnds, [Next]_vars, NEW o \in Orders
               PROVE  IF history'[o] = <<>> THEN orders'[o].status \in {"absent", "created"}
                      ELSE /\ orders'[o].status = history'[o][Len(history'[o])][2]
                           /\ orders'[o].status # "created"
                           /\ history'[o][1][1] = "created"
    BY DEF TrailEnds
  <2>0. history[o] \in Seq(Statuses \X Statuses)
    BY DEF TypeOK
  <2>1. CASE history'[o] = history[o] /\ orders'[o].status = orders[o].status
    BY <2>1 DEF TrailEnds
  <2>2. CASE /\ history'[o] = history[o]
             /\ orders[o].status = "absent" /\ orders'[o].status = "created"
    <3>1. history[o] # <<>> => history[o][Len(history[o])] \in Statuses \X Statuses
      BY <2>0
    <3>2. history[o] = <<>>
      BY <2>2, <3>1 DEF TrailEnds, Statuses
    <3> QED
      BY <2>2, <3>2
  <2>3. CASE /\ <<orders[o].status, orders'[o].status>> \in Moves
             /\ history'[o] = Append(history[o], <<orders[o].status, orders'[o].status>>)
    <3> DEFINE from == orders[o].status
               to == orders'[o].status
               new == Append(history[o], <<from, to>>)
    <3>1. /\ from \in Statuses /\ to \in Statuses /\ to # "created"
          /\ from = "created" \/ history[o] # <<>>
      BY <2>3 DEF Moves, Statuses, TrailEnds
    <3> HIDE DEF from, to
    <3>2. /\ new # <<>> /\ new[Len(new)] = <<from, to>>
          /\ history[o] # <<>> => new[1] = history[o][1]
          /\ history[o] = <<>> => new[1] = <<from, to>>
      <4>1. new \in Seq(Statuses \X Statuses) /\ Len(new) = Len(history[o]) + 1
            /\ new[Len(new)] = <<from, to>>
            /\ \A i \in 1 .. Len(history[o]) : new[i] = history[o][i]
        BY <2>0, <3>1
      <4>2. Len(history[o]) \in Nat /\ (history[o] # <<>> => Len(history[o]) > 0)
            /\ (history[o] = <<>> => Len(history[o]) = 0)
        BY <2>0
      <4> HIDE DEF new
      <4>3. new # <<>>
        BY <4>1, <4>2
      <4> QED
        BY <4>1, <4>2, <4>3
    <3>3. history'[o] = new
      BY <2>3 DEF from, to
    <3> HIDE DEF new
    <3> QED
      BY <3>1, <3>2, <3>3 DEF TrailEnds, from, to
  <2> QED
    BY <2>1, <2>2, <2>3, OrderStep
<1>3. QED
  BY <1>1, <1>2, TypeCorrect, PTL DEF Spec

LEMMA PresentStatus ==
  ASSUME TypeOK, TrailEnds, NEW o \in Orders, orders[o].status # "absent"
  PROVE  /\ orders[o].status = StatusAt(history[o], Len(history[o]))
         /\ orders[o].status = "created" <=> history[o] = <<>>
<1>1. history[o] \in Seq(Statuses \X Statuses)
  BY DEF TypeOK
<1> QED
  BY <1>1 DEF TrailEnds, StatusAt

------------------------------------------------------------------------------
(* The events there are                                                    *)

\* What a step of the handler h adds to the events.
LEMMA KnownAfter ==
  ASSUME TypeOK, NEW h \in Handlers, NEW state, Becomes(h, state), NEW new,
         topic' \cup lost' \cup Pending(state) = topic \cup lost \cup Pending(hand[h]) \cup new
  PROVE  Known' = Known \cup new
<1>1. hand'[h] = state /\ \A g \in Handlers \ {h} : hand'[g] = hand[g]
  BY DEF TypeOK, Becomes
<1>2. Known = topic \cup lost \cup Pending(hand[h])
                \cup UNION {Pending(hand[g]) : g \in Handlers \ {h}}
  BY DEF Known
<1>3. Known' = topic' \cup lost' \cup Pending(state)
                \cup UNION {Pending(hand[g]) : g \in Handlers \ {h}}
  <2>1. Known' = topic' \cup lost' \cup UNION {Pending(hand'[g]) : g \in Handlers}
    BY DEF Known, Pending
  <2>2. UNION {Pending(hand'[g]) : g \in Handlers}
          = Pending(state) \cup UNION {Pending(hand[g]) : g \in Handlers \ {h}}
    BY <1>1
  <2> QED
    BY <2>1, <2>2
<1> QED
  BY <1>2, <1>3

LEMMA PendingOf ==
  /\ \A state : state.events = <<>> /\ state.at # "assigned" => Pending(state) = {}
  /\ \A e : Pending(Publishing(<<e>>)) = {e}
  /\ \A e, f : Pending(Publishing(<<e, f>>)) = {e, f}
<1>1. ASSUME NEW state, state.events = <<>>, state.at # "assigned"  PROVE Pending(state) = {}
  BY <1>1 DEF Pending
<1>2. ASSUME NEW e  PROVE Pending(Publishing(<<e>>)) = {e}
  BY DEF Pending, Publishing, Idle
<1>3. ASSUME NEW e, NEW f  PROVE Pending(Publishing(<<e, f>>)) = {e, f}
  BY DEF Pending, Publishing, Idle
<1> QED
  BY <1>1, <1>2, <1>3

\* What each kind of step adds to the events: quiet ones nothing, others the
\* events of their transaction.
LEMMA QuietKnown ==
  ASSUME TypeOK, NEW h \in Handlers, Quiet(h)
  PROVE  Known' = Known
<1> SUFFICES \E state : /\ Becomes(h, state)
                        /\ topic' \cup lost' \cup Pending(state)
                             = topic \cup lost \cup Pending(hand[h])
  <2>1. ASSUME NEW state, Becomes(h, state),
               topic' \cup lost' \cup Pending(state) = topic \cup lost \cup Pending(hand[h])
        PROVE  Known' = Known
    <3>1. topic' \cup lost' \cup Pending(state)
            = topic \cup lost \cup Pending(hand[h]) \cup {}
      BY <2>1
    <3>2. Known' = Known \cup {}
      BY <2>1, <3>1, KnownAfter
    <3> QED
      BY <3>2
  <2> QED
    BY <2>1
<1>0. WellFormed(hand[h]) /\ hand[h] \in Handler
  BY HandlerType
<1>1. ASSUME hand[h] = Idle \/ hand[h].at \in {"asked", "listing", "counting", "report"}
      PROVE  Pending(hand[h]) = {}
  BY <1>0, <1>1, PendingOf DEF WellFormed, Idle
<1>2. ASSUME NEW o \in Orders, ReadOrder(h, o) \/ ReadUnassigned(h, o)
      PROVE  \E state : Becomes(h, state) /\ Pending(state) = {} /\ Pending(hand[h]) = {}
                        /\ UNCHANGED <<topic, lost>>
  <2>1. Pending(hand[h]) = {} /\ UNCHANGED <<topic, lost>>
    BY <1>1, <1>2 DEF ReadOrder, ReadUnassigned, Begins
  <2>2. CASE ReadOrder(h, o)
    <3> DEFINE new == [Idle EXCEPT !.at = "updating", !.order = o,
                                   !.old = orders[o].status, !.seen = Len(history[o])]
    <3>1. new.events = <<>> /\ new.at = "updating"
      BY DEF Idle
    <3>2. Becomes(h, new)
      BY <2>2 DEF ReadOrder
    <3> HIDE DEF new
    <3> QED
      BY <2>1, <3>1, <3>2, PendingOf
  <2>3. CASE ReadUnassigned(h, o)
    <3> DEFINE new == [Idle EXCEPT !.at = "listing", !.order = o]
    <3>1. new.events = <<>> /\ new.at = "listing"
      BY DEF Idle
    <3>2. Becomes(h, new)
      BY <2>3 DEF ReadUnassigned
    <3> HIDE DEF new
    <3> QED
      BY <2>1, <3>1, <3>2, PendingOf
  <2> QED
    BY <1>2, <2>2, <2>3
<1>3. ASSUME NEW c \in Couriers, ReadCourier(h, c)
      PROVE  \E state : Becomes(h, state) /\ Pending(state) = {} /\ Pending(hand[h]) = {}
                        /\ UNCHANGED <<topic, lost>>
  <2> DEFINE new == [Idle EXCEPT !.at = "shifting", !.courier = c, !.old = couriers[c].status]
  <2>1. new.events = <<>> /\ new.at = "shifting"
    BY DEF Idle
  <2>2. Becomes(h, new) /\ Pending(hand[h]) = {} /\ UNCHANGED <<topic, lost>>
    BY <1>1, <1>3 DEF ReadCourier, Begins
  <2> HIDE DEF new
  <2> QED
    BY <2>1, <2>2, PendingOf
<1>4. ASSUME NEW state, Becomes(h, state), state.events = hand[h].events,
             state.at \in {"counting", "report"},
             hand[h] = Idle \/ hand[h].at \in {"listing", "counting", "report"},
             UNCHANGED <<topic, lost>>
      PROVE  \E new : Becomes(h, new) /\ Pending(new) = {} /\ Pending(hand[h]) = {}
                      /\ UNCHANGED <<topic, lost>>
  <2>1. hand[h].events = <<>>
    BY <1>0, <1>4 DEF WellFormed, Idle
  <2> QED
    BY <1>1, <1>4, <2>1, PendingOf
<1>5. ASSUME NEW target \in Places, ListCouriers(h, target)
      PROVE  \E new : Becomes(h, new) /\ Pending(new) = {} /\ Pending(hand[h]) = {}
                      /\ UNCHANGED <<topic, lost>>
  <2> DEFINE km == [c \in Couriers |-> IF c \in Candidates(couriers, place)
                                         THEN Distance[place[c], target] ELSE Null]
             new == [hand[h] EXCEPT !.at = "counting", !.km = km]
  <2>1. Becomes(h, new) /\ hand[h].at = "listing" /\ UNCHANGED <<topic, lost>>
    BY <1>5 DEF ListCouriers
  <2> HIDE DEF km
  <2>2. new.events = hand[h].events /\ new.at = "counting"
    BY <1>0 DEF Handler
  <2> HIDE DEF new
  <2> QED
    BY <1>4, <2>1, <2>2
<1>6. ASSUME NEW c \in Couriers, CountOrders(h, c)
      PROVE  \E new : Becomes(h, new) /\ Pending(new) = {} /\ Pending(hand[h]) = {}
                      /\ UNCHANGED <<topic, lost>>
  <2>1. PICK n : Becomes(h, [hand[h] EXCEPT !.load[c] = n])
    BY <1>6 DEF CountOrders
  <2> DEFINE new == [hand[h] EXCEPT !.load[c] = n]
  <2>2. hand[h].at = "counting" /\ UNCHANGED <<topic, lost>>
    BY <1>6 DEF CountOrders
  <2>3. new.events = hand[h].events /\ new.at = "counting"
    BY <1>0, <2>2 DEF Handler
  <2>4. Becomes(h, new)
    BY <2>1
  <2> HIDE DEF new
  <2> QED
    BY <1>4, <2>2, <2>3, <2>4
<1>7. ASSUME ReadPart(h)
      PROVE  \E new : Becomes(h, new) /\ Pending(new) = {} /\ Pending(hand[h]) = {}
                      /\ UNCHANGED <<topic, lost>>
  <2> DEFINE new == [hand[h] EXCEPT !.at = "report", !.parts = Append(@, Delivered)]
  <2>1. /\ Becomes(h, new) /\ UNCHANGED <<topic, lost>>
        /\ hand[h] = Idle \/ hand[h].at = "report"
    BY <1>7 DEF ReadPart, Begins
  <2>2. new.events = hand[h].events /\ new.at = "report"
    BY <1>0 DEF Handler
  <2> HIDE DEF new
  <2> QED
    BY <1>4, <2>1, <2>2
<1>8. ASSUME ReadAssigned(h)
      PROVE  \E new : Becomes(h, new) /\ Pending(new) = Pending(hand[h])
                      /\ UNCHANGED <<topic, lost>>
  <2> DEFINE o == hand[h].order
             c == hand[h].courier
             e == CourierAssigned(o, c)
             f == StatusChanged(o, c, "created", "accepted", 0, 1)
  <2>1. AssignmentEvents(o, c) = <<e, f>>
    BY DEF AssignmentEvents
  <2>2. Becomes(h, Publishing(<<e, f>>)) /\ UNCHANGED <<topic, lost>>
    BY <1>8, <2>1 DEF ReadAssigned
  <2>3. Pending(hand[h]) = {e, f}
    <3>1. hand[h].at = "assigned" /\ hand[h].events = <<>>
      BY <1>0, <1>8 DEF ReadAssigned, WellFormed
    <3> HIDE DEF e, f
    <3>2. {<<e, f>>[i] : i \in {1, 2}} = {e, f}
      OBVIOUS
    <3> QED
      BY <2>1, <3>1, <3>2 DEF Pending
  <2> HIDE DEF e, f
  <2> QED
    BY <2>2, <2>3, PendingOf
<1>9. ASSUME Publish(h) \/ PublishFails(h)
      PROVE  \E new : /\ Becomes(h, new)
                      /\ topic' \cup lost' \cup Pending(new)
                           = topic \cup lost \cup Pending(hand[h])
  <2> DEFINE events == hand[h].events
             new == AfterEvent(hand[h])
  <2>1. hand[h].at = "publishing" /\ Becomes(h, new)
        /\ topic' \cup lost' = topic \cup lost \cup {Head(events)}
    BY <1>9 DEF Publish, PublishFails
  <2>2. events \in Seq(Event) /\ events # <<>>
    BY <1>0, <2>1 DEF WellFormed, Handler
  <2>3. Pending(hand[h]) = {Head(events)} \cup Pending(new)
    <3>0. Pending(hand[h]) = {events[i] : i \in 1 .. Len(events)}
      BY <2>1 DEF Pending
    <3>1. CASE Len(events) > 1
      <4>1. /\ Len(Tail(events)) = Len(events) - 1 /\ Len(events) \in Nat
            /\ \A i \in 1 .. Len(Tail(events)) : Tail(events)[i] = events[i + 1]
        BY <2>2, HeadTailProperties
      <4>2. new = [hand[h] EXCEPT !.events = Tail(events)]
        BY <3>1 DEF AfterEvent
      <4>3. new.events = Tail(events) /\ new.at = "publishing"
        BY <1>0, <2>1, <4>2 DEF Handler
      <4>4. Pending(new) = {Tail(events)[i] : i \in 1 .. Len(Tail(events))}
        BY <4>3 DEF Pending
      <4> HIDE DEF events, new
      <4>5. {Tail(events)[i] : i \in 1 .. Len(Tail(events))}
              = {events[i] : i \in 2 .. Len(events)}
        <5>1. ASSUME NEW i \in 1 .. Len(Tail(events))
              PROVE  Tail(events)[i] \in {events[j] : j \in 2 .. Len(events)}
          <6>1. i + 1 \in 2 .. Len(events) /\ Tail(events)[i] = events[i + 1]
            BY <4>1
          <6> QED
            BY <6>1
        <5>2. ASSUME NEW i \in 2 .. Len(events)
              PROVE  events[i] \in {Tail(events)[j] : j \in 1 .. Len(Tail(events))}
          <6>1. i - 1 \in 1 .. Len(Tail(events)) /\ (i - 1) + 1 = i
            BY <4>1
          <6>2. Tail(events)[i - 1] = events[i]
            BY <4>1, <6>1
          <6> QED
            BY <6>1, <6>2
        <5> QED
          BY <5>1, <5>2
      <4>6. {events[i] : i \in 1 .. Len(events)}
              = {events[1]} \cup {events[i] : i \in 2 .. Len(events)}
        BY <3>1, <4>1
      <4>7. Head(events) = events[1]
        BY <2>2
      <4> QED
        BY <3>0, <4>4, <4>5, <4>6, <4>7
    <3>2. CASE Len(events) = 1
      <4>1. {events[i] : i \in 1 .. Len(events)} = {Head(events)}
        BY <2>2, <3>2
      <4>2. new.events = <<>> /\ new.at \in {"asked", "idle"}
        BY <3>2 DEF AfterEvent, Idle
      <4>3. Pending(new) = {}
        BY <4>2, PendingOf
      <4> QED
        BY <3>0, <4>1, <4>3
    <3>3. Len(events) \in Nat /\ Len(events) # 0
      BY <2>2
    <3>4. \A n \in Nat : n # 0 => n > 1 \/ n = 1
      OBVIOUS
    <3> QED
      BY <3>1, <3>2, <3>3, <3>4
  <2> HIDE DEF new
  <2> QED
    BY <2>1, <2>3
<1>10. ASSUME Stop(h)
       PROVE  /\ Becomes(h, Idle) /\ Pending(Idle) = {}
              /\ topic' \cup lost' = topic \cup lost \cup Pending(hand[h])
  BY <1>10, PendingOf DEF Stop, Idle
<1> QED
  BY <1>2, <1>3, <1>5, <1>6, <1>7, <1>8, <1>9, <1>10 DEF Quiet

LEMMA ConcatOfOne ==
  ASSUME NEW e, NEW f
  PROVE  <<e>> \o <<f>> = <<e, f>> /\ <<e>> \o <<>> = <<e>>
<1>1. <<e>> \in Seq({e, f})
  OBVIOUS
<1>2. Append(<<e>>, f) = <<e, f>>
  <2>1. Append(<<e>>, f) \in Seq({e, f}) /\ <<e, f>> \in Seq({e, f})
    BY <1>1
  <2>2. Len(Append(<<e>>, f)) = 2 /\ Len(<<e, f>>) = 2
    BY <1>1
  <2>3. \A i \in 1 .. 2 : Append(<<e>>, f)[i] = <<e, f>>[i]
    BY <1>1
  <2> QED
    BY <2>1, <2>2, <2>3, SeqEqual
<1>3. Append(<<e>>, f) = <<e>> \o <<f>>
  BY <1>1, AppendIsConcat
<1>4. <<e>> \o <<>> = <<e>>
  BY <1>1, ConcatEmptySeq
<1> QED
  BY <1>2, <1>3, <1>4

LEMMA TransactionEvents ==
  ASSUME TypeOK, NEW h \in Handlers
  PROVE  /\ \A o \in Orders, auto \in BOOLEAN : CreateOrder(h, o, auto) =>
              Known' = Known \cup {OrderCreated(o)}
         /\ \A to \in Statuses, courier \in Couriers \cup {Null}, now \in Times :
              UpdateOrderStatus(h, to, courier, now) =>
                Known' = Known \cup {StatusChanged(hand[h].order, courier, hand[h].old, to,
                                       hand[h].seen, Len(history'[hand[h].order]))}
         /\ \A o \in Orders, c \in Couriers : AssignOrderToCourier(h, o, c) =>
              Known' = Known \cup {CourierAssigned(o, c),
                                   StatusChanged(o, c, "created", "accepted", 0, 1)}
         /\ \A c \in Couriers : AssignBest(h, c) =>
              Known' = Known \cup {CourierAssigned(hand[h].order, c),
                         StatusChanged(hand[h].order, c, "created", "accepted", 0, 1)}
         /\ \A status \in CourierStatuses, p \in Places \cup {Null} :
              UpdateCourierStatus(h, status, p) =>
                Known' = Known \cup {CourierStatusChanged(hand[h].courier, hand[h].old, status)}
                               \cup (IF p = Null THEN {}
                                     ELSE {LocationUpdated(hand[h].courier, p)})
<1>0. WellFormed(hand[h]) /\ hand[h] \in Handler
  BY HandlerType
<1>1. ASSUME hand[h] = Idle \/ hand[h].at \in {"updating", "counting", "shifting"}
      PROVE  Pending(hand[h]) = {}
  BY <1>0, <1>1, PendingOf DEF WellFormed, Idle
\* Nothing was pending; then the events `new' are.
<1>2. ASSUME NEW state, NEW new, Becomes(h, state), UNCHANGED <<topic, lost>>,
             Pending(hand[h]) = {}, Pending(state) = new
      PROVE  Known' = Known \cup new
  <2>1. topic' \cup lost' \cup Pending(state) = topic \cup lost \cup Pending(hand[h]) \cup new
    BY <1>2
  <2> QED
    BY <1>2, <2>1, KnownAfter
<1>3. ASSUME NEW o \in Orders, NEW auto \in BOOLEAN, CreateOrder(h, o, auto)
      PROVE  Known' = Known \cup {OrderCreated(o)}
  <2> DEFINE state == [Publishing(<<OrderCreated(o)>>) EXCEPT !.order = o, !.auto = auto]
  <2>1. Becomes(h, state) /\ UNCHANGED <<topic, lost>> /\ Pending(hand[h]) = {}
    BY <1>1, <1>3 DEF CreateOrder, Begins
  <2>2. state.at = "publishing" /\ state.events = <<OrderCreated(o)>>
    BY DEF Publishing, Idle
  <2> HIDE DEF state
  <2>3. Pending(state) = {OrderCreated(o)}
    BY <2>2 DEF Pending
  <2> QED
    BY <1>2, <2>1, <2>3
<1>4. ASSUME NEW to \in Statuses, NEW courier \in Couriers \cup {Null}, NEW now \in Times,
             UpdateOrderStatus(h, to, courier, now)
      PROVE  Known' = Known \cup {StatusChanged(hand[h].order, courier, hand[h].old, to,
                                    hand[h].seen, Len(history'[hand[h].order]))}
  <2> DEFINE e == StatusChanged(hand[h].order, courier, hand[h].old, to,
                                hand[h].seen, Len(history'[hand[h].order]))
  <2>1. /\ Becomes(h, Publishing(<<e>>)) /\ UNCHANGED <<topic, lost>>
        /\ hand[h].at = "updating"
    BY <1>4 DEF UpdateOrderStatus
  <2> HIDE DEF e
  <2>2. Known' = Known \cup {e}
    BY <1>1, <1>2, <2>1, PendingOf
  <2> QED
    BY <2>2 DEF e
<1>5. ASSUME NEW o \in Orders, NEW c \in Couriers, AssignOrderToCourier(h, o, c)
      PROVE  Known' = Known \cup {CourierAssigned(o, c),
                                  StatusChanged(o, c, "created", "accepted", 0, 1)}
  <2> DEFINE e == CourierAssigned(o, c)
             f == StatusChanged(o, c, "created", "accepted", 0, 1)
  <2>1. /\ Becomes(h, Publishing(<<e, f>>)) /\ UNCHANGED <<topic, lost>>
        /\ Pending(hand[h]) = {}
    BY <1>1, <1>5 DEF AssignOrderToCourier, Begins, AssignmentEvents
  <2> HIDE DEF e, f
  <2>2. Known' = Known \cup {e, f}
    BY <1>2, <2>1, PendingOf
  <2> QED
    BY <2>2 DEF e, f
<1>6. ASSUME NEW c \in Couriers, AssignBest(h, c)
      PROVE  Known' = Known \cup {CourierAssigned(hand[h].order, c),
                        StatusChanged(hand[h].order, c, "created", "accepted", 0, 1)}
  <2> DEFINE state == [hand[h] EXCEPT !.at = "assigned", !.courier = c]
             o == hand[h].order
             e == CourierAssigned(o, c)
             f == StatusChanged(o, c, "created", "accepted", 0, 1)
  <2>1. Becomes(h, state) /\ UNCHANGED <<topic, lost>> /\ hand[h].at = "counting"
    BY <1>6 DEF AssignBest
  <2>2. state.at = "assigned" /\ state.order = o /\ state.courier = c /\ state.events = <<>>
    BY <1>0, <2>1 DEF Handler, WellFormed
  <2>3. AssignmentEvents(o, c) = <<e, f>>
    BY DEF AssignmentEvents
  <2> HIDE DEF state, e, f, o
  <2>4. {<<e, f>>[i] : i \in {1, 2}} = {e, f}
    OBVIOUS
  <2>5. Pending(state) = {e, f}
    BY <2>2, <2>3, <2>4 DEF Pending
  <2>6. Known' = Known \cup {e, f}
    BY <1>1, <1>2, <2>1, <2>5
  <2> QED
    BY <2>6 DEF e, f, o
<1>7. ASSUME NEW status \in CourierStatuses, NEW p \in Places \cup {Null},
             UpdateCourierStatus(h, status, p)
      PROVE  Known' = Known \cup {CourierStatusChanged(hand[h].courier, hand[h].old, status)}
                            \cup (IF p = Null THEN {}
                                  ELSE {LocationUpdated(hand[h].courier, p)})
  <2> DEFINE e == CourierStatusChanged(hand[h].courier, hand[h].old, status)
             f == LocationUpdated(hand[h].courier, p)
  <2>1. /\ Becomes(h, Publishing(<<e>> \o LocationEvents(hand[h].courier, p)))
        /\ UNCHANGED <<topic, lost>> /\ Pending(hand[h]) = {}
    BY <1>1, <1>7 DEF UpdateCourierStatus
  <2>2. LocationEvents(hand[h].courier, p) = IF p = Null THEN <<>> ELSE <<f>>
    BY DEF LocationEvents
  <2> HIDE DEF e, f
  <2>3. <<e>> \o <<f>> = <<e, f>> /\ <<e>> \o <<>> = <<e>>
    BY ConcatOfOne
  <2>4. Known' = Known \cup {e} \cup (IF p = Null THEN {} ELSE {f})
    <3>1. CASE p = Null
      BY <1>2, <2>1, <2>2, <2>3, <3>1, PendingOf
    <3>2. CASE p # Null
      <4>1. Known' = Known \cup {e, f}
        BY <1>2, <2>1, <2>2, <2>3, <3>2, PendingOf
      <4> QED
        BY <3>2, <4>1
    <3> QED
      BY <3>1, <3>2
  <2> QED
    BY <2>4 DEF e, f
<1> QED
  BY <1>3, <1>4, <1>5, <1>6, <1>7

------------------------------------------------------------------------------
(* What a handler knows                                                    *)

\* The handler h goes on, but for two steps it may take, without a status or
\* an assignment of its own, and with a report as it was, begun or longer.
Plain(h, state) ==
  /\ state.at \notin {"updating", "assigned"}
  /\ state.parts \in {<<>>, hand[h].parts, Append(hand[h].parts, Delivered)}

LEMMA PlainPublishing == ASSUME NEW h, NEW events  PROVE Plain(h, Publishing(events))
BY DEF Plain, Publishing, Idle

LEMMA HandStep ==
  ASSUME TypeOK, [Next]_vars, NEW h \in Handlers
  PROVE  \/ hand'[h] = hand[h]
         \/ Plain(h, hand'[h])
         \/ \E o \in Orders : ReadOrder(h, o)
         \/ \E c \in Couriers : AssignBest(h, c)
<1>0. hand[h] \in Handler
  BY HandlerType
<1>1. ASSUME NEW g \in Handlers, NEW state, Becomes(g, state), g = h => Plain(h, state)
      PROVE  hand'[h] = hand[h] \/ Plain(h, hand'[h])
  BY <1>1 DEF Becomes, TypeOK
<1>2. ASSUME NEW g \in Handlers, Quiet(g), NEW o \in Orders, ReadOrder(g, o)
      PROVE  hand'[h] = hand[h] \/ ReadOrder(h, o)
  BY <1>2 DEF ReadOrder, Becomes, TypeOK
<1>3. ASSUME NEW g \in Handlers, NEW c \in Couriers, AssignBest(g, c)
      PROVE  hand'[h] = hand[h] \/ AssignBest(h, c)
  BY <1>3 DEF AssignBest, Becomes, TypeOK
<1>4. ASSUME NEW o \in Orders, NEW auto \in BOOLEAN
      PROVE  Plain(h, [Publishing(<<OrderCreated(o)>>) EXCEPT !.order = o, !.auto = auto])
  BY DEF Plain, Publishing, Idle
<1>5. ASSUME NEW o  PROVE Plain(h, [Idle EXCEPT !.at = "listing", !.order = o])
  BY DEF Plain, Idle
<1>6. ASSUME NEW o, NEW status
      PROVE  Plain(h, [Idle EXCEPT !.at = "shifting", !.courier = o, !.old = status])
  BY DEF Plain, Idle
<1>7. ASSUME NEW km  PROVE Plain(h, [hand[h] EXCEPT !.at = "counting", !.km = km])
  BY <1>0 DEF Plain, Handler
<1>8. ASSUME NEW n, NEW c, hand[h].at = "counting"
      PROVE  Plain(h, [hand[h] EXCEPT !.load[c] = n])
  BY <1>0, <1>8 DEF Plain, Handler
<1>9. Plain(h, [hand[h] EXCEPT !.at = "report", !.parts = Append(@, Delivered)])
  BY <1>0 DEF Plain, Handler
<1>10. hand[h].at = "publishing" => Plain(h, AfterEvent(hand[h]))
  BY <1>0 DEF Plain, AfterEvent, Handler, Idle
<1>11. Plain(h, Idle)
  BY DEF Plain, Idle
<1> DEFINE Same == hand'[h] = hand[h] \/ Plain(h, hand'[h])
<1>12. ASSUME NEW g \in Handlers, NEW o \in Orders, NEW auto \in BOOLEAN, CreateOrder(g, o, auto)
       PROVE  Same
  BY <1>12, <1>1, <1>4 DEF CreateOrder
<1>13. ASSUME NEW g \in Handlers, NEW to, NEW courier, NEW now,
              UpdateOrderStatus(g, to, courier, now)
       PROVE  Same
  BY <1>13, <1>1, PlainPublishing DEF UpdateOrderStatus
<1>14. ASSUME NEW g \in Handlers, NEW o, NEW c, AssignOrderToCourier(g, o, c)  PROVE Same
  BY <1>14, <1>1, PlainPublishing DEF AssignOrderToCourier
<1>15. ASSUME NEW g \in Handlers, NEW o, ReadUnassigned(g, o)  PROVE Same
  BY <1>15, <1>1, <1>5 DEF ReadUnassigned
<1>16. ASSUME NEW g \in Handlers, NEW target, ListCouriers(g, target)  PROVE Same
  BY <1>16, <1>1, <1>7 DEF ListCouriers
<1>17. ASSUME NEW g \in Handlers, NEW c, CountOrders(g, c)  PROVE Same
  BY <1>17, <1>1, <1>8 DEF CountOrders
<1>18. ASSUME NEW g \in Handlers, ReadAssigned(g)  PROVE Same
  BY <1>18, <1>1, PlainPublishing DEF ReadAssigned
<1>19. ASSUME NEW g \in Handlers, NEW c, ReadCourier(g, c)  PROVE Same
  BY <1>19, <1>1, <1>6 DEF ReadCourier
<1>20. ASSUME NEW g \in Handlers, NEW status, NEW p, UpdateCourierStatus(g, status, p)
       PROVE  Same
  BY <1>20, <1>1, PlainPublishing DEF UpdateCourierStatus
<1>21. ASSUME NEW g \in Handlers, ReadPart(g)  PROVE Same
  BY <1>21, <1>1, <1>9 DEF ReadPart
<1>22. ASSUME NEW g \in Handlers, Publish(g) \/ PublishFails(g)  PROVE Same
  BY <1>22, <1>1, <1>10 DEF Publish, PublishFails
<1>23. ASSUME NEW g \in Handlers, Stop(g)  PROVE Same
  BY <1>23, <1>1, <1>11 DEF Stop
<1>24. ASSUME NEW g \in Handlers, Quiet(g)
       PROVE  Same \/ \E o \in Orders : ReadOrder(h, o)
  BY <1>24, <1>2, <1>15, <1>16, <1>17, <1>18, <1>19, <1>21, <1>22, <1>23 DEF Quiet
<1>25. ASSUME UNCHANGED vars \/ \E c \in Couriers : CreateCourier(c)  PROVE Same
  BY <1>25 DEF vars, CreateCourier
<1> HIDE DEF Same
<1>26. Same \/ (\E o \in Orders : ReadOrder(h, o)) \/ (\E c \in Couriers : AssignBest(h, c))
  BY <1>3, <1>12, <1>13, <1>14, <1>20, <1>24, <1>25, StepKinds DEF Same
<1> QED
  BY <1>26 DEF Same

------------------------------------------------------------------------------
(* The properties                                                          *)

LEMMA KnownType == ASSUME TypeOK  PROVE Known \subseteq Event
BY PendingType DEF TypeOK, Known

LEMMA EventFields ==
  ASSUME NEW e \in Event
  PROVE  /\ e.type = "order.status_changed" =>
              e.order \in Orders /\ e.seen \in Nat /\ e.at \in Nat
         /\ e.type = "courier.assigned" => e.order \in Orders
BY DEF Event, OrderCreated, CourierAssigned, LocationUpdated

LEMMA EventKinds ==
  /\ \A o : OrderCreated(o).type = "order.created"
  /\ \A o, c : /\ CourierAssigned(o, c).type = "courier.assigned"
               /\ CourierAssigned(o, c).order = o /\ CourierAssigned(o, c).courier = c
  /\ \A c, old, new : CourierStatusChanged(c, old, new).type = "courier.status_changed"
  /\ \A c, p : LocationUpdated(c, p).type = "location.updated"
  /\ \A o, c, old, new, seen, at :
       LET e == StatusChanged(o, c, old, new, seen, at) IN
       /\ e.type = "order.status_changed" /\ e.order = o
       /\ e.old = old /\ e.new = new /\ e.seen = seen /\ e.at = at
BY DEF OrderCreated, CourierAssigned, CourierStatusChanged, LocationUpdated, StatusChanged

\* What UpdateOrderStatus has read was so.
ReadsHold ==
  \A h \in Handlers : hand[h].at = "updating" =>
    /\ hand[h].seen <= Len(history[hand[h].order])
    /\ hand[h].old = StatusAt(history[hand[h].order], hand[h].seen)

LEMMA ReadsStay == Spec => []ReadsHold
<1>1. Init => ReadsHold
  BY DEF Init, ReadsHold, Idle
<1>2. TypeOK /\ TypeOK' /\ TrailEnds /\ ReadsHold /\ [Next]_vars => ReadsHold'
  <2> SUFFICES ASSUME TypeOK, TypeOK', TrailEnds, ReadsHold, [Next]_vars,
                      NEW h \in Handlers, hand'[h].at = "updating"
               PROVE  /\ hand'[h].seen <= Len(history'[hand'[h].order])
                      /\ hand'[h].old = StatusAt(history'[hand'[h].order], hand'[h].seen)
    BY DEF ReadsHold
  <2>1. CASE hand'[h] = hand[h]
    <3> DEFINE o == hand[h].order
               n == hand[h].seen
    <3>1. o \in Orders /\ n \in Nat
      BY <2>1, HandlerType DEF WellFormed, Handler
    <3>2. n <= Len(history[o]) /\ hand[h].old = StatusAt(history[o], n)
      BY <2>1 DEF ReadsHold
    <3>3. Len(history[o]) \in Nat /\ Len(history'[o]) \in Nat
          /\ Len(history[o]) <= Len(history'[o])
          /\ (n \in 0 .. Len(history[o]) => StatusAt(history'[o], n) = StatusAt(history[o], n))
      BY <3>1, HistoryGrows
    <3>4. n <= Len(history'[o]) /\ hand[h].old = StatusAt(history'[o], n)
      BY <3>1, <3>2, <3>3
    <3> QED
      BY <2>1, <3>4
  <2>2. ASSUME NEW o \in Orders, ReadOrder(h, o)
        PROVE  /\ hand'[h].seen <= Len(history'[hand'[h].order])
               /\ hand'[h].old = StatusAt(history'[hand'[h].order], hand'[h].seen)
    <3>1. /\ hand'[h].order = o /\ hand'[h].seen = Len(history[o])
          /\ hand'[h].old = orders[o].status /\ UNCHANGED tables /\ orders[o].status # "absent"
      <4>1. /\ Becomes(h, [Idle EXCEPT !.at = "updating", !.order = o,
                                       !.old = orders[o].status, !.seen = Len(history[o])])
            /\ UNCHANGED tables /\ orders[o].status # "absent"
        BY <2>2 DEF ReadOrder
      <4> QED
        BY <4>1 DEF Becomes, TypeOK, Idle
    <3>2. orders[o].status = StatusAt(history[o], Len(history[o])) /\ Len(history[o]) \in Nat
      BY <3>1, PresentStatus DEF TypeOK
    <3> QED
      BY <3>1, <3>2 DEF tables
  <2>3. ASSUME NEW c \in Couriers, AssignBest(h, c)  PROVE hand'[h].at # "updating"
    BY <2>3, HandlerType DEF AssignBest, Becomes, TypeOK, WellFormed, Handler
  <2> QED
    BY <2>1, <2>2, <2>3, HandStep DEF Plain
<1>3. QED
  BY <1>1, <1>2, TypeCorrect, TrailsEnd, PTL DEF Spec

\* What an event of a change of status says of the histories of the orders.
Says(trails, e) ==
  e.type = "order.status_changed" =>
    /\ e.seen <= e.at
    /\ e.at <= Len(trails[e.order])
    /\ e.old = StatusAt(trails[e.order], e.seen)
    /\ e.new = StatusAt(trails[e.order], e.at)

LEMMA TrueStaysTrue ==
  ASSUME TypeOK, TypeOK', [Next]_vars, NEW e \in Event, Says(history, e)
  PROVE  Says(history', e)
<1> SUFFICES ASSUME e.type = "order.status_changed"  PROVE Says(history', e)
  BY DEF Says
<1> DEFINE o == e.order
<1>1. o \in Orders /\ e.seen \in Nat /\ e.at \in Nat
  BY EventFields
<1>2. /\ e.seen <= e.at /\ e.at <= Len(history[o])
      /\ e.old = StatusAt(history[o], e.seen) /\ e.new = StatusAt(history[o], e.at)
  BY DEF Says
<1>3. /\ Len(history[o]) \in Nat /\ Len(history'[o]) \in Nat
      /\ Len(history[o]) <= Len(history'[o])
      /\ \A n \in 0 .. Len(history[o]) : StatusAt(history'[o], n) = StatusAt(history[o], n)
  BY <1>1, HistoryGrows
<1>4. e.seen \in 0 .. Len(history[o]) /\ e.at \in 0 .. Len(history[o])
      /\ e.at <= Len(history'[o])
  BY <1>1, <1>2, <1>3
<1>5. StatusAt(history'[o], e.seen) = e.old /\ StatusAt(history'[o], e.at) = e.new
  BY <1>2, <1>3, <1>4
<1> QED
  BY <1>2, <1>4, <1>5 DEF Says

\* Every order.status_changed that is published, lost or about to be speaks
\* of two statuses the order really had, the old one first: concurrent
\* updates may come between, but never make an event false.
THEOREM EventsStayTrue == Spec => []EventsAreTrue
<1>1. Init => EventsAreTrue
  BY PendingOf DEF Init, Known, Idle, EventsAreTrue
<1>2. TypeOK /\ TypeOK' /\ TrailEnds /\ TrailEnds' /\ ReadsHold /\ EventsAreTrue /\ [Next]_vars
      => EventsAreTrue'
  <2> SUFFICES ASSUME TypeOK, TypeOK', TrailEnds, TrailEnds', ReadsHold, [Next]_vars,
                      \A e \in Known : Says(history, e)
               PROVE  \A e \in Known' : Says(history', e)
    BY DEF EventsAreTrue, Says
  <2>1. \A e \in Known : Says(history', e)
    BY KnownType, TrueStaysTrue
  <2>2. ASSUME NEW e, e.type # "order.status_changed"  PROVE Says(history', e)
    BY <2>2 DEF Says
  <2>3. ASSUME NEW o \in Orders, NEW c \in Couriers, L!AssignOrderToCourier(o, c)
        PROVE  /\ Says(history', CourierAssigned(o, c))
               /\ Says(history', StatusChanged(o, c, "created", "accepted", 0, 1))
    <3>1. /\ history[o] = <<>>
          /\ history' = [history EXCEPT ![o] = Logged(history[o], "created", "accepted")]
      BY <2>3, Transactions, PresentStatus
    <3>2. Logged(<<>>, "created", "accepted") = << <<"created", "accepted">> >>
      BY DEF Logged
    <3>3. history'[o] = << <<"created", "accepted">> >>
      BY <3>1, <3>2 DEF TypeOK
    <3>4. Len(history'[o]) = 1 /\ history'[o][1][2] = "accepted"
      BY <3>3
    <3> QED
      BY <3>4, EventKinds DEF Says, StatusAt
  <2>4. ASSUME NEW h \in Handlers, NEW to \in Statuses, NEW courier \in Couriers \cup {Null},
               NEW now \in Times, UpdateOrderStatus(h, to, courier, now)
        PROVE  Says(history', StatusChanged(hand[h].order, courier, hand[h].old, to,
                                  hand[h].seen, Len(history'[hand[h].order])))
    <3> DEFINE o == hand[h].order
               n == hand[h].seen
               at == Len(history'[o])
    <3>1. /\ hand[h].at = "updating" /\ o \in Orders /\ n \in Nat
          /\ L!UpdateOrderStatus(o, to, courier, now)
      BY <2>4, HandlerType DEF UpdateOrderStatus, WellFormed, Handler
    <3>2. n <= Len(history[o]) /\ hand[h].old = StatusAt(history[o], n)
      BY <3>1 DEF ReadsHold
    <3>3. /\ Len(history[o]) \in Nat /\ at \in Nat /\ Len(history[o]) <= at
          /\ (n \in 0 .. Len(history[o]) => StatusAt(history'[o], n) = StatusAt(history[o], n))
      BY <3>1, HistoryGrows
    <3>4. n <= at /\ StatusAt(history'[o], n) = hand[h].old
      BY <3>1, <3>2, <3>3
    <3>5. orders'[o].status = to
      <4>1. orders' = [orders EXCEPT ![o] = MovedOrder(orders[o], orders[o], to, courier, now)]
        BY <3>1, Transactions
      <4>2. MovedOrder(orders[o], orders[o], to, courier, now).status = to
        BY <3>1 DEF MovedOrder, TypeOK, OrderRow
      <4> QED
        BY <3>1, <4>1, <4>2 DEF TypeOK
    <3>6. history'[o] \in Seq(Statuses \X Statuses) /\ to # "absent"
      BY <3>1 DEF TypeOK, Statuses
    <3>7. to = IF at = 0 THEN "created" ELSE history'[o][at][2]
      BY <3>1, <3>5, <3>6 DEF TrailEnds
    <3>8. StatusAt(history'[o], at) = to
      BY <3>7 DEF StatusAt
    <3> DEFINE e == StatusChanged(o, courier, hand[h].old, to, n, at)
    <3>9. e.type = "order.status_changed" /\ e.order = o /\ e.old = hand[h].old /\ e.new = to
          /\ e.seen = n /\ e.at = at
      BY EventKinds
    <3> QED
      BY <3>4, <3>8, <3>9 DEF Says
  <2>5. ASSUME NEW h \in Handlers, NEW c \in Couriers, AssignBest(h, c)
        PROVE  hand[h].order \in Orders /\ L!AssignOrderToCourier(hand[h].order, c)
    BY <2>5, HandlerType DEF AssignBest, WellFormed
  <2>6. CASE UNCHANGED vars \/ \E c \in Couriers : CreateCourier(c)
    <3>1. Known' = Known
      BY <2>6 DEF vars, CreateCourier, Known, Pending
    <3> QED
      BY <2>1, <3>1
  <2>7. ASSUME NEW h \in Handlers, Quiet(h)  PROVE Known' = Known
    BY <2>7, QuietKnown
  <2>8. ASSUME NEW h \in Handlers, NEW o \in Orders, NEW auto \in BOOLEAN,
               CreateOrder(h, o, auto)
        PROVE  \A e \in Known' : Says(history', e)
    BY <2>1, <2>2, <2>8, TransactionEvents, EventKinds
  <2>9. ASSUME NEW h \in Handlers, NEW to \in Statuses, NEW courier \in Couriers \cup {Null},
               NEW now \in Times, UpdateOrderStatus(h, to, courier, now)
        PROVE  \A e \in Known' : Says(history', e)
    BY <2>1, <2>4, <2>9, TransactionEvents
  <2>10. ASSUME NEW h \in Handlers, NEW o \in Orders, NEW c \in Couriers,
                AssignOrderToCourier(h, o, c)
         PROVE  \A e \in Known' : Says(history', e)
    <3>1. L!AssignOrderToCourier(o, c)
      BY <2>10 DEF AssignOrderToCourier
    <3> QED
      BY <2>1, <2>3, <2>10, <3>1, TransactionEvents
  <2>11. ASSUME NEW h \in Handlers, NEW c \in Couriers, AssignBest(h, c)
         PROVE  \A e \in Known' : Says(history', e)
    BY <2>1, <2>3, <2>5, <2>11, TransactionEvents
  <2>12. ASSUME NEW h \in Handlers, NEW status \in CourierStatuses,
                NEW p \in Places \cup {Null}, UpdateCourierStatus(h, status, p)
         PROVE  \A e \in Known' : Says(history', e)
    BY <2>1, <2>2, <2>12, TransactionEvents, EventKinds
  <2> QED
    BY <2>1, <2>6, <2>7, <2>8, <2>9, <2>10, <2>11, <2>12, StepKinds
<1>3. QED
  BY <1>1, <1>2, TypeCorrect, TrailsEnd, ReadsStay, PTL DEF Spec

\* A courier is announced for an order that has left "created".
AnnouncedAfter ==
  \A e \in Known : e.type = "courier.assigned" =>
    history[e.order] # <<>> /\ history[e.order][1] = <<"created", "accepted">>

\* However many requests try to assign an order at the same time, by name or
\* automatically, one courier at most is announced for it.
THEOREM OneAnnouncement == Spec => []AnnouncedOnce
<1> DEFINE Inv == AnnouncedOnce /\ AnnouncedAfter
<1>1. Init => Inv
  BY PendingOf DEF Init, Known, Idle, AnnouncedOnce, AnnouncedAfter
<1>2. TypeOK /\ TypeOK' /\ TrailEnds /\ Inv /\ [Next]_vars => Inv'
  <2> SUFFICES ASSUME TypeOK, TypeOK', TrailEnds, AnnouncedOnce, AnnouncedAfter, [Next]_vars
               PROVE  AnnouncedOnce' /\ AnnouncedAfter'
    OBVIOUS
  <2>1. ASSUME NEW e \in Known, e.type = "courier.assigned"
        PROVE  history'[e.order] # <<>> /\ history'[e.order][1] = <<"created", "accepted">>
    <3>1. e.order \in Orders /\ history[e.order] \in Seq(Statuses \X Statuses)
          /\ history'[e.order] \in Seq(Statuses \X Statuses)
      BY <2>1, KnownType, EventFields DEF TypeOK
    <3>2. Len(history[e.order]) # 0 /\ history[e.order][1] = <<"created", "accepted">>
      BY <2>1, <3>1 DEF AnnouncedAfter
    <3>3. /\ Len(history[e.order]) \in Nat /\ Len(history'[e.order]) \in Nat
          /\ Len(history[e.order]) <= Len(history'[e.order])
          /\ \A i \in 1 .. Len(history[e.order]) : history'[e.order][i] = history[e.order][i]
      BY <3>1, HistoryGrows
    <3>4. Len(history'[e.order]) > 0 /\ history'[e.order][1] = history[e.order][1]
      BY <3>2, <3>3
    <3> QED
      BY <3>1, <3>2, <3>4
  \* A step that adds no announcement.
  <2>2. ASSUME \A e \in Known' : e \in Known \/ e.type # "courier.assigned"
        PROVE  AnnouncedOnce' /\ AnnouncedAfter'
    <3>1. ASSUME NEW e \in Known', NEW f \in Known', e.type = "courier.assigned",
                 f.type = "courier.assigned", e.order = f.order
          PROVE  e = f
      BY <2>2, <3>1 DEF AnnouncedOnce
    <3>2. \A e \in Known' : e.type = "courier.assigned" =>
            history'[e.order] # <<>> /\ history'[e.order][1] = <<"created", "accepted">>
      BY <2>1, <2>2
    <3> QED
      BY <3>1, <3>2 DEF AnnouncedOnce, AnnouncedAfter
  \* A step that adds one.
  <2>3. ASSUME NEW o \in Orders, NEW c \in Couriers, L!AssignOrderToCourier(o, c),
               Known' = Known \cup {CourierAssigned(o, c),
                                    StatusChanged(o, c, "created", "accepted", 0, 1)}
        PROVE  AnnouncedOnce' /\ AnnouncedAfter'
    <3>1. /\ history[o] = <<>>
          /\ history' = [history EXCEPT ![o] = Logged(history[o], "created", "accepted")]
      BY <2>3, Transactions, PresentStatus
    <3>2. Logged(<<>>, "created", "accepted") = << <<"created", "accepted">> >>
      BY DEF Logged
    <3>3. history'[o] = << <<"created", "accepted">> >>
      BY <3>1, <3>2 DEF TypeOK
    <3>4. history'[o] # <<>> /\ history'[o][1] = <<"created", "accepted">>
      BY <3>3
    <3>5. \A e \in Known : e.type = "courier.assigned" => e.order # o
      BY <3>1 DEF AnnouncedAfter
    <3>6. \A e \in Known' : \/ e \in Known
                            \/ e = CourierAssigned(o, c)
                            \/ e.type # "courier.assigned"
      BY <2>3, EventKinds
    <3>7. CourierAssigned(o, c).order = o
      BY EventKinds
    <3>8. ASSUME NEW e \in Known', NEW f \in Known', e.type = "courier.assigned",
                 f.type = "courier.assigned", e.order = f.order
          PROVE  e = f
      BY <3>5, <3>6, <3>7, <3>8 DEF AnnouncedOnce
    <3>9. \A e \in Known' : e.type = "courier.assigned" =>
            history'[e.order] # <<>> /\ history'[e.order][1] = <<"created", "accepted">>
      BY <2>1, <3>4, <3>6, <3>7
    <3> QED
      BY <3>8, <3>9 DEF AnnouncedOnce, AnnouncedAfter
  <2>4. ASSUME NEW h \in Handlers, NEW c \in Couriers, AssignBest(h, c)
        PROVE  hand[h].order \in Orders /\ L!AssignOrderToCourier(hand[h].order, c)
    BY <2>4, HandlerType DEF AssignBest, WellFormed
  <2>5. CASE UNCHANGED vars \/ \E c \in Couriers : CreateCourier(c)
    <3>1. Known' = Known
      BY <2>5 DEF vars, CreateCourier, Known, Pending
    <3> QED
      BY <2>2, <3>1
  <2>6. ASSUME NEW h \in Handlers, Quiet(h)  PROVE Known' = Known
    BY <2>6, QuietKnown
  <2>7. ASSUME NEW h \in Handlers, NEW o \in Orders, NEW auto \in BOOLEAN,
               CreateOrder(h, o, auto)
        PROVE  AnnouncedOnce' /\ AnnouncedAfter'
    BY <2>2, <2>7, TransactionEvents, EventKinds
  <2>8. ASSUME NEW h \in Handlers, NEW to \in Statuses, NEW courier \in Couriers \cup {Null},
               NEW now \in Times, UpdateOrderStatus(h, to, courier, now)
        PROVE  AnnouncedOnce' /\ AnnouncedAfter'
    BY <2>2, <2>8, TransactionEvents, EventKinds
  <2>9. ASSUME NEW h \in Handlers, NEW o \in Orders, NEW c \in Couriers,
               AssignOrderToCourier(h, o, c)
        PROVE  AnnouncedOnce' /\ AnnouncedAfter'
    <3>1. L!AssignOrderToCourier(o, c)
      BY <2>9 DEF AssignOrderToCourier
    <3> QED
      BY <2>3, <2>9, <3>1, TransactionEvents
  <2>10. ASSUME NEW h \in Handlers, NEW c \in Couriers, AssignBest(h, c)
         PROVE  AnnouncedOnce' /\ AnnouncedAfter'
    BY <2>3, <2>4, <2>10, TransactionEvents
  <2>11. ASSUME NEW h \in Handlers, NEW status \in CourierStatuses,
                NEW p \in Places \cup {Null}, UpdateCourierStatus(h, status, p)
         PROVE  AnnouncedOnce' /\ AnnouncedAfter'
    BY <2>2, <2>11, TransactionEvents, EventKinds
  <2> QED
    BY <2>2, <2>5, <2>6, <2>7, <2>8, <2>9, <2>10, <2>11, StepKinds
<1> HIDE DEF Inv
<1>3. Inv => AnnouncedOnce
  BY DEF Inv
<1>4. QED
  BY <1>1, <1>2, <1>3, TypeCorrect, TrailsEnd, PTL DEF Spec

\* No order that was created, no change of a status and no position of a
\* courier goes without an event that is published, about to be or lost.
THEOREM ChangesStayTold == Spec => []ChangesAreTold
<1> DEFINE MovesTold(trails, known) ==
             \A o \in Orders : \A i \in 1 .. Len(trails[o]) :
               \E e \in known : e.type = "order.status_changed" /\ e.order = o /\ e.at = i
           OrdersTold(rows, known) ==
             \A o \in Orders : rows[o].status # "absent" => OrderCreated(o) \in known
           PlacesTold(where, known) ==
             \A c \in Couriers : where[c] # Null => LocationUpdated(c, where[c]) \in known
<1>0. ChangesAreTold <=> /\ OrdersTold(orders, Known)
                         /\ MovesTold(history, Known)
                         /\ PlacesTold(place, Known)
  BY DEF ChangesAreTold
<1>00. ChangesAreTold' <=> /\ OrdersTold(orders', Known')
                           /\ MovesTold(history', Known')
                           /\ PlacesTold(place', Known')
  BY DEF ChangesAreTold
<1>1. Init => ChangesAreTold
  <2>1. L!Init => /\ orders = [o \in Orders |-> AbsentOrder]
                  /\ history = [o \in Orders |-> <<>>]
    BY SameRows DEF L!Init
  <2> QED
    BY <2>1 DEF Init, ChangesAreTold, AbsentOrder
<1>2. TypeOK /\ TypeOK' /\ TrailEnds /\ ChangesAreTold /\ [Next]_vars => ChangesAreTold'
  <2> SUFFICES ASSUME TypeOK, TypeOK', TrailEnds, [Next]_vars, OrdersTold(orders, Known),
                      MovesTold(history, Known), PlacesTold(place, Known)
               PROVE  /\ OrdersTold(orders', Known')
                      /\ MovesTold(history', Known')
                      /\ PlacesTold(place', Known')
    BY <1>0, <1>00
  \* What is told of unchanged tables stays told.
  <2>1. ASSUME Known \subseteq Known'
        PROVE  /\ UNCHANGED orders => OrdersTold(orders', Known')
               /\ UNCHANGED history => MovesTold(history', Known')
               /\ UNCHANGED place => PlacesTold(place', Known')
    BY <2>1
  \* An order that is moved has one more event.
  <2>2. ASSUME NEW o \in Orders, Known \subseteq Known', NEW e \in Known',
               e.type = "order.status_changed", e.order = o, e.at = Len(history'[o]),
               \A x \in Orders \ {o} : orders'[x] = orders[x] /\ history'[x] = history[x],
               orders[o].status # "absent"
        PROVE  OrdersTold(orders', Known') /\ MovesTold(history', Known')
    <3>1. Len(history[o]) \in Nat /\ Len(history'[o]) \in Nat
          /\ Len(history'[o]) <= Len(history[o]) + 1
      <4>1. history[o] \in Seq(Statuses \X Statuses)
        BY DEF TypeOK
      <4>2. history'[o] = history[o] \/ \E m : history'[o] = Append(history[o], m)
        BY OrderStep
      <4>3. ASSUME NEW m, history'[o] = Append(history[o], m)
            PROVE  Len(history'[o]) = Len(history[o]) + 1
        BY <4>1, <4>3
      <4> QED
        BY <4>1, <4>2, <4>3
    <3>2. ASSUME NEW i \in 1 .. Len(history'[o])
          PROVE  \E f \in Known' : f.type = "order.status_changed" /\ f.order = o /\ f.at = i
      <4>1. i \in 1 .. Len(history[o]) \/ i = e.at
        BY <2>2, <3>1, <3>2
      <4> QED
        BY <2>2, <4>1
    <3>3. MovesTold(history', Known')
      BY <2>2, <3>2
    <3> QED
      BY <2>2, <3>3
  <2>3. ASSUME NEW o \in Orders, NEW c \in Couriers, L!AssignOrderToCourier(o, c),
               Known' = Known \cup {CourierAssigned(o, c),
                                    StatusChanged(o, c, "created", "accepted", 0, 1)}
        PROVE  OrdersTold(orders', Known') /\ MovesTold(history', Known')
    <3>1. /\ history[o] = <<>> /\ orders[o].status = "created"
          /\ history' = [history EXCEPT ![o] = Logged(history[o], "created", "accepted")]
          /\ orders' = [orders EXCEPT ![o] = AssignedOrder(orders[o], c)]
      BY <2>3, Transactions, PresentStatus
    <3>2. Logged(<<>>, "created", "accepted") = << <<"created", "accepted">> >>
      BY DEF Logged
    <3>3. Len(history'[o]) = 1
      BY <3>1, <3>2 DEF TypeOK
    <3>4. \A x \in Orders \ {o} : orders'[x] = orders[x] /\ history'[x] = history[x]
      BY <3>1 DEF TypeOK
    <3> DEFINE e == StatusChanged(o, c, "created", "accepted", 0, 1)
    <3>5. e \in Known' /\ e.type = "order.status_changed" /\ e.order = o /\ e.at = 1
          /\ Known \subseteq Known'
      BY <2>3, EventKinds
    <3> HIDE DEF e, MovesTold, OrdersTold
    <3> QED
      BY <2>2, <3>1, <3>3, <3>4, <3>5
  <2>4. CASE UNCHANGED vars \/ \E c \in Couriers : CreateCourier(c)
    <3>1. Known' = Known /\ UNCHANGED <<orders, history, place>>
      BY <2>4, Transactions DEF vars, tables, CreateCourier, Known, Pending
    <3> QED
      BY <2>1, <3>1
  <2>5. ASSUME NEW h \in Handlers, Quiet(h)
        PROVE  Known' = Known /\ UNCHANGED <<orders, history, place>>
    BY <2>5, QuietKnown, QuietTables DEF tables
  <2>6. ASSUME NEW h \in Handlers, NEW o \in Orders, NEW auto \in BOOLEAN,
               CreateOrder(h, o, auto)
        PROVE  /\ OrdersTold(orders', Known') /\ MovesTold(history', Known')
               /\ PlacesTold(place', Known')
    <3>1. Known' = Known \cup {OrderCreated(o)} /\ UNCHANGED <<history, place>>
          /\ orders' = [orders EXCEPT ![o] = CreatedOrder]
      BY <2>6, TransactionEvents, Transactions DEF CreateOrder
    <3>2. OrdersTold(orders', Known')
      BY <3>1 DEF TypeOK
    <3> QED
      BY <2>1, <3>1, <3>2
  <2>7. ASSUME NEW h \in Handlers, NEW to \in Statuses, NEW courier \in Couriers \cup {Null},
               NEW now \in Times, UpdateOrderStatus(h, to, courier, now)
        PROVE  /\ OrdersTold(orders', Known') /\ MovesTold(history', Known')
               /\ PlacesTold(place', Known')
    <3> DEFINE o == hand[h].order
               e == StatusChanged(o, courier, hand[h].old, to, hand[h].seen, Len(history'[o]))
    <3>1. Known' = Known \cup {e} /\ UNCHANGED place
      BY <2>7, TransactionEvents DEF UpdateOrderStatus
    <3>2. o \in Orders /\ L!UpdateOrderStatus(o, to, courier, now)
      BY <2>7, HandlerType DEF UpdateOrderStatus, WellFormed
    <3>3. /\ orders[o].status # "absent"
          /\ \A x \in Orders \ {o} : orders'[x] = orders[x] /\ history'[x] = history[x]
      BY <3>2, Transactions DEF TypeOK
    <3>4. e.type = "order.status_changed" /\ e.order = o /\ e.at = Len(history'[o])
      BY EventKinds
    <3> HIDE DEF e, o, MovesTold, OrdersTold, PlacesTold
    <3>5. OrdersTold(orders', Known') /\ MovesTold(history', Known')
      BY <2>2, <3>1, <3>2, <3>3, <3>4
    <3> QED
      BY <2>1, <3>1, <3>5
  <2>8. ASSUME NEW h \in Handlers, NEW o \in Orders, NEW c \in Couriers,
               AssignOrderToCourier(h, o, c)
        PROVE  /\ OrdersTold(orders', Known') /\ MovesTold(history', Known')
               /\ PlacesTold(place', Known')
    <3>1. L!AssignOrderToCourier(o, c) /\ UNCHANGED place
      BY <2>8 DEF AssignOrderToCourier
    <3>2. Known' = Known \cup {CourierAssigned(o, c),
                               StatusChanged(o, c, "created", "accepted", 0, 1)}
      BY <2>8, TransactionEvents
    <3> QED
      BY <2>1, <2>3, <3>1, <3>2
  <2>9. ASSUME NEW h \in Handlers, NEW c \in Couriers, AssignBest(h, c)
        PROVE  /\ OrdersTold(orders', Known') /\ MovesTold(history', Known')
               /\ PlacesTold(place', Known')
    <3>1. /\ hand[h].order \in Orders /\ L!AssignOrderToCourier(hand[h].order, c)
          /\ UNCHANGED place
      BY <2>9, HandlerType DEF AssignBest, WellFormed
    <3>2. Known' = Known \cup {CourierAssigned(hand[h].order, c),
                               StatusChanged(hand[h].order, c, "created", "accepted", 0, 1)}
      BY <2>9, TransactionEvents
    <3> QED
      BY <2>1, <2>3, <3>1, <3>2
  <2>10. ASSUME NEW h \in Handlers, NEW status \in CourierStatuses,
                NEW p \in Places \cup {Null}, UpdateCourierStatus(h, status, p)
         PROVE  /\ OrdersTold(orders', Known') /\ MovesTold(history', Known')
                /\ PlacesTold(place', Known')
    <3> DEFINE c == hand[h].courier
    <3>1. c \in Couriers /\ L!UpdateCourierStatus(c, status) /\ place' = [place EXCEPT ![c] = p]
      BY <2>10, HandlerType DEF UpdateCourierStatus, WellFormed
    <3>2. UNCHANGED <<orders, history>>
      BY <3>1, Transactions
    <3>3. Known \subseteq Known' /\ (p # Null => LocationUpdated(c, p) \in Known')
      BY <2>10, TransactionEvents
    <3>4. PlacesTold(place', Known')
      BY <3>1, <3>3 DEF TypeOK
    <3> QED
      BY <2>1, <3>2, <3>3, <3>4
  <2> HIDE DEF OrdersTold, MovesTold, PlacesTold
  <2> QED
    BY <2>1, <2>4, <2>5, <2>6, <2>7, <2>8, <2>9, <2>10, StepKinds
<1>3. QED
  BY <1>1, <1>2, TypeCorrect, TrailsEnd, PTL DEF Spec

\* A part of a report holds delivered orders only, and more than those before.
PartsGrow ==
  \A h \in Handlers :
    LET parts == hand[h].parts IN
    /\ \A i \in 1 .. Len(parts) : parts[i] \subseteq Delivered
    /\ \A i, j \in 1 .. Len(parts) : i <= j => parts[i] \subseteq parts[j]

\* The parts of a report were read one after the other, while orders were
\* delivered: what an earlier part counts, a later one counts as well.
THEOREM PartsAgree == Spec => []LaterPartsShowMore
<1>1. Init => PartsGrow
  BY DEF Init, PartsGrow, Idle
<1>2. TypeOK /\ PartsGrow /\ [Next]_vars => PartsGrow'
  <2> SUFFICES ASSUME TypeOK, PartsGrow, [Next]_vars, NEW h \in Handlers
               PROVE  LET parts == hand'[h].parts IN
                      /\ \A i \in 1 .. Len(parts) : parts[i] \subseteq Delivered'
                      /\ \A i, j \in 1 .. Len(parts) : i <= j => parts[i] \subseteq parts[j]
    BY DEF PartsGrow
  <2>1. Delivered \subseteq Delivered'
    <3>1. \A o \in Orders : orders[o].status = "delivered" => orders'[o].status = "delivered"
      BY OrderStep DEF Moves
    <3> QED
      BY <3>1 DEF Delivered
  <2> DEFINE old == hand[h].parts
  <2>2. /\ old \in Seq(SUBSET Orders) /\ Len(old) \in Nat
        /\ \A i \in 1 .. Len(old) : old[i] \subseteq Delivered
        /\ \A i, j \in 1 .. Len(old) : i <= j => old[i] \subseteq old[j]
    BY HandlerType DEF Handler, PartsGrow
  <2>3. \/ hand'[h].parts = old
        \/ hand'[h].parts = <<>>
        \/ hand'[h].parts = Append(old, Delivered)
    <3>1. ASSUME NEW o \in Orders, ReadOrder(h, o)  PROVE hand'[h].parts = <<>>
      BY <3>1 DEF ReadOrder, Becomes, TypeOK, Idle
    <3>2. ASSUME NEW c \in Couriers, AssignBest(h, c)  PROVE hand'[h].parts = old
      BY <3>2, HandlerType DEF AssignBest, Becomes, TypeOK, Handler
    <3> QED
      BY <3>1, <3>2, HandStep DEF Plain
  <2> HIDE DEF old
  <2>4. CASE hand'[h].parts = Append(old, Delivered)
    <3> DEFINE new == Append(old, Delivered)
    <3>1. Len(new) = Len(old) + 1 /\ new[Len(old) + 1] = Delivered
          /\ \A i \in 1 .. Len(old) : new[i] = old[i]
      BY <2>2 DEF Delivered
    <3>2. \A i \in 1 .. Len(new) : i \in 1 .. Len(old) \/ i = Len(old) + 1
      BY <2>2, <3>1
    <3> HIDE DEF new
    <3>3. \A i \in 1 .. Len(new) : new[i] \subseteq Delivered
      BY <2>2, <3>1, <3>2
    <3>4. ASSUME NEW i \in 1 .. Len(new), NEW j \in 1 .. Len(new), i <= j
          PROVE  new[i] \subseteq new[j]
      <4>1. CASE j = Len(old) + 1
        BY <3>1, <3>3, <4>1
      <4>2. CASE j \in 1 .. Len(old)
        <5>1. i \in 1 .. Len(old)
          BY <2>2, <3>4, <4>2
        <5> QED
          BY <2>2, <3>1, <3>4, <4>2, <5>1
      <4> QED
        BY <3>2, <4>1, <4>2
    <3> QED
      BY <2>1, <2>4, <3>3, <3>4 DEF new
  <2>5. CASE hand'[h].parts = <<>>
    BY <2>5
  <2>6. CASE hand'[h].parts = old
    BY <2>1, <2>2, <2>6
  <2> QED
    BY <2>3, <2>4, <2>5, <2>6
<1>3. PartsGrow => LaterPartsShowMore
  BY DEF PartsGrow, LaterPartsShowMore
<1>4. QED
  BY <1>1, <1>2, <1>3, TypeCorrect, PTL DEF Spec

\* The courier who was assigned automatically had the best score.
ChosenIsBest ==
  \A h \in Handlers : hand[h].at = "assigned" =>
    /\ Listed(hand[h].load) = Listed(hand[h].km)
    /\ hand[h].courier \in Best(hand[h].km, hand[h].load)

\* Automatic assignment never passes over a courier it knew to be better.
THEOREM BestIsChosen == Spec => []NobodyBetterPassedOver
<1>1. Init => ChosenIsBest
  BY DEF Init, ChosenIsBest, Idle
<1>2. TypeOK /\ ChosenIsBest /\ [Next]_vars => ChosenIsBest'
  <2> SUFFICES ASSUME TypeOK, ChosenIsBest, [Next]_vars, NEW h \in Handlers,
                      hand'[h].at = "assigned"
               PROVE  /\ Listed(hand'[h].load) = Listed(hand'[h].km)
                      /\ hand'[h].courier \in Best(hand'[h].km, hand'[h].load)
    BY DEF ChosenIsBest, Listed, Best
  <2>1. CASE hand'[h] = hand[h]
    BY <2>1 DEF ChosenIsBest
  <2>2. ASSUME NEW o \in Orders, ReadOrder(h, o)  PROVE FALSE
    BY <2>2 DEF ReadOrder, Becomes, TypeOK, Idle
  <2>3. ASSUME NEW c \in Couriers, AssignBest(h, c)
        PROVE  /\ Listed(hand'[h].load) = Listed(hand'[h].km)
               /\ hand'[h].courier \in Best(hand'[h].km, hand'[h].load)
    <3>1. /\ Listed(hand[h].load) = Listed(hand[h].km) /\ c \in Best(hand[h].km, hand[h].load)
          /\ Becomes(h, [hand[h] EXCEPT !.at = "assigned", !.courier = c])
      BY <2>3 DEF AssignBest
    <3>2. hand'[h].km = hand[h].km /\ hand'[h].load = hand[h].load /\ hand'[h].courier = c
      BY <3>1, HandlerType DEF Becomes, TypeOK, Handler
    <3> QED
      BY <3>1, <3>2
  <2> QED
    BY <2>1, <2>2, <2>3, HandStep DEF Plain
<1>3. TypeOK /\ ChosenIsBest => NobodyBetterPassedOver
  <2> SUFFICES ASSUME TypeOK, ChosenIsBest, NEW h \in Handlers, hand[h].at = "assigned",
                      NEW c \in Listed(hand[h].km), Preferable(h, c, hand[h].courier)
               PROVE  FALSE
    BY DEF NobodyBetterPassedOver
  <2> DEFINE d == hand[h].courier
             km == hand[h].km
             load == hand[h].load
  <2>1. /\ km \in List /\ load \in List /\ Listed(load) = Listed(km)
        /\ d \in Listed(km) /\ Score(km[c], Rating[c], load[c]) <= Score(km[d], Rating[d], load[d])
    BY HandlerType DEF Handler, ChosenIsBest, Best
  <2>2. /\ km[c] \in Nat /\ km[d] \in Nat /\ load[c] \in Nat /\ load[d] \in Nat
        /\ Rating[c] \in 0 .. 500 /\ Rating[d] \in 0 .. 500
    <3>1. c \in Listed(load) /\ d \in Listed(load) /\ c \in Couriers /\ d \in Couriers
      BY <2>1 DEF Listed
    <3>2. Rating[c] \in 0 .. 500 /\ Rating[d] \in 0 .. 500
      BY <3>1, ChoiceAssumption
    <3>3. /\ km[c] \in Nat \cup {Null} /\ km[d] \in Nat \cup {Null}
          /\ load[c] \in Nat \cup {Null} /\ load[d] \in Nat \cup {Null}
      BY <2>1, <3>1 DEF List
    <3>4. km[c] # Null /\ km[d] # Null /\ load[c] # Null /\ load[d] # Null
      BY <2>1, <3>1 DEF Listed
    <3> QED
      BY <3>2, <3>3, <3>4
  <2>3. /\ km[c] <= km[d] /\ Rating[c] >= Rating[d] /\ load[c] <= load[d]
        /\ \/ km[c] < km[d] /\ km[c] < 50
           \/ Rating[c] > Rating[d]
           \/ load[c] < load[d] /\ load[c] < 5
    BY DEF Preferable
  <2> HIDE DEF d, km, load
  <2>4. ~(Score(km[c], Rating[c], load[c]) <= Score(km[d], Rating[d], load[d]))
    <3> DEFINE km1 == km[c]
               km2 == km[d]
               n1 == load[c]
               n2 == load[d]
               r1 == Rating[c]
               r2 == Rating[d]
    <3>1. km1 \in Nat /\ km2 \in Nat /\ n1 \in Nat /\ n2 \in Nat /\ r1 \in 0 .. 500
          /\ r2 \in 0 .. 500
      BY <2>2
    <3>2. /\ km1 <= km2 /\ r1 >= r2 /\ n1 <= n2
          /\ (km1 < km2 /\ km1 < 50) \/ r1 > r2 \/ (n1 < n2 /\ n1 < 5)
      BY <2>3
    <3> HIDE DEF km1, km2, n1, n2, r1, r2
    <3>3. ~(Score(km1, r1, n1) <= Score(km2, r2, n2))
      BY <3>1, <3>2, SMTT(60) DEF Score, Remaining
    <3> QED
      BY <3>3 DEF km1, km2, n1, n2, r1, r2
  <2> QED
    BY <2>1, <2>4
<1>4. QED
  BY <1>1, <1>2, <1>3, TypeCorrect, PTL DEF Spec

------------------------------------------------------------------------------
(* What OrderLifecycle promises, the handlers keep                         *)

Promises == INSTANCE OrderLifecycleProofs
  WITH orders <- orders, history <- history, couriers <- couriers, reviews <- <<>>

LEMMA SameStep ==
  /\ L!Init <=> Promises!Init
  /\ L!Next <=> Promises!Next
  /\ L!tables = Promises!tables
BY DEF L!Statuses, Promises!Statuses, L!CourierStatuses, Promises!CourierStatuses,
       L!AbsentOrder, Promises!AbsentOrder, L!CreatedOrder, Promises!CreatedOrder, L!Moves,
       Promises!Moves, L!CanMove, Promises!CanMove, L!DeliveredAt, Promises!DeliveredAt,
       L!MovedOrder, Promises!MovedOrder, L!AssignedOrder, Promises!AssignedOrder,
       L!Reviewable, Promises!Reviewable, L!Logged, Promises!Logged, L!tables,
       Promises!tables, L!Init, Promises!Init, L!CreateOrder, Promises!CreateOrder,
       L!CreateCourier, Promises!CreateCourier, L!UpdateCourierStatus,
       Promises!UpdateCourierStatus, L!AssignOrderToCourier, Promises!AssignOrderToCourier,
       L!UpdateOrderStatus, Promises!UpdateOrderStatus, L!CreateReview,
       Promises!CreateReview, L!Next, Promises!Next

LEMMA PromisesSpec == Spec => Promises!Spec
<1>1. L!Init => Promises!Init
  BY SameStep
<1>2. [L!Next]_(L!tables) => [Promises!Next]_(Promises!tables)
  BY SameStep DEF L!tables, Promises!tables
<1> QED
  BY <1>1, <1>2, RequestsUseTransactions, PTL DEF L!Spec, Promises!Spec

\* However handlers interleave, and wherever they end, the audit trail of an
\* order is a path of allowed changes to its status, and the order comes back
\* to no status it has left: a handler acts on what it has read before, but
\* the transaction reads the order again.
THEOREM HistoryStaysLegal ==
  Spec => [](L!HistoryIsLegal /\ \A o \in Orders : Promises!NeverComesBack(history[o]))
<1>1. Promises!HistoryIsLegal => L!HistoryIsLegal
  BY DEF L!HistoryIsLegal, Promises!HistoryIsLegal, L!LegalTrail, Promises!LegalTrail,
         L!Moves, Promises!Moves
<1>2. Promises!Spec => []Promises!HistoryIsLegal
  BY RowsAssumption, Promises!HistoryStaysLegal, PTL DEF Promises!RowsAssumption
<1>3. Promises!Spec => []\A o \in Orders : Promises!NeverComesBack(history[o])
  BY RowsAssumption, Promises!OrdersNeverComeBack, PTL DEF Promises!RowsAssumption
<1> QED
  BY <1>1, <1>2, <1>3, PromisesSpec, PTL

\* No handler moves the time of a delivery, although UpdateOrderStatus may be
\* asked to deliver an order again by a client that has seen it undelivered.
THEOREM DeliveryIsFinal == Spec => L!DeliveredAtIsFinal
<1>1. Promises!Spec => Promises!DeliveredAtIsFinal
  BY RowsAssumption, Promises!DeliveryIsFinal DEF Promises!RowsAssumption
<1>2. Promises!DeliveredAtIsFinal => L!DeliveredAtIsFinal
  BY SameStep, PTL DEF L!DeliveredAtIsFinal, Promises!DeliveredAtIsFinal, L!tables, Promises!tables
<1> QED
  BY <1>1, <1>2, PromisesSpec

\* No handler takes the courier from an order that has one.
THEOREM CourierStays == Spec => L!CourierIsNeverErased
<1>1. Promises!Spec => Promises!CourierIsNeverErased
  BY RowsAssumption, Promises!CourierStays DEF Promises!RowsAssumption
<1>2. Promises!CourierIsNeverErased => L!CourierIsNeverErased
  BY PTL DEF L!CourierIsNeverErased, Promises!CourierIsNeverErased, L!tables, Promises!tables
<1> QED
  BY <1>1, <1>2, PromisesSpec
==============================================================================
