------------------------------- MODULE Requests -------------------------------
(***************************************************************************)
(* The HTTP handlers that change orders and couriers, from the request to  *)
(* the last event they publish, and the handler of the KPI report.         *)
(* Between two steps of a handler other handlers take theirs.  A           *)
(* transaction is one step of OrderLifecycle, which Dispatch implements.   *)
(* What a request asks for is chosen where the handler first uses it.      *)
(*                                                                         *)
(* A topic of the broker is the set of the events that were published: the *)
(* key of a message is a random identifier, so partitions order nothing.   *)
(* Reviews change no status and publish nothing; the caches are those of   *)
(* RowCache.                                                               *)
(***************************************************************************)
EXTENDS CourierChoice

CONSTANTS Handlers,   \* requests in flight
          MaxRequests \* bound: as many requests begin

ASSUME RequestsAssumption == MaxRequests \in Nat

VARIABLES orders, history, couriers,  \* the tables
          place,    \* couriers.current_lat and current_lon
          hand,     \* the state of each handler
          topic,    \* the events that were published
          lost,     \* history variable: the events nobody may learn of
          begun     \* the number of requests that have begun

tables == <<orders, history, couriers>>
vars == <<orders, history, couriers, place, hand, topic, lost, begun>>

L == INSTANCE OrderLifecycle
  WITH orders <- orders, history <- history, couriers <- couriers, reviews <- <<>>

------------------------------------------------------------------------------
(* Events                                                                  *)

OrderCreated(o) == [type |-> "order.created", order |-> o]

\* seen and at are not sent: how many rows the history of the order had when
\* the handler learnt the old status, and after the update.
StatusChanged(o, c, old, new, seen, at) ==
  [type |-> "order.status_changed", order |-> o, courier |-> c,
   old |-> old, new |-> new, seen |-> seen, at |-> at]

CourierAssigned(o, c) == [type |-> "courier.assigned", order |-> o, courier |-> c]

CourierStatusChanged(c, old, new) ==
  [type |-> "courier.status_changed", courier |-> c, old |-> old, new |-> new]

LocationUpdated(c, p) == [type |-> "location.updated", courier |-> c, place |-> p]

Event ==
  {OrderCreated(o) : o \in Orders}
  \cup {CourierAssigned(o, c) : o \in Orders, c \in Couriers}
  \cup {LocationUpdated(c, p) : c \in Couriers, p \in Places}
  \cup [type : {"order.status_changed"}, order : Orders, courier : Couriers \cup {Null},
        old : Statuses, new : Statuses, seen : Nat, at : Nat]
  \cup [type : {"courier.status_changed"}, courier : Couriers,
        old : CourierStatuses, new : CourierStatuses]

\* Mutant of AssignmentEvents: the change of status is not published.
CourierEventOnly(o, c) == <<CourierAssigned(o, c)>>

\* After an assignment the old status is not read but written in the code.
AssignmentEvents(o, c) ==
  <<CourierAssigned(o, c), StatusChanged(o, c, "created", "accepted", 0, 1)>>

------------------------------------------------------------------------------
(* Handlers                                                                *)

\* updating:   UpdateOrderStatus has read the order
\* asked:      CreateOrder goes on to assign a courier
\* listing:    AutoAssignCourier has read the order
\* counting:   ... has listed the couriers and counts their orders
\* assigned:   ... has assigned the order, next GetCourier
\* shifting:   UpdateCourierStatus has read the courier
\* publishing: the request is done, but for its events
\* report:     GetKPIs has read some of its parts
Steps == {"idle", "updating", "asked", "listing", "counting", "assigned",
          "shifting", "publishing", "report"}

\* One number for each of some couriers, Null for the others.
List == [Couriers -> Nat \cup {Null}]

EmptyList == [c \in Couriers |-> Null]

\* old, seen: what was read; km, load: the candidates' distances and numbers
\* of orders; events: still to publish; auto: a courier is to be assigned
\* then; parts: for each query of a report, the orders it counted.
Handler == [at : Steps, order : Orders \cup {Null}, courier : Couriers \cup {Null},
            old : Statuses \cup CourierStatuses \cup {Null}, seen : Nat,
            km : List, load : List,
            events : Seq(Event), auto : BOOLEAN, parts : Seq(SUBSET Orders)]

Idle == [at |-> "idle", order |-> Null, courier |-> Null, old |-> Null, seen |-> 0,
         km |-> EmptyList, load |-> EmptyList, events |-> <<>>, auto |-> FALSE, parts |-> <<>>]

Init ==
  /\ L!Init
  /\ place = [c \in Couriers |-> Null]
  /\ hand = [h \in Handlers |-> Idle]
  /\ topic = {}
  /\ lost = {}
  /\ begun = 0

Begins(h) == hand[h] = Idle /\ begun < MaxRequests /\ begun' = begun + 1

\* The handler goes on as the record `state'.
Becomes(h, state) == hand' = [hand EXCEPT ![h] = state]

Publishing(events) == [Idle EXCEPT !.at = "publishing", !.events = events]

------------------------------------------------------------------------------
(* Orders                                                                  *)

CreateOrder(h, o, auto) ==
  /\ Begins(h)
  /\ L!CreateOrder(o)
  /\ Becomes(h, [Publishing(<<OrderCreated(o)>>) EXCEPT !.order = o, !.auto = auto])
  /\ UNCHANGED <<place, topic, lost>>

\* GetOrder, for the old status.
ReadOrder(h, o) ==
  /\ Begins(h)
  /\ orders[o].status # "absent"
  /\ Becomes(h, [Idle EXCEPT !.at = "updating", !.order = o,
                             !.old = orders[o].status, !.seen = Len(history[o])])
  /\ UNCHANGED <<tables, place, topic, lost>>

\* Mutant of UpdateOrderStatus: the answer of the service is not looked at.
UpdateOrderStatusAnyway(h, to, courier, now) ==
  LET o == hand[h].order IN
  /\ hand[h].at = "updating"
  /\ L!UpdateOrderStatus(o, to, courier, now) \/ UNCHANGED tables
  /\ Becomes(h, Publishing(<<StatusChanged(o, courier, hand[h].old, to,
                                           hand[h].seen, Len(history'[o]))>>))
  /\ UNCHANGED <<place, topic, lost, begun>>

UpdateOrderStatus(h, to, courier, now) ==
  LET o == hand[h].order IN
  /\ hand[h].at = "updating"
  /\ L!UpdateOrderStatus(o, to, courier, now)
  /\ Becomes(h, Publishing(<<StatusChanged(o, courier, hand[h].old, to,
                                           hand[h].seen, Len(history'[o]))>>))
  /\ UNCHANGED <<place, topic, lost, begun>>

\* The courier is named by the client.
AssignOrderToCourier(h, o, c) ==
  /\ Begins(h)
  /\ L!AssignOrderToCourier(o, c)
  /\ Becomes(h, Publishing(AssignmentEvents(o, c)))
  /\ UNCHANGED <<place, topic, lost>>

------------------------------------------------------------------------------
(* AutoAssignCourier: asked for by a request of its own or by CreateOrder  *)

ReadUnassigned(h, o) ==
  /\ Begins(h) \/ (hand[h].at = "asked" /\ hand[h].order = o /\ UNCHANGED begun)
  /\ orders[o].status = "created"
  /\ orders[o].courier = Null
  /\ Becomes(h, [Idle EXCEPT !.at = "listing", !.order = o])
  /\ UNCHANGED <<tables, place, topic, lost>>

ListCouriers(h, target) ==
  LET list == Candidates(couriers, place) IN
  /\ hand[h].at = "listing"
  /\ list # {}
  /\ Becomes(h, [hand[h] EXCEPT !.at = "counting",
                                !.km = [c \in Couriers |-> IF c \in list
                                          THEN Distance[place[c], target] ELSE Null]])
  /\ UNCHANGED <<tables, place, topic, lost, begun>>

\* One query per candidate; a query that fails counts as no orders.
CountOrders(h, c) ==
  /\ hand[h].at = "counting"
  /\ c \in Listed(hand[h].km) \ Listed(hand[h].load)
  /\ \E n \in {0, Cardinality(ActiveOrders(orders, c))} :
       Becomes(h, [hand[h] EXCEPT !.load[c] = n])
  /\ UNCHANGED <<tables, place, topic, lost, begun>>

\* Mutant of AssignBest: a refused assignment counts as done.
AssignBestOrNot(h, c) ==
  /\ hand[h].at = "counting"
  /\ Listed(hand[h].load) = Listed(hand[h].km)
  /\ c \in Best(hand[h].km, hand[h].load)
  /\ L!AssignOrderToCourier(hand[h].order, c) \/ UNCHANGED tables
  /\ Becomes(h, [hand[h] EXCEPT !.at = "assigned", !.courier = c])
  /\ UNCHANGED <<place, topic, lost, begun>>

\* The courier is assigned as any other; nothing else is tried.
AssignBest(h, c) ==
  /\ hand[h].at = "counting"
  /\ Listed(hand[h].load) = Listed(hand[h].km)
  /\ c \in Best(hand[h].km, hand[h].load)
  /\ L!AssignOrderToCourier(hand[h].order, c)
  /\ Becomes(h, [hand[h] EXCEPT !.at = "assigned", !.courier = c])
  /\ UNCHANGED <<place, topic, lost, begun>>

\* GetCourier of the courier who was assigned.
ReadAssigned(h) ==
  /\ hand[h].at = "assigned"
  /\ Becomes(h, Publishing(AssignmentEvents(hand[h].order, hand[h].courier)))
  /\ UNCHANGED <<tables, place, topic, lost, begun>>

------------------------------------------------------------------------------
(* Couriers                                                                *)

CreateCourier(c) ==
  /\ L!CreateCourier(c)
  /\ UNCHANGED <<place, hand, topic, lost, begun>>

\* GetCourier, for the old status.
ReadCourier(h, c) ==
  /\ Begins(h)
  /\ couriers[c].status # "absent"
  /\ Becomes(h, [Idle EXCEPT !.at = "shifting", !.courier = c, !.old = couriers[c].status])
  /\ UNCHANGED <<tables, place, topic, lost>>

\* Mutant of LocationEvents: the location is not published.
NoLocationEvents(c, p) == <<>>

LocationEvents(c, p) == IF p = Null THEN <<>> ELSE <<LocationUpdated(c, p)>>

\* p = Null is a request without coordinates: it erases the known ones.
UpdateCourierStatus(h, status, p) ==
  LET c == hand[h].courier IN
  /\ hand[h].at = "shifting"
  /\ L!UpdateCourierStatus(c, status)
  /\ place' = [place EXCEPT ![c] = p]
  /\ Becomes(h, Publishing(<<CourierStatusChanged(c, hand[h].old, status)>>
                             \o LocationEvents(c, p)))
  /\ UNCHANGED <<topic, lost, begun>>

------------------------------------------------------------------------------
(* GetKPIs: summary, periods and top items, a query each                   *)

\* Mutant of Delivered: the orders on their way are counted, too.
OnTheirWay == {o \in Orders : orders[o].status \in {"in_delivery", "delivered"}}

Delivered == {o \in Orders : orders[o].status = "delivered"}

ReadPart(h) ==
  /\ Begins(h) \/ (hand[h].at = "report" /\ UNCHANGED begun)
  /\ Len(hand[h].parts) < 3
  /\ Becomes(h, [hand[h] EXCEPT !.at = "report", !.parts = Append(@, Delivered)])
  /\ UNCHANGED <<tables, place, topic, lost>>

------------------------------------------------------------------------------
(* Publication and failure                                                 *)

\* Mutant of AfterEvent: the assignment is not told which order was created.
AfterEventForgetful(state) ==
  IF Len(state.events) > 1 THEN [state EXCEPT !.events = Tail(@)]
  ELSE IF state.auto THEN [Idle EXCEPT !.at = "asked"]
  ELSE Idle

\* The state of a handler after its first event, published or not.
AfterEvent(state) ==
  IF Len(state.events) > 1 THEN [state EXCEPT !.events = Tail(@)]
  ELSE IF state.auto THEN [Idle EXCEPT !.at = "asked", !.order = state.order]
  ELSE Idle

Publish(h) ==
  /\ hand[h].at = "publishing"
  /\ topic' = topic \cup {Head(hand[h].events)}
  /\ Becomes(h, AfterEvent(hand[h]))
  /\ UNCHANGED <<tables, place, lost, begun>>

\* SendMessage returns an error, which is logged, and the broker has not
\* stored the message.  (If it has, the step is Publish.)
PublishFails(h) ==
  /\ hand[h].at = "publishing"
  /\ lost' = lost \cup {Head(hand[h].events)}
  /\ Becomes(h, AfterEvent(hand[h]))
  /\ UNCHANGED <<tables, place, topic, begun>>

\* The events a handler in this state has still to publish.
Pending(state) ==
  {state.events[i] : i \in 1 .. Len(state.events)}
  \cup (IF state.at = "assigned"
        THEN {AssignmentEvents(state.order, state.courier)[i] : i \in {1, 2}} ELSE {})

\* The request ends here: it is answered, the service refuses it, a statement
\* fails (that of the GetCourier after an assignment included), the answer to
\* COMMIT is lost, or the server dies.  Nobody publishes what was not.
Stop(h) ==
  /\ hand[h] # Idle
  /\ lost' = lost \cup Pending(hand[h])
  /\ Becomes(h, Idle)
  /\ UNCHANGED <<tables, place, topic, begun>>

Step(h) ==
  \/ \E o \in Orders, auto \in BOOLEAN : CreateOrder(h, o, auto)
  \/ \E o \in Orders : ReadOrder(h, o)
  \/ \E to \in Statuses, courier \in Couriers \cup {Null}, now \in Times :
       UpdateOrderStatus(h, to, courier, now)
  \/ \E o \in Orders, c \in Couriers : AssignOrderToCourier(h, o, c)
  \/ \E o \in Orders : ReadUnassigned(h, o)
  \/ \E target \in Places : ListCouriers(h, target)
  \/ \E c \in Couriers : CountOrders(h, c)
  \/ \E c \in Couriers : AssignBest(h, c)
  \/ ReadAssigned(h)
  \/ \E c \in Couriers : ReadCourier(h, c)
  \/ \E status \in CourierStatuses, p \in Places \cup {Null} : UpdateCourierStatus(h, status, p)
  \/ ReadPart(h)
  \/ Publish(h)
  \/ PublishFails(h)
  \/ Stop(h)

Next == (\E h \in Handlers : Step(h)) \/ \E c \in Couriers : CreateCourier(c)

Spec == Init /\ [][Next]_vars

------------------------------------------------------------------------------
(* Properties                                                              *)

\* Every event there is or was to be.
Known == topic \cup lost \cup UNION {Pending(hand[h]) : h \in Handlers}

\* A handler that waits for the database knows its order or courier; only one
\* whose request is done has events to publish.
WellFormed(state) ==
  /\ state \in Handler
  /\ state.events = <<>> <=> state.at # "publishing"
  /\ state.auto => state.at = "publishing" /\ state.order \in Orders
  /\ state.at \in {"updating", "asked", "listing", "counting", "assigned"}
       => state.order \in Orders
  /\ state.at = "updating" => state.old \in Statuses
  /\ state.at \in {"assigned", "shifting"} => state.courier \in Couriers
  /\ state.at = "shifting" => state.old \in CourierStatuses

\* The tables, the handlers and the events have their types.
TypeOK ==
  /\ orders \in [Orders -> OrderRow]
  /\ history \in [Orders -> Seq(Statuses \X Statuses)]
  /\ couriers \in [Couriers -> CourierRow]
  /\ place \in [Couriers -> Places \cup {Null}]
  /\ DOMAIN hand = Handlers
  /\ \A h \in Handlers : WellFormed(hand[h])
  /\ topic \subseteq Event
  /\ lost \subseteq Event
  /\ begun \in 0 .. MaxRequests

\* The status of an order after the first n changes of its history.
StatusAt(log, n) == IF n = 0 THEN "created" ELSE log[n][2]

\* What order.status_changed says is true: the order had the new status after
\* the update, and the old one at that time or before.  The handlers read the
\* old status outside the transaction, or take it to be "created", and
\* publish after COMMIT, so others may move the order before and after.
EventsAreTrue ==
  \A e \in Known : e.type = "order.status_changed" =>
    /\ e.seen <= e.at
    /\ e.at <= Len(history[e.order])
    /\ e.old = StatusAt(history[e.order], e.seen)
    /\ e.new = StatusAt(history[e.order], e.at)

\* No committed change goes unmentioned unless a publication failed or the
\* handler ended early: every order that was created, every change of its
\* status and the present coordinates of every courier is published, about
\* to be, or lost, whichever handler made the change.
ChangesAreTold ==
  /\ \A o \in Orders : orders[o].status # "absent" => OrderCreated(o) \in Known
  /\ \A o \in Orders : \A i \in 1 .. Len(history[o]) :
       \E e \in Known : e.type = "order.status_changed" /\ e.order = o /\ e.at = i
  /\ \A c \in Couriers : place[c] # Null => LocationUpdated(c, place[c]) \in Known

\* However many requests try to assign an order, by name or automatically and
\* at the same time, at most one courier is ever announced for it, and only
\* when the order has left "created" for "accepted".
AnnouncedOnce ==
  \A e, f \in Known :
    e.type = "courier.assigned" /\ f.type = "courier.assigned" /\ e.order = f.order
      => /\ e = f
         /\ history[e.order] # <<>>
         /\ history[e.order][1] = <<"created", "accepted">>

\* c could have been given the order rather than d, who is no better in
\* anything the handler h has found out, and worse in something that counts.
Preferable(h, c, d) ==
  LET km == hand[h].km
      load == hand[h].load
  IN /\ km[c] <= km[d]
     /\ Rating[c] >= Rating[d]
     /\ load[c] <= load[d]
     /\ \/ km[c] < km[d] /\ km[c] < 50
        \/ Rating[c] > Rating[d]
        \/ load[c] < load[d] /\ load[c] < 5

\* AutoAssignCourier never passes over a courier it knew to be preferable.
NobodyBetterPassedOver ==
  \A h \in Handlers : hand[h].at = "assigned" =>
    \A c \in Listed(hand[h].km) : ~Preferable(h, c, hand[h].courier)

\* The parts of a KPI report are of different moments, but none contradicts
\* an earlier one: an order that was counted in the summary is counted in
\* the periods and in the top items, because a delivery is final.
LaterPartsShowMore ==
  \A h \in Handlers :
    LET parts == hand[h].parts IN
    \A i, j \in 1 .. Len(parts) : i <= j => parts[i] \subseteq parts[j]
==============================================================================
