------------------------------ MODULE MCRequests ------------------------------
(***************************************************************************)
(* A finite instance of Requests.                                          *)
(***************************************************************************)
EXTENDS Requests, TLC

CONSTANTS o1, c1, near, far

MCDistance == [pq \in Places \X Places |-> IF pq[1] = pq[2] THEN 0 ELSE 60]

\* The courier who is listed second is rated higher.
MCRating == [c \in Couriers |-> IF c = c1 THEN 400 ELSE 500]

Symmetry == Permutations(Handlers)

\* The way of an order, and what was announced of it after n changes.
Journey == << <<"created", "accepted">>, <<"accepted", "preparing">>,
              <<"preparing", "ready">>, <<"ready", "in_delivery">> >>

Announcements(o, c, n) ==
  {OrderCreated(o)}
  \cup (IF n > 0 THEN {CourierAssigned(o, c)} ELSE {})
  \cup {StatusChanged(o, IF i = 1 THEN c ELSE Null, Journey[i][1], Journey[i][2], i - 1, i) :
          i \in 1 .. n}

\* o1 waits for a courier, or is on its way with one who takes orders again;
\* the other orders do not exist yet, and the other courier is free.
Underway(n) ==
  /\ orders = [o \in Orders |->
       IF o # o1 THEN AbsentOrder
       ELSE IF n = 0 THEN CreatedOrder
       ELSE [AbsentOrder EXCEPT !.status = Journey[n][2], !.courier = c1]]
  /\ history = [o \in Orders |-> IF o = o1 THEN SubSeq(Journey, 1, n) ELSE <<>>]
  /\ couriers = [c \in Couriers |-> [status |-> "available", total |-> 0]]
  /\ place = [c \in Couriers |-> IF c = c1 THEN near ELSE far]
  /\ hand = [h \in Handlers |-> Idle]
  /\ topic = Announcements(o1, c1, n)
               \cup {LocationUpdated(c, IF c = c1 THEN near ELSE far) : c \in Couriers}
  /\ lost = {}
  /\ begun = 0

MCSpec == (Init \/ \E n \in 0 .. Len(Journey) : Underway(n)) /\ [][Next]_vars
==============================================================================
