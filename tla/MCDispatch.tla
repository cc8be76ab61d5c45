------------------------------ MODULE MCDispatch ------------------------------
(***************************************************************************)
(* Finite instances of Dispatch.                                           *)
(***************************************************************************)
EXTENDS Dispatch, TLC

Symmetry == Permutations(Orders) \cup Permutations(Couriers)
            \cup Permutations(Sessions) \cup Permutations(Times)

Delivery == << <<"created", "accepted">>, <<"accepted", "preparing">>,
               <<"preparing", "ready">>, <<"ready", "in_delivery">>,
               <<"in_delivery", "delivered">> >>

Delivered(c, now) ==
  [status |-> "delivered", courier |-> c, deliveredAt |-> now, rating |-> Null]

\* Two orders were delivered by a courier who is available again, and are
\* not reviewed yet, so that their reviews can meet.
TwoDelivered ==
  \E c \in Couriers, now \in Times :
    /\ orders = [o \in Orders |-> Delivered(c, now)]
    /\ history = [o \in Orders |-> Delivery]
    /\ couriers = [d \in Couriers |-> [status |-> "available", total |-> 0]]
    /\ reviews = <<>>

\* One order was delivered and reviewed, the others have just been created.
OneReviewed ==
  \E c \in Couriers, now \in Times, o \in Orders, rating \in Ratings :
    /\ orders = [p \in Orders |-> IF p = o THEN [Delivered(c, now) EXCEPT !.rating = rating]
                                  ELSE CreatedOrder]
    /\ history = [p \in Orders |-> IF p = o THEN Delivery ELSE <<>>]
    /\ couriers = [d \in Couriers |-> [status |-> "available", total |-> IF d = c THEN 1 ELSE 0]]
    /\ reviews = << [order |-> o, courier |-> c, rating |-> rating] >>

\* FairSpec from such states.
UnderwayFairSpec ==
  /\ TwoDelivered \/ OneReviewed
  /\ tx = [s \in Sessions |-> Idle]
  /\ booked = [c \in Couriers |-> {}]
  /\ [][Next]_vars
  /\ Fairness
==============================================================================
