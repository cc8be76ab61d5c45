----------------------------- MODULE CourierChoice -----------------------------
(***************************************************************************)
(* How CourierAssignmentService rates the couriers it may give an order    *)
(* to.  The three scores lie between 0 and 1 and weigh 0.40, 0.30 and      *)
(* 0.30; multiplied by 5000 their sum is a whole number of the distance in *)
(* km, the rating in hundredths and the number of active orders.           *)
(***************************************************************************)
EXTENDS OrderRows, Integers

CONSTANTS Places,    \* where couriers are and orders go
          Distance,  \* km between two places
          Rating     \* couriers.rating of a courier, in hundredths

ASSUME ChoiceAssumption ==
  /\ IsFiniteSet(Orders)
  /\ Null \notin Places
  /\ Distance \in [Places \X Places -> Nat]
  /\ Rating \in [Couriers -> 0 .. 500]

\* What is left of `most' after x, for both scores that fall down to zero.
Remaining(most, x) == IF x >= most THEN 0 ELSE most - x

\* Mutant of Score: a busier courier scores higher.
ScoreOfBusy(km, rating, load) == 40 * Remaining(50, km) + 3 * rating + 300 * load

Score(km, rating, load) ==
  40 * Remaining(50, km) + 3 * rating + 300 * Remaining(5, load)

\* The orders that count as the workload of a courier.
ActiveOrders(orders, c) ==
  {o \in Orders : /\ orders[o].courier = c
                  /\ orders[o].status \in {"accepted", "preparing", "ready", "in_delivery"}}

\* GetAvailableCouriers, less those whose coordinates are not known.
Candidates(couriers, place) ==
  {c \in Couriers : couriers[c].status = "available" /\ place[c] # Null}

\* Couriers with a value in a list that was made of some of them.
Listed(list) == {c \in Couriers : list[c] # Null}

\* The candidates of the highest score, given the distance and the workload
\* of each.  Of several the code takes the one registered last; any may be.
Best(km, load) ==
  LET ScoreOf(c) == Score(km[c], Rating[c], load[c])
  IN {c \in Listed(km) : \A d \in Listed(km) : ScoreOf(d) <= ScoreOf(c)}
================================================================================
