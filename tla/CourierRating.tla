---------------------------- MODULE CourierRating ----------------------------
(***************************************************************************)
(* How the trigger on the table reviews recalculates the rating of one     *)
(* courier.  couriers.rating is DECIMAL(3,2), so the trigger computes the  *)
(* next mean from a mean that was rounded.  Ratings of couriers are in     *)
(* hundredths here: 450 is 4.50.  Module Dispatch shows that the reviews   *)
(* of a courier are applied one after the other, so one step is one review.*)
(***************************************************************************)
EXTENDS Integers, Rounding

CONSTANTS Ratings,     \* ratings the clients give
          MaxReviews   \* bound: reviews a courier gets

ASSUME RatingAssumption == Ratings \subseteq 1 .. 5 /\ MaxReviews \in Nat

VARIABLES rating,   \* couriers.rating, in hundredths
          total,    \* couriers.total_reviews
          sum       \* history variable: the sum of the ratings given

vars == <<rating, total, sum>>

Init == rating = 0 /\ total = 0 /\ sum = 0

\* (rating * total_reviews) + NEW.rating, the sum of which the mean is taken.
Weighted(r) == rating * total + 100 * r

\* The cast of that sum to DECIMAL(5,2) does not overflow.
Fits(r) == Weighted(r) < 100000

\* Mutant of Mean: the review is divided by the number of earlier ones.
MeanOfEarlier(r) == Rounded(Weighted(r), IF total = 0 THEN 1 ELSE total)

\* Mutant of Mean: every review weighs as much as all earlier ones.
MeanOfTwo(r) == IF total = 0 THEN 100 * r ELSE Rounded(rating + 100 * r, 2)

\* The new rating, assigned to a variable of type DECIMAL(3,2).
Mean(r) == Rounded(Weighted(r), total + 1)

\* INSERT INTO reviews fires the trigger; if the cast overflows the statement
\* fails and CreateReview rolls its transaction back.
Review(r) ==
  /\ total < MaxReviews
  /\ Fits(r)
  /\ rating' = Mean(r)
  /\ total' = total + 1
  /\ sum' = sum + r

Next == \E r \in Ratings : Review(r)

Spec == Init /\ [][Next]_vars

------------------------------------------------------------------------------

\* A courier without reviews has the rating 0.00, any other one between 1.00
\* and 5.00: the recalculated value fits into couriers.rating.
TypeOK ==
  /\ total \in 0 .. MaxReviews
  /\ sum \in Nat
  /\ rating \in IF total = 0 THEN {0} ELSE 100 .. 500

\* The published rating stays close to the mean sum / total: the roundings of
\* n reviews put it off by (n + 1) / 4 hundredths at most.
RatingTracksMean ==
  LET n == total
      drift == n * rating - 100 * sum
  IN 4 * drift \leq n * (n + 1) /\ -4 * drift \leq n * (n + 1)

\* A review never moves the rating away from it or beyond it: the new rating
\* lies between the old one and the rating given.
RatingFollowsReview ==
  [][LET given == 100 * (sum' - sum) IN
     total > 0 => \/ rating \leq rating' /\ rating' \leq given
                  \/ given \leq rating' /\ rating' \leq rating]_vars

\* README.md:480: clients can leave ratings from 1 to 5.  None is refused
\* because of the ratings the courier already has.
RatingsAreAccepted == \A r \in Ratings : Fits(r)
==============================================================================
