-------------------------- MODULE CourierRatingProofs --------------------------
(***************************************************************************)
(* CourierRating, for every set of ratings and every number of reviews.    *)
(***************************************************************************)
EXTENDS CourierRating, TLAPS

\* Euclidean division, from the definition of \div.
LEMMA Division ==
  ASSUME NEW x \in Nat, NEW d \in Nat, d > 0
  PROVE  /\ x \div d \in Nat
         /\ d * (x \div d) \leq x
         /\ x < d * (x \div d) + d
OBVIOUS

\* The rounded quotient is nearest to the quotient.
LEMMA RoundedIsNearest ==
  ASSUME NEW a \in Nat, NEW b \in Nat, b > 0
  PROVE  /\ Rounded(a, b) \in Nat
         /\ 2 * (b * Rounded(a, b)) \leq 2 * a + b
         /\ 2 * a < 2 * (b * Rounded(a, b)) + b
<1> DEFINE q == Rounded(a, b)
<1>1. 2 * a + b \in Nat /\ 2 * b \in Nat /\ 2 * b > 0
  OBVIOUS
<1>2. q \in Nat /\ (2 * b) * q \leq 2 * a + b /\ 2 * a + b < (2 * b) * q + 2 * b
  BY <1>1, Division DEF Rounded
<1>3. (2 * b) * q = 2 * (b * q)
  BY <1>2
<1> HIDE DEF q
<1>4. b * q \in Nat
  BY <1>2
<1> QED
  BY <1>2, <1>3, <1>4 DEF q

\* A rounded mean lies between the bounds of what it is the mean of.
LEMMA RoundedIsBetween ==
  ASSUME NEW a \in Nat, NEW b \in Nat, b > 0, NEW x \in Nat, NEW y \in Nat,
         b * x \leq a, a \leq b * y
  PROVE  x \leq Rounded(a, b) /\ Rounded(a, b) \leq y
<1> DEFINE q == Rounded(a, b)
<1>1. q \in Nat /\ 2 * (b * q) \leq 2 * a + b /\ 2 * a < 2 * (b * q) + b
  BY RoundedIsNearest
<1> HIDE DEF q
<1>2. b * q \in Nat /\ b * x \in Nat /\ b * y \in Nat
  BY <1>1
<1>3. ASSUME q + 1 \leq x  PROVE FALSE
  <2>1. b * (q + 1) \leq b * x
    BY <1>1, <1>3
  <2>2. b * (q + 1) = b * q + b
    BY <1>1
  <2> QED
    BY <1>1, <1>2, <2>1, <2>2
<1>4. ASSUME y + 1 \leq q  PROVE FALSE
  <2>1. b * (y + 1) \leq b * q
    BY <1>1, <1>4
  <2>2. b * (y + 1) = b * y + b
    OBVIOUS
  <2> QED
    BY <1>1, <1>2, <2>1, <2>2
<1> QED
  BY <1>1, <1>3, <1>4 DEF q
------------------------------------------------------------------------------

\* Numbers a review computes with are natural.
LEMMA NumbersType ==
  ASSUME TypeOK, NEW r \in Ratings
  PROVE  /\ r \in 1 .. 5 /\ total \in Nat /\ rating \in Nat
         /\ rating * total \in Nat /\ Weighted(r) \in Nat
         /\ (total + 1) * 100 \in Nat /\ (total + 1) * 500 \in Nat
<1>1. r \in 1 .. 5 /\ total \in Nat /\ rating \in Nat
  BY RatingAssumption DEF TypeOK
<1>2. rating * total \in Nat
  BY <1>1
<1> QED
  BY <1>1, <1>2 DEF Weighted

\* The new rating is between the old one and the one given.
LEMMA MeanIsBetween ==
  ASSUME TypeOK, NEW r \in Ratings, NEW x \in Nat, NEW y \in Nat,
         x \leq 100 * r, 100 * r \leq y,
         total > 0 => x \leq rating /\ rating \leq y
  PROVE  x \leq Mean(r) /\ Mean(r) \leq y
<1>1. (total + 1) * x \leq Weighted(r) /\ Weighted(r) \leq (total + 1) * y
  <2>1. CASE total = 0
    BY <2>1, NumbersType DEF Weighted, TypeOK
  <2>2. CASE total # 0
    <3>1. total \in Nat /\ rating \in Nat /\ x \leq rating /\ rating \leq y
      BY <2>2, NumbersType
    <3>2. total * x \leq rating * total /\ rating * total \leq total * y
      BY <3>1
    <3>3. (total + 1) * x = total * x + x /\ (total + 1) * y = total * y + y
      BY <3>1
    <3>4. total * x \in Nat /\ total * y \in Nat /\ rating * total \in Nat /\ r \in Nat
      BY <3>1, NumbersType
    <3> QED
      BY <3>2, <3>3, <3>4 DEF Weighted
  <2> QED
    BY <2>1, <2>2
<1>2. total + 1 \in Nat /\ total + 1 > 0
  BY RatingAssumption DEF TypeOK
<1> QED
  BY <1>1, <1>2, NumbersType, RoundedIsBetween DEF Mean

LEMMA TypeStep == TypeOK /\ [Next]_vars => TypeOK'
<1> SUFFICES ASSUME TypeOK, NEW r \in Ratings, Review(r)  PROVE TypeOK'
  BY DEF Next, vars, TypeOK
<1>1. 100 \leq Mean(r) /\ Mean(r) \leq 500
  <2>1. 100 \leq 100 * r /\ 100 * r \leq 500
    BY NumbersType
  <2> QED
    BY <2>1, MeanIsBetween DEF TypeOK
<1>2. Mean(r) \in Nat
  BY NumbersType, RoundedIsNearest DEF Mean
<1>3. total' \in 1 .. MaxReviews /\ sum' \in Nat
  BY NumbersType, RatingAssumption DEF Review, TypeOK
<1> QED
  BY <1>1, <1>2, <1>3 DEF Review, TypeOK

\* Whatever the ratings, the recalculated rating fits into couriers.rating
\* and is between 1.00 and 5.00.
THEOREM TypeCorrect == Spec => []TypeOK
<1>1. Init => TypeOK
  BY RatingAssumption DEF Init, TypeOK
<1>2. QED
  BY <1>1, TypeStep, PTL DEF Spec

\* However many reviews a courier gets, the rating is off the mean of the
\* ratings by no more than (n + 1) / 4 hundredths.
THEOREM RatingStaysNearMean == Spec => []RatingTracksMean
<1>1. Init => RatingTracksMean
  BY DEF Init, RatingTracksMean
<1>2. TypeOK /\ RatingTracksMean /\ [Next]_vars => RatingTracksMean'
  <2> SUFFICES ASSUME TypeOK, RatingTracksMean, NEW r \in Ratings, Review(r)
               PROVE  RatingTracksMean'
    BY DEF Next, vars, RatingTracksMean
  <2> DEFINE n == total
             m == Mean(r)
             old == n * rating
             new == (n + 1) * m
  <2>1. /\ n \in Nat /\ r \in Nat /\ sum \in Nat /\ old \in Nat
        /\ Weighted(r) = old + 100 * r
    BY NumbersType DEF TypeOK, Weighted
  <2>2. /\ m \in Nat
        /\ 2 * new \leq 2 * Weighted(r) + (n + 1)
        /\ 2 * Weighted(r) < 2 * new + (n + 1)
    <3>1. n + 1 \in Nat /\ n + 1 > 0 /\ Weighted(r) \in Nat
      BY <2>1
    <3> QED
      BY <3>1, RoundedIsNearest DEF Mean
  <2>3. new \in Nat
    BY <2>1, <2>2
  <2>4. /\ 4 * (old - 100 * sum) \leq n * (n + 1)
        /\ -4 * (old - 100 * sum) \leq n * (n + 1)
    BY DEF RatingTracksMean
  <2>5. (n + 1) * (n + 2) = n * (n + 1) + 2 * (n + 1) /\ n * (n + 1) \in Nat
    BY <2>1
  <2>6. total' = n + 1 /\ rating' = m /\ sum' = sum + r
    BY DEF Review
  <2>7. /\ 4 * (new - 100 * (sum + r)) \leq (n + 1) * (n + 2)
        /\ -4 * (new - 100 * (sum + r)) \leq (n + 1) * (n + 2)
    <3> HIDE DEF n, m, old, new
    <3> QED
      BY <2>1, <2>2, <2>3, <2>4, <2>5
  <2>8. total' * rating' = new /\ total' * (total' + 1) = (n + 1) * (n + 2)
    BY <2>1, <2>6
  <2> HIDE DEF n, m, old, new
  <2> QED
    BY <2>6, <2>7, <2>8 DEF RatingTracksMean
<1>3. QED
  BY <1>1, <1>2, TypeCorrect, PTL DEF Spec

\* Every review moves the rating towards the rating given, never beyond it.
THEOREM RatingFollowsEveryReview == Spec => RatingFollowsReview
<1>1. ASSUME TypeOK, [Next]_vars, total > 0
      PROVE  LET given == 100 * (sum' - sum) IN
               \/ rating \leq rating' /\ rating' \leq given
               \/ given \leq rating' /\ rating' \leq rating
  <2>1. CASE UNCHANGED vars
    <3>1. rating \in Nat /\ sum \in Nat /\ 100 \leq rating
      BY <1>1 DEF TypeOK
    <3> QED
      BY <2>1, <3>1 DEF vars
  <2>2. ASSUME NEW r \in Ratings, Review(r)
        PROVE  \/ rating \leq Mean(r) /\ Mean(r) \leq 100 * r
               \/ 100 * r \leq Mean(r) /\ Mean(r) \leq rating
    <3>1. 100 * r \in Nat /\ rating \in Nat
      BY <1>1, NumbersType
    <3>2. CASE rating \leq 100 * r
      BY <1>1, <3>1, <3>2, MeanIsBetween
    <3>3. CASE 100 * r \leq rating
      BY <1>1, <3>1, <3>3, MeanIsBetween
    <3> QED
      BY <3>1, <3>2, <3>3
  <2>3. ASSUME NEW r \in Ratings, Review(r)
        PROVE  rating' = Mean(r) /\ sum' - sum = r
    BY <1>1, <2>3, NumbersType DEF Review, TypeOK
  <2> QED
    BY <1>1, <2>1, <2>2, <2>3 DEF Next
<1>2. QED
  BY <1>1, TypeCorrect, PTL DEF Spec, RatingFollowsReview

------------------------------------------------------------------------------
(* How far the cast to DECIMAL(5,2) reaches (RatingsAreAccepted fails)     *)

\* The first 199 reviews of a courier are accepted, whatever the ratings: no
\* rating is above 5.00, so the sum stays below 1000.00.
THEOREM FirstReviewsAreAccepted == Spec => [](total < 199 => RatingsAreAccepted)
<1>1. ASSUME TypeOK, total < 199, NEW r \in Ratings  PROVE Fits(r)
  <2> DEFINE n == total
             m == rating
  <2>1. n \in Nat /\ n <= 198 /\ m \in 0 .. 500 /\ r \in 1 .. 5
    BY <1>1, NumbersType DEF TypeOK
  <2>2. m * n <= 500 * n
    BY <2>1
  <2>3. m * n \in Nat
    BY <2>1
  <2> HIDE DEF n, m
  <2>4. m * n + 100 * r < 100000
    BY <2>1, <2>2, <2>3
  <2> QED
    BY <2>4 DEF Fits, Weighted, n, m
<1>2. TypeOK => (total < 199 => RatingsAreAccepted)
  BY <1>1 DEF RatingsAreAccepted
<1> QED
  BY <1>2, TypeCorrect, PTL

\* No courier ever gets a thousandth review, whatever the ratings: no rating
\* is below 1.00, so the sum of the thousand is too long for the cast.
THEOREM ReviewsEndBeforeAThousand == Spec => [](total <= 999)
<1>1. Init => total <= 999
  BY DEF Init
<1>2. TypeOK /\ total <= 999 /\ [Next]_vars => (total <= 999)'
  <2> SUFFICES ASSUME TypeOK, total <= 999, NEW r \in Ratings, Review(r)
               PROVE  total + 1 <= 999
    BY DEF Next, vars, Review
  <2>1. ASSUME total = 999  PROVE FALSE
    <3>1. rating >= 100 /\ rating \in Nat /\ r \in 1 .. 5
      BY <2>1, NumbersType DEF TypeOK
    <3>2. rating * 999 + 100 * r < 100000
      BY <2>1 DEF Review, Fits, Weighted
    <3> QED
      BY <3>1, <3>2
  <2> QED
    BY <2>1 DEF TypeOK
<1> QED
  BY <1>1, <1>2, TypeCorrect, PTL DEF Spec
================================================================================
