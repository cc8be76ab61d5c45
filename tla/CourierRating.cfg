SPECIFICATION Spec
CONSTANTS
  Ratings = {1, 2, 3, 4, 5}
  MaxReviews = 9
INVARIANTS TypeOK RatingTracksMean
PROPERTY RatingFollowsReview
CHECK_DEADLOCK FALSE
