SPECIFICATION Spec
CONSTANTS
  Ratings = {5}
  MaxReviews = 250
INVARIANT RatingsAreAccepted
CHECK_DEADLOCK FALSE
