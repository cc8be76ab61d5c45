SPECIFICATION MCSpec
CONSTANTS
  o1 = o1
  c1 = c1
  near = near
  far = far
  Orders = {o1, o2}
  Couriers = {c1, c2}
  Times = {t1}
  Ratings = {}
  Null = Null
  Places = {near, far}
  Distance <- MCDistance
  Rating <- MCRating
  Handlers = {h1, h2}
  MaxRequests = 2
SYMMETRY Symmetry
INVARIANTS TypeOK EventsAreTrue ChangesAreTold AnnouncedOnce NobodyBetterPassedOver LaterPartsShowMore
CHECK_DEADLOCK FALSE
