SPECIFICATION Spec
CONSTANTS
  Orders = {o1}
  Couriers = {c1, c2}
  Sessions = {s1, s2, s3}
  Times = {t1, t2}
  Ratings = {5}
  Null = Null
INVARIANT Isolation
PROPERTIES ImplementsLifecycle DeliveredAtIsFinal CourierIsNeverErased
