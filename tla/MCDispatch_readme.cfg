SPECIFICATION Spec
CONSTANTS
  Orders = {o1}
  Couriers = {c1}
  Sessions = {s1}
  Times = {t1}
  Ratings = {5}
  Null = Null
PROPERTY AcceptedOrdersCanBeDelivered
