SPECIFICATION UnderwayFairSpec
CONSTANTS
  Orders = {o1, o2}
  Couriers = {c1}
  Sessions = {s1, s2}
  Times = {t1}
  Ratings = {5}
  Null = Null
PROPERTY TransactionsEnd
