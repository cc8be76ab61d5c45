SPECIFICATION Spec
CONSTANTS
  Codes = {c1}
  Sessions = {s1, s2, s3}
  Null = Null
  Terms <- MCTerms
  Baskets <- MCBaskets
  BaseFare = 20
  PerKm = 7
  MinFare = 35
  MaxTime = 1
  MaxOrders = 3
SYMMETRY Symmetry
INVARIANTS TypeOK UsesAreOrders 
PROPERTY UsesAreWithinTerms
