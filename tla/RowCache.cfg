SPECIFICATION FairSpec
CONSTANTS
  Orders = {o1}
  Couriers = {c1}
  Stats = Stats
  Handlers = {h1, h2}
  MaxVersion = 3
INVARIANTS TypeOK FreshUnlessOvertaken
PROPERTY FreshInTheEnd
