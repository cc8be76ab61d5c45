SPECIFICATION FairSpec
CONSTANTS
  Clients = {c1}
  Handlers = {h1, h2, h3}
  Limit = 2
  Window = 3
  NoTTL = NoTTL
  MaxCount = 5
INVARIANTS TypeOK AdmittedWithinLimit OneExpirePerKey
PROPERTIES WindowsLast WindowsEndUnlessLost
