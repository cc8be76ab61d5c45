SPECIFICATION FairSpec
CONSTANTS
  Clients = {c1}
  Handlers = {h1, h2}
  Limit = 1
  Window = 2
  NoTTL = NoTTL
  MaxCount = 3
PROPERTY WindowsEnd
