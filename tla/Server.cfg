SPECIFICATION FairSpec
CONSTANTS
  Servers = {s1, s2}
  Partitions = {p1}
  Null = Null
  MaxMessages = 2
  MaxEnds = 2
  MaxMishaps = 1
INVARIANTS TypeOK MarksFollowHandling GracefulStopIsClean
PROPERTIES DeliversAtLeastOnce ShutdownEnds
