SPECIFICATION RealtimeSpec
CONSTANTS
  k1 = k1  k2 = k2
  w1 = w1
  NoTask = NoTask
  Tasks = {k1, k2}
  Threads = {w1}
  Capacity = 1
  OsGrants = TRUE
INVARIANT RefusalMeansNoGrant
CHECK_DEADLOCK FALSE
