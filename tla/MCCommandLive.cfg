SPECIFICATION FairSpec
CONSTANTS
  a1 = a1  a2 = a2  a3 = a3
  c1 = c1  c2 = c2  c3 = c3
  k1 = k1  k2 = k2
  open = open  close = close
  h1 = h1  h2 = h2
  x1 = x1  x2 = x2
  None = None
  Commands = {c1, c2, c3}
  Keys = {k1, k2}
  Actions = {open, close}
  Hashes = {h1, h2}
  Attempts = {a1, a2}
  Reviews = {}
  MaxRecords = 2
  Lapsing = {}
  Requests <- MixedRequests
  Classes <- TwoClasses
  ClassOf <- Mixed
  Workers <- OneEach
  QueueCap <- OneEach
  Ungranted = {"REALTIME"}
  FeedbackWorkers = 1
  FeedbackCap = 1
  CacheMax = 2
  Adapter = "isolated"
  FaultyWrites = {a1}
  MaxCrashes = 1
PROPERTIES EveryTaskEnds EveryCommandSettles
CHECK_DEADLOCK FALSE
