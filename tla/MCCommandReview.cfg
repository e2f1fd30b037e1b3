SPECIFICATION Spec
CONSTANTS
  a1 = a1  a2 = a2  a3 = a3
  c1 = c1  c2 = c2  c3 = c3
  k1 = k1  k2 = k2
  open = open  close = close
  h1 = h1  h2 = h2
  x1 = x1  x2 = x2
  None = None
  Commands = {c1, c2}
  Keys = {k1, k2}
  Actions = {open}
  Hashes = {h1, h2}
  Attempts = {a1, a2}
  Reviews = {x1, x2}
  MaxRecords = 1
  Lapsing = {}
  Requests <- SteadyRequests
  Classes <- OneClass
  ClassOf <- Normal
  Workers <- Two
  QueueCap <- One
  Ungranted = {}
  FeedbackWorkers = 1
  FeedbackCap = 1
  CacheMax = 1
  Adapter = "bounded"
  FaultyWrites = {}
  MaxCrashes = 1
INVARIANTS ApiShowsVerdict LedgerBounded
PROPERTIES VerdictFinal UnknownKept
CHECK_DEADLOCK FALSE
