SPECIFICATION Spec
CONSTANTS
  a1 = a1  a2 = a2  a3 = a3
  c1 = c1  c2 = c2  c3 = c3
  k1 = k1  k2 = k2
  open = open  close = close
  h1 = h1  h2 = h2
  x1 = x1  x2 = x2
  None = None
  Commands = {c1, c2, c3}
  Keys = {k1}
  Actions = {open}
  Hashes = {h1, h2}
  Attempts = {a1, a2, a3}
  Reviews = {}
  MaxRecords = 2
  Lapsing = {k1}
  Requests <- RetryRequests
  Classes <- OneClass
  ClassOf <- Normal
  Workers <- One
  QueueCap <- One
  Ungranted = {}
  FeedbackWorkers = 1
  FeedbackCap = 1
  CacheMax = 2
  Adapter = "bounded"
  FaultyWrites = {}
  MaxCrashes = 1
SYMMETRY AttemptSymmetry
INVARIANTS TypeOK KeySentOnce VerdictHonest TaskHoldsCommand NoOrphans
PROPERTY DeliversOnce
CHECK_DEADLOCK FALSE
