SPECIFICATION Spec
CONSTANTS
  k1 = k1  k2 = k2  k3 = k3  k4 = k4
  w1 = w1  w2 = w2
  NoTask = NoTask
  Tasks = {k1, k2, k3, k4}
  Threads = {w1, w2}
  Capacity = 2
INVARIANTS TypeOK NoLostWakeup ShutdownDrains
PROPERTIES ShutdownReturns ImplementsPool
CHECK_DEADLOCK FALSE
