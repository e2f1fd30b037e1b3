SPECIFICATION FairSpec
CONSTANTS
  d1 = d1
  d2 = d2
  Contents <- MCContents
  Bootstrap <- MCBootstrap
  MaxRevisions = 3
  Duration = 1
  MaxOccurrences = 2
  MaxFaults = 1
INVARIANTS TypeOK RunningDevices ClosedIsSettled OccurrenceStands
PROPERTY ConditionRaised
CHECK_DEADLOCK FALSE
