SPECIFICATION FairSpec
CONSTANTS
  Points = {p1}
  Period = 2
  Raw = {"good", "untimed", "mistyped"}
  None = None
  MaxTime = 3
  MaxEpoch = 2
  MaxFaults = 2
  BackupEvery = 2
INVARIANTS TypeOK BackupSound RestoreKeeps
PROPERTIES StoredApart FailureShown CloseReturns
CHECK_DEADLOCK FALSE
