SPECIFICATION FairAlarmSpec
CONSTANTS
  g1 = g1
  d1 = d1
  FieldAlarms = {g1}
  Devices = {d1}
  DeviceOf <- MCDeviceOf
  Steady = {g1}
  Acks = {k1}
  Threshold = 2
  NoAlarm = NoAlarm
  MaxRaises <- MCMaxRaises
  MaxFaults = 1
  MaxRestarts = 1
INVARIANTS AlarmTypeOK DurableFollows AckSurvives OutageIsAlarmed
PROPERTIES  ViewConverges
CHECK_DEADLOCK FALSE
