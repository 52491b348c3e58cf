SPECIFICATION Spec
CONSTANTS
  t1 = t1
  t2 = t2
  TaskId <- MCTaskId
  Context = {c1}
  Worker = {w1}
  Request <- MCRequest
  ConfigId = {}
  NoTask = NoTask
  MaxQueued = 2
  MaxWire = 2
  MaxFaults = 0
  States <- WithoutPause
PROPERTIES
  RevokedStaysOff
CHECK_DEADLOCK FALSE
