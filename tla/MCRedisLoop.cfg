SPECIFICATION FairSpec
CONSTANTS
  t1 = t1
  t2 = t2
  TaskId <- MCTaskId
  Context = {c1}
  Worker = {w1}
  Request <- MCMixed
  ConfigId = {}
  NoTask = NoTask
  MaxQueued = 2
  MaxWire = 2
  MaxFaults = 0
  States <- WithPause
CONSTRAINTS
  AtMostTwo
  PausesAlone
PROPERTIES
  OwedIsHandedOver
CHECK_DEADLOCK FALSE
