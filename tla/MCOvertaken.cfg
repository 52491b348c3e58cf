SPECIFICATION Spec
CONSTANTS
  t1 = t1
  t2 = t2
  TaskId <- MCOneTask
  Context = {c1}
  Worker = {w1}
  Request <- MCTwice
  ConfigId = {}
  NoTask = NoTask
  MaxQueued = 2
  MaxWire = 2
  MaxFaults = 0
  States <- WithPause
INVARIANTS
  PendingIsQueued
CHECK_DEADLOCK FALSE
