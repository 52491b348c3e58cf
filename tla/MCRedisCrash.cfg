SPECIFICATION Spec
CONSTANTS
  t1 = t1
  t2 = t2
  TaskId <- MCTaskId
  Context = {c1}
  Worker = {w1}
  Request <- MCEither
  ConfigId = {}
  NoTask = NoTask
  MaxQueued = 2
  MaxWire = 2
  MaxFaults = 1
  States <- WithPause
CONSTRAINTS
  AtMostTwo
  PausesAlone
SYMMETRY Symmetry
INVARIANTS
  RedisTypeOK
  MirrorFaithful
  OwedIsQueued
  WaitersAreServed
  OneLocation
PROPERTIES
  HandedOnce
CHECK_DEADLOCK FALSE
