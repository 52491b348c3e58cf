SPECIFICATION Spec
CONSTANTS
  t1 = t1
  t2 = t2
  c1 = c1
  c2 = c2
  w1 = w1
  w2 = w2
  TaskId <- MCTaskId
  Context <- MCContext
  Worker <- MCWorker
  Request = {}
  ConfigId = {p1}
  RetentionCaps <- MCCaps
  NoTask = NoTask
  NoContext = NoContext
CONSTRAINT QueueBound
SYMMETRY Symmetry
INVARIANTS
  TypeOK
  HandoffDiscipline
  IndexExact
  OneLocation
PROPERTIES
  WorkQueueSpec
