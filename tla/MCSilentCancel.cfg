SPECIFICATION Spec
CONSTANTS
  t1 = t1
  t2 = t2
  c1 = c1
  c2 = c2
  w1 = w1
  w2 = w2
  r1 = r1
  r2 = r2
  s1 = s1
  s2 = s2
  b1 = b1
  TaskId = {t1}
  Context = {c1}
  Worker = {w1}
  Sender = {r1}
  Streamer = {s1}
  Subscriber = {}
  ConfigId = {}
  Configuring = {}
  RetentionCaps = {}
  ExecutorStopsAtPause = TRUE
  Request = {r1, s1}
  NoTask = NoTask
  NoId = NoId
  NoContext = NoContext
  NoStream = NoStream
SYMMETRY Symmetry
CHECK_DEADLOCK FALSE
INVARIANTS
  StreamsEndWithAStatus
