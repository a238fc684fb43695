SPECIFICATION Spec
ACTION_CONSTRAINT StopsMeetTwo
CONSTANTS
  s1 = s1
  s2 = s2
  s3 = s3
  s4 = s4
  r1 = r1
  r2 = r2
  Sub = {s1, s2, s3}
  Run = {r1, r2}
  NKeys = 1
  CallOf <- MCCallOf
  RunOf <- MCRunOf
  KeyOf <- OneTree
  Classified <- MCClassified
  Declared <- MCDeclared
  SpawnsProcesses = {s2}
  Inst = {i1, i2, i3, i4}
  NoInst = NoInst
  QueueCapacity = 1
  ReadConcurrency = 2
  ProcessCapacity = 1
  Cancels = {r1}
  MayShutdown = TRUE
  SweepModulus = 6
  ShutdownThread = ShutdownThread
INVARIANTS StopReaches Exclusive CleanShutdown
PROPERTIES TicketsSettle
