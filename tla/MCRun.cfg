SPECIFICATION RunSpec
CONSTANTS
  s1 = s1
  s2 = s2
  s3 = s3
  s4 = s4
  r1 = r1
  r2 = r2
  Sub = {s2, s3, s4}
  Run = {r1, r2}
  NKeys = 2
  CallOf <- MCCallOf
  RunOf <- MCRunOf
  KeyOf <- TwoTrees
  Classified <- MCClassified
  Declared <- MCDeclared
  SpawnsProcesses = {s2, s3, s4}
  Inst = {i1, i2, i3, i4}
  NoInst = NoInst
  QueueCapacity = 1
  ReadConcurrency = 1
  ProcessCapacity = 1
  Cancels = {}
  MayShutdown = FALSE
  SweepModulus = 6
  ShutdownThread = ShutdownThread
  MaxTurns = 2
  MaxFaults = 1
  Surface = {d1}
  MayCancel = TRUE
INVARIANTS Accounted ConsentFirst ObservationTrue
PROPERTIES TicketsSettle ImplementsSlots EndsOnce WorkerGoesOn
