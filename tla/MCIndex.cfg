SPECIFICATION ixSpec
CONSTANTS
  File = {f1, f2}
  InDir = {f1, f2}
  Dir = d
  Content = {a, b}
  Before = {a, main}
  Branch = {main, topic}
  Absent = absent
  NoRow = norow
  NoVer = nover
  Capacity = 1
  MaxPassRetries = 1
  MaxEdits = 2
  MaxShared = 1
  MaxFaults = 1
  MaxCalls = 1
INVARIANTS IndexTrue
PROPERTIES Converges
CHECK_DEADLOCK FALSE
