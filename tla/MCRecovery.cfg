SPECIFICATION FairSpec
CONSTANTS
  Proc = {p1, p2}
  Run = {r1, r2}
  Child = {c1}
  r1 = r1
  ChildOf <- MCChildOf
  Legacy = {r2}
  NoProc = NoProc
  NoRun = NoRun
  MayFailProbe = FALSE
  MayFailStore = TRUE
INVARIANTS LiveClaimKept InterruptedIsAbandoned ChildrenEnd WarningCarried
PROPERTIES EndingsFinal SweepEnds
CHECK_DEADLOCK FALSE
