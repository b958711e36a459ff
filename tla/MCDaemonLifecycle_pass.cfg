CONSTANTS
  p1 = p1
  p2 = p2
  p3 = p3
  b1 = b1
  NoProc = NoProc
  Procs = {p1, p2, p3}
  Builds = {b1}
SPECIFICATION FairSpec
INVARIANTS
  OnlyResidualCleaned
  OneDaemonUntilExit
PROPERTIES
  WaitedBuildsComplete
  
CHECK_DEADLOCK FALSE
