CONSTANTS
  r1 = r1
  o1 = o1
  Reaper = Reaper
  Runs = {r1}
  Ops = {o1}
SPECIFICATION FairSpec
INVARIANTS
  NoStolenStatus
  FailureReported
  NoRunaway
PROPERTIES
  
  CancelEndsRun
CHECK_DEADLOCK FALSE
