CONSTANTS
  b1 = b1
  b2 = b2
  e1 = e1
  NoBuild = NoBuild
  Entities <- OneEntity
  EntityOf <- SameEntity
  Builds <- OneBuild
  BufLen = 2
  MaxPrints = 3
SPECIFICATION FairSpec
INVARIANTS
  StatusEntriesReclaimed
  CompleteLog
  LogCloseSafe
PROPERTIES
  BuildEnds
  CommandEnds
CHECK_DEADLOCK FALSE
