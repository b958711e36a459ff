CONSTANTS
  b1 = b1
  b2 = b2
  e1 = e1
  NoBuild = NoBuild
  Entities <- OneEntity
  EntityOf <- SameEntity
  Builds <- TwoBuilds
  BufLen = 1
  MaxPrints = 0
SPECIFICATION Spec
INVARIANTS
  DirsReclaimed
PROPERTY ImplementsService
CHECK_DEADLOCK FALSE
