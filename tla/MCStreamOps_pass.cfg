CONSTANTS
  pull = pull
  save = save
  builder = builder
  Reqs = {pull, save}
  Locking = {pull}
  Saving = {save}
  Writers = {builder}
  BufLen = 1
  MaxPuts <- MCMaxPuts
SPECIFICATION FairSpec
INVARIANTS
  StuckOnlyWhenGone
  SuccessIsComplete
  FailedSaveLeavesNothing

  
CHECK_DEADLOCK FALSE
