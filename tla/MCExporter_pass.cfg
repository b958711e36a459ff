CONSTANTS
  c1 = c1
  c2 = c2
  c3 = c3
  d1 = d1
  d2 = d2
  d3 = d3
  l1 = l1
  NoList = NoList
  NoData = NoData
  NoName = "none"
  NoRef = NoRef
  NoID = NoID
  Own = "own"
  Clients = {c1, c2, c3}
  Removable = {l1}
  Requests <- MCRequests
  InitLocal <- MCLocal
  Remote <- MCRemote
  InitLists <- MCLists
  Moves <- MCMoves
SPECIFICATION Spec
INVARIANTS
  ListsComplete
  AnnotationsKept
  ExportsOwn
  NothingKept
  
CHECK_DEADLOCK FALSE
