CONSTANTS
  once = once
  again = again
  loop = loop
  NoNode = NoNode
  NameOf <- SharedName
  IntervalOf <- Intervals
  OnceNodes = {once}
  MaxNow = 3
  Nodes = {once, again, loop}
SPECIFICATION GCFairSpec
PROPERTIES
  ImplementsTasks
  
  OnceNodeRemoved
CHECK_DEADLOCK FALSE
