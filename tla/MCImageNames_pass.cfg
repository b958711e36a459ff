CONSTANTS
  i1 = i1
  i2 = i2
  a = a
  b = b
  r1 = r1
  r2 = r2
  NoImage = NoImage
  Images = {i1, i2}
  Tags = {a, b}
  Reqs = {r1, r2}
  Jobs <- AllJobs
SPECIFICATION Spec
INVARIANTS
  CopyNamesRemoved

  
CHECK_DEADLOCK FALSE
