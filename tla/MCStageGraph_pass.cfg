CONSTANTS
  NoName = "none"
  Triggered = {"onb"}
  Dockerfiles <- MCDockerfiles
  HeadingArgs <- MCHeadingArgs
  Indexes <- MCIndexes
SPECIFICATION Spec
INVARIANTS
  BuildsAsWritten
CHECK_DEADLOCK FALSE
