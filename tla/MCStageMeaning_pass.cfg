SPECIFICATION Spec
CONSTANTS
  b1 = b1
  b2 = b2
  Builds = {b1, b2}
  NoImage = NoImage
  NoContainer = NoContainer
  NoDigest = NoDigest
  NoFile = NoFile
  FixedTime = {b1, b2}
  Reserved <- MCReserved
  Absolute <- MCAbsolute
  Slashed <- MCSlashed
  Signals <- MCSignals
  Ports <- MCPorts
  Registries <- MCRegistries
  Qualified <- MCQualified
  Transported <- MCTransported
  Remote <- MCRemote
  Images0 <- MCImages0
  Requests <- MCRequests
 
 
INVARIANT TriggersUsable
INVARIANT BaseCoherent
INVARIANT CommitComplete
INVARIANT TagsStay
