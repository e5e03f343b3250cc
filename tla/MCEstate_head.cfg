SPECIFICATION Spec
CONSTANTS
  Unset = ""
  FloorOrder <- MCOrder
  Floors     <- MCFloors
  NoAssertion = NoAssertion
  NoVersion   = NoVersion
  Start      <- MCStart
  Authored   <- MCAuthored
  Reported   <- MCReported
  MaxCommits = 4
CHECK_DEADLOCK FALSE
INVARIANTS
  NobodyWidensThemselves
  ArtefactIsWhole
  RolloutKeepsItsWord
  APathNeverRelaxes
  NoSilentSubstitution
  RollupAddsUp
