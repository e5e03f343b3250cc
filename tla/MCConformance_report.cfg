SPECIFICATION Spec
CONSTANTS
  Under       <- MCUnder
  Scene       <- MCScene
  Library     <- MCLibrary
  Installed   <- MCInstalled
  Topology    <- MCTopology
  World       <- MCWorld
  Designation <- MCDesignation
  Collector   <- MCCollector
  Environment = "prod"
  MaxLost     = 1
  NoAssertion = NoAssertion
  NoVersion   = NoVersion
  NoOverride  = NoOverride
  NoDoc       = NoDoc
CHECK_DEADLOCK FALSE
PROPERTIES
  ReportNamesOnlyStoppers
