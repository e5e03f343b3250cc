SPECIFICATION FleetSpec
CONSTANTS
  a = a b = b
  Collector = {a, b}
  Conn = {k1, k2}
  NoLink = NoLink Nobody = Nobody NoSpan = NoSpan NoStage = NoStage
  Grace = 2 Horizon = 1 Soak = 2
  AbortNum = 2 AbortDen = 3
  Cohort <- MCCohort
  Declares <- MCDeclares
  Scenes = {"wire", "time", "rows", "recorded"}
  Floor = 2
  Telemetry = TRUE
CHECK_DEADLOCK FALSE
PROPERTIES
  DeliveryPathIsTheWires
  FindingsNeedASpan
  AdvanceRestsOnEvidence
  HaltedByAMember
  ShortfallSurfaces
