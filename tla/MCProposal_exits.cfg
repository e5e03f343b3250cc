SPECIFICATION ProposalSpec
CONSTANTS
  p1 = p1 v1 = v1 v2 = v2 v3 = v3
  Call = {c1, c2}
  Branch <- Named
  Key <- MCKey
  Absent = Absent NoChange = NoChange NoVersion = NoVersion
  Firsts <- AnyStage
  MaxMain = 3
  Replica = {r1}
  Crews <- MCCrews
  Claims <- MCClaims
  Policies = {p1}
  Versions = {v1, v2}
  Stages = 2
  From = From To = To
  MaxAttempts = 2
CHECK_DEADLOCK FALSE
INVARIANTS
  OneCommitOnItsBase
  NoSecondProposal
PROPERTIES
  OpenedIsOffered
  MergedStaysMerged
  RolloutMovesAsJudged
  AuditTrailKept
  EveryCallAnswers
