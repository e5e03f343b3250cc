SPECIFICATION FairInstanceSpec
CONSTANTS
  a1 = a1 a2 = a2 u1 = u1 u2 = u2 s1 = s1 s2 = s2 c1 = c1
  rows1 = rows1 org1 = org1 org2 = org2
  Blank <- MCBlank
  Hash <- MCHash
  NoHosts = NoHosts
  Artefact = {a1, a2, u1, u2}
  NoArtefact = NoArtefact Missing = Missing Empty = Empty Absent = Absent
  NoRollout = NoRollout Refused = Refused
  MaxHead = 2
  Files <- MCFiles
  Commit <- FirstThenJoined
  GitSourced = TRUE KeepsCache = TRUE
  OpAMPOpen = {TRUE}
  CanExit = TRUE Cancels = {Docs}
  Main = Main Poll = Poll Sync = Sync Docs = Docs
  Refresher = {Docs}
  Conn = {}
  Identity <- Collectors
  Free = Free NoSnapshot = NoSnapshot NoMessage = NoMessage NoReply = NoReply NoOffer = NoOffer
  NoDocs = NoDocs NoAuth = NoAuth
PROPERTIES
  StopReturns
  DocsArrive
