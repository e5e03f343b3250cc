SPECIFICATION FairSpec
CONSTANTS
  a1 = a1 a2 = a2 b1 = b1 b2 = b2 u1 = u1 u2 = u2 c1 = c1 c2 = c2 r1 = r1 r2 = r2
  Blank <- MCBlank
  Hash <- MCHash
  NoHosts = NoHosts
  Artefact = {a1, a2, b1, b2, u1, u2}
  NoArtefact = NoArtefact Missing = Missing Empty = Empty Absent = Absent
  NoRollout = NoRollout Refused = Refused
  MaxHead = 2
  Files <- MCFiles
  Commit <- TwoCommits
  GitSourced = TRUE KeepsCache = TRUE
  CanExit = TRUE Cancels = {}
  Main = Main Poll = Poll Sync = Sync
  Refresher = {}
  Conn = {}
  Identity <- Collectors
  Free = Free NoSnapshot = NoSnapshot NoMessage = NoMessage NoReply = NoReply NoOffer = NoOffer
PROPERTIES
  RestartIsANonEvent
