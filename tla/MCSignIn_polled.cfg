SPECIFICATION SignInSpec
CONSTANTS
  alice = alice bob = bob minted = minted root = root leaf = leaf g1 = g1 g2 = g2
  Person = {alice, bob, minted}
  Minted = minted
  Owner = {root, leaf}
  Nobody = Nobody
  Group = {g1, g2}
  Holds <- MCHolds
  Name = {"sso", "basic"}
  Absent = Absent None = None Refused = Refused
  Commits <- MCCommits
  Loopback = TRUE
  TLS = TRUE
  Basic = TRUE
  KeepsKey = TRUE
  Scenes = {"faults", "tabs"}
INVARIANTS
  AdmittedAsHeld
PROPERTIES
  EstateDecides
