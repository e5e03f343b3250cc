----------------------------- MODULE SignIn_proofs -----------------------------
(* Type correctness of SignIn, and that carrying the named groups alone    *)
(* changes no answer, for every estate, tree and membership.               *)
EXTENDS SignIn, SequenceTheorems, TLAPS

(* Narrowing what an identity asserts to the groups the mapping names      *)
(* leaves every rule that hit, and so the Owner: "Resolution over the      *)
(* narrowed set gives the same Owner as resolution over the whole set"     *)
(* (pkg/auth/groups.go, Groups.Known).                                     *)
THEOREM NarrowingKeepsTheOwner ==
  ASSUME NEW rules, NEW asserted
  PROVE  OwnerOf(rules, Known(rules, asserted)) = OwnerOf(rules, asserted)
<1>1. Hits(rules, Known(rules, asserted)) = Hits(rules, asserted)
  BY DEF Hits, Known, Named
<1>. QED  BY <1>1 DEF OwnerOf

(* What resolves a person depends on the groups rules name, alone.         *)
LEMMA ResolveByNamed ==
  ASSUME NEW h, NEW p, NEW a, NEW b,
         a \cap Named(h.groups) = b \cap Named(h.groups)
  PROVE  Resolve(h, p, a) = Resolve(h, p, b)
BY DEF Resolve, Known

-----------------------------------------------------------------------------
LEMMA UsersTyped ==
  ASSUME NEW teams \in TeamsFile, NEW users \in UsersFile \cup {Absent},
         UsersLoad(teams, users)
  PROVE  Users(teams, users) \in UsersFile
<1>. USE SignInAssumption
<1>1. CASE users # Absent
  BY <1>1 DEF Users
<1>2. CASE users = Absent /\ Loopback /\ RootOwner(teams) # Nobody
  <2>1. RootOwner(teams) \in Owner
    BY <1>2 DEF RootOwner, TeamsFile
  <2>2. Users(teams, users) \in [{Minted} -> UserEntry]
    BY <1>2, <2>1 DEF Users, UserEntry
  <2>. QED  BY <2>2 DEF UsersFile
<1>3. CASE users = Absent /\ ~(Loopback /\ RootOwner(teams) # Nobody)
  <2>1. Users(teams, users) = <<>>
    BY <1>3 DEF Users
  <2>2. DOMAIN <<>> = {}
    OBVIOUS
  <2>. QED  BY <2>1, <2>2 DEF UsersLoad
<1>. QED  BY <1>1, <1>2, <1>3

LEMMA ProvidersTyped ==
  ASSUME NEW auth \in ProvidersFile \cup {Absent}
  PROVE  /\ Providers(auth).offers \in Seq(Offer)
         /\ Providers(auth).groups \in Seq(Rule)
<1>1. CASE auth # Absent
  BY <1>1 DEF Providers, ProvidersFile
<1>2. CASE auth = Absent
  <2>1. [name |-> "basic", kind |-> "basic", claim |-> FALSE] \in Offer
    BY SignInAssumption DEF Offer
  <2>. QED  BY <1>2, <2>1 DEF Providers
<1>. QED  BY <1>1, <1>2

LEMMA LoadedTyped ==
  ASSUME NEW teams \in TeamsFile \cup {Absent}, NEW users \in UsersFile \cup {Absent},
         NEW auth \in ProvidersFile \cup {Absent}, Loaded(teams, users, auth) # Refused
  PROVE  Loaded(teams, users, auth) \in Handler
<1>1. teams \in TeamsFile /\ UsersLoad(teams, users)
  BY DEF Loaded
<1>2. Users(teams, users) \in UsersFile
  BY <1>1, UsersTyped
<1>3. {Providers(auth).offers[i] : i \in DOMAIN Providers(auth).offers} \in SUBSET Offer
  BY ProvidersTyped
<1>. QED  BY <1>1, <1>2, <1>3, ProvidersTyped DEF Loaded, Handler

LEMMA CommitsTyped ==
  ASSUME NEW n \in DOMAIN Commits
  PROVE  /\ Commits[n].teams \in TeamsFile \cup {Absent}
         /\ Commits[n].users \in UsersFile \cup {Absent}
         /\ Commits[n].auth \in ProvidersFile \cup {Absent}
<1>1. Commits \in [1 .. Len(Commits) -> Commit]
  BY SignInAssumption
<1>2. Commits[n] \in Commit
  BY <1>1
<1>. QED  BY <1>2 DEF Commit

LEMMA LoadedAtTyped ==
  ASSUME NEW n \in DOMAIN Commits, LoadedAt(n) # Refused
  PROVE  LoadedAt(n) \in Handler
<1>. DEFINE c == Commits[n]
<1>1. /\ c.teams \in TeamsFile \cup {Absent}
      /\ c.users \in UsersFile \cup {Absent}
      /\ c.auth \in ProvidersFile \cup {Absent}
  BY CommitsTyped
<1>. HIDE DEF c
<1>2. LoadedAt(n) = Loaded(c.teams, c.users, c.auth)
  BY DEF LoadedAt, c
<1>. QED  BY <1>1, <1>2, LoadedTyped

LEMMA FoundTyped ==
  ASSUME head \in DOMAIN Commits, target \in DOMAIN Commits
  PROVE  /\ Found("teams") \subseteq TeamsFile \cup {Absent}
         /\ Found("users") \subseteq UsersFile \cup {Absent}
         /\ Found("auth") \subseteq ProvidersFile \cup {Absent}
BY CommitsTyped DEF Found

LEMMA SessionTyped ==
  ASSUME NEW h \in Handler, NEW asserted \in SUBSET Group
  PROVE  Session(h, asserted) \in SessionType
<1>1. Named(h.groups) \in SUBSET Group
  <2>1. h.groups \in [1 .. Len(h.groups) -> Rule]
    BY DEF Handler
  <2>. QED  BY <2>1 DEF Named, Rule
<1>. QED  BY <1>1 DEF Session, SessionType, Known

-----------------------------------------------------------------------------
(* Every value stays in its type, and the process is up exactly when it    *)
(* has a handler: a read that fails leaves the one there was, and a start  *)
(* that fails starts nothing.                                              *)
THEOREM TypeCorrect == SignInSpec => []SignInTypeOK
<1>. USE SignInAssumption
<1>1. SignInInit => SignInTypeOK
  <2>1. 1 \in DOMAIN Commits
    BY DEF Commit
  <2>. QED  BY <2>1 DEF SignInInit, SignInTypeOK, NoAttempts
<1>2. ASSUME SignInTypeOK, [SignInNext]_vars
      PROVE  SignInTypeOK'
  <2>. USE <1>2
  <2>1. CASE UNCHANGED vars
    BY <2>1 DEF SignInTypeOK, vars, estates, browsers, faults
  <2>. SUFFICES ASSUME SignInNext PROVE SignInTypeOK'
    BY <2>1
  <2>2. UNCHANGED <<scene, person>>
    BY DEF SignInNext
  <2>3. DOMAIN Commits = 1 .. Len(Commits) /\ Len(Commits) \in Nat
    OBVIOUS
  <2>4. head \in DOMAIN Commits /\ target \in DOMAIN Commits
    BY <2>3 DEF SignInTypeOK
  <2>5. CASE Refresh
    <3>1. PICK teams \in Found("teams"), users \in Found("users"), auth \in Found("auth") :
            Reads(teams, users, auth)
      BY <2>5 DEF Refresh
    <3>2. handler' \in Handler
      <4>1. handler \in Handler
        BY <2>5 DEF Refresh, SignInTypeOK
      <4>2. CASE Loaded(teams, users, auth) = Refused
        BY <3>1, <4>1, <4>2 DEF Reads
      <4>3. CASE Loaded(teams, users, auth) # Refused
        BY <2>4, <3>1, <4>3, FoundTyped, LoadedTyped DEF Reads
      <4>. QED  BY <4>2, <4>3
    <3>. QED  BY <2>2, <2>5, <3>2 DEF Refresh, SignInTypeOK, estates, browsers, faults
  <2>6. CASE Start
    <3>1. handler' \in Handler
      BY <2>3, <2>6, LoadedAtTyped DEF Start, SignInTypeOK
    <3>. QED  BY <2>2, <2>3, <2>6, <3>1 DEF Start, SignInTypeOK, browsers, faults
  <2>7. CASE Merge
    BY <2>2, <2>3, <2>7 DEF Merge, SignInTypeOK, browsers, faults
  <2>8. CASE CheckoutBegins
    BY <2>2, <2>3, <2>8 DEF CheckoutBegins, SignInTypeOK, browsers, faults
  <2>9. CASE CheckoutEnds
    BY <2>2, <2>3, <2>9 DEF CheckoutEnds, SignInTypeOK, browsers, faults
  <2>10. CASE Crash
    BY <2>2, <2>10 DEF Crash, SignInTypeOK, estates, faults
  <2>11. CASE IssuerMoves \/ SecretMoves
    BY <2>2, <2>11 DEF IssuerMoves, SecretMoves, SignInTypeOK, estates, browsers
  <2>12. ASSUME NEW t \in Tab, Begin(t) PROVE SignInTypeOK'
    <3>1. PICK o \in Redirects(handler) :
            attempt' = [attempt EXCEPT ![t] =
                          [step |-> "away", name |-> o.name, kind |-> o.kind, held |-> None]]
      BY <2>12 DEF Begin
    <3>2. handler \in Handler
      BY <2>12 DEF Begin, SignInTypeOK
    <3>3. o \in Offer /\ o.kind # "basic"
      BY <3>1, <3>2 DEF Redirects, Handler
    <3>4. [step |-> "away", name |-> o.name, kind |-> o.kind, held |-> None] \in AttemptType
      BY <3>3 DEF Offer, AttemptType
    <3>. QED  BY <2>2, <2>12, <3>1, <3>4 DEF Begin, SignInTypeOK, estates, faults
  <2>13. ASSUME NEW t \in Tab, Returns(t) PROVE SignInTypeOK'
    <3>1. handler \in Handler /\ attempt[t] \in AttemptType
      BY <2>13 DEF Returns, Away, SignInTypeOK
    <3>2. attempt' = [attempt EXCEPT ![t] = [attempt[t] EXCEPT !.step = "back", !.held = handler]]
      BY <2>13, <3>1 DEF Returns, SignInTypeOK, AttemptType
    <3>3. [attempt[t] EXCEPT !.step = "back", !.held = handler] \in AttemptType
      BY <3>1 DEF AttemptType
    <3>4. [attempt[t] EXCEPT !.step = "back", !.held = handler].held = handler
      BY <3>1 DEF AttemptType
    <3>. QED  BY <2>2, <2>13, <3>1, <3>2, <3>3, <3>4 DEF Returns, SignInTypeOK, estates, faults
  <2>14. ASSUME NEW t \in Tab, TurnedAway(t) PROVE SignInTypeOK'
    BY <2>2, <2>14 DEF TurnedAway, SignInTypeOK, estates, faults
  <2>15. ASSUME NEW t \in Tab, Completes(t) PROVE SignInTypeOK'
    <3>1. attempt[t] \in AttemptType /\ attempt[t].held \in Handler
      BY <2>15 DEF Completes, SignInTypeOK, AttemptType
    <3>2. \A asserted \in SUBSET Group : Session(attempt[t].held, asserted) \in SessionType
      BY <3>1, SessionTyped
    <3>3. Holds[person] \in SUBSET Group
      BY DEF SignInTypeOK
    <3>4. session' \in SessionType \cup {None} /\ cookie' \in Tab \cup {None}
      BY <2>15, <3>2, <3>3 DEF Completes, Asserted, SignInTypeOK
    <3>. QED  BY <2>2, <2>15, <3>4 DEF Completes, SignInTypeOK, estates, faults
  <2>16. CASE Login
    <3>1. handler \in Handler
      BY <2>16 DEF Login, SignInTypeOK
    <3>2. Session(handler, {}) \in SessionType
      BY <3>1, SessionTyped
    <3>. QED  BY <2>2, <2>16, <3>2 DEF Login, SignInTypeOK, estates, faults
  <2>17. CASE Ends
    BY <2>2, <2>17 DEF Ends, SignInTypeOK, estates, faults
  <2>18. CASE Lapses
    BY <2>2, <2>18 DEF Lapses, SignInTypeOK, estates, faults
  <2>19. Tabs \subseteq Tab
    BY DEF Tabs, Tab
  <2>. QED
    BY <2>5, <2>6, <2>7, <2>8, <2>9, <2>10, <2>11, <2>12, <2>13, <2>14, <2>15, <2>16, <2>17,
       <2>18, <2>19 DEF SignInNext, SignsIn, Disturbs
<1>. QED  BY <1>1, <1>2, PTL DEF SignInSpec

-----------------------------------------------------------------------------
(* A session carries what its provider asserted, narrowed to the groups    *)
(* rules named when it was issued.                                         *)
SessionSound ==
  session # None => session.carried = session.asserted \cap session.named

LEMMA IssuedSound ==
  ASSUME NEW h, NEW asserted
  PROVE  Session(h, asserted).carried = Session(h, asserted).asserted \cap Session(h, asserted).named
BY DEF Session, Known

LEMMA SessionsSound == SignInSpec => []SessionSound
<1>1. SignInInit => SessionSound
  BY DEF SignInInit, SessionSound
<1>2. ASSUME SessionSound, [SignInNext]_vars
      PROVE  SessionSound'
  <2>. USE <1>2
  <2>1. CASE UNCHANGED session
    BY <2>1 DEF SessionSound
  <2>2. CASE session' = None
    BY <2>2 DEF SessionSound
  <2>3. ASSUME NEW t \in Tab, Completes(t) PROVE SessionSound'
    <3>1. CASE UNCHANGED session
      BY <3>1, <2>1
    <3>2. CASE \E h, asserted : session' = Session(h, asserted)
      BY <3>2, IssuedSound DEF SessionSound
    <3>. QED  BY <2>3, <3>1, <3>2 DEF Completes
  <2>4. CASE Login
    BY <2>4, IssuedSound DEF Login, SessionSound
  <2>5. Tabs \subseteq Tab
    BY DEF Tabs, Tab
  <2>6. CASE Refresh \/ Start \/ Merge \/ CheckoutBegins \/ CheckoutEnds \/ IssuerMoves
             \/ SecretMoves \/ Lapses \/ \E t \in Tab : Begin(t) \/ Returns(t) \/ TurnedAway(t)
    BY <2>1, <2>6 DEF Refresh, Start, Merge, CheckoutBegins, CheckoutEnds, IssuerMoves,
       SecretMoves, Lapses, Begin, Returns, TurnedAway, browsers
  <2>7. CASE Crash \/ Ends
    BY <2>1, <2>2, <2>7 DEF Crash, Ends
  <2>8. CASE UNCHANGED vars
    BY <2>1, <2>8 DEF vars, browsers
  <2>. QED
    BY <2>3, <2>4, <2>5, <2>6, <2>7, <2>8 DEF SignInNext, SignsIn, Disturbs
<1>. QED  BY <1>1, <1>2, PTL DEF SignInSpec

(* A session is admitted as its person's whole membership would be, until  *)
(* a rule names a group of theirs no rule named when they signed in.       *)
THEOREM AdmittedAsHeldAlways == SignInSpec => []AdmittedAsHeld
<1>1. SessionSound => AdmittedAsHeld
  <2>. SUFFICES ASSUME SessionSound, handler # None, session # None,
                       session.asserted \cap Named(handler.groups) \subseteq session.named
                PROVE  Admitted = Resolve(handler, person, session.asserted)
    BY DEF AdmittedAsHeld
  <2>1. session.carried \cap Named(handler.groups) = session.asserted \cap Named(handler.groups)
    BY DEF SessionSound
  <2>. QED  BY <2>1, ResolveByNamed DEF Admitted
<1>. QED  BY <1>1, SessionsSound, PTL

=============================================================================
