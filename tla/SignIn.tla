--------------------------------- MODULE SignIn --------------------------------
(***************************************************************************)
(* Who may sign in to an Instance, how, and what each of them owns: the    *)
(* auth handler the poll rebuilds from three files of the estate           *)
(* (internal/instance), and the sign-ins and sessions that outlive a       *)
(* handler (pkg/auth).  Nothing of a sign-in is stored in the Instance:    *)
(* the browser carries the attempt and the session, signed.  People share  *)
(* nothing but the handler, so a behaviour follows one of them.            *)
(*                                                                         *)
(* A scene says what moves in a behaviour beside the estate, its poll and  *)
(* one sign-in at a time:                                                  *)
(*   "faults"  the issuer, the client secret and the process               *)
(*   "tabs"    the person is in two tabs, and attempts take too long       *)
(***************************************************************************)
EXTENDS Integers, Sequences, FiniteSets

CONSTANTS
  Person,     \* people, by the address that is the join key into users.yaml
  Minted,     \* the person a loopback Instance mints, "bootstrap@localhost"
  Owner,      \* the Owners a team tree may hold
  Nobody,     \* the estate has no place for them
  Group,      \* the groups an identity provider may assert
  Holds,      \* Holds[p]: the groups the provider knows p to be in
  Name,       \* what providers are called
  Absent,     \* a file that is not there
  None,       \* no handler, no session, no attempt, no cookie
  Refused,    \* the answer of a read that fails
  Commits,    \* the commits of the estate, oldest first
  Loopback,   \* the console is bound to a loopback address
  TLS,        \* the external URL begins with https://
  Basic,      \* the deployment offers basic auth
  KeepsKey,   \* serve has a session key file
  Scenes      \* the scenes of a run

Tab == {1, 2}

Rule == [group : Group, owner : Owner]
Offer == [name : Name, kind : {"basic", "oidc", "saml"}, claim : BOOLEAN]

(* What a commit holds: the Owners of the tree and the first Owner of its  *)
(* first root Team; who is named, with the Owner they act as and whether   *)
(* they have a password; the providers and the mapping of groups to Owners.*)
TeamsFile == [owners : SUBSET Owner, root : Owner \cup {Nobody}]
UserEntry == [owner : Owner, password : BOOLEAN]
UsersFile == UNION {[D -> UserEntry] : D \in SUBSET Person}
ProvidersFile == [offers : Seq(Offer), groups : Seq(Rule)]
Commit == [teams : TeamsFile \cup {Absent}, users : UsersFile \cup {Absent},
           auth : ProvidersFile \cup {Absent}]

(* The auth handler: what it placed its people by.                         *)
Handler == [users : UsersFile, offers : SUBSET Offer, groups : Seq(Rule)]

ASSUME SignInAssumption ==
  /\ Holds \in [Person -> SUBSET Group]
  /\ Minted \in Person
  /\ Nobody \notin Owner
  /\ "basic" \in Name
  /\ Absent \notin TeamsFile /\ Absent \notin UsersFile /\ Absent \notin ProvidersFile
  /\ None \notin Handler
  /\ \A x \in {Loopback, TLS, Basic, KeepsKey} : x \in BOOLEAN
  /\ Commits # <<>>
  /\ Commits \in Seq(Commit)

VARIABLES
  scene,
  person,     \* who signs in
  main,       \* the estate's branch
  target,     \* the commit the checkout is being moved to
  head,       \* the commit the checkout was last whole at
  phase,      \* the process is "down" or "up"
  handler,    \* Server.authz
  attempt,    \* the sign-in under way in each tab of the browser
  cookie,     \* the tab whose attempt the browser's state cookie anchors
  session,    \* the browser's session cookie
  reachable,  \* the issuer answers
  placed      \* the client secret's file is in the secret directory

estates == <<main, target, head>>
browsers == <<attempt, cookie, session>>
faults == <<reachable, placed>>
vars == <<scene, person, estates, phase, handler, browsers, faults>>

-----------------------------------------------------------------------------
(* Groups.Owner, Groups.Known and Resolve.                                 *)

Hits(rules, asserted) == {i \in DOMAIN rules : rules[i].group \in asserted}

(* "Order is authority.  The first authored rule whose group the identity  *)
(* carries wins".                                                          *)
OwnerOf(rules, asserted) ==
  IF Hits(rules, asserted) = {} THEN Nobody
  ELSE rules[CHOOSE i \in Hits(rules, asserted) : \A j \in Hits(rules, asserted) : i <= j].owner

Named(rules) == {rules[i].group : i \in DOMAIN rules}

KnownPlacing(rules, asserted) ==         \* mutant: the session carries only the group that placed
  {g \in asserted \cap Named(rules) : OwnerOf(rules, {g}) = OwnerOf(rules, asserted)}

Known(rules, asserted) == asserted \cap Named(rules)

(* users.yaml wins wherever it names the email.                            *)
Resolve(h, p, asserted) ==
  IF p \in DOMAIN h.users THEN h.users[p].owner
  ELSE OwnerOf(h.groups, Known(h.groups, asserted))

(* What Require answers a request with: it re-resolves what the session    *)
(* carries under the handler of the moment.                                *)
Admitted ==
  IF handler = None \/ session = None THEN Nobody
  ELSE Resolve(handler, person, session.carried)

-----------------------------------------------------------------------------
(* Server.refreshAuth: the three files, then NewHandler.                   *)

RootOwner(teams) == IF teams.root \in teams.owners THEN teams.root ELSE Nobody

(* LoadUsers, and the one sign-in minted where nobody is named.            *)
Users(teams, users) ==
  IF users # Absent THEN users
  ELSE IF Loopback /\ RootOwner(teams) # Nobody
       THEN [p \in {Minted} |-> [owner |-> RootOwner(teams), password |-> TRUE]]
       ELSE <<>>

UsersLoad(teams, users) ==
  LET named == Users(teams, users)
  IN  DOMAIN named # {} /\ \A p \in DOMAIN named : named[p].owner \in teams.owners

(* "An estate that declares nothing offers basic auth alone".              *)
Providers(auth) ==
  IF auth # Absent THEN auth
  ELSE [offers |-> <<[name |-> "basic", kind |-> "basic", claim |-> FALSE]>>, groups |-> <<>>]

BasicLoads(offer) == offer.kind = "basic" /\ Basic /\ ~offer.claim

(* "A named secret nothing answers is a load error".                       *)
OIDCLoads(offer) == offer.kind = "oidc" /\ placed

(* The cookie that carries an attempt across a form post needs HTTPS.      *)
SAMLLoads(offer) == offer.kind = "saml" /\ TLS

OfferLoads(offer) == BasicLoads(offer) \/ OIDCLoads(offer) \/ SAMLLoads(offer)

ProvidersLoad(teams, auth) ==
  LET offers == Providers(auth).offers
      rules  == Providers(auth).groups
  IN  /\ offers # <<>>
      /\ \A i \in DOMAIN offers : OfferLoads(offers[i])
      /\ \A i, j \in DOMAIN offers : offers[i].name = offers[j].name => i = j
      /\ \A i \in DOMAIN rules : rules[i].owner \in teams.owners
      /\ \A i, j \in DOMAIN rules : rules[i].group = rules[j].group => i = j
      /\ rules # <<>> => \E i \in DOMAIN offers : offers[i].claim

Loaded(teams, users, auth) ==
  IF teams = Absent THEN Refused
  ELSE IF ~UsersLoad(teams, users) \/ ~ProvidersLoad(teams, auth) THEN Refused
  ELSE [users  |-> Users(teams, users),
        offers |-> {Providers(auth).offers[i] : i \in DOMAIN Providers(auth).offers},
        groups |-> Providers(auth).groups]

(* Each file a checkout changes is found as it was, unlinked, or as it     *)
(* will be; git may write them in any order.                               *)
Found(file) ==
  {Commits[head][file], Commits[target][file]} \cup
    (IF Commits[head][file] = Commits[target][file] THEN {} ELSE {Absent})

LoadedAt(n) == Loaded(Commits[n].teams, Commits[n].users, Commits[n].auth)

-----------------------------------------------------------------------------
NoAttempts == [t \in Tab |-> None]

SignInInit ==
  /\ scene \in Scenes
  /\ person \in Person
  /\ main = 1 /\ target = 1 /\ head = 1
  /\ placed = TRUE /\ reachable = TRUE
  /\ phase = "down"
  /\ handler = None
  /\ attempt = NoAttempts
  /\ cookie = None
  /\ session = None

(* People merge; the checkout moves straight to the branch's commit.       *)
Merge ==
  /\ main < Len(Commits) /\ (scene = "tabs" => main = 1)
  /\ main' = main + 1
  /\ UNCHANGED <<target, head, phase, handler, browsers, faults>>

CheckoutBegins ==
  /\ phase = "up" /\ target = head /\ head < main
  /\ target' = main
  /\ UNCHANGED <<main, head, phase, handler, browsers, faults>>

CheckoutEnds ==
  /\ phase = "up" /\ head # target
  /\ head' = target
  /\ UNCHANGED <<main, target, phase, handler, browsers, faults>>

Reads(teams, users, auth) ==
  handler' = IF Loaded(teams, users, auth) = Refused THEN handler ELSE Loaded(teams, users, auth)

RefreshWhileMoving ==                    \* mutant: a head that has not moved is not read again
  /\ phase = "up"
  /\ IF head = target THEN UNCHANGED handler
     ELSE \E teams \in Found("teams"), users \in Found("users"), auth \in Found("auth") :
            Reads(teams, users, auth)
  /\ UNCHANGED <<estates, phase, browsers, faults>>

(* The poll's refreshAuth.  "A failure keeps the previous answers".        *)
Refresh ==
  /\ phase = "up"
  /\ \E teams \in Found("teams"), users \in Found("users"), auth \in Found("auth") :
       Reads(teams, users, auth)
  /\ UNCHANGED <<estates, phase, browsers, faults>>

(* Start takes a snapshot of its own and refuses what does not load: the   *)
(* process goes down again, and is started again.                          *)
Start ==
  /\ phase = "down"
  /\ head' = main /\ target' = main
  /\ LoadedAt(main) # Refused
  /\ handler' = LoadedAt(main)
  /\ phase' = "up"
  /\ UNCHANGED <<main, browsers, faults>>

(* A callback under way dies with the process; a key drawn at start signs  *)
(* everyone out and disowns their attempts.                                *)
Crash ==
  /\ phase = "up"
  /\ phase' = "down" /\ handler' = None
  /\ attempt' = [t \in Tab |->
                   IF attempt[t] # None /\ attempt[t].step = "back" THEN None ELSE attempt[t]]
  /\ cookie' = IF KeepsKey THEN cookie ELSE None
  /\ session' = IF KeepsKey THEN session ELSE None
  /\ UNCHANGED <<estates, faults>>

IssuerMoves == reachable' = ~reachable /\ UNCHANGED <<estates, phase, handler, browsers, placed>>

SecretMoves == placed' = ~placed /\ UNCHANGED <<estates, phase, handler, browsers, reachable>>

-----------------------------------------------------------------------------
(* Handler.start, Handler.callback, Handler.login and Handler.logout.      *)

Redirects(h) == {o \in h.offers : o.kind # "basic"}

(* The console sends to sign in whom a request did not admit.  A tab that  *)
(* begins leaves the attempt it was in, and its state cookie replaces the  *)
(* browser's.  (Discovery is cached in a provider, so whether an issuer    *)
(* that is down stops an attempt here is left open.)                       *)
Begin(t) ==
  /\ phase = "up" /\ person # Minted
  /\ Admitted = Nobody
  /\ \E o \in Redirects(handler) :
       attempt' = [attempt EXCEPT ![t] =
                     [step |-> "away", name |-> o.name, kind |-> o.kind, held |-> None]]
  /\ cookie' = t
  /\ UNCHANGED <<estates, phase, handler, session, faults>>

Away(t) == phase = "up" /\ attempt[t] # None /\ attempt[t].step = "away"

Anchored(t) ==
  /\ cookie = t
  /\ \E o \in Redirects(handler) : o.name = attempt[t].name

(* The provider sends the browser back, and the request is answered by the *)
(* handler of the moment to its end.                                       *)
Returns(t) ==
  /\ Away(t) /\ Anchored(t)
  /\ attempt' = [attempt EXCEPT ![t].step = "back", ![t].held = handler]
  /\ UNCHANGED <<estates, phase, handler, cookie, session, faults>>

(* "this sign-in attempt did not start here, or took longer than ten       *)
(* minutes", and no such provider on this instance.                        *)
TurnedAway(t) ==
  /\ Away(t) /\ ~Anchored(t)
  /\ attempt' = [attempt EXCEPT ![t] = None]
  /\ UNCHANGED <<estates, phase, handler, cookie, session, faults>>

Session(h, asserted) ==
  [carried |-> Known(h.groups, asserted), asserted |-> asserted, named |-> Named(h.groups)]

(* Complete: the code exchanged at the issuer with the secret of the       *)
(* moment, or the assertion the browser posted.  What one kind of provider *)
(* sends back the other kind refuses.                                      *)
OIDCCompletes(offer, a) == offer.kind = "oidc" /\ a.kind = "oidc" /\ reachable /\ placed
SAMLCompletes(offer, a) == offer.kind = "saml" /\ a.kind = "saml"

Asserted(offer) == IF offer.claim THEN Holds[person] ELSE {}

(* Complete, Resolve and setSession.                                       *)
Completes(t) ==
  LET a == attempt[t] IN
  /\ phase = "up" /\ a # None /\ a.step = "back"
  /\ \E o \in Redirects(a.held) :
       /\ o.name = a.name
       /\ IF /\ OIDCCompletes(o, a) \/ SAMLCompletes(o, a)
             /\ Resolve(a.held, person, Asserted(o)) # Nobody
          THEN /\ session' = Session(a.held, Asserted(o))
               /\ cookie' = None
          ELSE UNCHANGED <<session, cookie>>
  /\ attempt' = [attempt EXCEPT ![t] = None]
  /\ UNCHANGED <<estates, phase, handler, faults>>

(* Basic auth asserts no group, and Resolve finds whom it authenticated.   *)
Login ==
  /\ phase = "up" /\ Admitted = Nobody
  /\ \E o \in handler.offers : o.kind = "basic"
  /\ person \in DOMAIN handler.users /\ handler.users[person].password
  /\ session' = Session(handler, {})
  /\ UNCHANGED <<estates, phase, handler, attempt, cookie, faults>>

(* Twelve hours, or the browser's owner signing out.                       *)
Ends ==
  /\ session # None
  /\ session' = None
  /\ UNCHANGED <<estates, phase, handler, attempt, cookie, faults>>

(* The ten minutes of the state cookie, which the browser keeps.           *)
Lapses ==
  /\ cookie # None
  /\ cookie' = None
  /\ UNCHANGED <<estates, phase, handler, attempt, session, faults>>

-----------------------------------------------------------------------------
Tabs == IF scene = "tabs" THEN Tab ELSE {1}

SignsIn ==
  \/ \E t \in Tabs : Begin(t) \/ Returns(t) \/ TurnedAway(t) \/ Completes(t)
  \/ Login
  \/ Ends

Disturbs ==
  \/ Merge \/ CheckoutBegins \/ CheckoutEnds
  \/ scene = "faults" /\ (Crash \/ IssuerMoves \/ SecretMoves)
  \/ scene = "tabs" /\ Lapses

SignInNext ==
  /\ UNCHANGED <<scene, person>>
  /\ \/ Refresh
     \/ Start
     \/ SignsIn
     \/ Disturbs

(* The poll ticks, the process is started again, the source checks out     *)
(* what it began to, and a session lasts twelve hours.  A person sent away *)
(* comes back before the cookie lapses, and waits for the answer, some of  *)
(* the times they try.                                                     *)
Step(A) == UNCHANGED <<scene, person>> /\ A

SignInFairness ==
  /\ WF_vars(Step(Refresh))
  /\ WF_vars(Step(Start))
  /\ WF_vars(Step(CheckoutBegins \/ CheckoutEnds))
  /\ WF_vars(Step(Begin(1)))
  /\ SF_vars(Step(Returns(1)))
  /\ SF_vars(Step(Completes(1)))
  /\ WF_vars(Step(Ends))

SignInSpec == SignInInit /\ [][SignInNext]_vars /\ SignInFairness

-----------------------------------------------------------------------------
AttemptType == [step : {"away", "back"}, name : Name, kind : {"oidc", "saml"},
                held : Handler \cup {None}]
SessionType == [carried : SUBSET Group, asserted : SUBSET Group, named : SUBSET Group]

(* Type invariant: a process that is up has a handler, which places its    *)
(* people in its own tree, and a callback under way holds one.             *)
SignInTypeOK ==
  /\ scene \in Scenes /\ person \in Person
  /\ main \in DOMAIN Commits /\ target \in 1 .. main /\ head \in 1 .. target
  /\ phase \in {"up", "down"}
  /\ handler \in Handler \cup {None} /\ (handler = None <=> phase = "down")
  /\ attempt \in [Tab -> AttemptType \cup {None}]
  /\ \A t \in Tab : attempt[t] # None /\ attempt[t].step = "back" => attempt[t].held # None
  /\ cookie \in Tab \cup {None}
  /\ session \in SessionType \cup {None}
  /\ reachable \in BOOLEAN /\ placed \in BOOLEAN

(* Carrying the named groups alone changes no answer: a session is         *)
(* admitted as the Owner its person's whole membership names under the     *)
(* handler of the moment, until a rule names a group of theirs that no     *)
(* rule named when they signed in.  "a rule added for a group a signed-in  *)
(* human holds but was not carrying applies at their next sign-in, while a *)
(* rule that repoints a group they are carrying applies at their next      *)
(* request" (pkg/auth/groups.go).                                          *)
AdmittedAsHeld ==
  \/ handler = None \/ session = None
  \/ Admitted = Resolve(handler, person, session.asserted)
  \/ (session.asserted \cap Named(handler.groups)) \ session.named # {}

(* What the estate at the head gives the person.                           *)
Due ==
  IF LoadedAt(head) = Refused THEN Nobody
  ELSE Resolve(LoadedAt(head), person, Holds[person])

Calm == phase = "up" /\ head = main /\ reachable /\ placed /\ LoadedAt(head) # Refused

(* "removing a user revokes them at their next request"                    *)
(* (pkg/auth/session.go), whatever a poll found in the middle of a         *)
(* checkout.                                                               *)
RemovalReaches == <>[]Calm => <>[](Due = Nobody => Admitted = Nobody)

(* And whom the estate places is admitted as it says, again and again.     *)
PlacedAreAdmitted ==
  <>[](Calm /\ person # Minted /\ Redirects(LoadedAt(head)) # {}) => []<>(Admitted = Due)

EstateDecides == RemovalReaches /\ PlacedAreAdmitted

=============================================================================
