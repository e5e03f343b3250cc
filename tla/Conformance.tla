------------------------------ MODULE Conformance ------------------------------
(***************************************************************************)
(* One row's conformance from one build of the documents to the next       *)
(* (internal/console build.go, judge.go, activations.go): a build loads    *)
(* the library against the designated Schema Registry version, gathers     *)
(* the row's evidence, judges it, and reports what activating each other   *)
(* installed version would change; an operator designates another version  *)
(* and the next build judges under it.                                     *)
(*                                                                         *)
(* A scene fixes a library, the installed versions and the topology.  What *)
(* the Service sends and the collectors run is a world chosen at the       *)
(* start; which readings come back short is chosen at the first build.     *)
(***************************************************************************)
EXTENDS RegistryImpact, Functions

CONSTANTS
  Scene, Library, Installed, Topology, World,   \* by scene; World gives a set
  Environment,                                   \* the row's Environment
  Designation,     \* the versions an operator may designate, installed or not
  MaxLost,         \* Bound: how many readings of one build come back short
  NoDoc            \* nothing has been built yet

(* An installed version has passed its loader, and a reference in it       *)
(* carries no members.  The library has passed its own: its ids are        *)
(* unique, its signals are OpenTelemetry's, and a schema covers some.      *)
(* Whatever arrives carries an attribute, its Service's name at least.     *)
ASSUME ConformanceAssumption ==
  \A s \in Scene :
    /\ \A v \in DOMAIN Installed[s] :
         /\ v # NoVersion /\ Valid(Installed[s][v])
         /\ \A a \in Entries(Installed[s][v]) : ~a.defines => a.members = {}
    /\ \A r, q \in Library[s] : r.id = q.id => r = q
    /\ \A r \in Library[s] :
         /\ r.signal # NoAssertion => r.signal.kind \in Signals
         /\ r.schema # NoAssertion => r.schema.signals \in (SUBSET Signals) \ {{}}
    /\ \A w \in World[s] : \A k \in w.arrived : \E c \in w.carries : c[1] = k

VARIABLES
  scene, world,
  active,    \* the designated Schema Registry version, or NoVersion
  lost,      \* the answers that came back short when the documents were built
  doc        \* the row's part of the documents

vars == <<scene, world, active, lost, doc>>

-----------------------------------------------------------------------------
(* What a build is of.                                                     *)

versionsAt(at) == resolved(Library[scene], Installed[scene], at)

LibAt(at) ==
  LET ref == ActiveSchemaRegistry(at, versionsAt(at))
  IN  [requirements |-> Library[scene], versions |-> versionsAt(at), active |-> ref,
       activeRegistry |-> IF ref = NoVersion THEN NoVersion ELSE Installed[scene][ref]]

Loads ==
  /\ LibraryLoads(Library[scene], Installed[scene], active)
  /\ ActiveReads(active, Installed[scene], versionsAt(active))

EvidenceUnder(at, short) == Gathered(LibAt(at), Topology[scene], Environment, world, short)

(* One candidate for every installed version but the active one.           *)
candidates(ev) ==
  [v \in DOMAIN Installed[scene] \ {active} |->
     registryReport(LibAt(active), Environment, ev, Installed[scene], active, v)]

Documents(ev) ==
  [active   |-> active,
   findings |-> Evaluate(Environment, Library[scene], ev),
   reports  |-> candidates(ev)]

-----------------------------------------------------------------------------
(* The answers of a build that can come back short: one the backend does   *)
(* not give, or one cut by a cap, which still holds something.             *)

Blind     == [blind |-> TRUE, drops |-> {}]
Cut(what) == [blind |-> FALSE, drops |-> what]

Cuts(truth) == {Cut(d) : d \in {e \in {{}} \cup {{x} : x \in truth} : truth \ e # {}}}

Shorts(key, truth) == {<<key, h>> : h \in {Blind} \cup Cuts(truth)}

ShortPresence(windows) == {<<<<"observed", w>>, Blind>> : w \in windows}
ShortNames(names)      == UNION {Shorts(<<"names", k[1], k[2]>>, names[k].of) : k \in DOMAIN names}
ShortGroups(groups)    == UNION {Shorts(<<"groups", k[2]>>, groups[k].of) : k \in DOMAIN groups}
ShortValues(values)    ==
  UNION {Shorts(<<"values", k[1], k[2], k[3]>>, values[k].of) : k \in DOMAIN values}
ShortTap(live)         ==
  UNION {Shorts(<<"live", w>>, live[w].of) \cup {<<<<"fed", w>>, Blind>>} : w \in DOMAIN live}
Unreported(c)          == {<<<<"collector", c>>, h>> : h \in {Blind, Cut({world.configs[c]})}}

ShortAnswers ==
  LET lib == LibAt(active)
      ev  == EvidenceUnder(active, << >>)
      of  == UNION {t.satisfying : t \in Range(Topology[scene].tiers)}
  IN  ShortPresence(Windows(lib, Environment))
        \cup ShortNames(ev.names) \cup ShortGroups(ev.groups) \cup ShortValues(ev.values)
        \cup ShortTap(ev.live) \cup UNION {Unreported(c) : c \in of}

Lost(answers) ==
  [k \in {p[1] : p \in answers} |-> (CHOOSE p \in answers : p[1] = k)[2]]

Outages ==
  {Lost({})} \cup {Lost({p}) : p \in ShortAnswers}
    \cup (IF MaxLost < 2 THEN {} ELSE {Lost({p, q}) : p, q \in ShortAnswers})

-----------------------------------------------------------------------------

Init ==
  /\ scene \in Scene
  /\ world \in World[scene]
  /\ active \in {NoVersion} \cup DOMAIN Installed[scene]
  /\ lost = << >>
  /\ doc = NoDoc

(* Bound: only the first build meets an outage of its own; a later one     *)
(* meets the same.                                                         *)
Builds ==
  /\ Loads
  /\ \E short \in (IF doc = NoDoc THEN Outages ELSE {lost}) :
       /\ lost' = short
       /\ doc' = Documents(EvidenceUnder(active, short))
  /\ UNCHANGED <<scene, world, active>>

(* An activation merged.  Bound: one between two builds.                   *)
Activates(v) ==
  /\ doc # NoDoc /\ doc.active = active
  /\ v # active
  /\ active' = v
  /\ UNCHANGED <<scene, world, lost, doc>>

Next == Builds \/ \E v \in Designation[scene] : Activates(v)

Spec == Init /\ [][Next]_vars

-----------------------------------------------------------------------------
(* What is true of the world, stated without a reading.                    *)

GroupArrived(g, a) ==
  LocatedOn(g, a.signals) => g.metricName \in metricsIn(world, a.window)

ScopeReaches(g, a) == g.id \in a.scope.groups \/ Taken(g, a.scope) # {}

EverythingArrived(reg, a) ==
  /\ a.signals \subseteq arrivedIn(world, a.window)
  /\ \A g \in reg.groups : ScopeReaches(g, a) => GroupArrived(g, a)

RequiredOf(reg, a) ==
  {e.key : e \in {d \in UNION {Taken(g, a.scope) : g \in {h \in reg.groups : GroupArrived(h, a)}} :
                    d.level = "required"}}

MembersOf(reg, key) == UNION {d.members : d \in {e \in definitions(reg) : e.key = key}}

WellShaped(reg, a) ==
  \A key \in RequiredOf(reg, a) :
    /\ \E s \in a.signals : key \in namesIn(world, s, a.window)
    /\ MembersOf(reg, key) # {} =>
         \A s \in a.signals : valuesIn(world, s, a.window, key) \subseteq MembersOf(reg, key)

Conforms(reg, a) == EverythingArrived(reg, a) /\ WellShaped(reg, a)

-----------------------------------------------------------------------------
(* Who is asked about.                                                     *)

Built       == doc # NoDoc
Landed      == {r \in Library[scene] : r \in landedSchema(LibAt(doc.active), Environment)}
Resolves(r) == ~Tracking(r) \/ doc.active # NoVersion
Registry(r) == Installed[scene][IF Tracking(r) THEN doc.active ELSE r.schema.pin]
VerdictOf(r) == CHOOSE f \in doc.findings : f.requirement = r.id /\ Scored(f)

NamesKeys(a) == {<<"names", s, a.window>> : s \in a.signals}
BlindOn(a)   == \E k \in NamesKeys(a) \cap DOMAIN lost : lost[k].blind
CutOn(a)     == \E k \in NamesKeys(a) \cap DOMAIN lost : ~lost[k].blind

-----------------------------------------------------------------------------
(* Properties.                                                             *)

(* What the cross names is so of every collector that answered, not of the *)
(* one that happened to be read: a broken pipeline is configured on all of *)
(* them, and what is said not configured is on none.  derive.go says why:  *)
(* "Newest, majority and worst each convert 'we do not have one answer'    *)
(* into an answer, and the row is singular precisely because one answer is *)
(* what it means".                                                         *)
Answering == {c \in matched(Topology[scene], Environment, world, lost) :
                reported(world, lost, c).known}

Configured(a, c) == checkConfig(a, [known |-> TRUE, pipelines |-> world.configs[c]]) = "yes"

Delivered(a) == /\ a.present => a.kind \in arrivedIn(world, a.window)
                /\ a.floors => a.kind \in arrivedIn(world, a.window) \cap world.enough

CrossIsTrue ==
  Built => \A r \in Applying(LibAt(doc.active), Environment) \ SchemaRequirements(Library[scene]) :
    LET o == VerdictOf(r).outcome IN
    /\ o \in {"broken_pipeline", "not_configured", "not_delivered"} => ~Delivered(r.signal)
    /\ o = "ungoverned" => Delivered(r.signal)
    /\ world.override = NoOverride =>
         /\ o = "broken_pipeline" => Answering # {} /\ \A c \in Answering : Configured(r.config, c)
         /\ o \in {"not_configured", "misconfigured", "ungoverned"}
              => Answering # {} /\ \A c \in Answering : ~Configured(r.config, c)

(* A verdict reached against the Schema Registry is the truth of the       *)
(* telemetry, whichever readings came back cut and whichever values and    *)
(* groups could not be read: a pass conforms, and a red does not.  Two     *)
(* blind spots of the code are set aside here and told in the README: a    *)
(* covered signal that could not be read while another was, and names cut  *)
(* on one signal that hide an attribute another carries.                   *)
LandedIsTrue ==
  \A r \in Landed :
    Resolves(r) =>
      LET a == r.schema  o == VerdictOf(r).outcome IN
      /\ o = "compliant" /\ ~CutOn(a) => Conforms(Registry(r), a)
      /\ o = "misconfigured" /\ ~BlindOn(a) => ~WellShaped(Registry(r), a)
      /\ o = "not_delivered" => ~EverythingArrived(Registry(r), a)

(* A live requirement passes on evidence alone: the tap was fed, nothing   *)
(* failed to reach it, the records were whole, and none is a breach.       *)
(* schemalive.go: "a dead tap must not read as clean".                     *)
Breaches(a) == {r \in world.tap.records : CoveredBy(r, a) /\ liveLevelOf(r) = "required"}

LiveIsTrue ==
  \A r \in {q \in SchemaRequirements(Applying(LibAt(doc.active), Environment)) :
              q.placement = "live"} :
    LET o == VerdictOf(r).outcome IN
    /\ o = "compliant" => world.tap.sent /\ ~world.tap.sendFailed /\ Breaches(r.schema) = {}
    /\ o = "misconfigured" => Breaches(r.schema) # {}
    /\ o # "compliant" /\ lost = << >> =>
         ~world.tap.sent \/ world.tap.sendFailed \/ Breaches(r.schema) # {}

(* Of either placement, what a verdict says is so.                         *)
VerdictIsTrue == Built => LandedIsTrue /\ LiveIsTrue

(* Drift is told of a scope that passes its pin and fails the active       *)
(* version, and of no other; and when every reading was whole it is always *)
(* told, which needs the readings to have been planned for a version the   *)
(* requirement does not name.  schemadrift.go: "calling a reading gap      *)
(* drift would manufacture a red out of a blind spot".                     *)
DriftIsProved ==
  Built => \A r \in Landed :
    ~Tracking(r) =>
      LET a == r.schema
          told  == VerdictOf(r).outcome = "library_drift"
          moved == /\ doc.active # NoVersion
                   /\ Conforms(Registry(r), a) /\ ~Conforms(Installed[scene][doc.active], a)
      IN  /\ told /\ ~BlindOn(a) /\ ~CutOn(a) => moved
          /\ moved /\ lost = << >> => told

(* Nobody is blamed for a blind spot that is not there, and a blind spot   *)
(* is never passed over: with every reading whole no landed verdict is     *)
(* unknown, and with a covered signal unread none passes.  readScope:      *)
(* "being blind on one leg of a scope is not a pass on that scope".        *)
UnknownHasACause ==
  Built => \A r \in Landed :
    /\ lost = << >> /\ Resolves(r) => VerdictOf(r).outcome # "unknown"
    /\ ~Resolves(r) \/ BlindOn(r.schema) => ~Passing(VerdictOf(r).outcome)

(* What an operator decides on comes true: an attribute the report of a    *)
(* version says a Service newly fails on is one it is failing on in the    *)
(* next build under that version, over the same readings; and of a         *)
(* tracking requirement, where the report was computed with a reading,     *)
(* that it stops passing was in the report, and so was every attribute it  *)
(* fails on anew, where the version asks for no group reading that the     *)
(* build did not take: it took those the active version asks for, and the  *)
(* README tells what that hides.  registry.go: "how many Services stop     *)
(* passing" is "the reading that decides an activation".                   *)
NowOf(r) == CHOOSE f \in doc'.findings : f.requirement = r.id /\ Scored(f)

AsksNoMore(r, v) ==
  groupReadings(r.schema, Installed[scene][v]) \subseteq groupPlan(LibAt(doc.active), Environment)

Foretold(v) ==
  LET report == doc.reports[v] IN
  /\ \A key \in report.failing.attributes :
       \E f \in doc'.findings : Scored(f) /\ ~Passing(f.outcome) /\ key \in f.missing
  /\ report.read => \A r \in {q \in Landed : Tracking(q)} :
       ~Passing(NowOf(r).outcome) =>
         /\ AsksNoMore(r, v) =>
              NowOf(r).missing \ VerdictOf(r).missing \subseteq report.failing.attributes
         /\ Passing(VerdictOf(r).outcome) =>
              \/ r.id \in report.failing.requirements
              \/ NowOf(r).missing \cap report.failing.attributes # {}

ReportForetells ==
  [][doc' # doc /\ Built /\ active \in DOMAIN doc.reports /\ lost' = lost => Foretold(active)]_vars

(* registry.go: newlyFailing is "the Services that pass a schema           *)
(* requirement under the active version and fail it under the candidate".  *)
ReportNamesOnlyStoppers ==
  [][doc' # doc /\ Built /\ active # doc.active /\ lost' = lost =>
       \A r \in Landed : r.id \in doc.reports[active].failing.requirements =>
         ~Passing(NowOf(r).outcome)]_vars

=============================================================================
