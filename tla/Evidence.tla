-------------------------------- MODULE Evidence --------------------------------
(***************************************************************************)
(* Where the evidence of a row comes from: the requirements library and    *)
(* the Schema Registry versions its references resolve to                  *)
(* (internal/requirements), the Effective reading derived from the         *)
(* collectors on the first Tier of each Path (internal/conformance         *)
(* derive.go), and the telemetry readings planned and taken (schema.go).   *)
(*                                                                         *)
(* A world is what the readings are readings of:                           *)
(*   arrived, quiet   the signals that arrived, and those that did so too  *)
(*                    long ago for the short window                        *)
(*   enough           the signals whose volume and coverage reach a floor  *)
(*   carries          <<signal, attribute, value>> of what arrived         *)
(*   metrics          the names of the metrics that arrived                *)
(*   tap              the live-check tap's records, and how it was fed     *)
(*   configs          the pipelines each collector runs                    *)
(*   override         the row's authored pipelines, or NoOverride          *)
(* and lost says which answers came back short: a key maps to an answer    *)
(* that is blind, or cut by what it drops.                                 *)
(***************************************************************************)
EXTENDS Verdict, Sequences

CONSTANTS
  Collector,     \* the collectors of the estate reading
  NoOverride     \* the row's pipelines are not authored

-----------------------------------------------------------------------------
(* The library.  A requirement with a schema assertion references one      *)
(* version, the one it pins or, tracking head, the active one; a library   *)
(* with a reference that does not resolve does not load.                   *)

SchemaRequirements(requirements) == {r \in requirements : r.schema # NoAssertion}
Tracking(r)                      == r.schema.pin = TrackHead

Pins(requirements) ==
  {r.schema.pin : r \in {q \in SchemaRequirements(requirements) : ~Tracking(q)}}

ScopeResolves(scope, reg) ==
  /\ \A id \in scope.groups : Declares(reg, id)
  /\ \A ns \in scope.namespaces : CarriesNamespace(reg, ns)

LibraryLoads(requirements, installed, active) ==
  \A r \in SchemaRequirements(requirements) :
    IF Tracking(r)
    THEN DOMAIN installed # {} /\ (active # NoVersion => active \in DOMAIN installed)
    ELSE r.schema.pin \in DOMAIN installed /\ ScopeResolves(r.schema.scope, installed[r.schema.pin])

(* The active version is filed under head as well as under its own ref,    *)
(* and only where some reference tracks it.                                *)
resolved(requirements, installed, active) ==
  LET tracks == active # NoVersion /\ \E r \in SchemaRequirements(requirements) : Tracking(r)
      refs   == Pins(requirements) \cup (IF tracks THEN {active, TrackHead} ELSE {})
  IN  [ref \in refs |-> installed[IF ref = TrackHead THEN active ELSE ref]]

(* No version to judge drift against where nothing is designated or the    *)
(* library references no registry.  A designation nobody can read is no    *)
(* such case: it fails the build.                                          *)
ActiveSchemaRegistry(active, versions) ==
  IF versions = << >> THEN NoVersion ELSE active

ActiveReads(active, installed, versions) ==
  ActiveSchemaRegistry(active, versions) # NoVersion => active \in DOMAIN installed

-----------------------------------------------------------------------------
(* One answer: the truth, what is left of it when the reading is cut, or   *)
(* nothing but the knowledge that there is none.                           *)

Answer(lost, key, truth) ==
  CASE key \notin DOMAIN lost -> [known |-> TRUE, of |-> truth, truncated |-> FALSE]
    [] key \in DOMAIN lost /\ lost[key].blind -> [known |-> FALSE, of |-> {}, truncated |-> FALSE]
    [] OTHER -> [known |-> TRUE, of |-> truth \ lost[key].drops, truncated |-> TRUE]

arrivedIn(world, window) ==
  IF window = "short" THEN world.arrived \ world.quiet ELSE world.arrived

namesIn(world, kind, window) ==
  {c[2] : c \in {d \in world.carries : d[1] = kind /\ kind \in arrivedIn(world, window)}}

valuesIn(world, kind, window, attribute) ==
  {c[3] : c \in {d \in world.carries : d[1] = kind /\ d[2] = attribute
                                         /\ kind \in arrivedIn(world, window)}}

metricsIn(world, window) == IF "metrics" \in arrivedIn(world, window) THEN world.metrics ELSE {}

-----------------------------------------------------------------------------
(* The Effective reading of a row, from the collectors that satisfy the    *)
(* selector of the first Tier of some Path into the Environment.           *)

firstTiers(topology, environment) ==
  {p[1] : p \in {q \in topology.paths :
                   q # << >> /\ topology.tiers[q[1]].environment = environment}}

(* What the estate reading holds of a collector: nothing when it has left, *)
(* a reading that is not known when it is stale or reported no config.     *)
reported(world, lost, c) == Answer(lost, <<"collector", c>>, {world.configs[c]})

matched(topology, environment, world, lost) ==
  {c \in Collector : /\ ~reported(world, lost, c).truncated
                     /\ \E t \in firstTiers(topology, environment) :
                          topology.tiers[t].selector /\ c \in topology.tiers[t].satisfying}

NotKnown == [known |-> FALSE, pipelines |-> {}]

effectiveForFirst(topology, environment, world, lost) ==   \* mutant: one replica answers for all
  LET of == matched(topology, environment, world, lost) IN
  IF of = {} \/ \E c \in of : ~reported(world, lost, c).known
  THEN NotKnown
  ELSE [known |-> TRUE, pipelines |-> world.configs[CHOOSE c \in of : TRUE]]

effectiveFor(topology, environment, world, lost) ==
  LET of    == matched(topology, environment, world, lost)
      agree == \A c, d \in of : world.configs[c] = world.configs[d]
  IN  IF of = {} \/ ~agree \/ \E c \in of : ~reported(world, lost, c).known
      THEN NotKnown
      ELSE [known |-> TRUE, pipelines |-> world.configs[CHOOSE c \in of : TRUE]]

(* An authored row is taken as it stands.                                  *)
Derive(topology, environment, world, lost) ==
  IF world.override # NoOverride
  THEN [known |-> TRUE, pipelines |-> world.override]
  ELSE effectiveFor(topology, environment, world, lost)

-----------------------------------------------------------------------------
(* The plans.                                                              *)

Applying(lib, environment) == {r \in lib.requirements : AppliesTo(r, environment)}

Windows(lib, environment) ==
  {r.signal.window : r \in {q \in Applying(lib, environment) : q.signal # NoAssertion}}
    \cup {r.schema.window : r \in SchemaRequirements(Applying(lib, environment))}

landedSchema(lib, environment) ==
  {r \in SchemaRequirements(Applying(lib, environment)) : r.placement # "live"}

SchemaReadings(lib, environment) ==
  UNION {{Key(s, r.schema.window) : s \in r.schema.signals} : r \in landedSchema(lib, environment)}

SchemaLiveReadings(lib, environment) ==
  {r.schema.window : r \in {q \in SchemaRequirements(Applying(lib, environment)) :
                              q.placement = "live"}}

groupReadings(a, reg) ==
  {Key("metrics", a.window) : s \in {t \in scopedGroups(reg, a.scope) : LocatedOn(t.group, a.signals)}}

(* An attribute no name reading found buys no value reading.               *)
valueReadings(a, reg, ev) ==
  UNION {{ValueKey(s, a.window, d.attribute) :
            s \in {k \in a.signals : InUse(k, a.window, d.attribute, ev)}} :
         d \in {e \in demandsOf(reg, a.scope) : e.members # {}}}

(* The versions one requirement is judged under: its own and, where it can *)
(* fall behind the active version, that one.                               *)
JudgedUnderPin(lib, r) ==                \* mutant: only the pinned version is read for
  IF r.schema.pin \in DOMAIN lib.versions THEN {lib.versions[r.schema.pin]} ELSE {}

JudgedUnder(lib, r) ==
  (IF r.schema.pin \in DOMAIN lib.versions THEN {lib.versions[r.schema.pin]} ELSE {})
    \cup (IF lib.active # NoVersion /\ ~Tracking(r) /\ r.schema.pin # lib.active
          THEN {lib.activeRegistry} ELSE {})

groupPlan(lib, environment) ==
  UNION {UNION {groupReadings(r.schema, reg) : reg \in JudgedUnder(lib, r)} :
         r \in landedSchema(lib, environment)}

valuePlan(lib, environment, ev) ==
  UNION {UNION {valueReadings(r.schema, reg, ev) : reg \in JudgedUnder(lib, r)} :
         r \in landedSchema(lib, environment)}

-----------------------------------------------------------------------------
(* The readings, names before values.  A row no schema requirement applies *)
(* to gathers nothing, versions included.                                  *)

ObservedOf(lib, environment, world, lost) ==
  [w \in Windows(lib, environment) |->
     [s \in Signals |->
        LET r == Answer(lost, <<"observed", w>>, arrivedIn(world, w))
        IN  [known |-> r.known, present |-> s \in r.of, enough |-> s \in r.of \cap world.enough]]]

NamesOf(lib, environment, world, lost) ==
  [k \in SchemaReadings(lib, environment) |->
     Answer(lost, <<"names", k[1], k[2]>>, namesIn(world, k[1], k[2]))]

withActive(lib) ==
  IF lib.active = NoVersion THEN lib.versions
  ELSE [ref \in DOMAIN lib.versions \cup {lib.active} |->
          IF ref \in DOMAIN lib.versions THEN lib.versions[ref] ELSE lib.activeRegistry]

LiveAnswer(world, lost, w) ==
  LET r == Answer(lost, <<"live", w>>, world.tap.records)
  IN  [known |-> r.known, of |-> r.of, truncated |-> r.truncated,
       liveness |-> [known |-> <<"fed", w>> \notin DOMAIN lost,
                     sent |-> world.tap.sent, sendFailed |-> world.tap.sendFailed]]

NothingGathered == [versions |-> << >>, active |-> NoVersion,
                    names |-> << >>, groups |-> << >>, values |-> << >>, live |-> << >>]

GatherSchema(lib, environment, world, lost) ==
  LET names  == NamesOf(lib, environment, world, lost)
      values == valuePlan(lib, environment, [names |-> names])
  IN  IF SchemaReadings(lib, environment) = {} /\ SchemaLiveReadings(lib, environment) = {}
      THEN NothingGathered
      ELSE [versions |-> withActive(lib), active |-> lib.active, names |-> names,
            groups |-> [k \in groupPlan(lib, environment) |->
                          Answer(lost, <<"groups", k[2]>>, metricsIn(world, k[2]))],
            values |-> [k \in values |->
                          Answer(lost, <<"values", k[1], k[2], k[3]>>,
                                 valuesIn(world, k[1], k[2], k[3]))],
            live   |-> [w \in SchemaLiveReadings(lib, environment) |-> LiveAnswer(world, lost, w)]]

Gathered(lib, topology, environment, world, lost) ==
  LET schema == GatherSchema(lib, environment, world, lost) IN
  [effective |-> Derive(topology, environment, world, lost),
   observed  |-> ObservedOf(lib, environment, world, lost),
   versions  |-> schema.versions, active |-> schema.active, names |-> schema.names,
   groups    |-> schema.groups, values |-> schema.values, live |-> schema.live]

=============================================================================
