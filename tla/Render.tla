-------------------------------- MODULE Render --------------------------------
(***************************************************************************)
(* Compiling the estate at head (internal/renderer render.go, emit.go):    *)
(* every Tier's bound Blueprint becomes the artefact its collectors are    *)
(* served, a staged Tier's second one is rendered beside it, and either    *)
(* the whole tree comes out or the render is refused.                      *)
(*                                                                         *)
(* A head is a record of everything authored at one commit:                *)
(*   teams, lists, grants, catalogue      as Ownership and AllowList       *)
(*   components, blueprints               as Blueprint                     *)
(*   tiers, services, rollouts            as Topology                      *)
(*   telemetry, livecheck                 <<>> where the file is absent    *)
(* A rendered id is the sequence of its segments.  An artefact keeps what  *)
(* it wires and what it is stamped with; its comments, its YAML and the    *)
(* Supervisor's fixed capabilities are left out.                           *)
(***************************************************************************)
EXTENDS Topology

CONSTANTS
  FloorOrder,   \* FloorPolicy.Order, strictest class first
  Floors        \* FloorPolicy.Floors, by Environment and class

(* What of a head the loaders hand on: the tree, the sources, the policy.  *)
Tree(h)     == TreeOf(h.teams)
Sources(h)  == [components |-> h.components, blueprints |-> h.blueprints]
PolicyOf(h) == [lists |-> h.lists, grants |-> h.grants]

-----------------------------------------------------------------------------
(* The floor policy.                                                       *)

ladder == [development |-> 1, alpha |-> 2, beta |-> 3, stable |-> 4]

RankOf(class) == CHOOSE i \in DOMAIN FloorOrder : FloorOrder[i] = class

(* Cumulative: a stricter class needs at least a weaker one's floor.       *)
ValidFloors ==
  /\ FloorOrder \in Seq(Range(FloorOrder)) /\ FloorOrder # <<>> /\ IsInjective(FloorOrder)
  /\ \A env \in DOMAIN Floors :
       /\ DOMAIN Floors[env] \subseteq Range(FloorOrder)
       /\ \A c \in DOMAIN Floors[env] : Floors[env][c] \in DOMAIN ladder
       /\ \A c, d \in DOMAIN Floors[env] :
            RankOf(c) < RankOf(d) => ladder[Floors[env][c]] >= ladder[Floors[env][d]]

ASSUME RenderAssumption == ValidFloors

ClassesOn(h, tier) == {h.services[s].class : s \in Traversing(h, tier)}
Unranked(h, tier)  == ~(ClassesOn(h, tier) \subseteq Range(FloorOrder))

Weakest(classes) ==                      \* mutant: the ranks are compared the wrong way
  CHOOSE c \in classes : \A d \in classes : RankOf(d) <= RankOf(c)

Strictest(classes) == CHOOSE c \in classes : \A d \in classes : RankOf(c) <= RankOf(d)

(* The floor on a Tier: a singleton, or nothing where no floor is set.     *)
FloorFor(h, tier) ==
  LET env == h.tiers[tier].environment  classes == ClassesOn(h, tier)
  IN  IF classes = {} \/ env \notin DOMAIN Floors THEN {}
      ELSE {Floors[env][c] : c \in {Strictest(classes)} \cap DOMAIN Floors[env]}

(* Judged per component and signal, only for a signal the component is     *)
(* used for, and only where its level is a rung of the ladder.             *)
BelowFloor(c, signal, cat, floor) ==
  /\ Known(cat, c.class, c.type)
  /\ LET stability == Lookup(cat, c.class, c.type).stability
     IN  /\ signal \in DOMAIN stability /\ stability[signal] \in DOMAIN ladder
         /\ ladder[stability[signal]] < ladder[floor]

Breaches(h, tier, b) ==
  {used \in UNION {{s} \X ResolvedIn(h, b, LaneEntries(b, s)) : s \in BlueprintSignals} :
     \E floor \in FloorFor(h, tier) : BelowFloor(used[2], used[1], h.catalogue, floor)}

-----------------------------------------------------------------------------
(* Placing the components of a Blueprint under their rendered ids.         *)

RenderedID(c) == IF c.team = Unset THEN <<c.type>> \o c.name ELSE <<c.type, c.team>> \o c.name

StripProcessorID   == <<"attributes", "telecraft", "untrusted-hop">>
LiveCheckSamplerID == <<"probabilistic_sampler", "telecraft", "live-check">>
ExporterID         == <<"otlp", "telecraft", "live-check">>
Reserved           == {StripProcessorID, LiveCheckSamplerID, ExporterID}

Instances(h, b) == ResolvedIn(h, b, AllEntries(b))

CompID(c) == <<c.team, c.name>>

Dangling(h, b)  == \E e \in AllEntries(b) : ~Provided(h, b, e)
Collision(h, b) == \E c, d \in Instances(h, b) : RenderedID(c) = RenderedID(d) /\ CompID(c) # CompID(d)
Claimed(h, b)   == \E c \in Instances(h, b) : RenderedID(c) \in Reserved

(* The team that chose the type: a local is its Blueprint's.               *)
ChosenBy(c, team) == IF c.team = Unset THEN team ELSE c.team

OutsidePalette(h, b, team) ==
  \E c \in Instances(h, b) : ~Allows(PolicyOf(h), Tree(h), h.catalogue, ChosenBy(c, team), c.class, c.type)

-----------------------------------------------------------------------------
(* Compiling one lane.  A connector's side is its authored position.       *)

NoPipeline == [receivers |-> <<>>, processors |-> <<>>, exporters |-> <<>>]

Place(p, c) ==
  LET side == CASE c.class = "receiver"  -> "receivers"
                [] c.class = "processor" -> "processors"
                [] c.class = "exporter"  -> "exporters"
                [] c.class = "connector" /\ p.processors = <<>> /\ p.exporters = <<>> -> "receivers"
                [] c.class = "connector" /\ ~(p.processors = <<>> /\ p.exporters = <<>>) -> "exporters"
                [] OTHER -> "none"
  IN  IF side = "none" THEN p ELSE [p EXCEPT ![side] = Append(@, RenderedID(c))]

compileLane(est, b, l) ==
  FoldLeft(LAMBDA p, e : IF Provided(est, b, e) THEN Place(p, Resolve(est, b, e)) ELSE p,
           NoPipeline, b.lanes[l])

Wired(b) == {l \in BlueprintSignals : b.lanes[l] # <<>>}

(* What the config in git wires, before anything generated.                *)
Intended(h, b) == [l \in Wired(b) |-> compileLane(Sources(h), b, l)]

Astray(h, b) == \E l \in Lanes : \E c \in ResolvedIn(h, b, LaneEntries(b, l)) : Misplaced(l, c)

SideMissing(h, b) ==
  \E l \in Wired(b) : LET p == compileLane(Sources(h), b, l)
                      IN  p.receivers = <<>> \/ p.exporters = <<>>

-----------------------------------------------------------------------------
(* The generated parts, and the artefact.                                  *)

TapPipeline(l) == <<l, "telecraft", "live-check">>

(* Profiles are not teed.                                                  *)
Teed(h, t, b) == IF Written(t.livecheck) /\ Written(h.livecheck) THEN Wired(b) \ {"profiles"} ELSE {}

Strips(t, b) == Untrusted(t) /\ Wired(b) # {}

LanePipeline(h, t, b, l) ==
  LET p == compileLane(Sources(h), b, l)
  IN  IF Strips(t, b) THEN [p EXCEPT !.processors = <<StripProcessorID>> \o @] ELSE p

BranchUnstripped(h, t, b, l) ==          \* mutant: the teed branch skips the strip
  [receivers  |-> compileLane(Sources(h), b, l).receivers,
   processors |-> <<LiveCheckSamplerID>>,
   exporters  |-> <<ExporterID>>]

(* A teed branch shares its lane's receivers and nothing else.             *)
Branch(h, t, b, l) ==
  [receivers  |-> compileLane(Sources(h), b, l).receivers,
   processors |-> IF Strips(t, b) THEN <<StripProcessorID, LiveCheckSamplerID>>
                  ELSE <<LiveCheckSamplerID>>,
   exporters  |-> <<ExporterID>>]

Pipelines(h, t, b) ==
  [p \in {<<l>> : l \in Wired(b)} \cup {TapPipeline(l) : l \in Teed(h, t, b)} |->
     IF Len(p) = 1 THEN LanePipeline(h, t, b, p[1]) ELSE Branch(h, t, b, p[1])]

Definition(class, id, config) == [class |-> class, id |-> id, config |-> config]

Generated(h, t, b) ==
  (IF Strips(t, b)
   THEN {Definition("processor", StripProcessorID, <<"delete", "telecraft.">>)} ELSE {})
  \cup
  (IF Teed(h, t, b) = {} THEN {}
   ELSE {Definition("processor", LiveCheckSamplerID, <<"rate", SampleRate(h.livecheck[1], t)>>),
         Definition("exporter", ExporterID,
                    <<"endpoint", ResolveFor(h.livecheck[1], t.environment)>>)})

Definitions(h, t, b) ==
  {Definition(c.class, RenderedID(c), c.config) : c \in Instances(h, b)} \cup Generated(h, t, b)

Extensions(h, b) ==
  [i \in DOMAIN b.lanes[ExtensionsLane] |-> RenderedID(Resolve(h, b, b.lanes[ExtensionsLane][i]))]

Telemetry(h, environment) ==
  [s \in {"metrics", "logs"} |-> SignalEndpoint(h.telemetry[1], environment, s)]

emitCollector(h, tier, t, b, commit) ==
  [tier |-> tier, binding |-> t.binding, commit |-> commit,
   definitions |-> Definitions(h, t, b),
   extensions  |-> Extensions(h, b),
   pipelines   |-> Pipelines(h, t, b),
   telemetry   |-> Telemetry(h, t.environment)]

(* Self-telemetry and nothing else, in no Environment.                     *)
emitUnmatched(h, commit) ==
  [tier |-> <<>>, commit |-> commit, definitions |-> {}, extensions |-> <<>>, pipelines |-> <<>>,
   telemetry |-> Telemetry(h, Unset)]

emitSupervisor(t, commit) == [commit |-> commit, endpoint |-> t.serving[1]]

-----------------------------------------------------------------------------
(* One render.                                                             *)

ArtefactPath(tier)     == <<"tier", tier>>
NextArtefactPath(tier) == <<"next", tier>>
SupervisorPath(tier)   == <<"supervisor", tier>>
UnmatchedArtefactPath  == <<"unmatched">>
CodeOwnersPath         == <<"codeowners">>

NextTierTrusted(h, tier) ==              \* mutant: the second artefact is not the Tier's own
  [h.tiers[tier] EXCEPT !.binding = RolloutFor(h, tier).to, !.hops = {}]

NextTier(h, tier) == [h.tiers[tier] EXCEPT !.binding = RolloutFor(h, tier).to]

Staged(h) == {tier \in DOMAIN h.tiers : ActiveOn(h, tier) # {}}

(* The problems of one binding of one Tier, all of them named.             *)
renderBound(h, t) ==
  IF t.binding.id \notin DOMAIN h.blueprints THEN {"binding"}
  ELSE LET b == h.blueprints[t.binding.id]
           first == {p \in {"reference", "collision", "reserved", "palette"} :
                       CASE p = "reference" -> Dangling(h, b)
                         [] p = "collision" -> Collision(h, b)
                         [] p = "reserved"  -> Claimed(h, b)
                         [] p = "palette"   -> OutsidePalette(h, b, TeamOf(t.binding.id))}
       IN  IF first # {} THEN first
           ELSE {p \in {"lane", "side"} :
                   CASE p = "lane" -> Astray(h, b)
                     [] p = "side" -> SideMissing(h, b)}

renderTier(h, tier) ==
  IF Written(h.tiers[tier].livecheck) /\ ~Written(h.livecheck) THEN {"live-check"}
  ELSE renderBound(h, h.tiers[tier])
         \cup (IF tier \in Staged(h) THEN renderBound(h, NextTier(h, tier)) ELSE {})

Refused(h) == \E tier \in DOMAIN h.tiers : renderTier(h, tier) # {}

Emitted(h, tier, t, commit) == emitCollector(h, tier, t, h.blueprints[t.binding.id], commit)

Render(h, commit) ==
  LET served == {tier \in DOMAIN h.tiers : Written(h.tiers[tier].serving)}
      paths  == {ArtefactPath(tier) : tier \in DOMAIN h.tiers}
                  \cup {NextArtefactPath(tier) : tier \in Staged(h)}
                  \cup {SupervisorPath(tier) : tier \in served}
                  \cup {UnmatchedArtefactPath, CodeOwnersPath}
  IN  [p \in paths |->
         CASE p[1] = "tier"       -> Emitted(h, p[2], h.tiers[p[2]], commit)
           [] p[1] = "next"       -> Emitted(h, p[2], NextTier(h, p[2]), commit)
           [] p[1] = "supervisor" -> emitSupervisor(h.tiers[p[2]], commit)
           [] p[1] = "unmatched"  -> emitUnmatched(h, commit)
           [] p[1] = "codeowners" -> CodeOwners(Tree(h))]

-----------------------------------------------------------------------------
(* The findings of a render, which refuse nothing.                         *)

Bindings(h) ==
  {<<tier, h.tiers[tier].binding>> : tier \in DOMAIN h.tiers}
    \cup {<<tier, RolloutFor(h, tier).to>> : tier \in Staged(h)}

bindingFindings(h) == {p \in Bindings(h) : h.blueprints[p[2].id].version # p[2].version}

floorFindings(h) ==
  UNION {IF Unranked(h, p[1]) THEN {<<p[1], p[2].id, Unset>>}
         ELSE {<<p[1], p[2].id, breach[1]>> : breach \in Breaches(h, p[1], h.blueprints[p[2].id])} :
           p \in Bindings(h)}
=============================================================================
