-------------------------------- MODULE Estate --------------------------------
(***************************************************************************)
(* The estate from one merge to the next: somebody's authored change is    *)
(* merged once it loads and renders, a staged Rollout advances, completes  *)
(* or is aborted (internal/rollout propose.go), and each merge carries the *)
(* rendered tree beside the change (cmd/telecraft render.go).              *)
(***************************************************************************)
EXTENDS Drift, TLC

CONSTANTS
  Start,         \* the heads an estate may begin at
  Authored(_),   \* what people may turn a head into
  Reported,      \* findings about authored objects and collectors
  MaxCommits     \* Bound: the commits there are

ASSUME ReportedAssumption == IsFiniteSet(Reported)

VARIABLES
  head,     \* everything authored at the commit
  tree,     \* rendered/ at the commit, and CODEOWNERS
  commit    \* its number

vars == <<head, tree, commit>>

-----------------------------------------------------------------------------
(* runRender: every loader passes, and nothing is refused.                 *)

HeadFields ==
  {"teams", "lists", "grants", "catalogue", "components", "blueprints", "tiers", "services",
   "rollouts", "telemetry", "livecheck", "library", "objects"}

Loads(h) ==
  /\ DOMAIN h = HeadFields
  /\ LoadsTeams(h.teams)
  /\ LoadsPolicy(h, Tree(h), h.catalogue)
  /\ LoadsSources(h)
  /\ LoadsTopology(h)
  /\ LoadsTelemetry(h.telemetry)
  /\ LoadsLiveCheck(h.livecheck)

CanMerge(h) == Loads(h) /\ ~Refused(h)

(* What is written replaces what was there; nothing is removed.            *)
TreeWith(h, n) == Render(h, n) @@ tree

Merges(h) ==
  /\ commit < MaxCommits
  /\ CanMerge(h)
  /\ head' = h
  /\ commit' = commit + 1
  /\ tree' = TreeWith(h, commit + 1)

-----------------------------------------------------------------------------

Closed(h, r) == [h EXCEPT !.rollouts = Restrict(@, DOMAIN @ \ {r})]

Init ==
  /\ head \in {h \in Start : CanMerge(h)}
  /\ commit = 1
  /\ tree = Render(head, 1)

Merge == \E h \in Authored(head) : h # head /\ Merges(h)

(* A bumped stage, or on the final one the Tier rebound and the Rollout    *)
(* deleted in one change.                                                  *)
Advance(r) ==
  /\ ~Final(head.rollouts[r])
  /\ Merges([head EXCEPT !.rollouts[r].stage = @ + 1])

Complete(r) ==
  /\ Final(head.rollouts[r])
  /\ Merges(Closed([head EXCEPT !.tiers[head.rollouts[r].tier].binding = head.rollouts[r].to], r))

Abort(r) == Merges(Closed(head, r))

Next ==
  \/ Merge
  \/ \E r \in DOMAIN head.rollouts : Advance(r) \/ Complete(r) \/ Abort(r)

Spec == Init /\ [][Next]_vars

-----------------------------------------------------------------------------
(* Properties.                                                             *)

Fresh == Render(head, commit)

Artefacts == {p \in DOMAIN Fresh : p[1] \in {"tier", "next"}}

(* Nobody widens what they may use: a component an Allow-list above a Team *)
(* leaves out is in its palette only by a Grant at or below that list, of  *)
(* an owner above the Team the Grant names, and never of an owner it would *)
(* serve.  load.go: "A team granting to itself would be self-widening,     *)
(* which is exactly what narrowing-only inheritance forbids".              *)
Above(t) == Range(Chain(Tree(head), t))

NobodyWidensThemselves ==
  \A team \in DOMAIN Tree(head) :
    \A c \in EffectivePalette(head, Tree(head), head.catalogue, team) :
      \A a \in Above(team) : \A l \in ListOf(head, a) :
        Selects(l.allow, c) \/
          \E g \in Range(head.grants) :
            /\ Selects(g.adds, c)
            /\ g.team \in Above(team) /\ a \in Above(g.team)
            /\ TeamOfOwner(Tree(head), g.owner) \in Above(g.team)
            /\ TeamOfOwner(Tree(head), g.owner) \notin Subtree(Tree(head), g.team)

(* An artefact a collector accepts: what its pipelines name is defined,    *)
(* once, whatever was authored beside the generated components; and where  *)
(* any Hop is untrusted nothing runs on inbound data before the strip, the *)
(* live-check branch included.  emit.go: "nothing may observe the platform *)
(* namespace on inbound data before the strip, the live-check exporter     *)
(* included".                                                              *)
Named(p) == Range(p.receivers) \cup Range(p.processors) \cup Range(p.exporters)

Whole(artefact) ==
  /\ \A d, e \in artefact.definitions : d.id = e.id => d = e
  /\ \A p \in Range(artefact.pipelines) :
       /\ Named(p) \subseteq {d.id : d \in artefact.definitions}
       /\ p.receivers # <<>> /\ p.exporters # <<>>

StrippedFirst(artefact) ==
  \A p \in Range(artefact.pipelines) :
    p.processors # <<>> /\ Head(p.processors) = StripProcessorID
      /\ StripProcessorID \notin Range(Tail(p.processors))

ArtefactIsWhole ==
  \A p \in Artefacts :
    /\ Whole(Fresh[p])
    /\ Untrusted(head.tiers[p[2]]) => StrippedFirst(Fresh[p])

(* However a Rollout closes, it can, and nobody is moved by the closing:   *)
(* completed, the Tier gets what the cohort already runs, and aborted it   *)
(* keeps what the others run, at the Rollout's from.  propose.go: deleting *)
(* the file "reverts the Tier to single-bound *from*".                     *)
Config(artefact) == [artefact EXCEPT !.commit = 0]

Completed(r) == Closed([head EXCEPT !.tiers[head.rollouts[r].tier].binding = head.rollouts[r].to], r)
Aborted(r)   == Closed(head, r)

RolloutKeepsItsWord ==
  \A r \in DOMAIN head.rollouts :
    LET tier == head.rollouts[r].tier
        base == ArtefactPath(tier)
    IN  /\ CanMerge(Completed(r)) /\ CanMerge(Aborted(r))
        /\ Config(Render(Completed(r), commit)[base]) = Config(Fresh[NextArtefactPath(tier)])
        /\ Config(Render(Aborted(r), commit)[base]) = Config(Fresh[base])
        /\ Fresh[base].binding = head.rollouts[r].from

(* One more Path through a Tier, of any class the policy ranks, forgives   *)
(* nothing.  renderer.go: a table where it did "would make adding a C1     *)
(* Path *relax* a Tier's judgement, the exact inversion of ADR-0025 §4".   *)
WithPath(tier, class) ==
  LET another == <<TeamOf(tier), <<"another">>>>
      through == [owner |-> head.tiers[tier].owner, class |-> class, paths |-> {<<tier>>}]
  IN  [head EXCEPT !.services =
         [s \in DOMAIN @ \cup {another} |-> IF s \in DOMAIN @ THEN @[s] ELSE through]]

APathNeverRelaxes ==
  \A tier \in {t \in DOMAIN head.tiers : ~Unranked(head, t)} : \A class \in Range(FloorOrder) :
    LET b == head.blueprints[head.tiers[tier].binding.id]
    IN  Breaches(head, tier, b) \subseteq Breaches(WithPath(tier, class), tier, b)

(* Head renders whatever a reference or a binding pins, and where that is  *)
(* another version somebody is told.  render.go: "the stale pin is visible *)
(* drift, never a silent substitution".                                    *)
ToldOfPin(id, l, e) ==
  \/ DetectFails(head, tree)
  \/ \E f \in Detect(head, tree) :
       f.facet = "component" /\ f.blueprint = id /\ f.subject = <<RefID(e), e.pin>>
  \/ <<id, l>> \in ReferenceFindings(head)

NoSilentSubstitution ==
  \A p \in Bindings(head) :
    /\ head.blueprints[p[2].id].version # p[2].version => p \in bindingFindings(head)
    /\ \A l \in Lanes : \A e \in LaneEntries(head.blueprints[p[2].id], l) :
         e.pin # 0 /\ e.pin # head.components[RefID(e)].version => ToldOfPin(p[2].id, l, e)

(* A roll-up can be read at every level: a finding counts once, in what a  *)
(* Team has of its own or in one of its children, and every one of them at *)
(* the top.  ownership.go: "with two parents every roll-up would           *)
(* double-count".  A finding that routes nowhere is an error and no        *)
(* roll-up is made of it.                                                  *)
Counted(team, kind) ==
  LET r == RollupOf(head.objects, Tree(head), team, Reported)
  IN  IF kind \in DOMAIN r THEN r[kind].counted ELSE 0

Of(kind)        == {f \in Reported : f.kind = kind /\ Counts(f)}
OwnOf(team, fs) == {f \in fs : RoutedTo(head.objects, Tree(head), f.subject) = team}
Top             == {t \in DOMAIN Tree(head) : Tree(head)[t].parent = Unset}

RollupAddsUp ==
  LoadsObjects(head.objects, Tree(head)) /\ (\A f \in Reported : Routes(head.objects, f.subject)) =>
    \A kind \in {f.kind : f \in Reported} :
      /\ \A team \in DOMAIN Tree(head) :
           Counted(team, kind) =
             Cardinality(OwnOf(team, Of(kind)))
               + MapThenSumSet(LAMBDA t : Counted(t, kind), Tree(head)[team].children)
      /\ MapThenSumSet(LAMBDA t : Counted(t, kind), Top) = Cardinality(Of(kind))
=============================================================================
