------------------------------ MODULE Snapshot ------------------------------
(***************************************************************************)
(* The repo snapshot of internal/serving/serving.go: what LoadSnapshot     *)
(* compiles from one estate checkout, and Match, the serving decision.     *)
(*                                                                         *)
(* A checkout is read through two groups of files:                         *)
(*   topology  the authored teams/ tree, a record                          *)
(*             [readable, tiers, rollouts, sound]                          *)
(*   tree      the committed rendered/ tree, a record                      *)
(*             [artefact, next, unmatched]                                 *)
(* and either may be Absent (no such directory).  A Tier is a record       *)
(* [id, team, owner, binding, selector]; ids are numbers so that Tier-id   *)
(* order is the order of the numbers.                                      *)
(***************************************************************************)
EXTENDS Membership, FiniteSets

CONSTANTS Artefact,    \* rendered artefacts with a body, one per distinct body
          NoArtefact,  \* a nil artefact
          Missing,     \* the file is not in the tree
          Empty,       \* the file is there and holds only white space
          Absent,      \* no such directory
          NoRollout,   \* a single-bound Tier
          Refused      \* LoadSnapshot returned an error

ASSUME ArtefactAssumption ==
  /\ {NoArtefact, Missing, Empty} \cap Artefact = {}
  /\ Missing # Empty
  /\ NoArtefact \notin {Missing, Empty}

(* What reading a file of the rendered tree gives.                         *)
File == Artefact \cup {Missing, Empty}

(* A checkout of an estate, whatever is authored in it: Tier ids order the *)
(* Tiers, and selectors are finite maps.                                   *)
WellFormed(topology, tree) ==
  /\ topology # Absent =>
       /\ IsFiniteSet(topology.tiers)
       /\ \A t \in topology.tiers :
            /\ t.id \in Nat
            /\ IsFiniteSet(DOMAIN t.selector)
            /\ tree # Absent => {tree.artefact[t.id], tree.next[t.id]} \subseteq File
  /\ tree # Absent => tree.unmatched \in File

-----------------------------------------------------------------------------
(* LoadTopology's three outcomes.  "sound" stands for the per-file rules;  *)
(* the rules that relate a Rollout to its Tier are spelled out because the *)
(* serving decision rests on them.                                         *)

RolloutAgrees(topology, r) ==
  \E t \in topology.tiers :
    /\ t.id = r.tier
    /\ t.team = r.team
    /\ r.owner \in {Blank, t.owner}
    /\ t.binding = r.from

OneActivePerTier(topology) ==
  \A r, q \in topology.rollouts : r.tier = q.tier => r = q

(* A new estate is a state and not a fault, and it is recognised before    *)
(* any problem inside the tree is judged.                                  *)
NoTiersAuthored(topology) ==
  \/ topology = Absent
  \/ topology.readable /\ topology.tiers = {}

LoadsTopology(topology) ==
  /\ topology # Absent
  /\ topology.readable
  /\ topology.tiers # {}
  /\ topology.sound
  /\ \A r \in topology.rollouts : RolloutAgrees(topology, r)
  /\ OneActivePerTier(topology)

RolloutFor(topology, id) ==
  IF \E r \in topology.rollouts : r.tier = id
  THEN CHOOSE r \in topology.rollouts : r.tier = id
  ELSE NoRollout

-----------------------------------------------------------------------------
(* readArtefact refuses emptiness at the source.                           *)
Servable(file) == file \notin {Missing, Empty}

Rendered(tree, id)     == IF tree = Absent THEN Missing ELSE tree.artefact[id]
RenderedNext(tree, id) == IF tree = Absent THEN Missing ELSE tree.next[id]
Unmatched(tree)        == IF tree = Absent THEN Missing ELSE tree.unmatched

(* Tiers without a selector serve nobody: they are git-delivered.          *)
Served(topology) == {t \in topology.tiers : DOMAIN t.selector # {}}

Accepts(topology, tree) ==
  /\ LoadsTopology(topology)
  /\ \A t \in Served(topology) :
       /\ Servable(Rendered(tree, t.id))
       /\ RolloutFor(topology, t.id) # NoRollout =>
            Servable(RenderedNext(tree, t.id))
  /\ Servable(Unmatched(tree))

entry(topology, tree, t) ==
  LET r == RolloutFor(topology, t.id)
  IN  [tier     |-> t.id,
       selector |-> t.selector,
       artefact |-> Rendered(tree, t.id),
       next     |-> IF r = NoRollout THEN NoArtefact ELSE RenderedNext(tree, t.id),
       rollout  |-> r]

LoadSnapshot(topology, tree, commit) ==
  IF NoTiersAuthored(topology)
  THEN [commit |-> commit, entries |-> {}, unmatched |-> NoArtefact]
  ELSE IF Accepts(topology, tree)
  THEN [commit    |-> commit,
        entries   |-> {entry(topology, tree, t) : t \in Served(topology)},
        unmatched |-> Unmatched(tree)]
  ELSE Refused

-----------------------------------------------------------------------------
(* Match: the most specific satisfied selector wins, and a tie goes to the *)
(* first Tier in id order.                                                 *)

Specificity(e) == Cardinality(DOMAIN e.selector)

Candidates(snap, attrs) == {e \in snap.entries : satisfies(e.selector, attrs)}

Beats(e, f) ==
  \/ Specificity(e) > Specificity(f)
  \/ Specificity(e) = Specificity(f) /\ e.tier <= f.tier

Winner(snap, attrs) ==
  CHOOSE e \in Candidates(snap, attrs) :
    \A f \in Candidates(snap, attrs) : Beats(e, f)

(* The artefact of the decision: @next for a member of the active cohort   *)
(* of a dual-bound Tier, the Unmatched artefact where no selector matches. *)
Match(snap, attrs) ==
  IF Candidates(snap, attrs) = {} THEN snap.unmatched
  ELSE LET e == Winner(snap, attrs)
       IN  IF e.next # NoArtefact /\ Member(e.rollout, attrs)
           THEN e.next
           ELSE e.artefact

(* remoteConfig refuses an empty body outright.                            *)
Offerable(artefact) == artefact \notin {NoArtefact, Empty}

=============================================================================
