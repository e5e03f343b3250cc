----------------------------- MODULE MCServing -----------------------------
(* Instances of Serving small enough for TLC: estates of one or two Tiers  *)
(* whose commits stage what the code distinguishes.                        *)
EXTENDS Serving

CONSTANTS a1, a2, b1, b2, u1, u2, c1, c2, r1, r2

MCBlank == ""
MCHash  == [p \in {<<>>} |-> 0]
MCFiles == {"topology", "tree"}

Attrs(role, host) == [role |-> role, host |-> host]
Selector(role)    == [k \in {"role"} |-> role]
NoMatch           == [k \in {} |-> ""]

Tier(id, selector) ==
  [id |-> id, team |-> "t", owner |-> "o", binding |-> "from", selector |-> selector]

Stage(hosts) ==
  [cohort |-> [hosts |-> [attribute |-> "host", values |-> hosts],
               match |-> NoMatch, percent |-> 0]]

Rollout(tier, stage, stages) ==
  [tier |-> tier, team |-> "t", owner |-> "o", from |-> "from", to |-> "to",
   stage |-> stage, stages |-> stages, hashAttributes |-> <<"host">>]

Topology(tiers, rollouts) ==
  [readable |-> TRUE, sound |-> TRUE, tiers |-> tiers, rollouts |-> rollouts]

Tree(artefact, next, unmatched) ==
  [artefact |-> artefact, next |-> next, unmatched |-> unmatched]

At(topology, tree) == [f \in MCFiles |-> IF f = "topology" THEN topology ELSE tree]

NewEstate == At(Absent, Absent)

OneTier(a, u) ==
  At(Topology({Tier(1, Selector("gw"))}, {}), Tree(<<a>>, <<Missing>>, u))

Staged(stage) ==
  At(Topology({Tier(1, Selector("gw"))},
              {Rollout(1, stage, <<Stage({"h1"}), Stage({"h2"})>>)}),
     Tree(<<a2>>, <<b2>>, u2))

(* A commit that renames the Tier's selector and re-renders both artefacts.*)
Renamed ==
  At(Topology({Tier(1, Selector("edge"))}, {}), Tree(<<a2>>, <<Missing>>, u2))

(* A Tier, a commit whose artefact is empty, a staged rollout, and the     *)
(* Tier removed: an estate without Tiers is a new one.                     *)
CommitsToANewEstate == <<OneTier(a1, u1), OneTier(Empty, u1), Staged(0), NewEstate>>

TwoCommits == <<OneTier(a1, u1), Renamed>>

Collectors == [c \in Conn |-> IF c = c1 THEN Attrs("gw", "h1") ELSE Attrs("gw", "h2")]

=============================================================================
