----------------------------- MODULE MCInstance -----------------------------
(* Instances of Instance small enough for TLC.                             *)
EXTENDS Instance

CONSTANTS a1, a2, u1, u2, s1, s2, rows1, org1, org2, c1

MCBlank == ""
MCHash  == [p \in {<<>>} |-> 0]
MCFiles == {"topology", "tree", "rows", "org"}

Selector(role) == [k \in {"role"} |-> role]

OneTier(id, role) ==
  [readable |-> TRUE, sound |-> TRUE, rollouts |-> {},
   tiers |-> {[id |-> id, team |-> "t", owner |-> "o", binding |-> "b",
               selector |-> Selector(role)]}]

Rendering(a, u, of, stamp) ==
  [artefact |-> <<a, a>>, next |-> <<Missing, Missing>>, unmatched |-> u, of |-> of, stamp |-> stamp]

Estate(topology, tree, rows, org) ==
  [f \in MCFiles |-> CASE f = "topology" -> topology
                       [] f = "tree"     -> tree
                       [] f = "rows"     -> rows
                       [] f = "org"      -> org]

First  == Estate(OneTier(1, "gw"), Rendering(a1, u1, OneTier(1, "gw"), s1), rows1, org1)

(* The one Tier moves to another file, so that no Tier is authored while   *)
(* git is at it, and its artefacts and the users change.  The files the    *)
(* rows are read from stay: a build reads them once, as it does the users. *)
Second == Estate(OneTier(2, "edge"), Rendering(a2, u2, OneTier(2, "edge"), s2), rows1, org2)

(* A user joins; nothing else changes.                                     *)
Joined == Estate(OneTier(1, "gw"), Rendering(a1, u1, OneTier(1, "gw"), s1), rows1, org2)

NewEstate == Estate(Absent, Absent, Absent, org1)

OneCommitOnly  == <<First>>
FirstThenJoined == <<First, Joined>>
TwoCommits     == <<First, Second>>

Collectors == [c \in Conn |-> [role |-> "gw"]]

=============================================================================
