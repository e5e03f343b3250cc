------------------------------ MODULE MCProposal -------------------------------
(* Instances of Proposal small enough for TLC.                             *)
EXTENDS Proposal

CONSTANTS p1, v1, v2, v3

MCKey == {"version", "body", "selector", "binding", "stage", "drafted", "policy", "record"}

(* A Blueprint at its first version, a Tier of two identity attributes     *)
(* bound to the version a Rollout leaves, the Rollout at some stage, and    *)
(* one activation.                                                         *)
Estate(stage) ==
  [k \in MCKey |->
     CASE k = "version"  -> 1
       [] k = "body"     -> Absent
       [] k = "selector" -> {"role", "zone"}
       [] k = "binding"  -> From
       [] k = "stage"    -> stage
       [] k = "drafted"  -> Absent
       [] k = "policy"   -> Absent
       [] k = "record"   -> [active |-> v1, activations |-> <<Entry(v1, NoVersion, NoVersion)>>]]

AnyStage == {Estate(n) : n \in 0 .. Stages - 1}

MCClaims == {{"role"}}

(* Exits that author the same files, or propose on the same branches.      *)
MCCrews == {{"compose", "draft", "tier"}, {"attach", "rollout"}, {"activate"}, {"govern"}}

=============================================================================
