----------------------------- MODULE Membership -----------------------------
(***************************************************************************)
(* Cohort membership of a staged rollout: the pure function of             *)
(* internal/rollout/membership.go that the serving path evaluates on every *)
(* message and the console evaluates as a preview.                         *)
(*                                                                         *)
(* Reported attributes and selectors are functions from attribute names to *)
(* values.  A cohort is a record                                           *)
(*   [hosts   : NoHosts or [attribute, values],                            *)
(*    match   : attributes (the empty function when the form is unused),   *)
(*    percent : 0..100 (0 when the form is unused)]                        *)
(* and a rollout carries  stages  (a sequence of [cohort, soak]),  stage   *)
(* (the active one, counted from 0 as in the source) and  hashAttributes   *)
(* (the pinned attribute names, in authored order).                        *)
(***************************************************************************)
EXTENDS Integers, Sequences

CONSTANTS Blank,      \* what indexing a map[string]string gives for an absent key: ""
          NoHosts,    \* a cohort that lists no hosts (a nil *CohortHosts)
          Hash        \* SHA-256's first 64 bits, a function of the pinned pairs

ASSUME HashAssumption == \A pairs \in DOMAIN Hash : Hash[pairs] \in Nat

Buckets == 10000

-----------------------------------------------------------------------------
Reported(attrs, k) == IF k \in DOMAIN attrs THEN attrs[k] ELSE Blank

(* Equality over every authored pair, no wildcards.                        *)
satisfies(selector, attrs) ==
  \A k \in DOMAIN selector : Reported(attrs, k) = selector[k]

(* A collector that lacks a pinned attribute has nothing stable to hash.   *)
Hashable(keys, attrs) ==
  /\ keys # << >>
  /\ \A i \in DOMAIN keys : Reported(attrs, keys[i]) # Blank

Pinned(keys, attrs) == [i \in DOMAIN keys |-> <<keys[i], attrs[keys[i]]>>]

bucket(keys, attrs) == Hash[Pinned(keys, attrs)] % Buckets

specMember(cohort, keys, attrs) ==
  \/ /\ cohort.hosts # NoHosts
     /\ cohort.hosts.attribute \in DOMAIN attrs
     /\ attrs[cohort.hosts.attribute] \in cohort.hosts.values
  \/ /\ DOMAIN cohort.match # {}
     /\ satisfies(cohort.match, attrs)
  \/ /\ cohort.percent > 0
     /\ Hashable(keys, attrs)
     /\ bucket(keys, attrs) < cohort.percent * (Buckets \div 100)

(* The union of the stages up to and including the active one.             *)
Member(rollout, attrs) ==
  \E i \in 0 .. rollout.stage :
    /\ i < Len(rollout.stages)
    /\ specMember(rollout.stages[i + 1].cohort, rollout.hashAttributes, attrs)

=============================================================================
