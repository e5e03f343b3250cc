--------------------------- MODULE Snapshot_proofs ---------------------------
(***************************************************************************)
(* What the pure functions of the serving decision return, for every       *)
(* topology, every rendered tree and every reported attribute set: a stage *)
(* only widens a cohort, Match has a winner whenever it has a candidate,   *)
(* and a decision is one of the bodies the snapshot holds.                 *)
(***************************************************************************)
EXTENDS Snapshot, FiniteSetTheorems, WellFoundedInduction, TLAPS

(* A collector a rollout covers stays covered when the rollout advances:   *)
(* "advancing only ever widens and no collector flaps backwards"           *)
(* (Member, membership.go).                                                *)
THEOREM StagesOnlyWiden ==
  ASSUME NEW earlier, NEW later, NEW attrs,
         earlier.stage \in Nat, later.stage \in Nat,
         earlier.stage <= later.stage,
         later.stages = earlier.stages,
         later.hashAttributes = earlier.hashAttributes,
         Member(earlier, attrs)
  PROVE  Member(later, attrs)
<1>1. PICK i \in 0 .. earlier.stage :
        /\ i < Len(earlier.stages)
        /\ specMember(earlier.stages[i + 1].cohort, earlier.hashAttributes, attrs)
  BY DEF Member
<1>2. i \in 0 .. later.stage
  OBVIOUS
<1> QED
  BY <1>1, <1>2 DEF Member

(* A larger percentage covers whoever a smaller one does: the bucket of a  *)
(* collector does not depend on the cohort (specMember, membership.go).    *)
THEOREM PercentagesOnlyWiden ==
  ASSUME NEW smaller, NEW larger, NEW keys, NEW attrs,
         smaller.percent \in Nat, larger.percent \in Nat,
         smaller.percent <= larger.percent,
         larger.hosts = smaller.hosts, larger.match = smaller.match,
         Hashable(keys, attrs) => Pinned(keys, attrs) \in DOMAIN Hash,
         specMember(smaller, keys, attrs)
  PROVE  specMember(larger, keys, attrs)
<1>1. CASE /\ smaller.percent > 0
           /\ Hashable(keys, attrs)
           /\ bucket(keys, attrs) < smaller.percent * (Buckets \div 100)
  <2>1. bucket(keys, attrs) \in Int
    BY <1>1, HashAssumption DEF bucket, Buckets
  <2>2. Buckets \div 100 = 100
    BY DEF Buckets
  <2>3. bucket(keys, attrs) < larger.percent * (Buckets \div 100)
    BY <1>1, <2>1, <2>2
  <2> QED
    BY <1>1, <2>3 DEF specMember
<1>2. CASE ~ (/\ smaller.percent > 0
              /\ Hashable(keys, attrs)
              /\ bucket(keys, attrs) < smaller.percent * (Buckets \div 100))
  BY <1>2 DEF specMember
<1> QED
  BY <1>1, <1>2

-----------------------------------------------------------------------------
(* Entries as LoadSnapshot compiles them.                                  *)
Ordered(S) ==
  /\ IsFiniteSet(S)
  /\ \A e \in S : e.tier \in Nat /\ Specificity(e) \in Nat

Better(S, e) == {f \in S : ~ Beats(e, f)}

LEMMA BeatsIsATotalPreorder ==
  ASSUME NEW S, Ordered(S), NEW e \in S, NEW f \in S, NEW g \in S
  PROVE  /\ Beats(e, e)
         /\ Beats(e, f) \/ Beats(f, e)
         /\ Beats(e, f) /\ Beats(f, g) => Beats(e, g)
BY DEF Ordered, Beats

(* Match's sort has a first element: the winner of a non-empty set of      *)
(* candidates is one of them.                                              *)
LEMMA WinnerExists ==
  ASSUME NEW S, Ordered(S), S # {}
  PROVE  \E e \in S : \A f \in S : Beats(e, f)
<1> DEFINE Rank(e) == Cardinality(Better(S, e))
           Ranks   == {Rank(e) : e \in S}
<1>1. \A e \in S : IsFiniteSet(Better(S, e)) /\ Rank(e) \in Nat
  <2> TAKE e \in S
  <2>1. Better(S, e) \in SUBSET S
    BY DEF Better
  <2>2. IsFiniteSet(Better(S, e))
    BY <2>1, FS_Subset DEF Ordered
  <2> QED
    BY <2>2, FS_CardinalityType
<1>2. Ranks \subseteq Nat /\ Ranks # {}
  BY <1>1
<1>3. PICK r \in Ranks : \A q \in Ranks : ~ (<<q, r>> \in OpToRel(<, Nat))
  <2> HIDE DEF Ranks
  <2> QED BY <1>2, WFMin, NatLessThanWellFounded
<1>4. \A q \in Ranks : ~ (q < r)
  BY <1>2, <1>3 DEF OpToRel
<1>5. PICK e \in S : r = Rank(e)
  OBVIOUS
<1>6. ASSUME NEW f \in S, ~ Beats(e, f) PROVE FALSE
  <2>1. Better(S, f) \in SUBSET Better(S, e)
    <3> SUFFICES ASSUME NEW g \in S, ~ Beats(f, g) PROVE ~ Beats(e, g)
      BY DEF Better
    <3>1. Beats(g, f)
      BY BeatsIsATotalPreorder
    <3> QED
      BY <1>6, <3>1, BeatsIsATotalPreorder
  <2>2. f \in Better(S, e) /\ f \notin Better(S, f)
    BY <1>6, BeatsIsATotalPreorder DEF Better
  <2>3. Rank(f) <= Rank(e) /\ Rank(f) # Rank(e)
    BY <1>1, <2>1, <2>2, FS_Subset
  <2>4. Rank(f) \in Ranks /\ Rank(f) \in Nat /\ Rank(e) \in Nat
    BY <1>1
  <2> HIDE DEF Ranks
  <2> QED
    BY <1>4, <1>5, <2>3, <2>4
<1> QED
  BY <1>5, <1>6

-----------------------------------------------------------------------------
LEMMA EntriesAreOrdered ==
  ASSUME NEW topology, NEW tree, WellFormed(topology, tree),
         LoadsTopology(topology)
  PROVE  Ordered({entry(topology, tree, t) : t \in Served(topology)})
<1> DEFINE E == {entry(topology, tree, t) : t \in Served(topology)}
           f == [t \in Served(topology) |-> entry(topology, tree, t)]
<1>1. IsFiniteSet(Served(topology))
  <2>1. IsFiniteSet(topology.tiers)
    BY DEF WellFormed, LoadsTopology
  <2>2. Served(topology) \in SUBSET topology.tiers
    BY DEF Served
  <2> QED
    BY <2>1, <2>2, FS_Subset
<1>2. f \in Surjection(Served(topology), E)
  BY DEF Surjection
<1>3. IsFiniteSet(E)
  <2> HIDE DEF f, E
  <2> QED BY <1>1, <1>2, FS_Surjection
<1>4. ASSUME NEW t \in Served(topology)
      PROVE  /\ entry(topology, tree, t).tier \in Nat
             /\ Specificity(entry(topology, tree, t)) \in Nat
  <2>1. t.id \in Nat /\ IsFiniteSet(DOMAIN t.selector)
    BY DEF Served, WellFormed, LoadsTopology
  <2>2. Cardinality(DOMAIN t.selector) \in Nat
    BY <2>1, FS_CardinalityType
  <2> QED
    BY <2>1, <2>2 DEF entry, Specificity
<1> QED
  BY <1>3, <1>4 DEF Ordered

(* Every collector of an estate that loads is decided an artefact with a   *)
(* body, its Tier's or the Unmatched one; only an estate with no Tier      *)
(* decides nothing (Match, serving.go; readArtefact's refusal of emptiness *)
(* leaves remoteConfig's own refusal nothing to catch).                    *)
THEOREM EveryCollectorIsDecidedAnArtefact ==
  ASSUME NEW topology, NEW tree, NEW commit, NEW attrs,
         WellFormed(topology, tree),
         LoadSnapshot(topology, tree, commit) # Refused
  PROVE  Match(LoadSnapshot(topology, tree, commit), attrs) \in
           IF NoTiersAuthored(topology) THEN {NoArtefact} ELSE Artefact
<1> DEFINE s == LoadSnapshot(topology, tree, commit)
           C == Candidates(s, attrs)
<1>1. CASE NoTiersAuthored(topology)
  <2>1. s.entries = {} /\ s.unmatched = NoArtefact
    BY <1>1 DEF LoadSnapshot
  <2>2. C = {}
    BY <2>1 DEF Candidates
  <2> QED
    BY <1>1, <2>1, <2>2 DEF Match
<1>2. CASE ~ NoTiersAuthored(topology)
  <2>1. Accepts(topology, tree)
    BY <1>2 DEF LoadSnapshot
  <2>2. /\ s.entries = {entry(topology, tree, t) : t \in Served(topology)}
        /\ s.unmatched = Unmatched(tree)
    BY <1>2, <2>1 DEF LoadSnapshot
  <2>3. s.unmatched \in Artefact
    BY <2>1, <2>2 DEF Accepts, Servable, Unmatched, WellFormed, File
  <2>4. ASSUME NEW e \in s.entries
        PROVE  /\ e.artefact \in Artefact
               /\ e.next \in Artefact \cup {NoArtefact}
    <3>1. PICK t \in Served(topology) : e = entry(topology, tree, t)
      BY <2>2
    <3>2. t \in topology.tiers /\ topology # Absent
      BY <2>1 DEF Served, Accepts, LoadsTopology
    <3>3. Rendered(tree, t.id) \in Artefact
      BY <2>1, <3>2 DEF Accepts, Servable, Rendered, WellFormed, File
    <3>4. RolloutFor(topology, t.id) # NoRollout => RenderedNext(tree, t.id) \in Artefact
      BY <2>1, <3>2 DEF Accepts, Servable, RenderedNext, WellFormed, File
    <3> QED
      BY <3>1, <3>3, <3>4 DEF entry
  <2>5. CASE C = {}
    BY <1>2, <2>3, <2>5 DEF Match
  <2>6. CASE C # {}
    <3>1. Ordered(s.entries)
      BY <2>1, <2>2, EntriesAreOrdered DEF Accepts
    <3>2. C \in SUBSET s.entries
      BY DEF Candidates
    <3>3. Ordered(C)
      BY <3>1, <3>2, FS_Subset DEF Ordered
    <3>4. \E e \in C : \A f \in C : Beats(e, f)
      BY <2>6, <3>3, WinnerExists
    <3>5. Winner(s, attrs) \in s.entries
      BY <3>2, <3>4 DEF Winner
    <3> QED
      BY <1>2, <2>4, <2>6, <3>5 DEF Match
  <2> QED
    BY <2>5, <2>6
<1> QED
  BY <1>1, <1>2

=============================================================================
