---------------------------- MODULE Estate_proofs -----------------------------
(***************************************************************************)
(* What every head that was merged promises, whatever is authored: a Path  *)
(* more forgives nothing, what renders instead of a pin is told, a Rollout *)
(* can be closed either way and moves nobody by it, an artefact is whole,  *)
(* nobody widens what they may use, and roll-ups add up.                   *)
(***************************************************************************)
EXTENDS Estate, WellFoundedInduction, FiniteSetTheorems, TLAPS

-----------------------------------------------------------------------------
(* Recursion.  Sets and functions stand for the predicates and operators   *)
(* of an induction: what has a rank holds of everything if it holds        *)
(* wherever it holds of every lower rank, and a recursive function or a    *)
(* fold is what its equation says it is.                                   *)

(* S has whatever of D it has everything of a lower rank of.               *)
Inductive(D, rank, S) ==
  /\ rank \in [D -> Nat]
  /\ \A t \in D : (\A u \in D : rank[u] < rank[t] => u \in S) => t \in S

(* Induction over a rank.                                                  *)
LEMMA ByRank ==
  ASSUME NEW D, NEW rank, NEW S, Inductive(D, rank, S)
  PROVE  D \subseteq S
<1> USE DEF Inductive
<1> SUFFICES ASSUME NEW d \in D, d \notin S
             PROVE  FALSE
  OBVIOUS
<1> DEFINE T == {rank[t] : t \in {u \in D : u \notin S}}
<1>1. T \subseteq Nat /\ T # {}
  OBVIOUS
<1>2. \E x \in T : \A y \in T : ~(<<y, x>> \in OpToRel(<, Nat))
  BY <1>1, NatLessThanWellFounded, WFMin
<1>3. \E x \in T : \A y \in T : ~(y < x)
  BY <1>1, <1>2 DEF OpToRel
<1>4. PICK t \in D : t \notin S /\ \A u \in D : u \notin S => ~(rank[u] < rank[t])
  BY <1>3
<1> QED
  BY <1>4

(* Induction over the naturals.                                            *)
LEMMA ByStep ==
  ASSUME NEW S, 0 \in S, \A n \in Nat : n \in S => n + 1 \in S
  PROVE  Nat \subseteq S
<1> DEFINE rank == [n \in Nat |-> n]
<1>1. ASSUME NEW t \in Nat, \A u \in Nat : rank[u] < rank[t] => u \in S
      PROVE  t \in S
  <2>1. CASE t = 0
    BY <2>1
  <2>2. CASE t # 0
    <3>1. t - 1 \in Nat /\ t - 1 < t /\ t = (t - 1) + 1
      BY <2>2
    <3> QED
      BY <1>1, <3>1
  <2> QED
    BY <2>1, <2>2
<1>2. Inductive(Nat, rank, S)
  BY <1>1 DEF Inductive
<1> QED
  BY <1>2, ByRank

(* What F makes of the function so far at t uses only lower ranks.         *)
Recursive(D, T, rank, F) ==
  /\ T # {} /\ rank \in [D -> Nat] /\ F \in [D \X [D -> T] -> T]
  /\ \A t \in D : \A g, h \in [D -> T] :
       (\A u \in D : rank[u] < rank[t] => g[u] = h[u]) => F[<<t, g>>] = F[<<t, h>>]

(* A recursive function is there, so that what one is defined to be, it    *)
(* is.                                                                     *)
LEMMA Recursion ==
  ASSUME NEW D, NEW T, NEW rank, NEW F, Recursive(D, T, rank, F)
  PROVE  \E f \in [D -> T] : \A t \in D : f[t] = F[<<t, f>>]
<1> USE DEF Recursive
<1> DEFINE Good(n, g) == \A t \in D : rank[t] < n => g[t] = F[<<t, g>>]
           Reached == {n \in Nat : \E g \in [D -> T] : Good(n, g)}
<1>1. Nat \subseteq Reached
  <2>1. 0 \in Reached
    <3>1. PICK x \in T : TRUE
      OBVIOUS
    <3>2. [t \in D |-> x] \in [D -> T] /\ Good(0, [t \in D |-> x])
      OBVIOUS
    <3> QED
      BY <3>2
  <2>2. ASSUME NEW n \in Nat, n \in Reached
        PROVE  n + 1 \in Reached
    <3>1. PICK g \in [D -> T] : Good(n, g)
      BY <2>2
    <3> DEFINE h == [t \in D |-> F[<<t, g>>]]
    <3>2. h \in [D -> T]
      OBVIOUS
    <3>3. ASSUME NEW t \in D, rank[t] < n + 1
          PROVE  h[t] = F[<<t, h>>]
      <4>1. \A u \in D : rank[u] < rank[t] => g[u] = h[u]
        BY <3>1, <3>3
      <4> HIDE DEF h
      <4>2. F[<<t, g>>] = F[<<t, h>>]
        BY <3>2, <4>1
      <4> QED
        BY <4>2 DEF h
    <3> HIDE DEF h
    <3> QED
      BY <3>2, <3>3
  <2> HIDE DEF Reached
  <2> QED
    BY <2>1, <2>2, ByStep
<1>2. ASSUME NEW n \in Nat, NEW g \in [D -> T], NEW h \in [D -> T], Good(n, g), Good(n, h)
      PROVE  \A t \in D : rank[t] < n => g[t] = h[t]
  <2> DEFINE S == {t \in D : rank[t] < n => g[t] = h[t]}
  <2>1. ASSUME NEW t \in D, \A u \in D : rank[u] < rank[t] => u \in S
        PROVE  t \in S
    <3>1. CASE rank[t] < n
      <4>1. \A u \in D : rank[u] < rank[t] => g[u] = h[u]
        BY <2>1, <3>1
      <4>2. F[<<t, g>>] = F[<<t, h>>]
        BY <4>1
      <4> QED
        BY <1>2, <3>1, <4>2
    <3> QED
      BY <3>1
  <2>2. Inductive(D, rank, S)
    BY <2>1 DEF Inductive
  <2>3. D \subseteq S
    BY <2>2, ByRank
  <2> QED
    BY <2>3
<1>3. PICK G \in [Nat -> [D -> T]] : \A n \in Nat : Good(n, G[n])
  <2>1. \A n \in Nat : \E g \in [D -> T] : Good(n, g)
    BY <1>1
  <2> DEFINE G == [n \in Nat |-> CHOOSE g \in [D -> T] : Good(n, g)]
  <2> HIDE DEF Good
  <2>2. \A n \in Nat : G[n] \in [D -> T] /\ Good(n, G[n])
    BY <2>1
  <2>3. G \in [Nat -> [D -> T]]
    BY <2>2
  <2> QED
    BY <2>2, <2>3
<1> DEFINE f == [t \in D |-> G[rank[t] + 1][t]]
<1>. HIDE DEF Good
<1>4. \A t \in D : /\ rank[t] + 1 \in Nat /\ G[rank[t] + 1] \in [D -> T]
                   /\ f[t] = G[rank[t] + 1][t]
  OBVIOUS
<1>5. f \in [D -> T]
  BY <1>4
<1> HIDE DEF f
<1>6. ASSUME NEW t \in D
      PROVE  f[t] = F[<<t, f>>]
  <2>1. PICK g \in [D -> T] : g = G[rank[t] + 1]
    BY <1>4
  <2>2. Good(rank[t] + 1, g)
    BY <1>3, <1>4, <2>1
  <2>3. f[t] = F[<<t, g>>]
    <3>1. g[t] = F[<<t, g>>]
      BY <2>2 DEF Good
    <3> QED
      BY <1>4, <2>1, <3>1
  <2>4. ASSUME NEW u \in D, rank[u] < rank[t]
        PROVE  g[u] = f[u]
    <3>1. PICK k \in [D -> T] : k = G[rank[u] + 1]
      BY <1>4
    <3>2. rank[u] + 1 \in Nat /\ rank[u] < rank[u] + 1
      OBVIOUS
    <3>3. Good(rank[u] + 1, k) /\ f[u] = k[u]
      BY <1>3, <1>4, <3>1
    <3>4. Good(rank[u] + 1, g)
      <4>1. \A v \in D : rank[v] < rank[u] + 1 => rank[v] < rank[t] + 1
        BY <2>4
      <4> QED
        BY <2>2, <4>1 DEF Good
    <3>5. \A v \in D : rank[v] < rank[u] + 1 => g[v] = k[v]
      BY <1>2, <3>2, <3>3, <3>4
    <3> QED
      BY <3>2, <3>3, <3>5
  <2>5. F[<<t, g>>] = F[<<t, f>>]
    BY <1>5, <2>4
  <2> QED
    BY <2>3, <2>5
<1> QED
  BY <1>5, <1>6

(* The highest position of some of 1..N, and what is left without it.      *)
LEMMA HighestPosition ==
  ASSUME NEW N \in Nat, NEW s \in SUBSET (1..N), s # {}
  PROVE  Max(s) \in s /\ \A i \in s : i <= Max(s)
<1> DEFINE rank == [i \in 1..N |-> N - i]
           S == (1..N) \ s
<1>1. \E i \in s : \A j \in s : i >= j
  <2> SUFFICES ASSUME \A i \in s : \E j \in s : i < j
               PROVE  FALSE
    OBVIOUS
  <2>1. rank \in [1..N -> Nat]
    OBVIOUS
  <2>2. ASSUME NEW i \in 1..N, \A j \in 1..N : rank[j] < rank[i] => j \in S
        PROVE  i \in S
    <3>1. \A j \in 1..N : i < j => rank[j] < rank[i]
      OBVIOUS
    <3> QED
      BY <2>2, <3>1
  <2>3. Inductive(1..N, rank, S)
    BY <2>1, <2>2 DEF Inductive
  <2> QED
    BY <2>3, ByRank
<1>2. Max(s) \in s /\ \A j \in s : Max(s) >= j
  BY <1>1 DEF Max
<1> QED
  BY <1>2

(* The last position of a prefix, and the prefix before it.                *)
LEMMA PrefixPositions ==
  ASSUME NEW N \in Nat, NEW n \in 1..N
  PROVE  Max(1..n) = n /\ (1..n) \ {n} = 1..(n - 1)
<1>1. 1..n \in SUBSET (1..N) /\ 1..n # {}
  OBVIOUS
<1>2. Max(1..n) \in 1..n /\ \A i \in 1..n : i <= Max(1..n)
  BY <1>1, HighestPosition
<1> QED
  BY <1>2

(* A fold over the positions 1..N, from base, by a step of the values A:   *)
(* there is one, and it goes through the prefixes.                         *)
FoldOver(N, A, base, step) == N \in Nat /\ base \in A /\ step \in [(1..N) \X A -> A]

(* f[s] is the fold over the positions s, last one outermost.              *)
FoldOf(N, A, base, step, f) ==
  /\ f \in [SUBSET (1..N) -> A]
  /\ f[{}] = base
  /\ \A s \in SUBSET (1..N) : s # {} => f[s] = step[<<Max(s), f[s \ {Max(s)}]>>]

(* A fold from the last position down is there.                            *)
LEMMA FoldsAreThere ==
  ASSUME NEW N, NEW A, NEW base, NEW step, FoldOver(N, A, base, step)
  PROVE  \E f : FoldOf(N, A, base, step, f)
<1> USE DEF FoldOver
<1> DEFINE D == SUBSET (1..N)
           rank == [s \in D |-> IF s = {} THEN 0 ELSE Max(s)]
           less == [s \in D |-> s \ {Max(s)}]
           F == [x \in D \X [D -> A] |->
                   IF x[1] = {} THEN base ELSE step[<<Max(x[1]), x[2][less[x[1]]]>>]]
<1>1. \A s \in D : s # {} => Max(s) \in 1..N
  BY HighestPosition
<1>2. rank \in [D -> Nat] /\ less \in [D -> D]
  <2>1. \A s \in D : (IF s = {} THEN 0 ELSE Max(s)) \in Nat
    BY <1>1
  <2>2. \A s \in D : s \ {Max(s)} \in D
    OBVIOUS
  <2> HIDE DEF D
  <2> QED
    BY <2>1, <2>2
<1>3. \A s \in D : s # {} => rank[less[s]] < rank[s]
  <2> SUFFICES ASSUME NEW s \in D, s # {}
               PROVE  rank[less[s]] < rank[s]
    OBVIOUS
  <2>1. Max(s) \in s /\ \A i \in s : i <= Max(s)
    BY HighestPosition
  <2>2. PICK r \in D : r = less[s] /\ r = s \ {Max(s)}
    BY <1>2
  <2>3. CASE r = {}
    BY <1>1, <2>2, <2>3
  <2>4. CASE r # {}
    <3>1. Max(r) \in r
      BY <2>4, HighestPosition
    <3>2. Max(r) <= Max(s) /\ Max(r) # Max(s)
      BY <2>1, <2>2, <3>1
    <3>3. Max(r) \in 1..N /\ Max(s) \in 1..N /\ rank[r] = Max(r) /\ rank[s] = Max(s)
      BY <1>1, <2>4
    <3> QED
      BY <2>2, <3>2, <3>3
  <2> QED
    BY <2>3, <2>4
<1>4. \A s \in D : \A g \in [D -> A] :
        /\ s = {} => F[<<s, g>>] = base
        /\ s # {} => F[<<s, g>>] = step[<<Max(s), g[less[s]]>>]
  OBVIOUS
<1>5. F \in [D \X [D -> A] -> A]
  <2> SUFFICES ASSUME NEW s \in D, NEW g \in [D -> A]
               PROVE  (IF s = {} THEN base ELSE step[<<Max(s), g[less[s]]>>]) \in A
    OBVIOUS
  <2>1. g[less[s]] \in A
    BY <1>2
  <2> QED
    BY <1>1, <2>1
<1>6. \A s \in D : less[s] = s \ {Max(s)}
  OBVIOUS
<1> HIDE DEF F, rank, D, less
<1>7. ASSUME NEW s \in D, NEW g \in [D -> A], NEW h \in [D -> A],
             \A u \in D : rank[u] < rank[s] => g[u] = h[u]
      PROVE  F[<<s, g>>] = F[<<s, h>>]
  <2>1. s # {} => g[less[s]] = h[less[s]]
    BY <1>2, <1>3, <1>7
  <2> QED
    BY <1>4, <2>1
<1>8. Recursive(D, A, rank, F)
  BY <1>2, <1>5, <1>7 DEF Recursive
<1>9. PICK f \in [D -> A] : \A s \in D : f[s] = F[<<s, f>>]
  BY <1>8, Recursion
<1>10. ASSUME NEW s \in D, s # {}
       PROVE  f[s] = step[<<Max(s), f[s \ {Max(s)}]>>]
  <2>1. f[s] = F[<<s, f>>]
    BY <1>9
  <2>2. F[<<s, f>>] = step[<<Max(s), f[less[s]]>>]
    BY <1>4, <1>10
  <2> QED
    BY <1>6, <2>1, <2>2
<1>11. {} \in D
  BY DEF D
<1>12. f[{}] = base
  BY <1>4, <1>9, <1>11
<1> QED
  BY <1>9, <1>10, <1>12 DEF D, FoldOf

(* What a fold of the community modules gives: its equation, as long as    *)
(* its values are in A.                                                    *)
FoldedBy(N, A, base, step, iter) ==
  /\ iter[{}] = base
  /\ \A s \in SUBSET (1..N) :
       s # {} /\ iter[s \ {Max(s)}] \in A => iter[s] = step[<<Max(s), iter[s \ {Max(s)}]>>]

(* The same fold read forwards: upTo[n] is what it is after n positions.   *)
Forwards(N, A, base, step, upTo) ==
  /\ upTo \in [0..N -> A]
  /\ upTo[0] = base
  /\ \A n \in 1..N : upTo[n] = step[<<n, upTo[n - 1]>>]

(* Read forwards, a fold takes one position after the other.               *)
LEMMA FoldsGoThroughPrefixes ==
  ASSUME NEW N, NEW A, NEW base, NEW step, FoldOver(N, A, base, step),
         NEW iter, FoldedBy(N, A, base, step, iter)
  PROVE  \E upTo : Forwards(N, A, base, step, upTo) /\ upTo[N] = iter[1..N]
<1> USE DEF FoldOver, FoldedBy
<1> DEFINE upTo == [n \in 0..N |-> iter[1..n]]
<1>1. 1..0 = {}
  OBVIOUS
<1>2. ASSUME NEW n \in 1..N, iter[1..(n - 1)] \in A
      PROVE  iter[1..n] = step[<<n, iter[1..(n - 1)]>>] /\ iter[1..n] \in A
  <2>1. 1..n \in SUBSET (1..N) /\ 1..n # {}
    OBVIOUS
  <2>2. Max(1..n) = n /\ (1..n) \ {n} = 1..(n - 1)
    BY PrefixPositions
  <2>3. iter[1..n] = step[<<n, iter[1..(n - 1)]>>]
    BY <1>2, <2>1, <2>2
  <2> QED
    BY <1>2, <2>3
<1>3. \A n \in 0..N : iter[1..n] \in A
  <2> DEFINE S == {n \in Nat : n \in 0..N => iter[1..n] \in A}
  <2>1. 0 \in S
    BY <1>1
  <2>2. \A n \in Nat : n \in S => n + 1 \in S
    <3> SUFFICES ASSUME NEW n \in Nat, n \in S, n + 1 \in 0..N
                 PROVE  iter[1..(n + 1)] \in A
      OBVIOUS
    <3>1. n + 1 \in 1..N /\ (n + 1) - 1 = n /\ iter[1..n] \in A
      OBVIOUS
    <3> QED
      BY <1>2, <3>1
  <2>3. Nat \subseteq S
    <3> HIDE DEF S
    <3> QED
      BY <2>1, <2>2, ByStep
  <2> QED
    BY <2>3
<1>4. upTo \in [0..N -> A]
  BY <1>3
<1>5. \A n \in 1..N : n - 1 \in 0..N /\ upTo[n] = iter[1..n] /\ upTo[n - 1] = iter[1..(n - 1)]
  OBVIOUS
<1>6. upTo[0] = base /\ upTo[N] = iter[1..N]
  BY <1>1
<1> HIDE DEF upTo
<1>7. \A n \in 1..N : upTo[n] = step[<<n, upTo[n - 1]>>]
  BY <1>2, <1>3, <1>5
<1> QED
  BY <1>4, <1>6, <1>7 DEF Forwards

-----------------------------------------------------------------------------
(* Sums over a set.                                                        *)

Some(s) == CHOOSE x \in s : TRUE

(* A sum over the subsets of S, taking one element after the other.        *)
SumOf(S, g, it) ==
  /\ it \in [SUBSET S -> Nat]
  /\ it[{}] = 0
  /\ \A s \in SUBSET S : s # {} => it[s] = g[Some(s)] + it[s \ {Some(s)}]

(* A finite set is emptied one element after the other.                    *)
LEMMA FewerAreLeft ==
  ASSUME NEW S, IsFiniteSet(S), NEW s \in SUBSET S
  PROVE  /\ IsFiniteSet(s) /\ Cardinality(s) \in Nat
         /\ s # {} => /\ Some(s) \in s
                      /\ s \ {Some(s)} \in SUBSET S
                      /\ Cardinality(s \ {Some(s)}) < Cardinality(s)
<1>1. IsFiniteSet(s)
  BY FS_Subset
<1>2. Cardinality(s) \in Nat
  BY <1>1, FS_CardinalityType
<1>3. s # {} => Some(s) \in s
  BY DEF Some
<1>4. s # {} => Cardinality(s \ {Some(s)}) = Cardinality(s) - 1
  BY <1>1, <1>3, FS_RemoveElement
<1> QED
  BY <1>1, <1>2, <1>3, <1>4

(* A sum over a finite set is there.                                       *)
LEMMA SumsAreThere ==
  ASSUME NEW S, IsFiniteSet(S), NEW g \in [S -> Nat]
  PROVE  \E it : SumOf(S, g, it)
<1> DEFINE D == SUBSET S
           rank == [s \in D |-> Cardinality(s)]
           less == [s \in D |-> s \ {Some(s)}]
           F == [x \in D \X [D -> Nat] |->
                   IF x[1] = {} THEN 0 ELSE g[Some(x[1])] + x[2][less[x[1]]]]
<1>1. rank \in [D -> Nat] /\ less \in [D -> D]
  <2>1. \A s \in D : Cardinality(s) \in Nat
    BY FewerAreLeft
  <2> QED
    BY <2>1
<1>2. \A s \in D : s # {} => rank[less[s]] < rank[s] /\ Some(s) \in S
  <2> SUFFICES ASSUME NEW s \in D, s # {}
               PROVE  rank[less[s]] < rank[s] /\ Some(s) \in S
    OBVIOUS
  <2>1. Some(s) \in s /\ s \ {Some(s)} \in D /\ Cardinality(s \ {Some(s)}) < Cardinality(s)
    BY FewerAreLeft
  <2>2. rank[s] = Cardinality(s) /\ rank[s \ {Some(s)}] = Cardinality(s \ {Some(s)})
    BY <2>1
  <2> HIDE DEF rank
  <2> QED
    BY <2>1, <2>2
<1>3. \A s \in D : \A h \in [D -> Nat] :
        /\ s = {} => F[<<s, h>>] = 0
        /\ s # {} => F[<<s, h>>] = g[Some(s)] + h[less[s]]
  OBVIOUS
<1>4. F \in [D \X [D -> Nat] -> Nat]
  <2> SUFFICES ASSUME NEW s \in D, NEW h \in [D -> Nat]
               PROVE  (IF s = {} THEN 0 ELSE g[Some(s)] + h[less[s]]) \in Nat
    OBVIOUS
  <2>1. h[less[s]] \in Nat
    BY <1>1
  <2>2. s # {} => g[Some(s)] \in Nat
    BY <1>2
  <2> QED
    BY <2>1, <2>2
<1>5. \A s \in D : less[s] = s \ {Some(s)}
  OBVIOUS
<1> HIDE DEF F, rank, D, less
<1>6. ASSUME NEW s \in D, NEW h \in [D -> Nat], NEW k \in [D -> Nat],
             \A u \in D : rank[u] < rank[s] => h[u] = k[u]
      PROVE  F[<<s, h>>] = F[<<s, k>>]
  <2>1. s # {} => h[less[s]] = k[less[s]]
    BY <1>1, <1>2, <1>6
  <2> QED
    BY <1>3, <2>1
<1>7. Recursive(D, Nat, rank, F)
  <2>1. Nat # {}
    OBVIOUS
  <2> QED
    BY <1>1, <1>4, <1>6, <2>1 DEF Recursive
<1>8. PICK it \in [D -> Nat] : \A s \in D : it[s] = F[<<s, it>>]
  BY <1>7, Recursion
<1>9. ASSUME NEW s \in D, s # {}
      PROVE  it[s] = g[Some(s)] + it[s \ {Some(s)}]
  <2>1. it[s] = F[<<s, it>>]
    BY <1>8
  <2>2. F[<<s, it>>] = g[Some(s)] + it[less[s]]
    BY <1>3, <1>9
  <2> QED
    BY <1>5, <2>1, <2>2
<1>10. {} \in D
  BY DEF D
<1>11. it[{}] = 0
  BY <1>3, <1>8, <1>10
<1> QED
  BY <1>8, <1>9, <1>11 DEF D, SumOf

(* Sets that have nothing in common, and their sizes.                      *)
Apart(S, part, size) ==
  /\ \A x \in S : IsFiniteSet(part[x]) /\ size[x] = Cardinality(part[x])
  /\ \A x, y \in S : x # y => part[x] \cap part[y] = {}

(* The sum of the sizes of sets that have nothing in common is the size of *)
(* all of them together.                                                   *)
LEMMA ApartAddsUp ==
  ASSUME NEW S, IsFiniteSet(S), NEW part, NEW g, Apart(S, part, g),
         NEW it, SumOf(S, g, it)
  PROVE  /\ IsFiniteSet(UNION {part[x] : x \in S})
         /\ it[S] = Cardinality(UNION {part[x] : x \in S})
<1> USE DEF Apart
<1> DEFINE D == SUBSET S
           All(s) == UNION {part[x] : x \in s}
           rank == [s \in D |-> Cardinality(s)]
           Good(s) == IsFiniteSet(All(s)) /\ it[s] = Cardinality(All(s))
           T == {s \in D : Good(s)}
<1>1. rank \in [D -> Nat]
  <2>1. \A s \in D : Cardinality(s) \in Nat
    BY FewerAreLeft
  <2> QED
    BY <2>1
<1>2. ASSUME NEW s \in D, \A u \in D : rank[u] < rank[s] => u \in T
      PROVE  Good(s)
  <2>1. CASE s = {}
    <3>1. All(s) = {}
      BY <2>1
    <3>2. it[s] = 0
      BY <2>1 DEF SumOf
    <3> QED
      BY <3>1, <3>2, FS_EmptySet
  <2>2. CASE s # {}
    <3> DEFINE x == Some(s)
               r == s \ {x}
    <3>1. x \in s /\ r \in D /\ rank[r] < rank[s]
      BY <2>2, FewerAreLeft
    <3>2. IsFiniteSet(All(r)) /\ it[r] = Cardinality(All(r))
      BY <1>2, <3>1
    <3>3. it[s] = g[x] + it[r]
      BY <2>2 DEF SumOf
    <3>4. IsFiniteSet(part[x]) /\ g[x] = Cardinality(part[x])
      BY <3>1
    <3>5. All(s) = part[x] \cup All(r)
      BY <3>1
    <3>6. part[x] \cap All(r) = {}
      <4>1. \A y \in r : part[x] \cap part[y] = {}
        BY <3>1
      <4> QED
        BY <4>1
    <3> HIDE DEF All, x, r
    <3>7. /\ IsFiniteSet(part[x] \cup All(r))
          /\ Cardinality(part[x] \cup All(r)) =
               Cardinality(part[x]) + Cardinality(All(r)) - Cardinality(part[x] \cap All(r))
      BY <3>2, <3>4, FS_Union
    <3>8. Cardinality(part[x] \cap All(r)) = 0
      BY <3>6, FS_EmptySet
    <3>9. Cardinality(part[x]) \in Nat /\ Cardinality(All(r)) \in Nat
      BY <3>2, <3>4, FS_CardinalityType
    <3> QED
      BY <3>2, <3>3, <3>4, <3>5, <3>7, <3>8, <3>9
  <2> QED
    BY <2>1, <2>2
<1>3. Inductive(D, rank, T)
  <2> HIDE DEF Good, rank
  <2> QED
    BY <1>1, <1>2 DEF Inductive
<1>4. S \in T
  <2>1. S \in D
    OBVIOUS
  <2> HIDE DEF T, rank, D
  <2> QED
    BY <1>3, <2>1, ByRank
<1> QED
  BY <1>4

-----------------------------------------------------------------------------
(* Every head was merged: it loads, and nothing in it is refused.          *)

(* Whatever is merged, and however a Rollout goes on, head loaded and was  *)
(* not refused (Merges).                                                   *)
LEMMA HeadsAreMerged == Spec => []CanMerge(head)
<1>1. Init => CanMerge(head)
  BY DEF Init
<1>2. CanMerge(head) /\ [Next]_vars => CanMerge(head)'
  <2> SUFFICES ASSUME CanMerge(head), [Next]_vars
               PROVE  CanMerge(head')
    OBVIOUS
  <2>1. CASE Next
    BY <2>1 DEF Next, Merge, Advance, Complete, Abort, Merges
  <2>2. CASE UNCHANGED vars
    BY <2>2 DEF vars
  <2> QED
    BY <2>1, <2>2
<1> QED
  BY <1>1, <1>2, PTL DEF Spec

-----------------------------------------------------------------------------
(* The floors.                                                             *)

(* A ranked class has a rank, and no other one has it.                     *)
LEMMA RanksAreRanks ==
  ASSUME NEW c \in Range(FloorOrder)
  PROVE  RankOf(c) \in Nat /\ RankOf(c) \in DOMAIN FloorOrder /\ FloorOrder[RankOf(c)] = c
<1>1. FloorOrder \in Seq(Range(FloorOrder))
  BY RenderAssumption DEF ValidFloors
<1>2. DOMAIN FloorOrder \subseteq Nat
  BY <1>1
<1>3. \E i \in DOMAIN FloorOrder : FloorOrder[i] = c
  BY DEF Range
<1> QED
  BY <1>2, <1>3 DEF RankOf

(* Of ranked classes there is a strictest.                                 *)
LEMMA StrictestIsStrictest ==
  ASSUME NEW S \in SUBSET Range(FloorOrder), S # {}
  PROVE  Strictest(S) \in S /\ \A d \in S : RankOf(Strictest(S)) <= RankOf(d)
<1> DEFINE T == {RankOf(c) : c \in S}
<1>1. T \subseteq Nat /\ T # {}
  BY RanksAreRanks
<1>2. \E x \in T : \A y \in T : ~(<<y, x>> \in OpToRel(<, Nat))
  BY <1>1, NatLessThanWellFounded, WFMin
<1>3. \E x \in T : \A y \in T : ~(y < x)
  BY <1>1, <1>2 DEF OpToRel
<1>4. PICK c \in S : \A d \in S : ~(RankOf(d) < RankOf(c))
  BY <1>3
<1>5. \A d \in S : RankOf(c) <= RankOf(d)
  BY <1>4, RanksAreRanks
<1> QED
  BY <1>5 DEF Strictest

(* A table without gaps: where a class has a floor, a stricter one has.    *)
(* The only one the commands use, DefaultFloors, has none; Validate lets   *)
(* one with a gap through.                                                 *)
Gapless ==
  \A env \in DOMAIN Floors : \A c \in DOMAIN Floors[env] : \A d \in Range(FloorOrder) :
    RankOf(d) < RankOf(c) => d \in DOMAIN Floors[env]

(* The strictest of more classes has at least the floor of the strictest   *)
(* of fewer.                                                               *)
LEMMA MoreClassesMoreFloor ==
  ASSUME Gapless,
         NEW A, NEW B \in SUBSET Range(FloorOrder), A \subseteq B, A # {},
         NEW env \in DOMAIN Floors, Strictest(A) \in DOMAIN Floors[env]
  PROVE  /\ Strictest(B) \in DOMAIN Floors[env]
         /\ ladder[Floors[env][Strictest(B)]] >= ladder[Floors[env][Strictest(A)]]
<1> DEFINE c == Strictest(A)
           d == Strictest(B)
<1>1. c \in A /\ d \in B /\ RankOf(d) <= RankOf(c)
  BY StrictestIsStrictest
<1>2. c \in Range(FloorOrder) /\ d \in Range(FloorOrder)
  BY <1>1
<1>3. RankOf(c) \in Nat /\ RankOf(d) \in Nat
  BY <1>2, RanksAreRanks
<1>4. Floors[env][c] \in DOMAIN ladder
  BY RenderAssumption DEF ValidFloors
<1>5. CASE RankOf(d) = RankOf(c)
  <2>1. d = c
    BY <1>2, <1>5, RanksAreRanks
  <2>2. ladder[Floors[env][c]] \in Nat
    BY <1>4 DEF ladder
  <2> QED
    BY <2>1, <2>2
<1>6. CASE RankOf(d) < RankOf(c)
  <2>1. d \in DOMAIN Floors[env]
    BY <1>2, <1>6 DEF Gapless
  <2> QED
    BY <1>6, <2>1, RenderAssumption DEF ValidFloors
<1> QED
  BY <1>1, <1>3, <1>5, <1>6

(* What is below a floor is below a higher one.                            *)
LEMMA HigherFloorsCatchMore ==
  ASSUME NEW c, NEW signal, NEW cat, NEW f \in DOMAIN ladder, NEW g \in DOMAIN ladder,
         ladder[g] >= ladder[f], BelowFloor(c, signal, cat, f)
  PROVE  BelowFloor(c, signal, cat, g)
<1>1. \A x \in DOMAIN ladder : ladder[x] \in Nat
  BY DEF ladder
<1> QED
  BY <1>1 DEF BelowFloor

(* A Path more adds its class to those on the Tier, and changes nothing    *)
(* else.                                                                   *)
LEMMA APathAddsAClass ==
  ASSUME CanMerge(head), NEW tier \in DOMAIN head.tiers, NEW class
  PROVE  LET g == WithPath(tier, class)
         IN  /\ g.tiers = head.tiers /\ g.components = head.components
             /\ g.catalogue = head.catalogue
             /\ ClassesOn(head, tier) \subseteq ClassesOn(g, tier)
             /\ ClassesOn(g, tier) \subseteq ClassesOn(head, tier) \cup {class}
<1> DEFINE g == WithPath(tier, class)
           id == <<TeamOf(tier), <<"another">>>>
           new == [owner |-> head.tiers[tier].owner, class |-> class, paths |-> {<<tier>>}]
<1>1. DOMAIN head = HeadFields
  BY DEF CanMerge, Loads
<1>2. /\ g.tiers = head.tiers /\ g.components = head.components
      /\ g.catalogue = head.catalogue
      /\ g.services = [s \in DOMAIN head.services \cup {id} |->
                        IF s \in DOMAIN head.services THEN head.services[s] ELSE new]
  BY <1>1 DEF WithPath, HeadFields
<1>3. /\ DOMAIN g.services = DOMAIN head.services \cup {id}
      /\ \A s \in DOMAIN head.services : g.services[s] = head.services[s]
      /\ id \notin DOMAIN head.services => g.services[id] = new
  BY <1>2
<1>4. Traversing(head, tier) \subseteq Traversing(g, tier)
  BY <1>3 DEF Traversing
<1>5. Traversing(g, tier) \subseteq Traversing(head, tier) \cup {id}
  BY <1>3 DEF Traversing
<1>6. \A s \in Traversing(head, tier) : g.services[s].class = head.services[s].class
  BY <1>3 DEF Traversing
<1>7. ClassesOn(head, tier) \subseteq ClassesOn(g, tier)
  BY <1>4, <1>6 DEF ClassesOn
<1>8. \A s \in Traversing(g, tier) :
        s \in Traversing(head, tier) \/ g.services[s].class = class
  BY <1>3, <1>5 DEF Traversing
<1>9. ClassesOn(g, tier) \subseteq ClassesOn(head, tier) \cup {class}
  BY <1>6, <1>8 DEF ClassesOn
<1> QED
  BY <1>2, <1>7, <1>9

(* renderer.go: a table where it did "would make adding a C1 Path *relax*  *)
(* a Tier's judgement".  No Path of a ranked class takes a breach away     *)
(* from a Tier, where the table has no gap.                                *)
THEOREM PathsNeverRelax ==
  ASSUME Gapless
  PROVE  Spec => []APathNeverRelaxes
<1>1. CanMerge(head) => APathNeverRelaxes
  <2> SUFFICES ASSUME CanMerge(head),
                      NEW tier \in DOMAIN head.tiers, ~Unranked(head, tier),
                      NEW class \in Range(FloorOrder)
               PROVE  LET b == head.blueprints[head.tiers[tier].binding.id]
                      IN  Breaches(head, tier, b) \subseteq Breaches(WithPath(tier, class), tier, b)
    BY DEF APathNeverRelaxes
  <2> DEFINE b   == head.blueprints[head.tiers[tier].binding.id]
             g   == WithPath(tier, class)
             env == head.tiers[tier].environment
             A   == ClassesOn(head, tier)
             B   == ClassesOn(g, tier)
  <2>1. /\ g.tiers = head.tiers /\ g.components = head.components
        /\ g.catalogue = head.catalogue
        /\ A \subseteq B /\ B \subseteq A \cup {class}
    BY APathAddsAClass
  <2>2. B \subseteq Range(FloorOrder)
    BY <2>1 DEF Unranked
  <2>3. \A s : ResolvedIn(g, b, LaneEntries(b, s)) = ResolvedIn(head, b, LaneEntries(b, s))
    BY <2>1 DEF ResolvedIn, Provided, Resolve
  <2>4. ASSUME NEW used, NEW floor \in FloorFor(head, tier),
               BelowFloor(used[2], used[1], head.catalogue, floor)
        PROVE  \E higher \in FloorFor(g, tier) :
                 BelowFloor(used[2], used[1], g.catalogue, higher)
    <3>1. /\ A # {} /\ env \in DOMAIN Floors /\ Strictest(A) \in DOMAIN Floors[env]
          /\ floor = Floors[env][Strictest(A)]
      BY <2>4 DEF FloorFor
    <3>2. /\ Strictest(B) \in DOMAIN Floors[env]
          /\ ladder[Floors[env][Strictest(B)]] >= ladder[floor]
      BY <2>1, <2>2, <3>1, MoreClassesMoreFloor
    <3>3. floor \in DOMAIN ladder /\ Floors[env][Strictest(B)] \in DOMAIN ladder
      BY <3>1, <3>2, RenderAssumption DEF ValidFloors
    <3>4. BelowFloor(used[2], used[1], g.catalogue, Floors[env][Strictest(B)])
      BY <2>1, <2>4, <3>2, <3>3, HigherFloorsCatchMore
    <3>5. Floors[env][Strictest(B)] \in FloorFor(g, tier)
      BY <2>1, <3>1, <3>2 DEF FloorFor
    <3> QED
      BY <3>4, <3>5
  <2> HIDE DEF g, b
  <2> QED
    BY <2>3, <2>4 DEF Breaches, b, g
<1> QED
  BY <1>1, HeadsAreMerged, PTL

-----------------------------------------------------------------------------
(* The pins.                                                               *)

(* A binding that is not refused names a Blueprint that provides whatever  *)
(* it references, and has none of the other problems.                      *)
LEMMA NothingIsWrong ==
  ASSUME NEW h, NEW t, renderBound(h, t) = {}
  PROVE  LET b == h.blueprints[t.binding.id]
         IN  /\ t.binding.id \in DOMAIN h.blueprints
             /\ ~Dangling(h, b) /\ ~Collision(h, b) /\ ~Claimed(h, b)
<1> DEFINE b == h.blueprints[t.binding.id]
<1>1. t.binding.id \in DOMAIN h.blueprints
  BY DEF renderBound
<1>2. ASSUME Dangling(h, b) \/ Collision(h, b) \/ Claimed(h, b)
      PROVE  FALSE
  BY <1>1, <1>2 DEF renderBound
<1> QED
  BY <1>1, <1>2

(* Both bindings of a Tier of a merged head: the one it declares, and the  *)
(* one its Rollout stages.                                                 *)
LEMMA BothAreRendered ==
  ASSUME NEW h, CanMerge(h), NEW tier \in DOMAIN h.tiers
  PROVE  /\ renderBound(h, h.tiers[tier]) = {}
         /\ tier \in Staged(h) => renderBound(h, NextTier(h, tier)) = {}
<1>1. renderTier(h, tier) = {}
  BY DEF CanMerge, Refused
<1> QED
  BY <1>1 DEF renderTier

(* The staged Tier is bound to what its Rollout goes to.                   *)
LEMMA WhatIsStagedNext ==
  ASSUME NEW h, CanMerge(h), NEW tier \in DOMAIN h.tiers
  PROVE  NextTier(h, tier).binding = RolloutFor(h, tier).to
<1>1. DOMAIN h.tiers[tier] = TierFields
  BY DEF CanMerge, Loads, LoadsTopology, LoadsTier
<1> QED
  BY <1>1 DEF NextTier, TierFields

(* What is bound and what a Rollout goes to are there, and refer to nothing *)
(* that is not.                                                            *)
LEMMA BoundIsThere ==
  ASSUME NEW h, CanMerge(h), NEW p \in Bindings(h)
  PROVE  /\ p[2].id \in DOMAIN h.blueprints
         /\ ~Dangling(h, h.blueprints[p[2].id])
<1>1. CASE p \in {<<tier, h.tiers[tier].binding>> : tier \in DOMAIN h.tiers}
  BY <1>1, BothAreRendered, NothingIsWrong
<1>2. CASE p \in {<<tier, RolloutFor(h, tier).to>> : tier \in Staged(h)}
  <2>1. PICK tier \in Staged(h) : p = <<tier, RolloutFor(h, tier).to>>
    BY <1>2
  <2>2. tier \in DOMAIN h.tiers
    BY DEF Staged
  <2>3. renderBound(h, NextTier(h, tier)) = {} /\ p[2] = NextTier(h, tier).binding
    BY <2>1, <2>2, BothAreRendered, WhatIsStagedNext
  <2> QED
    BY <2>3, NothingIsWrong
<1> QED
  BY <1>1, <1>2 DEF Bindings

(* A reference of a Blueprint that loads, where it pins anything, pins a   *)
(* whole number of a shared Component, whose version is one too.           *)
LEMMA PinsAreNumbers ==
  ASSUME NEW h, CanMerge(h), NEW id \in DOMAIN h.blueprints,
         ~Dangling(h, h.blueprints[id]),
         NEW e \in AllEntries(h.blueprints[id]), e.pin # 0
  PROVE  /\ ~IsLocal(e) /\ ~Tracks(e)
         /\ RefID(e) \in DOMAIN h.components
         /\ e.pin \in Nat /\ h.components[RefID(e)].version \in Nat
<1>1. LoadsEntry(e, h.blueprints[id])
  BY DEF CanMerge, Loads, LoadsSources, LoadsBlueprint
<1>2. ~IsLocal(e) /\ ~Tracks(e) /\ e.pin \in Nat
  BY <1>1 DEF LoadsEntry, Tracks
<1>3. RefID(e) \in DOMAIN h.components
  BY <1>2 DEF Dangling, Provided
<1>4. LoadsShared(h.components[RefID(e)])
  BY <1>3 DEF CanMerge, Loads, LoadsSources
<1> QED
  BY <1>2, <1>3, <1>4 DEF LoadsShared, WellFormed

(* A pin behind head is a finding of the drift detection.                  *)
LEMMA BehindIsDrift ==
  ASSUME NEW h, NEW rendered, NEW id \in DOMAIN h.blueprints,
         NEW e \in AllEntries(h.blueprints[id]), BehindHead(h, e)
  PROVE  \E f \in Detect(h, rendered) :
           f.facet = "component" /\ f.blueprint = id /\ f.subject = <<RefID(e), e.pin>>
<1> DEFINE f == [facet |-> "component", to |-> Routed(h, id), blueprint |-> id,
                 subject |-> <<RefID(e), e.pin>>]
<1>1. f \in pinDrift(h, id)
  BY DEF pinDrift
<1>2. f \in Detect(h, rendered)
  BY <1>1 DEF Detect
<1> QED
  BY <1>2

(* A pin ahead of head is a finding of the load.                           *)
LEMMA AheadIsAFinding ==
  ASSUME NEW h, NEW id \in DOMAIN h.blueprints, NEW l \in Lanes,
         NEW e \in LaneEntries(h.blueprints[id], l),
         ~IsLocal(e), h.components[RefID(e)].version < e.pin
  PROVE  <<id, l>> \in ReferenceFindings(h)
<1>1. Resolve(h, h.blueprints[id], e).version = h.components[RefID(e)].version
  BY DEF Resolve
<1>2. CannotDeliver(h, h.blueprints[id], l, e)
  BY <1>1 DEF CannotDeliver
<1> QED
  BY <1>2 DEF ReferenceFindings

(* render.go: "the stale pin is visible drift, never a silent              *)
(* substitution".  Whatever a merged head pins and does not render, in a   *)
(* binding or in any lane of a bound Blueprint, staged ones among them, is *)
(* in a report.                                                            *)
THEOREM NothingIsSubstitutedSilently == Spec => []NoSilentSubstitution
<1>1. CanMerge(head) => NoSilentSubstitution
  <2> SUFFICES ASSUME CanMerge(head), NEW p \in Bindings(head)
               PROVE  /\ head.blueprints[p[2].id].version # p[2].version
                           => p \in bindingFindings(head)
                      /\ \A l \in Lanes : \A e \in LaneEntries(head.blueprints[p[2].id], l) :
                           e.pin # 0 /\ e.pin # head.components[RefID(e)].version
                             => ToldOfPin(p[2].id, l, e)
    BY DEF NoSilentSubstitution
  <2> DEFINE id == p[2].id
  <2>1. id \in DOMAIN head.blueprints /\ ~Dangling(head, head.blueprints[id])
    BY BoundIsThere
  <2>2. ASSUME NEW l \in Lanes, NEW e \in LaneEntries(head.blueprints[id], l),
               e.pin # 0, e.pin # head.components[RefID(e)].version
        PROVE  ToldOfPin(id, l, e)
    <3>1. e \in AllEntries(head.blueprints[id])
      BY DEF AllEntries
    <3>2. /\ ~IsLocal(e) /\ ~Tracks(e)
          /\ RefID(e) \in DOMAIN head.components
          /\ e.pin \in Nat /\ head.components[RefID(e)].version \in Nat
      BY <2>1, <2>2, <3>1, PinsAreNumbers
    <3>3. CASE e.pin < head.components[RefID(e)].version
      <4>1. BehindHead(head, e)
        BY <2>2, <3>2, <3>3 DEF BehindHead
      <4>2. \E f \in Detect(head, tree) :
              f.facet = "component" /\ f.blueprint = id /\ f.subject = <<RefID(e), e.pin>>
        BY <2>1, <3>1, <4>1, BehindIsDrift
      <4> QED
        BY <4>2 DEF ToldOfPin
    <3>4. CASE head.components[RefID(e)].version < e.pin
      BY <2>1, <3>2, <3>4, AheadIsAFinding DEF ToldOfPin
    <3> QED
      BY <2>2, <3>2, <3>3, <3>4
  <2>3. head.blueprints[id].version # p[2].version => p \in bindingFindings(head)
    BY DEF bindingFindings
  <2> QED
    BY <2>2, <2>3
<1> QED
  BY <1>1, HeadsAreMerged, PTL

-----------------------------------------------------------------------------
(* Closing a Rollout.  What it leaves alone is all that an artefact is     *)
(* made of beside the Tier itself.                                         *)

(* Two heads with the same of everything a binding is rendered from but    *)
(* the Tier.                                                               *)
SameParts(g, h) ==
  /\ g.teams = h.teams /\ g.lists = h.lists /\ g.grants = h.grants
  /\ g.catalogue = h.catalogue
  /\ g.components = h.components /\ g.blueprints = h.blueprints
  /\ g.telemetry = h.telemetry /\ g.livecheck = h.livecheck

(* What a Blueprint refers to is found by the components alone.            *)
LEMMA SameComponents ==
  ASSUME NEW g, NEW h, SameParts(g, h), NEW b
  PROVE  /\ \A e : Provided(g, b, e) = Provided(h, b, e) /\ Resolve(g, b, e) = Resolve(h, b, e)
         /\ \A entries : ResolvedIn(g, b, entries) = ResolvedIn(h, b, entries)
         /\ Instances(g, b) = Instances(h, b)
<1>1. \A e : Provided(g, b, e) = Provided(h, b, e) /\ Resolve(g, b, e) = Resolve(h, b, e)
  BY DEF SameParts, Provided, Resolve
<1>2. \A entries : ResolvedIn(g, b, entries) = ResolvedIn(h, b, entries)
  BY <1>1 DEF ResolvedIn
<1> QED
  BY <1>1, <1>2 DEF Instances

(* And so are its compiled lanes.                                          *)
LEMMA SameLanes ==
  ASSUME NEW g, NEW h, SameParts(g, h), NEW b, NEW l
  PROVE  compileLane(Sources(g), b, l) = compileLane(Sources(h), b, l)
BY DEF SameParts, Sources

(* So a binding has the same problems.                                     *)
LEMMA SameProblems ==
  ASSUME NEW g, NEW h, SameParts(g, h), NEW t
  PROVE  renderBound(g, t) = renderBound(h, t)
<1> DEFINE b == h.blueprints[t.binding.id]
<1>1. g.blueprints = h.blueprints
  BY DEF SameParts
<1>2. Dangling(g, b) <=> Dangling(h, b)
  BY SameComponents DEF Dangling
<1>3. Collision(g, b) <=> Collision(h, b)
  BY SameComponents DEF Collision
<1>4. Claimed(g, b) <=> Claimed(h, b)
  BY SameComponents DEF Claimed
<1>5. ASSUME NEW team
      PROVE  OutsidePalette(g, b, team) <=> OutsidePalette(h, b, team)
  <2>1. PolicyOf(g) = PolicyOf(h) /\ Tree(g) = Tree(h) /\ g.catalogue = h.catalogue
    BY DEF SameParts, PolicyOf, Tree
  <2>2. Instances(g, b) = Instances(h, b)
    BY SameComponents
  <2> QED
    BY <2>1, <2>2 DEF OutsidePalette
<1>6. Astray(g, b) <=> Astray(h, b)
  BY SameComponents DEF Astray
<1>7. SideMissing(g, b) <=> SideMissing(h, b)
  BY SameLanes DEF SideMissing
<1> QED
  BY <1>1, <1>2, <1>3, <1>4, <1>5, <1>6, <1>7 DEF renderBound

(* And a Tier the same artefact.                                           *)
LEMMA SameArtefact ==
  ASSUME NEW g, NEW h, SameParts(g, h), NEW tier, NEW t, NEW n
  PROVE  Emitted(g, tier, t, n) = Emitted(h, tier, t, n)
<1> DEFINE b == h.blueprints[t.binding.id]
<1>1. /\ g.blueprints = h.blueprints /\ g.telemetry = h.telemetry
      /\ g.livecheck = h.livecheck
  BY DEF SameParts
<1>2. Teed(g, t, b) = Teed(h, t, b)
  BY <1>1 DEF Teed
<1>3. Definitions(g, t, b) = Definitions(h, t, b)
  <2>1. Generated(g, t, b) = Generated(h, t, b)
    BY <1>1, <1>2 DEF Generated
  <2> QED
    BY <2>1, SameComponents DEF Definitions
<1>4. Extensions(g, b) = Extensions(h, b)
  BY SameComponents DEF Extensions
<1>5. Pipelines(g, t, b) = Pipelines(h, t, b)
  <2>1. ASSUME NEW l
        PROVE  LanePipeline(g, t, b, l) = LanePipeline(h, t, b, l)
    <3>1. compileLane(Sources(g), b, l) = compileLane(Sources(h), b, l)
      BY SameLanes
    <3> QED
      BY <3>1 DEF LanePipeline
  <2>2. \A l : Branch(g, t, b, l) = Branch(h, t, b, l)
    BY SameLanes DEF Branch
  <2> QED
    BY <1>2, <2>1, <2>2 DEF Pipelines
<1>6. Telemetry(g, t.environment) = Telemetry(h, t.environment)
  BY <1>1 DEF Telemetry
<1> QED
  BY <1>1, <1>3, <1>4, <1>5, <1>6 DEF Emitted, emitCollector

(* What a render writes at the two paths of a Tier.                        *)
LEMMA WhatIsWritten ==
  ASSUME NEW h, NEW n, NEW tier \in DOMAIN h.tiers
  PROVE  /\ Render(h, n)[ArtefactPath(tier)] = Emitted(h, tier, h.tiers[tier], n)
         /\ tier \in Staged(h) =>
              Render(h, n)[NextArtefactPath(tier)] = Emitted(h, tier, NextTier(h, tier), n)
BY DEF Render, ArtefactPath, NextArtefactPath

(* A Rollout of a merged head is the only one on its Tier, which is bound  *)
(* to what it moves from.                                                  *)
LEMMA TheRolloutOfATier ==
  ASSUME NEW h, CanMerge(h), NEW r \in DOMAIN h.rollouts
  PROVE  LET tier == h.rollouts[r].tier
         IN  /\ tier \in DOMAIN h.tiers /\ h.rollouts[r].from = h.tiers[tier].binding
             /\ tier \in Staged(h) /\ ActiveOn(h, tier) = {r}
             /\ RolloutFor(h, tier) = h.rollouts[r]
<1> DEFINE tier == h.rollouts[r].tier
<1>1. StagesItsTier(r, h) /\ \A q \in DOMAIN h.rollouts : h.rollouts[q].tier = tier => q = r
  BY DEF CanMerge, Loads, LoadsTopology
<1>2. tier \in DOMAIN h.tiers /\ h.rollouts[r].from = h.tiers[tier].binding
  BY <1>1 DEF StagesItsTier
<1>3. ActiveOn(h, tier) = {r}
  BY <1>1 DEF ActiveOn
<1> QED
  BY <1>2, <1>3 DEF Staged, RolloutFor

(* Closed either way, a head is one that merges: its Tier is bound to one  *)
(* of the two versions that render, and the other Rollouts are as they     *)
(* were.                                                                   *)
LEMMA ClosedIsAHead ==
  ASSUME NEW h, CanMerge(h), NEW r \in DOMAIN h.rollouts, NEW g,
         SameParts(g, h), DOMAIN g = HeadFields,
         g.services = h.services,
         g.rollouts = Restrict(h.rollouts, DOMAIN h.rollouts \ {r}),
         DOMAIN g.tiers = DOMAIN h.tiers,
         \A t \in DOMAIN h.tiers \ {h.rollouts[r].tier} : g.tiers[t] = h.tiers[t],
         LoadsTier(g.tiers[h.rollouts[r].tier]),
         renderBound(h, g.tiers[h.rollouts[r].tier]) = {},
         g.tiers[h.rollouts[r].tier].livecheck = h.tiers[h.rollouts[r].tier].livecheck
  PROVE  CanMerge(g)
<1> DEFINE tier == h.rollouts[r].tier
<1>1. /\ DOMAIN g.rollouts = DOMAIN h.rollouts \ {r}
      /\ \A q \in DOMAIN g.rollouts : g.rollouts[q] = h.rollouts[q]
  BY DEF Restrict
<1>2. LoadsTopology(h)
  BY DEF CanMerge, Loads
<1>3. \A q \in DOMAIN g.rollouts : g.rollouts[q].tier # tier
  BY <1>1, <1>2 DEF LoadsTopology
<1>4. LoadsTopology(g)
  <2>1. \A t \in DOMAIN g.tiers : LoadsTier(g.tiers[t])
    BY <1>2 DEF LoadsTopology
  <2>2. \A q \in DOMAIN g.rollouts : LoadsRollout(g.rollouts[q]) /\ StagesItsTier(q, g)
    <3> SUFFICES ASSUME NEW q \in DOMAIN g.rollouts
                 PROVE  LoadsRollout(g.rollouts[q]) /\ StagesItsTier(q, g)
      OBVIOUS
    <3>1. /\ q \in DOMAIN h.rollouts /\ g.rollouts[q] = h.rollouts[q]
          /\ g.rollouts[q].tier # tier
      BY <1>1, <1>3
    <3>2. LoadsRollout(h.rollouts[q]) /\ StagesItsTier(q, h)
      BY <1>2, <3>1 DEF LoadsTopology
    <3>3. g.tiers[h.rollouts[q].tier] = h.tiers[h.rollouts[q].tier]
      BY <3>1, <3>2 DEF StagesItsTier
    <3> QED
      BY <3>1, <3>2, <3>3 DEF StagesItsTier
  <2>3. \A q, p \in DOMAIN g.rollouts : g.rollouts[q].tier = g.rollouts[p].tier => q = p
    BY <1>1, <1>2 DEF LoadsTopology
  <2> QED
    BY <1>2, <2>1, <2>2, <2>3 DEF LoadsTopology
<1>5. Loads(g)
  <2>1. LoadsTeams(g.teams) /\ LoadsTelemetry(g.telemetry) /\ LoadsLiveCheck(g.livecheck)
    BY DEF CanMerge, Loads, SameParts
  <2>2. LoadsPolicy(g, Tree(g), g.catalogue)
    BY DEF CanMerge, Loads, SameParts, LoadsPolicy, Tree
  <2>3. LoadsSources(g)
    BY DEF CanMerge, Loads, SameParts, LoadsSources
  <2> QED
    BY <1>4, <2>1, <2>2, <2>3 DEF Loads
<1>6. ASSUME NEW t \in DOMAIN g.tiers
      PROVE  renderTier(g, t) = {}
  <2>1. renderTier(h, t) = {}
    BY DEF CanMerge, Refused
  <2>2. g.tiers[t].livecheck = h.tiers[t].livecheck /\ g.livecheck = h.livecheck
    BY DEF SameParts
  <2>3. ~(Written(g.tiers[t].livecheck) /\ ~Written(g.livecheck))
    BY <2>1, <2>2 DEF renderTier
  <2>4. renderBound(g, g.tiers[t]) = {}
    BY SameProblems, BothAreRendered
  <2>5. CASE t \in Staged(g)
    <3>1. PICK q \in DOMAIN g.rollouts : g.rollouts[q].tier = t
      BY <2>5 DEF Staged, ActiveOn
    <3>2. ActiveOn(g, t) = {q}
      BY <1>4, <3>1 DEF ActiveOn, LoadsTopology
    <3>3. RolloutFor(g, t) = h.rollouts[q] /\ h.rollouts[q].tier = t
      BY <1>1, <3>1, <3>2 DEF RolloutFor
    <3>4. RolloutFor(h, t) = h.rollouts[q] /\ t \in Staged(h)
      BY <1>1, <3>3, TheRolloutOfATier
    <3>5. g.tiers[t] = h.tiers[t]
      BY <1>3, <3>1
    <3>6. NextTier(g, t) = NextTier(h, t)
      BY <3>3, <3>4, <3>5 DEF NextTier
    <3>7. renderBound(g, NextTier(g, t)) = {}
      BY <3>4, <3>6, SameProblems, BothAreRendered
    <3> QED
      BY <2>3, <2>4, <3>7 DEF renderTier
  <2>6. CASE t \notin Staged(g)
    BY <2>3, <2>4, <2>6 DEF renderTier
  <2> QED
    BY <2>5, <2>6
<1> QED
  BY <1>5, <1>6 DEF CanMerge, Refused

(* What a completion and an abort make of the parts of a head.             *)
LEMMA WhatClosingChanges ==
  ASSUME DOMAIN head = HeadFields, NEW r \in DOMAIN head.rollouts,
         head.rollouts[r].tier \in DOMAIN head.tiers
  PROVE  LET tier == head.rollouts[r].tier
             rest == Restrict(head.rollouts, DOMAIN head.rollouts \ {r})
         IN  /\ SameParts(Completed(r), head) /\ SameParts(Aborted(r), head)
             /\ DOMAIN Completed(r) = HeadFields /\ DOMAIN Aborted(r) = HeadFields
             /\ Completed(r).services = head.services /\ Aborted(r).services = head.services
             /\ Completed(r).rollouts = rest /\ Aborted(r).rollouts = rest
             /\ DOMAIN Completed(r).tiers = DOMAIN head.tiers
             /\ \A t \in DOMAIN head.tiers \ {tier} : Completed(r).tiers[t] = head.tiers[t]
             /\ Completed(r).tiers[tier] =
                  [head.tiers[tier] EXCEPT !.binding = head.rollouts[r].to]
             /\ Aborted(r).tiers = head.tiers
<1> DEFINE tier  == head.rollouts[r].tier
           bound == [head.tiers EXCEPT ![tier].binding = head.rollouts[r].to]
           moved == [head EXCEPT !.tiers = bound]
<1>1. /\ DOMAIN bound = DOMAIN head.tiers
      /\ bound[tier] = [head.tiers[tier] EXCEPT !.binding = head.rollouts[r].to]
      /\ \A t \in DOMAIN head.tiers \ {tier} : bound[t] = head.tiers[t]
  OBVIOUS
<1>2. /\ DOMAIN moved = HeadFields /\ moved.tiers = bound
      /\ \A x \in HeadFields \ {"tiers"} : moved[x] = head[x]
  BY DEF HeadFields
<1>3. Completed(r) = Closed(moved, r)
  BY DEF Completed
<1> HIDE DEF bound, moved
<1>4. /\ DOMAIN Completed(r) = HeadFields /\ Completed(r).tiers = bound
      /\ Completed(r).rollouts = Restrict(head.rollouts, DOMAIN head.rollouts \ {r})
      /\ \A x \in HeadFields \ {"tiers", "rollouts"} : Completed(r)[x] = head[x]
  BY <1>2, <1>3 DEF Closed, HeadFields
<1>5. /\ DOMAIN Aborted(r) = HeadFields /\ Aborted(r).tiers = head.tiers
      /\ Aborted(r).rollouts = Restrict(head.rollouts, DOMAIN head.rollouts \ {r})
      /\ \A x \in HeadFields \ {"tiers", "rollouts"} : Aborted(r)[x] = head[x]
  BY DEF Aborted, Closed, HeadFields
<1>6. SameParts(Completed(r), head) /\ SameParts(Aborted(r), head)
  BY <1>4, <1>5 DEF SameParts, HeadFields
<1>7. Completed(r).services = head.services /\ Aborted(r).services = head.services
  BY <1>4, <1>5 DEF HeadFields
<1> QED
  BY <1>1, <1>4, <1>5, <1>6, <1>7

(* propose.go: deleting the file "reverts the Tier to single-bound         *)
(* *from*".  In every merged head a Rollout can be completed and can be    *)
(* aborted, whatever else was merged since it was opened, and what its     *)
(* Tier renders then is what the cohort had of it, or what the others had. *)
THEOREM RolloutsKeepTheirWord == Spec => []RolloutKeepsItsWord
<1>1. CanMerge(head) => RolloutKeepsItsWord
  <2> SUFFICES ASSUME CanMerge(head), NEW r \in DOMAIN head.rollouts
               PROVE  LET tier == head.rollouts[r].tier
                          base == ArtefactPath(tier)
                      IN  /\ CanMerge(Completed(r)) /\ CanMerge(Aborted(r))
                          /\ Config(Render(Completed(r), commit)[base])
                               = Config(Fresh[NextArtefactPath(tier)])
                          /\ Config(Render(Aborted(r), commit)[base]) = Config(Fresh[base])
                          /\ Fresh[base].binding = head.rollouts[r].from
    BY DEF RolloutKeepsItsWord
  <2> DEFINE tier == head.rollouts[r].tier
             base == ArtefactPath(tier)
             C    == Completed(r)
             A    == Aborted(r)
  <2>1. /\ tier \in DOMAIN head.tiers /\ head.rollouts[r].from = head.tiers[tier].binding
        /\ tier \in Staged(head) /\ RolloutFor(head, tier) = head.rollouts[r]
    BY TheRolloutOfATier
  <2>2. DOMAIN head = HeadFields
    BY DEF CanMerge, Loads
  <2>3. /\ SameParts(C, head) /\ SameParts(A, head)
        /\ DOMAIN C = HeadFields /\ DOMAIN A = HeadFields
        /\ C.services = head.services /\ A.services = head.services
        /\ C.rollouts = Restrict(head.rollouts, DOMAIN head.rollouts \ {r})
        /\ A.rollouts = Restrict(head.rollouts, DOMAIN head.rollouts \ {r})
        /\ DOMAIN C.tiers = DOMAIN head.tiers
        /\ \A t \in DOMAIN head.tiers \ {tier} : C.tiers[t] = head.tiers[t]
        /\ C.tiers[tier] = [head.tiers[tier] EXCEPT !.binding = head.rollouts[r].to]
        /\ A.tiers = head.tiers
    BY <2>1, <2>2, WhatClosingChanges
  <2> HIDE DEF C, A
  <2>4. C.tiers[tier] = NextTier(head, tier)
    BY <2>1, <2>3 DEF NextTier
  <2>5. LoadsTier(head.tiers[tier]) /\ LoadsRollout(head.rollouts[r])
    BY <2>1 DEF CanMerge, Loads, LoadsTopology
  <2>6. LoadsTier(C.tiers[tier]) /\ C.tiers[tier].livecheck = head.tiers[tier].livecheck
    BY <2>3, <2>5 DEF LoadsTier, LoadsRollout, TierFields
  <2>7. CanMerge(C)
    <3>1. renderBound(head, C.tiers[tier]) = {}
      BY <2>1, <2>4, BothAreRendered
    <3> QED
      BY <2>3, <2>6, <3>1, ClosedIsAHead
  <2>8. CanMerge(A)
    <3>1. renderBound(head, A.tiers[tier]) = {}
      BY <2>1, <2>3, BothAreRendered
    <3> QED
      BY <2>3, <2>5, <3>1, ClosedIsAHead
  <2>9. Render(C, commit)[base] = Fresh[NextArtefactPath(tier)]
    <3>1. Render(C, commit)[base] = Emitted(C, tier, NextTier(head, tier), commit)
      BY <2>1, <2>3, <2>4, WhatIsWritten
    <3>2. Fresh[NextArtefactPath(tier)] = Emitted(head, tier, NextTier(head, tier), commit)
      BY <2>1, WhatIsWritten DEF Fresh
    <3> QED
      BY <2>3, <3>1, <3>2, SameArtefact
  <2>10. Render(A, commit)[base] = Fresh[base]
    <3>1. Render(A, commit)[base] = Emitted(A, tier, head.tiers[tier], commit)
      BY <2>1, <2>3, WhatIsWritten
    <3>2. Fresh[base] = Emitted(head, tier, head.tiers[tier], commit)
      BY <2>1, WhatIsWritten DEF Fresh
    <3> QED
      BY <2>3, <3>1, <3>2, SameArtefact
  <2>11. Fresh[base].binding = head.rollouts[r].from
    <3>1. Fresh[base] = Emitted(head, tier, head.tiers[tier], commit)
      BY <2>1, WhatIsWritten DEF Fresh
    <3> QED
      <4>1. Emitted(head, tier, head.tiers[tier], commit).binding = head.tiers[tier].binding
        BY DEF Emitted, emitCollector
      <4> QED
        BY <2>1, <3>1, <4>1
  <2> QED
    BY <2>7, <2>8, <2>9, <2>10, <2>11 DEF C, A
<1> QED
  BY <1>1, HeadsAreMerged, PTL

-----------------------------------------------------------------------------
(* What an artefact defines.                                               *)

(* A component is known by its Team and name among those of a Blueprint.   *)
LEMMA OneBodyPerID ==
  ASSUME NEW h, NEW b, NEW c \in Instances(h, b), NEW d \in Instances(h, b),
         CompID(c) = CompID(d)
  PROVE  c = d
<1>1. PICK e : c = Resolve(h, b, e)
  BY DEF Instances, ResolvedIn
<1>2. PICK f : d = Resolve(h, b, f)
  BY DEF Instances, ResolvedIn
<1>3. c.team = e.team /\ c.name = e.name /\ d.team = f.team /\ d.name = f.name
  BY <1>1, <1>2 DEF Resolve
<1>4. e.team = f.team /\ e.name = f.name
  BY <1>3 DEF CompID
<1> QED
  BY <1>1, <1>2, <1>4 DEF Resolve, IsLocal, LocalsNamed, RefID

(* The definitions of an artefact have an id once each.                    *)
LEMMA DefinedOnce ==
  ASSUME NEW h, NEW t, renderBound(h, t) = {}
  PROVE  LET D == Definitions(h, t, h.blueprints[t.binding.id])
         IN  \A d, e \in D : d.id = e.id => d = e
<1> DEFINE b == h.blueprints[t.binding.id]
           Own == {Definition(c.class, RenderedID(c), c.config) : c \in Instances(h, b)}
<1>1. ~Collision(h, b) /\ ~Claimed(h, b)
  BY NothingIsWrong
<1>2. ASSUME NEW d \in Own, NEW e \in Own, d.id = e.id
      PROVE  d = e
  <2>1. PICK c \in Instances(h, b) : d = Definition(c.class, RenderedID(c), c.config)
    OBVIOUS
  <2>2. PICK f \in Instances(h, b) : e = Definition(f.class, RenderedID(f), f.config)
    OBVIOUS
  <2>3. RenderedID(c) = RenderedID(f)
    BY <1>2, <2>1, <2>2 DEF Definition
  <2>4. c = f
    BY <1>1, <2>3, OneBodyPerID DEF Collision
  <2> QED
    BY <2>1, <2>2, <2>4
<1>3. \A d \in Own : d.id \notin Reserved
  BY <1>1 DEF Claimed, Definition
<1>4. \A e \in Generated(h, t, b) : e.id \in Reserved
  BY DEF Generated, Definition, Reserved
<1>5. \A d, e \in Generated(h, t, b) : d.id = e.id => d = e
  <2>1. /\ StripProcessorID # LiveCheckSamplerID /\ StripProcessorID # ExporterID
        /\ LiveCheckSamplerID # ExporterID
    BY DEF StripProcessorID, LiveCheckSamplerID, ExporterID
  <2> QED
    BY <2>1 DEF Generated, Definition
<1>6. Definitions(h, t, b) = Own \cup Generated(h, t, b)
  BY DEF Definitions
<1> HIDE DEF Own
<1> QED
  BY <1>2, <1>3, <1>4, <1>5, <1>6

(* render.go (resolveInstances): what would make two components of one     *)
(* artefact share a rendered id is refused.  So in every artefact of a     *)
(* merged head, a staged one and the generated parts included, an id is    *)
(* defined once.                                                           *)
THEOREM DefinitionsAreUnique ==
  Spec => [](\A p \in Artefacts : \A d, e \in Fresh[p].definitions : d.id = e.id => d = e)
<1>1. CanMerge(head) => \A p \in Artefacts : \A d, e \in Fresh[p].definitions : d.id = e.id => d = e
  <2> SUFFICES ASSUME CanMerge(head), NEW p \in Artefacts
               PROVE  \A d, e \in Fresh[p].definitions : d.id = e.id => d = e
    OBVIOUS
  <2>1. ASSUME NEW tier \in DOMAIN head.tiers, NEW t, renderBound(head, t) = {},
               Fresh[p] = Emitted(head, tier, t, commit)
        PROVE  \A d, e \in Fresh[p].definitions : d.id = e.id => d = e
    <3>1. Fresh[p].definitions = Definitions(head, t, head.blueprints[t.binding.id])
      BY <2>1 DEF Emitted, emitCollector
    <3> QED
      BY <2>1, <3>1, DefinedOnce
  <2>2. \/ \E tier \in DOMAIN head.tiers : p = ArtefactPath(tier)
        \/ \E tier \in Staged(head) : p = NextArtefactPath(tier)
    BY DEF Artefacts, Fresh, Render, ArtefactPath, NextArtefactPath, SupervisorPath,
           UnmatchedArtefactPath, CodeOwnersPath
  <2>3. CASE \E tier \in DOMAIN head.tiers : p = ArtefactPath(tier)
    <3>1. PICK tier \in DOMAIN head.tiers : p = ArtefactPath(tier)
      BY <2>3
    <3>2. Fresh[p] = Emitted(head, tier, head.tiers[tier], commit)
      BY <3>1, WhatIsWritten DEF Fresh
    <3> QED
      BY <2>1, <3>2, BothAreRendered
  <2>4. CASE \E tier \in Staged(head) : p = NextArtefactPath(tier)
    <3>1. PICK tier \in Staged(head) : p = NextArtefactPath(tier)
      BY <2>4
    <3>2. tier \in DOMAIN head.tiers
      BY DEF Staged
    <3>3. Fresh[p] = Emitted(head, tier, NextTier(head, tier), commit)
      BY <3>1, <3>2, WhatIsWritten DEF Fresh
    <3> QED
      BY <2>1, <3>2, <3>3, BothAreRendered
  <2> QED
    BY <2>2, <2>3, <2>4
<1> QED
  BY <1>1, HeadsAreMerged, PTL

-----------------------------------------------------------------------------
(* What a lane compiles to.                                                *)

(* The lanes that name only these ids.                                     *)
PipesOf(ids) == [receivers : Seq(ids), processors : Seq(ids), exporters : Seq(ids)]

(* Placing a component keeps a lane a lane of ids.                         *)
LEMMA PlacingKeepsPipes ==
  ASSUME NEW ids, NEW p \in PipesOf(ids), NEW c, RenderedID(c) \in ids
  PROVE  Place(p, c) \in PipesOf(ids)
<1>1. \A side \in {"receivers", "processors", "exporters"} :
        [p EXCEPT ![side] = Append(@, RenderedID(c))] \in PipesOf(ids)
  <2> DEFINE q(side) == [p EXCEPT ![side] = Append(@, RenderedID(c))]
  <2>1. /\ Append(p.receivers, RenderedID(c)) \in Seq(ids)
        /\ Append(p.processors, RenderedID(c)) \in Seq(ids)
        /\ Append(p.exporters, RenderedID(c)) \in Seq(ids)
    BY DEF PipesOf
  <2> QED
    BY <2>1 DEF PipesOf
<1>2. \/ Place(p, c) = p
      \/ \E side \in {"receivers", "processors", "exporters"} :
           Place(p, c) = [p EXCEPT ![side] = Append(@, RenderedID(c))]
  BY DEF Place
<1> QED
  BY <1>1, <1>2

(* Its three sides hold rendered ids of the components the lane resolves.  *)
LEMMA LanesCompile ==
  ASSUME NEW est, NEW b, NEW l, b.lanes[l] \in Seq(LaneEntries(b, l))
  PROVE  compileLane(est, b, l)
           \in PipesOf({RenderedID(c) : c \in ResolvedIn(est, b, LaneEntries(b, l))})
<1> DEFINE seq == b.lanes[l]
           ids == {RenderedID(c) : c \in ResolvedIn(est, b, LaneEntries(b, l))}
           A == PipesOf(ids)
           On(n, p) == IF Provided(est, b, seq[n]) THEN Place(p, Resolve(est, b, seq[n])) ELSE p
<1>1. PICK N \in Nat : DOMAIN seq = 1..N /\ \A n \in 1..N : seq[n] \in LaneEntries(b, l)
  BY Len(seq) \in Nat
<1> DEFINE Eq(it) == it = [s \in SUBSET (DOMAIN seq) |->
                       IF s = {} THEN NoPipeline
                       ELSE IF Provided(est, b, seq[Max(s)])
                            THEN Place(it[s \ {Max(s)}], Resolve(est, b, seq[Max(s)]))
                            ELSE it[s \ {Max(s)}]]
           iter == CHOOSE it : Eq(it)
           step == [x \in (1..N) \X A |-> On(x[1], x[2])]
<1>2. compileLane(est, b, l) = iter[DOMAIN seq]
  BY DEF compileLane, FoldLeft, MapThenFoldSet
<1>3. NoPipeline \in A
  BY DEF NoPipeline, PipesOf
<1>4. \A n \in 1..N : \A p \in A : On(n, p) \in A
  <2> SUFFICES ASSUME NEW n \in 1..N, NEW p \in A, Provided(est, b, seq[n])
               PROVE  Place(p, Resolve(est, b, seq[n])) \in A
    OBVIOUS
  <2>1. Resolve(est, b, seq[n]) \in ResolvedIn(est, b, LaneEntries(b, l))
    BY <1>1 DEF ResolvedIn
  <2>2. RenderedID(Resolve(est, b, seq[n])) \in ids
    BY <2>1
  <2> HIDE DEF ids
  <2> QED
    BY <2>2, PlacingKeepsPipes
<1>5. step \in [(1..N) \X A -> A]
  <2> HIDE DEF A, On
  <2> QED
    BY <1>4
<1>6. FoldOver(N, A, NoPipeline, step)
  BY <1>3, <1>5 DEF FoldOver
<1>7. PICK f : FoldOf(N, A, NoPipeline, step, f)
  <2> HIDE DEF step, A
  <2> QED
    BY <1>6, FoldsAreThere
<1>8. \A s \in SUBSET (1..N) : s # {} => Max(s) \in 1..N
  BY HighestPosition
<1>9. \A n \in 1..N : \A p \in A : step[<<n, p>>] = On(n, p)
  <2> HIDE DEF A, On
  <2> QED
    OBVIOUS
<1>10. Eq(f)
  <2>1. ASSUME NEW s \in SUBSET (1..N), s # {}
        PROVE  f[s] = On(Max(s), f[s \ {Max(s)}])
    <3>1. f[s \ {Max(s)}] \in A /\ Max(s) \in 1..N
      BY <1>7, <1>8, <2>1 DEF FoldOf
    <3> HIDE DEF On, A, step
    <3> QED
      BY <1>7, <1>9, <2>1, <3>1 DEF FoldOf
  <2>2. f = [s \in SUBSET (1..N) |-> IF s = {} THEN NoPipeline ELSE On(Max(s), f[s \ {Max(s)}])]
    <3> HIDE DEF On, A, step
    <3> QED
      BY <1>7, <2>1 DEF FoldOf
  <2> QED
    BY <1>1, <2>2
<1>11. Eq(iter)
  <2> HIDE DEF Eq
  <2> QED
    BY <1>10
<1>12. /\ iter[{}] = NoPipeline
       /\ \A s \in SUBSET (1..N) : s # {} => iter[s] = On(Max(s), iter[s \ {Max(s)}])
  <2> HIDE DEF iter
  <2> QED
    BY <1>1, <1>11
<1> HIDE DEF iter, A, On, step
<1>13. FoldedBy(N, A, NoPipeline, step, iter)
  BY <1>8, <1>9, <1>12 DEF FoldedBy
<1>14. iter[1..N] \in A
  <2>1. PICK upTo : Forwards(N, A, NoPipeline, step, upTo) /\ upTo[N] = iter[1..N]
    BY <1>6, <1>13, FoldsGoThroughPrefixes
  <2> QED
    BY <2>1 DEF Forwards
<1> QED
  BY <1>1, <1>2, <1>14 DEF A

(* What is not refused has an entry and an exit in every lane.             *)
LEMMA NoSideIsMissing ==
  ASSUME NEW h, NEW t, renderBound(h, t) = {}
  PROVE  ~SideMissing(h, h.blueprints[t.binding.id])
<1> DEFINE b == h.blueprints[t.binding.id]
           first == {p \in {"reference", "collision", "reserved", "palette"} :
                       CASE p = "reference" -> Dangling(h, b)
                         [] p = "collision" -> Collision(h, b)
                         [] p = "reserved"  -> Claimed(h, b)
                         [] p = "palette"   -> OutsidePalette(h, b, TeamOf(t.binding.id))}
           then == {p \in {"lane", "side"} :
                      CASE p = "lane" -> Astray(h, b)
                        [] p = "side" -> SideMissing(h, b)}
<1>1. t.binding.id \in DOMAIN h.blueprints
  BY DEF renderBound
<1>2. (IF first # {} THEN first ELSE then) = {}
  BY <1>1 DEF renderBound
<1>3. then = {}
  <2> HIDE DEF first, then
  <2> QED
    BY <1>2
<1>4. SideMissing(h, b) => "side" \in then
  OBVIOUS
<1> QED
  BY <1>3, <1>4

(* The ids an artefact may name.                                           *)
OwnIDs(h, b) == {RenderedID(c) : c \in Instances(h, b)}

(* What a Blueprint lists itself is defined in its artefact.               *)
LEMMA OwnIDsAreDefined ==
  ASSUME NEW h, NEW t, NEW b
  PROVE  /\ OwnIDs(h, b) \subseteq {d.id : d \in Definitions(h, t, b)}
         /\ Strips(t, b) => StripProcessorID \in {d.id : d \in Definitions(h, t, b)}
         /\ Teed(h, t, b) # {} => /\ LiveCheckSamplerID \in {d.id : d \in Definitions(h, t, b)}
                                  /\ ExporterID \in {d.id : d \in Definitions(h, t, b)}
<1>1. ASSUME NEW c \in Instances(h, b)
      PROVE  RenderedID(c) \in {d.id : d \in Definitions(h, t, b)}
  <2>1. Definition(c.class, RenderedID(c), c.config) \in Definitions(h, t, b)
    BY DEF Definitions
  <2>2. Definition(c.class, RenderedID(c), c.config).id = RenderedID(c)
    BY DEF Definition
  <2> QED
    BY <2>1, <2>2
<1>2. Generated(h, t, b) \subseteq Definitions(h, t, b)
  BY DEF Definitions
<1>3. \A class, id, config : Definition(class, id, config).id = id
  BY DEF Definition
<1>4. Strips(t, b) => \E d \in Generated(h, t, b) : d.id = StripProcessorID
  BY <1>3 DEF Generated
<1>5. Teed(h, t, b) # {} => /\ \E d \in Generated(h, t, b) : d.id = LiveCheckSamplerID
                            /\ \E d \in Generated(h, t, b) : d.id = ExporterID
  BY <1>3 DEF Generated
<1> QED
  BY <1>1, <1>2, <1>4, <1>5 DEF OwnIDs

(* A compiled lane names only what the Blueprint lists.                    *)
LEMMA LanesNameTheirOwn ==
  ASSUME NEW h, NEW b, NEW l \in BlueprintSignals, b.lanes[l] \in Seq(LaneEntries(b, l))
  PROVE  compileLane(Sources(h), b, l) \in PipesOf(OwnIDs(h, b))
<1> DEFINE X == {RenderedID(c) : c \in ResolvedIn(Sources(h), b, LaneEntries(b, l))}
<1>1. compileLane(Sources(h), b, l) \in PipesOf(X)
  BY LanesCompile
<1>2. Sources(h).components = h.components
  BY DEF Sources
<1>3. ResolvedIn(Sources(h), b, LaneEntries(b, l)) = ResolvedIn(h, b, LaneEntries(b, l))
  BY <1>2 DEF ResolvedIn, Provided, Resolve
<1>4. LaneEntries(b, l) \subseteq AllEntries(b)
  BY DEF AllEntries, Lanes
<1>5. ResolvedIn(h, b, LaneEntries(b, l)) \subseteq Instances(h, b)
  BY <1>4 DEF Instances, ResolvedIn
<1>6. X \subseteq OwnIDs(h, b)
  BY <1>3, <1>5 DEF OwnIDs
<1>7. PipesOf(X) \subseteq PipesOf(OwnIDs(h, b))
  <2> HIDE DEF X
  <2>1. Seq(X) \subseteq Seq(OwnIDs(h, b))
    BY <1>6
  <2> QED
    BY <2>1 DEF PipesOf
<1> QED
  BY <1>1, <1>7

(* A lane's own pipeline, and the branch teed off it.                      *)
StripFirst(q) ==
  q.processors # <<>> /\ Head(q.processors) = StripProcessorID
    /\ StripProcessorID \notin Range(Tail(q.processors))

(* The pipeline of a lane names what is defined and, in an untrusted Tier, *)
(* strips first.                                                           *)
LEMMA LanesAreWhole ==
  ASSUME NEW h, NEW t, renderBound(h, t) = {}, NEW l,
         l \in Wired(h.blueprints[t.binding.id]),
         h.blueprints[t.binding.id].lanes[l] \in Seq(LaneEntries(h.blueprints[t.binding.id], l))
  PROVE  LET b   == h.blueprints[t.binding.id]
             q   == LanePipeline(h, t, b, l)
             ids == {d.id : d \in Definitions(h, t, b)}
         IN  /\ Named(q) \subseteq ids /\ q.receivers # <<>> /\ q.exporters # <<>>
             /\ Untrusted(t) => StripFirst(q)
<1> DEFINE b   == h.blueprints[t.binding.id]
           p   == compileLane(Sources(h), b, l)
           q   == LanePipeline(h, t, b, l)
           ids == {d.id : d \in Definitions(h, t, b)}
<1>1. l \in BlueprintSignals
  BY DEF Wired
<1>2. p \in PipesOf(OwnIDs(h, b))
  BY <1>1, LanesNameTheirOwn
<1>3. p.receivers # <<>> /\ p.exporters # <<>>
  BY NoSideIsMissing DEF SideMissing
<1>4. OwnIDs(h, b) \subseteq ids
  BY OwnIDsAreDefined
<1>5. StripProcessorID \notin OwnIDs(h, b)
  BY NothingIsWrong DEF Claimed, OwnIDs, Reserved
<1>6. q = IF Strips(t, b) THEN [p EXCEPT !.processors = <<StripProcessorID>> \o @] ELSE p
  BY DEF LanePipeline
<1>7. Strips(t, b) => StripProcessorID \in ids
  BY OwnIDsAreDefined
<1>8. Untrusted(t) => Strips(t, b)
  BY DEF Strips
<1> HIDE DEF b, p, q, ids
<1>9. /\ Range(p.receivers) \subseteq ids /\ Range(p.processors) \subseteq ids
      /\ Range(p.exporters) \subseteq ids /\ StripProcessorID \notin Range(p.processors)
  BY <1>2, <1>4, <1>5 DEF PipesOf, Range
<1>10. CASE Strips(t, b)
  <2>1. p.processors \in Seq(OwnIDs(h, b))
    BY <1>2 DEF PipesOf
  <2>2. /\ q.receivers = p.receivers /\ q.exporters = p.exporters
        /\ q.processors = <<StripProcessorID>> \o p.processors
    BY <1>2, <1>6, <1>10 DEF PipesOf
  <2>3. /\ q.processors # <<>> /\ Head(q.processors) = StripProcessorID
        /\ Tail(q.processors) = p.processors
        /\ Range(q.processors) \subseteq {StripProcessorID} \cup Range(p.processors)
    <3> DEFINE u == p.processors
               v == <<StripProcessorID>> \o u
    <3>1. u \in Seq(OwnIDs(h, b)) /\ Len(v) = Len(u) + 1
      BY <2>1
    <3>2. v[1] = StripProcessorID /\ \A i \in 1..Len(u) : v[i + 1] = u[i]
      BY <3>1
    <3>3. v \in Seq(OwnIDs(h, b) \cup {StripProcessorID})
      BY <3>1
    <3> HIDE DEF u, v
    <3>4. v # <<>> /\ Head(v) = StripProcessorID
      BY <3>1, <3>2, <3>3
    <3>5. Tail(v) \in Seq(OwnIDs(h, b) \cup {StripProcessorID}) /\ Len(Tail(v)) = Len(u)
      BY <3>1, <3>3, <3>4
    <3>6. \A i \in 1..Len(u) : Tail(v)[i] = u[i]
      BY <3>1, <3>2, <3>3, <3>4
    <3>7. Tail(v) = u
      BY <3>1, <3>5, <3>6
    <3>8. Range(v) \subseteq {StripProcessorID} \cup Range(u)
      <4> SUFFICES ASSUME NEW i \in DOMAIN v, i # 1
                   PROVE  v[i] \in Range(u)
        BY <3>2 DEF Range
      <4>1. i \in 1..(Len(u) + 1) /\ i - 1 \in 1..Len(u) /\ i = (i - 1) + 1
        BY <3>1, <3>3
      <4>2. v[i] = u[i - 1] /\ i - 1 \in DOMAIN u
        BY <3>1, <3>2, <4>1
      <4> QED
        BY <4>2 DEF Range
    <3> QED
      BY <2>2, <3>4, <3>7, <3>8 DEF u, v
  <2>4. Named(q) \subseteq ids
    BY <1>7, <1>9, <1>10, <2>2, <2>3 DEF Named
  <2> QED
    BY <1>3, <1>9, <2>2, <2>3, <2>4 DEF StripFirst, b, p, q, ids
<1>11. CASE ~Strips(t, b)
  BY <1>3, <1>6, <1>8, <1>9, <1>11 DEF Named, b, p, q, ids
<1> QED
  BY <1>10, <1>11

(* So does the live-check branch beside it.                                *)
LEMMA BranchesAreWhole ==
  ASSUME NEW h, NEW t, renderBound(h, t) = {}, NEW l,
         l \in Teed(h, t, h.blueprints[t.binding.id]),
         h.blueprints[t.binding.id].lanes[l] \in Seq(LaneEntries(h.blueprints[t.binding.id], l))
  PROVE  LET b   == h.blueprints[t.binding.id]
             q   == Branch(h, t, b, l)
             ids == {d.id : d \in Definitions(h, t, b)}
         IN  /\ Named(q) \subseteq ids /\ q.receivers # <<>> /\ q.exporters # <<>>
             /\ Untrusted(t) => StripFirst(q)
<1> DEFINE b   == h.blueprints[t.binding.id]
           p   == compileLane(Sources(h), b, l)
           q   == Branch(h, t, b, l)
           ids == {d.id : d \in Definitions(h, t, b)}
<1>1. l \in Wired(b) /\ l \in BlueprintSignals
  BY DEF Teed, Wired
<1>2. p \in PipesOf(OwnIDs(h, b))
  BY <1>1, LanesNameTheirOwn
<1>3. p.receivers # <<>>
  BY <1>1, NoSideIsMissing DEF SideMissing
<1>4. Range(p.receivers) \subseteq ids
  <2>1. OwnIDs(h, b) \subseteq ids
    BY OwnIDsAreDefined
  <2> HIDE DEF p, ids
  <2> QED
    BY <1>2, <2>1 DEF PipesOf, Range
<1>5. /\ LiveCheckSamplerID \in ids /\ ExporterID \in ids
      /\ Strips(t, b) => StripProcessorID \in ids
  BY OwnIDsAreDefined
<1>6. StripProcessorID # LiveCheckSamplerID
  BY DEF StripProcessorID, LiveCheckSamplerID
<1>7. Untrusted(t) => Strips(t, b)
  BY <1>1 DEF Strips
<1>8. /\ q.receivers = p.receivers /\ q.exporters = <<ExporterID>>
      /\ q.processors = IF Strips(t, b) THEN <<StripProcessorID, LiveCheckSamplerID>>
                        ELSE <<LiveCheckSamplerID>>
  BY DEF Branch
<1> HIDE DEF b, p, q, ids
<1>9. Named(q) \subseteq ids
  BY <1>4, <1>5, <1>8 DEF Named, Range
<1>10. Strips(t, b) => StripFirst(q)
  <2> SUFFICES ASSUME Strips(t, b)
               PROVE  StripFirst(q)
    OBVIOUS
  <2>1. q.processors = <<StripProcessorID, LiveCheckSamplerID>>
    BY <1>8
  <2>2. Tail(q.processors) = <<LiveCheckSamplerID>>
    BY <2>1
  <2> QED
    BY <1>6, <2>1, <2>2 DEF StripFirst, Range
<1>11. q.exporters # <<>>
  BY <1>8
<1> QED
  BY <1>3, <1>7, <1>8, <1>9, <1>10, <1>11 DEF b, p, q, ids

(* Every pipeline of an artefact is a lane's or a branch.                  *)
LEMMA PipelinesAreWhole ==
  ASSUME NEW h, CanMerge(h), NEW t, renderBound(h, t) = {},
         NEW q \in Range(Pipelines(h, t, h.blueprints[t.binding.id]))
  PROVE  LET ids == {d.id : d \in Definitions(h, t, h.blueprints[t.binding.id])}
         IN  /\ Named(q) \subseteq ids /\ q.receivers # <<>> /\ q.exporters # <<>>
             /\ Untrusted(t) => StripFirst(q)
<1> DEFINE b == h.blueprints[t.binding.id]
<1>1. \A l \in Lanes : b.lanes[l] \in Seq(LaneEntries(b, l))
  <2>1. t.binding.id \in DOMAIN h.blueprints
    BY NothingIsWrong
  <2> QED
    BY <2>1 DEF CanMerge, Loads, LoadsSources, LoadsBlueprint
<1>2. Wired(b) \subseteq Lanes /\ Teed(h, t, b) \subseteq Lanes
  BY DEF Wired, Teed, Lanes
<1>3. PICK at \in {<<l>> : l \in Wired(b)} \cup {TapPipeline(l) : l \in Teed(h, t, b)} :
        q = IF Len(at) = 1 THEN LanePipeline(h, t, b, at[1]) ELSE Branch(h, t, b, at[1])
  BY DEF Pipelines, Range
<1>4. CASE at \in {<<l>> : l \in Wired(b)}
  <2>1. PICK l \in Wired(b) : at = <<l>>
    BY <1>4
  <2>2. q = LanePipeline(h, t, b, l)
    BY <1>3, <2>1
  <2> QED
    BY <1>1, <1>2, <2>2, LanesAreWhole
<1>5. CASE at \in {TapPipeline(l) : l \in Teed(h, t, b)}
  <2>1. PICK l \in Teed(h, t, b) : at = TapPipeline(l)
    BY <1>5
  <2>2. Len(at) = 3 /\ at[1] = l
    BY <2>1 DEF TapPipeline
  <2>3. q = Branch(h, t, b, l)
    BY <1>3, <2>2
  <2> QED
    BY <1>1, <1>2, <2>3, BranchesAreWhole
<1> QED
  BY <1>3, <1>4, <1>5

(* So does every pipeline of an artefact that is written.                  *)
LEMMA EmittedIsWhole ==
  ASSUME NEW h, CanMerge(h), NEW tier, NEW t, NEW n, renderBound(h, t) = {}
  PROVE  /\ Whole(Emitted(h, tier, t, n))
         /\ Untrusted(t) => StrippedFirst(Emitted(h, tier, t, n))
<1> DEFINE b == h.blueprints[t.binding.id]
           x == Emitted(h, tier, t, n)
<1>1. x.definitions = Definitions(h, t, b) /\ x.pipelines = Pipelines(h, t, b)
  BY DEF Emitted, emitCollector
<1>2. \A d, e \in Definitions(h, t, b) : d.id = e.id => d = e
  BY DefinedOnce
<1>3. ASSUME NEW q \in Range(Pipelines(h, t, b))
      PROVE  /\ Named(q) \subseteq {d.id : d \in Definitions(h, t, b)}
             /\ q.receivers # <<>> /\ q.exporters # <<>>
             /\ Untrusted(t) => StripFirst(q)
  BY PipelinesAreWhole
<1> HIDE DEF x, b
<1>4. Whole(x)
  BY <1>1, <1>2, <1>3 DEF Whole
<1>5. Untrusted(t) => StrippedFirst(x)
  BY <1>1, <1>3 DEF StrippedFirst, StripFirst
<1> QED
  BY <1>4, <1>5 DEF x

(* emit.go: "nothing may observe the platform namespace on inbound data    *)
(* before the strip, the live-check exporter included".  Every artefact    *)
(* of every merged head, a staged one included, defines once whatever its  *)
(* pipelines name, has both sides of each, and runs the strip first where  *)
(* a Hop is untrusted, in the branch teed off a lane too.                  *)
THEOREM ArtefactsAreWhole == Spec => []ArtefactIsWhole
<1>1. CanMerge(head) => ArtefactIsWhole
  <2> SUFFICES ASSUME CanMerge(head), NEW p \in Artefacts
               PROVE  /\ Whole(Fresh[p])
                      /\ Untrusted(head.tiers[p[2]]) => StrippedFirst(Fresh[p])
    BY DEF ArtefactIsWhole
  <2>1. \/ \E tier \in DOMAIN head.tiers : p = ArtefactPath(tier)
        \/ \E tier \in Staged(head) : p = NextArtefactPath(tier)
    BY DEF Artefacts, Fresh, Render, ArtefactPath, NextArtefactPath, SupervisorPath,
           UnmatchedArtefactPath, CodeOwnersPath
  <2>2. CASE \E tier \in DOMAIN head.tiers : p = ArtefactPath(tier)
    <3>1. PICK tier \in DOMAIN head.tiers : p = ArtefactPath(tier)
      BY <2>2
    <3>2. p[2] = tier /\ Fresh[p] = Emitted(head, tier, head.tiers[tier], commit)
      BY <3>1, WhatIsWritten DEF Fresh, ArtefactPath
    <3> QED
      BY <3>2, BothAreRendered, EmittedIsWhole
  <2>3. CASE \E tier \in Staged(head) : p = NextArtefactPath(tier)
    <3>1. PICK tier \in Staged(head) : p = NextArtefactPath(tier)
      BY <2>3
    <3>2. tier \in DOMAIN head.tiers
      BY DEF Staged
    <3>3. p[2] = tier /\ Fresh[p] = Emitted(head, tier, NextTier(head, tier), commit)
      BY <3>1, <3>2, WhatIsWritten DEF Fresh, NextArtefactPath
    <3>4. Untrusted(NextTier(head, tier)) <=> Untrusted(head.tiers[tier])
      <4>1. NextTier(head, tier).hops = head.tiers[tier].hops
        <5>1. DOMAIN head.tiers[tier] = TierFields
          BY <3>2 DEF CanMerge, Loads, LoadsTopology, LoadsTier
        <5> QED
          BY <5>1 DEF NextTier, TierFields
      <4> QED
        BY <4>1 DEF Untrusted
    <3> QED
      BY <3>1, <3>2, <3>3, <3>4, BothAreRendered, EmittedIsWhole
  <2> QED
    BY <2>1, <2>2, <2>3
<1> QED
  BY <1>1, HeadsAreMerged, PTL

-----------------------------------------------------------------------------
(* The team tree: a Team comes before its children, and a Team's children  *)
(* are the Teams it is the parent of.                                      *)

IsTree(teams, pos, N) ==
  /\ N \in Nat /\ pos \in [DOMAIN teams -> 0..N] /\ IsFiniteSet(DOMAIN teams)
  /\ Unset \notin DOMAIN teams
  /\ \A t \in DOMAIN teams : teams[t].parent # Unset =>
       teams[t].parent \in DOMAIN teams /\ pos[teams[t].parent] < pos[t]
  /\ \A t \in DOMAIN teams : teams[t].children = {c \in DOMAIN teams : teams[c].parent = t}

(* What loads is a tree: a Team is written inside its parent, so after it. *)
LEMMA TeamsAreATree ==
  ASSUME NEW nodes, LoadsTeams(nodes)
  PROVE  \E pos : IsTree(TreeOf(nodes), pos, Len(nodes))
<1> DEFINE teams == TreeOf(nodes)
           N == Len(nodes)
           pos == [t \in TeamsOf(nodes) |-> Max(NodesOf(nodes, t))]
<1>1. N \in Nat /\ DOMAIN nodes = 1..N
  BY DEF LoadsTeams, WrittenInside
<1>2. \A i \in 1..N : nodes[i].under \in 0..(i - 1) /\ nodes[i].id # Unset
  BY <1>1 DEF LoadsTeams, WrittenInside
<1>3. \A i, j \in 1..N : nodes[i].id = nodes[j].id => i = j
  BY <1>1 DEF LoadsTeams
<1>4. \A i \in 1..N : Max(NodesOf(nodes, nodes[i].id)) = i
  <2> SUFFICES ASSUME NEW i \in 1..N
               PROVE  Max(NodesOf(nodes, nodes[i].id)) = i
    OBVIOUS
  <2>1. NodesOf(nodes, nodes[i].id) = {i}
    BY <1>1, <1>3 DEF NodesOf
  <2> QED
    BY <2>1 DEF Max
<1>5. TeamsOf(nodes) = {nodes[i].id : i \in 1..N}
  BY <1>1 DEF TeamsOf
<1>6. /\ DOMAIN teams = TeamsOf(nodes)
      /\ \A i \in 1..N : /\ teams[nodes[i].id].parent = ParentOf(nodes, i)
                         /\ teams[nodes[i].id].children = ChildrenOf(nodes, nodes[i].id)
                         /\ pos[nodes[i].id] = i
  BY <1>4, <1>5 DEF TreeOf
<1>7. \A i \in 1..N : ParentOf(nodes, i) # Unset =>
        nodes[i].under \in 1..N /\ nodes[i].under < i /\ ParentOf(nodes, i) = nodes[nodes[i].under].id
  BY <1>1, <1>2 DEF ParentOf
<1>8. pos \in [DOMAIN teams -> 0..N]
  <2>1. \A t \in TeamsOf(nodes) : Max(NodesOf(nodes, t)) \in 0..N
    BY <1>1, <1>4, <1>5
  <2> HIDE DEF teams
  <2> QED
    BY <1>6, <2>1
<1> HIDE DEF teams, pos
<1>9. ASSUME NEW t \in DOMAIN teams, teams[t].parent # Unset
      PROVE  teams[t].parent \in DOMAIN teams /\ pos[teams[t].parent] < pos[t]
  <2>1. PICK i \in 1..N : t = nodes[i].id
    BY <1>5, <1>6
  <2>2. PICK j \in 1..N : j < i /\ teams[t].parent = nodes[j].id
    BY <1>6, <1>7, <1>9, <2>1
  <2> QED
    BY <1>5, <1>6, <2>1, <2>2
<1>10. ASSUME NEW t \in DOMAIN teams
       PROVE  teams[t].children = {c \in DOMAIN teams : teams[c].parent = t}
  <2>1. PICK i \in 1..N : t = nodes[i].id
    BY <1>5, <1>6
  <2>2. teams[t].children = {nodes[j].id : j \in {k \in 1..N : ParentOf(nodes, k) = t}}
    BY <1>1, <1>6, <2>1 DEF ChildrenOf
  <2>3. \A c : c \in {nodes[j].id : j \in {k \in 1..N : ParentOf(nodes, k) = t}}
                 <=> \E k \in 1..N : c = nodes[k].id /\ ParentOf(nodes, k) = t
    OBVIOUS
  <2>4. \A c : c \in {d \in DOMAIN teams : teams[d].parent = t}
                 <=> \E k \in 1..N : c = nodes[k].id /\ ParentOf(nodes, k) = t
    BY <1>5, <1>6
  <2> QED
    BY <2>2, <2>3, <2>4
<1>11. Unset \notin DOMAIN teams
  BY <1>2, <1>5, <1>6
<1>12. IsFiniteSet(DOMAIN teams)
  <2> DEFINE written == [i \in 1..N |-> nodes[i].id]
  <2>1. written \in Surjection(1..N, DOMAIN teams)
    BY <1>5, <1>6 DEF Surjection
  <2>2. IsFiniteSet(1..N)
    BY <1>1, FS_Interval
  <2> HIDE DEF written
  <2> QED
    BY <2>1, <2>2, FS_Surjection
<1> QED
  BY <1>1, <1>8, <1>9, <1>10, <1>11, <1>12 DEF IsTree, teams

(* A chain is the parent's chain and the Team.                             *)
LEMMA ChainsGoUp ==
  ASSUME NEW teams, NEW pos, NEW N, IsTree(teams, pos, N)
  PROVE  \A t \in DOMAIN teams :
           /\ Chain(teams, t) \in Seq(DOMAIN teams)
           /\ teams[t].parent = Unset => Chain(teams, t) = <<t>>
           /\ teams[t].parent # Unset =>
                Chain(teams, t) = Append(Chain(teams, teams[t].parent), t)
<1> DEFINE D == DOMAIN teams
           T == Seq(D)
           Up(t, above) == IF teams[t].parent = Unset THEN <<t>> ELSE Append(above[teams[t].parent], t)
           Eq(above) == above = [t \in D |-> Up(t, above)]
           chains == CHOOSE above : Eq(above)
           F == [x \in D \X [D -> T] |-> Up(x[1], x[2])]
<1>1. pos \in [D -> Nat] /\ \A t \in D : teams[t].parent # Unset =>
                                teams[t].parent \in D /\ pos[teams[t].parent] < pos[t]
  BY DEF IsTree
<1>2. \A t \in D : \A g \in [D -> T] : Up(t, g) \in T
  <2> SUFFICES ASSUME NEW t \in D, NEW g \in [D -> T]
               PROVE  Up(t, g) \in T
    OBVIOUS
  <2>1. CASE teams[t].parent = Unset
    BY <2>1
  <2>2. CASE teams[t].parent # Unset
    <3>1. g[teams[t].parent] \in Seq(D)
      BY <1>1, <2>2
    <3> QED
      BY <2>2, <3>1
  <2> QED
    BY <2>1, <2>2
<1>3. \A t \in D : \A g, h \in [D -> T] :
        (\A u \in D : pos[u] < pos[t] => g[u] = h[u]) => Up(t, g) = Up(t, h)
  BY <1>1
<1>4. Recursive(D, T, pos, F)
  <2>1. T # {} /\ F \in [D \X [D -> T] -> T]
    <3>1. <<>> \in T
      OBVIOUS
    <3> HIDE DEF Up, T, D
    <3> QED
      BY <1>2, <3>1
  <2>2. \A t \in D : \A g \in [D -> T] : F[<<t, g>>] = Up(t, g)
    <3> HIDE DEF Up, T, D
    <3> QED
      OBVIOUS
  <2> HIDE DEF F, Up, T, D
  <2> QED
    BY <1>1, <1>3, <2>1, <2>2 DEF Recursive
<1>5. PICK f \in [D -> T] : \A t \in D : f[t] = F[<<t, f>>]
  <2> HIDE DEF F, Up, T, D
  <2> QED
    BY <1>4, Recursion
<1>6. Eq(f)
  <2>1. \A t \in D : f[t] = Up(t, f)
    <3> HIDE DEF Up, T, D
    <3> QED
      BY <1>5
  <2> HIDE DEF Up, T, D
  <2> QED
    BY <1>5, <2>1
<1>7. Eq(chains)
  <2> HIDE DEF Eq
  <2> QED
    BY <1>6
<1>8. \A t \in D : Chain(teams, t) = chains[t]
  BY DEF Chain
<1>9. \A t \in D : chains[t] = Up(t, chains)
  <2> HIDE DEF chains, Up, D
  <2> QED
    BY <1>7
<1> HIDE DEF chains
<1>10. Inductive(D, pos, {t \in D : chains[t] \in T})
  <2> SUFFICES ASSUME NEW t \in D, \A u \in D : pos[u] < pos[t] => chains[u] \in T
               PROVE  chains[t] \in T
    BY <1>1 DEF Inductive
  <2>1. CASE teams[t].parent = Unset
    <3>1. chains[t] = <<t>>
      BY <1>9, <2>1
    <3> QED
      BY <3>1
  <2>2. CASE teams[t].parent # Unset
    <3>1. chains[teams[t].parent] \in Seq(D)
      BY <1>1, <2>2
    <3>2. chains[t] = Append(chains[teams[t].parent], t)
      BY <1>9, <2>2
    <3> QED
      BY <3>1, <3>2
  <2> QED
    BY <2>1, <2>2
<1>11. \A t \in D : chains[t] \in T
  <2> HIDE DEF T, D
  <2> QED
    BY <1>10, ByRank
<1> QED
  BY <1>1, <1>8, <1>9, <1>11

(* A subtree is the Team and the subtrees of its children.                 *)
LEMMA SubtreesGoDown ==
  ASSUME NEW teams, NEW pos, NEW N, IsTree(teams, pos, N)
  PROVE  \A t \in DOMAIN teams :
           /\ Subtree(teams, t) \subseteq DOMAIN teams
           /\ Subtree(teams, t) = {t} \cup UNION {Subtree(teams, c) : c \in teams[t].children}
<1> DEFINE D == DOMAIN teams
           T == SUBSET D
           Down(t, below) == {t} \cup UNION {below[c] : c \in teams[t].children}
           Eq(below) == below = [t \in D |-> Down(t, below)]
           under == CHOOSE below : Eq(below)
           F == [x \in D \X [D -> T] |-> Down(x[1], x[2])]
           rank == [t \in D |-> N - pos[t]]
<1>1. rank \in [D -> Nat] /\ \A t \in D : teams[t].children \subseteq D
  <2>1. \A t \in D : pos[t] \in 0..N /\ N \in Nat
    BY DEF IsTree
  <2> QED
    BY <2>1 DEF IsTree
<1>2. \A t \in D : \A c \in teams[t].children : c \in D /\ rank[c] < rank[t]
  <2> SUFFICES ASSUME NEW t \in D, NEW c \in teams[t].children
               PROVE  c \in D /\ rank[c] < rank[t]
    OBVIOUS
  <2>1. c \in D /\ teams[c].parent = t /\ t # Unset
    BY DEF IsTree
  <2>2. pos[t] < pos[c] /\ pos[t] \in 0..N /\ pos[c] \in 0..N /\ N \in Nat
    BY <2>1 DEF IsTree
  <2> QED
    BY <2>1, <2>2
<1>3. \A t \in D : \A g \in [D -> T] : Down(t, g) \in T
  BY <1>1
<1>4. \A t \in D : \A g, h \in [D -> T] :
        (\A u \in D : rank[u] < rank[t] => g[u] = h[u]) => Down(t, g) = Down(t, h)
  <2> SUFFICES ASSUME NEW t \in D, NEW g \in [D -> T], NEW h \in [D -> T],
                      \A u \in D : rank[u] < rank[t] => g[u] = h[u]
               PROVE  Down(t, g) = Down(t, h)
    OBVIOUS
  <2>1. \A c \in teams[t].children : g[c] = h[c]
    BY <1>2
  <2> QED
    BY <2>1
<1>5. Recursive(D, T, rank, F)
  <2>1. T # {} /\ F \in [D \X [D -> T] -> T]
    <3>1. {} \in T
      OBVIOUS
    <3> HIDE DEF Down, T, D
    <3> QED
      BY <1>3, <3>1
  <2>2. \A t \in D : \A g \in [D -> T] : F[<<t, g>>] = Down(t, g)
    <3> HIDE DEF Down, T, D
    <3> QED
      OBVIOUS
  <2> HIDE DEF F, Down, T, D, rank
  <2> QED
    BY <1>1, <1>4, <2>1, <2>2 DEF Recursive
<1>6. PICK f \in [D -> T] : \A t \in D : f[t] = F[<<t, f>>]
  <2> HIDE DEF F, Down, T, D, rank
  <2> QED
    BY <1>5, Recursion
<1>7. Eq(f)
  <2>1. \A t \in D : f[t] = Down(t, f)
    <3> HIDE DEF Down, T, D
    <3> QED
      BY <1>6
  <2> HIDE DEF Down, T, D
  <2> QED
    BY <1>6, <2>1
<1>8. Eq(under)
  <2> HIDE DEF Eq
  <2> QED
    BY <1>7
<1>9. \A t \in D : Subtree(teams, t) = under[t]
  BY DEF Subtree
<1>10. \A t \in D : under[t] = Down(t, under)
  <2> HIDE DEF under, Down, D
  <2> QED
    BY <1>8
<1> HIDE DEF under, rank
<1>11. Inductive(D, rank, {t \in D : under[t] \in T})
  <2> SUFFICES ASSUME NEW t \in D, \A u \in D : rank[u] < rank[t] => under[u] \in T
               PROVE  under[t] \in T
    BY <1>1 DEF Inductive
  <2>1. \A c \in teams[t].children : under[c] \in T
    BY <1>2
  <2> QED
    BY <1>10, <2>1
<1>12. \A t \in D : under[t] \in T
  <2> HIDE DEF T, D
  <2> QED
    BY <1>11, ByRank
<1>13. ASSUME NEW t \in D
       PROVE  Subtree(teams, t) = {t} \cup UNION {Subtree(teams, c) : c \in teams[t].children}
  BY <1>1, <1>9, <1>10
<1> QED
  BY <1>9, <1>12, <1>13

(* Down a chain the positions go up, each Team's chain is the beginning of *)
(* the chains through it, and nothing of a subtree is before its Team.     *)
LEMMA ChainsDescend ==
  ASSUME NEW teams, NEW pos, NEW N, IsTree(teams, pos, N), NEW t \in DOMAIN teams
  PROVE  LET c == Chain(teams, t)
         IN  /\ c \in Seq(DOMAIN teams) /\ Len(c) >= 1 /\ c[Len(c)] = t
             /\ \A k \in 1..(Len(c) - 1) : pos[c[k]] < pos[t]
             /\ \A k \in 1..Len(c) : \A j \in 1..k : c[j] \in Range(Chain(teams, c[k]))
<1> DEFINE D == DOMAIN teams
           Good(u) == LET c == Chain(teams, u)
                      IN  /\ Len(c) >= 1 /\ c[Len(c)] = u
                          /\ \A k \in 1..(Len(c) - 1) : pos[c[k]] < pos[u]
                          /\ \A k \in 1..Len(c) : \A j \in 1..k : c[j] \in Range(Chain(teams, c[k]))
           S == {u \in D : Good(u)}
<1>1. pos \in [D -> Nat]
  BY DEF IsTree
<1>2. \A u \in D : Chain(teams, u) \in Seq(D)
  BY ChainsGoUp
<1>3. ASSUME NEW u \in D, \A v \in D : pos[v] < pos[u] => v \in S
      PROVE  Good(u)
  <2>1. CASE teams[u].parent = Unset
    <3>1. Chain(teams, u) = <<u>>
      BY <2>1, ChainsGoUp
    <3>2. u \in Range(Chain(teams, u))
      BY <3>1 DEF Range
    <3> QED
      BY <3>1, <3>2
  <2>2. CASE teams[u].parent # Unset
    <3> DEFINE v == teams[u].parent
               e == Chain(teams, v)
               c == Chain(teams, u)
    <3>1. v \in D /\ pos[v] < pos[u]
      BY <2>2 DEF IsTree
    <3>2. Good(v) /\ e \in Seq(D)
      BY <1>2, <1>3, <3>1
    <3>3. c = Append(e, u)
      BY <2>2, ChainsGoUp
    <3>4. /\ e \in Seq(D) /\ Len(e) >= 1 /\ e[Len(e)] = v
          /\ \A k \in 1..(Len(e) - 1) : pos[e[k]] < pos[v]
          /\ \A k \in 1..Len(e) : \A j \in 1..k : e[j] \in Range(Chain(teams, e[k]))
      BY <3>2
    <3> HIDE DEF e, v, c, Good
    <3>5. /\ Len(c) = Len(e) + 1 /\ c[Len(c)] = u /\ Len(e) \in Nat
          /\ \A k \in 1..Len(e) : c[k] = e[k]
      BY <3>3, <3>4
    <3>6. ASSUME NEW k \in 1..(Len(c) - 1)
          PROVE  pos[c[k]] < pos[u]
      <4>1. k \in 1..Len(e) /\ e[k] \in D /\ pos[e[k]] \in Nat /\ pos[v] \in Nat /\ pos[u] \in Nat
        BY <1>1, <3>1, <3>4, <3>5
      <4>2. pos[e[k]] <= pos[v]
        <5>1. CASE k = Len(e)
          BY <3>4, <4>1, <5>1
        <5>2. CASE k # Len(e)
          <6>1. k \in 1..(Len(e) - 1)
            BY <3>5, <4>1, <5>2
          <6> QED
            BY <3>4, <4>1, <6>1
        <5> QED
          BY <5>1, <5>2
      <4> QED
        BY <3>1, <3>5, <4>1, <4>2
    <3>7. ASSUME NEW k \in 1..Len(c), NEW j \in 1..k
          PROVE  c[j] \in Range(Chain(teams, c[k]))
      <4>1. CASE k = Len(c)
        <5>1. j \in DOMAIN c /\ c[k] = u
          BY <3>3, <3>4, <3>5, <4>1
        <5> QED
          BY <5>1 DEF Range, c
      <4>2. CASE k # Len(c)
        <5>1. k \in 1..Len(e) /\ j \in 1..Len(e)
          BY <3>5, <4>2
        <5> QED
          BY <3>4, <3>5, <5>1
      <4> QED
        BY <4>1, <4>2
    <3>8. Len(c) >= 1
      BY <3>5
    <3> QED
      BY <3>5, <3>6, <3>7, <3>8 DEF Good, c
  <2> QED
    BY <2>1, <2>2
<1>4. Inductive(D, pos, S)
  <2> HIDE DEF Good
  <2> QED
    BY <1>1, <1>3 DEF Inductive
<1>5. t \in S
  <2> HIDE DEF S
  <2> QED
    BY <1>4, ByRank
<1> QED
  BY <1>2, <1>5

(* Nothing beneath a Team is written before it.                            *)
LEMMA SubtreesComeAfter ==
  ASSUME NEW teams, NEW pos, NEW N, IsTree(teams, pos, N), NEW t \in DOMAIN teams
  PROVE  \A u \in Subtree(teams, t) : pos[t] <= pos[u]
<1> DEFINE D == DOMAIN teams
           rank == [u \in D |-> N - pos[u]]
           S == {u \in D : \A v \in Subtree(teams, u) : pos[u] <= pos[v]}
<1>1. N \in Nat /\ pos \in [D -> 0..N]
  BY DEF IsTree
<1>2. rank \in [D -> Nat]
  BY <1>1
<1>3. ASSUME NEW u \in D, \A v \in D : rank[v] < rank[u] => v \in S
      PROVE  u \in S
  <2> SUFFICES ASSUME NEW v \in Subtree(teams, u), v # u
               PROVE  pos[u] <= pos[v]
    BY <1>1
  <2>1. PICK c \in teams[u].children : v \in Subtree(teams, c)
    BY SubtreesGoDown
  <2>2. c \in D /\ teams[c].parent = u /\ u # Unset
    BY DEF IsTree
  <2>3. pos[u] < pos[c]
    BY <2>2 DEF IsTree
  <2>4. rank[c] < rank[u]
    BY <1>1, <2>2, <2>3
  <2>5. pos[c] <= pos[v]
    BY <1>3, <2>1, <2>2, <2>4
  <2>6. v \in D
    BY <2>1, <2>2, SubtreesGoDown
  <2>7. pos[u] \in Nat /\ pos[c] \in Nat /\ pos[v] \in Nat
    BY <1>1, <2>2, <2>6
  <2> QED
    BY <2>3, <2>5, <2>7
<1>4. Inductive(D, rank, S)
  BY <1>2, <1>3 DEF Inductive
<1> HIDE DEF S, rank
<1>5. t \in S
  BY <1>4, ByRank
<1> QED
  BY <1>5 DEF S

-----------------------------------------------------------------------------
(* The effective palette.                                                  *)

(* What a component's standing may be on the way down.                     *)
Vias(policy)      == {<<>>} \cup {<<policy.grants[Min(s)]>> : s \in SUBSET DOMAIN policy.grants}
Standings(policy) == [allowed : BOOLEAN, via : Vias(policy)]

(* What stands before the first Team of a chain.                           *)
Untouched == [allowed |-> TRUE, via |-> <<>>]

(* A step down a chain takes what stands to something that may stand.      *)
LEMMA StandingsStay ==
  ASSUME NEW policy, NEW c, NEW was \in Standings(policy), NEW team
  PROVE  StepDown(policy, c, was, team) \in Standings(policy)
<1> DEFINE granted == Admitting(policy, team, c)
<1>1. granted \in SUBSET DOMAIN policy.grants
  BY DEF Admitting
<1>2. \/ StepDown(policy, c, was, team) = was
      \/ StepDown(policy, c, was, team) = [allowed |-> TRUE, via |-> <<policy.grants[Min(granted)]>>]
      \/ StepDown(policy, c, was, team) = [allowed |-> FALSE, via |-> <<>>]
  BY DEF StepDown
<1>3. <<>> \in Vias(policy) /\ <<policy.grants[Min(granted)]>> \in Vias(policy)
  <2> HIDE DEF granted
  <2> QED
    BY <1>1 DEF Vias
<1> DEFINE via == <<policy.grants[Min(granted)]>>
<1> HIDE DEF granted, via
<1>4. [allowed |-> TRUE, via |-> via] \in Standings(policy)
  BY <1>3 DEF Standings, via
<1>5. [allowed |-> FALSE, via |-> <<>>] \in Standings(policy)
  BY <1>3 DEF Standings
<1> QED
  BY <1>2, <1>4, <1>5 DEF via

(* The walk down the chain, one Team after the other.                      *)
LEMMA StandingsAreWalked ==
  ASSUME NEW policy, NEW teams, NEW team, NEW c, NEW D, Chain(teams, team) \in Seq(D)
  PROVE  LET seq == Chain(teams, team)
         IN  \E upTo : /\ upTo \in [0..Len(seq) -> Standings(policy)]
                       /\ upTo[0] = Untouched
                       /\ \A n \in 1..Len(seq) : upTo[n] = StepDown(policy, c, upTo[n - 1], seq[n])
                       /\ Standing(policy, teams, team, c) = upTo[Len(seq)]
<1> DEFINE seq == Chain(teams, team)
           A   == Standings(policy)
<1>1. PICK N \in Nat : N = Len(seq) /\ DOMAIN seq = 1..N
  OBVIOUS
<1> DEFINE On(n, p) == StepDown(policy, c, p, seq[n])
           Eq(it) == it = [s \in SUBSET (DOMAIN seq) |->
                       IF s = {} THEN Untouched ELSE On(Max(s), it[s \ {Max(s)}])]
           iter == CHOOSE it : Eq(it)
           step == [x \in (1..N) \X A |-> On(x[1], x[2])]
<1>2. Standing(policy, teams, team, c) = iter[DOMAIN seq]
  BY DEF Standing, FoldLeft, MapThenFoldSet, Untouched
<1>3. Untouched \in A
  BY DEF Untouched, Standings, Vias
<1>4. \A n \in 1..N : \A p \in A : On(n, p) \in A
  BY StandingsStay
<1> HIDE DEF A, On, seq
<1>5. \A n \in 1..N : \A p \in A : step[<<n, p>>] = On(n, p)
  OBVIOUS
<1>6. step \in [(1..N) \X A -> A]
  BY <1>4
<1> HIDE DEF step
<1>7. FoldOver(N, A, Untouched, step)
  BY <1>3, <1>6 DEF FoldOver
<1>8. PICK f : FoldOf(N, A, Untouched, step, f)
  BY <1>7, FoldsAreThere
<1>9. \A s \in SUBSET (1..N) : s # {} => Max(s) \in 1..N
  BY HighestPosition
<1>10. Eq(f)
  <2>1. ASSUME NEW s \in SUBSET (1..N), s # {}
        PROVE  f[s] = On(Max(s), f[s \ {Max(s)}])
    <3>1. f[s \ {Max(s)}] \in A /\ Max(s) \in 1..N
      BY <1>8, <1>9, <2>1 DEF FoldOf
    <3> QED
      BY <1>5, <1>8, <2>1, <3>1 DEF FoldOf
  <2>2. f = [s \in SUBSET (1..N) |-> IF s = {} THEN Untouched ELSE On(Max(s), f[s \ {Max(s)}])]
    BY <1>8, <2>1 DEF FoldOf
  <2> QED
    BY <1>1, <2>2
<1>11. Eq(iter)
  <2> HIDE DEF Eq
  <2> QED
    BY <1>10
<1>12. /\ iter[{}] = Untouched
       /\ \A s \in SUBSET (1..N) : s # {} => iter[s] = On(Max(s), iter[s \ {Max(s)}])
  <2> HIDE DEF iter
  <2> QED
    BY <1>1, <1>11
<1> HIDE DEF iter
<1>13. FoldedBy(N, A, Untouched, step, iter)
  BY <1>5, <1>9, <1>12 DEF FoldedBy
<1>14. PICK upTo : Forwards(N, A, Untouched, step, upTo) /\ upTo[N] = iter[1..N]
  BY <1>7, <1>13, FoldsGoThroughPrefixes
<1>15. /\ upTo \in [0..N -> A] /\ upTo[0] = Untouched
       /\ \A n \in 1..N : upTo[n] = step[<<n, upTo[n - 1]>>]
  BY <1>14 DEF Forwards
<1>16. \A n \in 1..N : upTo[n] = On(n, upTo[n - 1])
  <2>1. \A n \in 1..N : n - 1 \in 0..N
    OBVIOUS
  <2> QED
    BY <1>5, <1>15, <2>1
<1> QED
  BY <1>1, <1>2, <1>14, <1>15, <1>16 DEF A, On, seq

(* A component that is allowed at the end of a chain is, for every Team of *)
(* it, selected by the Team's list or restored by a Grant to that Team or  *)
(* to one below it on the chain.                                           *)
LEMMA AllowedOrGranted ==
  ASSUME NEW policy, NEW teams, NEW team, NEW c, NEW D, Chain(teams, team) \in Seq(D),
         Standing(policy, teams, team, c).allowed
  PROVE  LET seq == Chain(teams, team)
         IN  \A j \in 1..Len(seq) : \A l \in ListOf(policy, seq[j]) :
               \/ Selects(l.allow, c)
               \/ \E i \in j..Len(seq) : \E k \in DOMAIN policy.grants :
                    policy.grants[k].team = seq[i] /\ Selects(policy.grants[k].adds, c)
<1>1. PICK seq : seq = Chain(teams, team)
  OBVIOUS
<1>2. PICK N \in Nat : N = Len(seq) /\ DOMAIN seq = 1..N
  BY <1>1
<1>3. PICK upTo : /\ upTo \in [0..N -> Standings(policy)]
                  /\ upTo[0] = Untouched
                  /\ \A n \in 1..N : upTo[n] = StepDown(policy, c, upTo[n - 1], seq[n])
                  /\ Standing(policy, teams, team, c) = upTo[N]
  BY <1>1, <1>2, StandingsAreWalked
<1> DEFINE Restored(i) == \E k \in DOMAIN policy.grants :
                            policy.grants[k].team = seq[i] /\ Selects(policy.grants[k].adds, c)
           Answered(n) == \A j \in 1..n : \A l \in ListOf(policy, seq[j]) :
                            Selects(l.allow, c) \/ \E i \in j..n : Restored(i)
           S == {n \in Nat : n \in 0..N /\ upTo[n].allowed => Answered(n)}
<1>4. 0 \in S
  OBVIOUS
<1>5. ASSUME NEW n \in Nat, n \in S
      PROVE  n + 1 \in S
  <2> SUFFICES ASSUME n + 1 \in 0..N, upTo[n + 1].allowed
               PROVE  Answered(n + 1)
    OBVIOUS
  <2>1. n + 1 \in 1..N /\ (n + 1) - 1 = n /\ n \in 0..N
    OBVIOUS
  <2>2. upTo[n + 1] = StepDown(policy, c, upTo[n], seq[n + 1])
    BY <1>3, <2>1
  <2> DEFINE kept == upTo[n].allowed /\ \A l \in ListOf(policy, seq[n + 1]) : Selects(l.allow, c)
             granted == Admitting(policy, seq[n + 1], c)
  <2>3. kept \/ granted # {}
    BY <2>2 DEF StepDown
  <2>4. granted # {} => Restored(n + 1)
    BY DEF Admitting
  <2>5. CASE granted # {}
    <3>1. \A j \in 1..(n + 1) : n + 1 \in j..(n + 1)
      OBVIOUS
    <3> HIDE DEF Restored, granted
    <3> QED
      BY <2>4, <2>5, <3>1
  <2>6. CASE kept
    <3>1. Answered(n)
      BY <1>5, <2>1, <2>6
    <3>2. ASSUME NEW j \in 1..(n + 1), NEW l \in ListOf(policy, seq[j])
          PROVE  Selects(l.allow, c) \/ \E i \in j..(n + 1) : Restored(i)
      <4>1. CASE j = n + 1
        BY <2>6, <3>2, <4>1
      <4>2. CASE j # n + 1
        <5>1. j \in 1..n /\ j..n \subseteq j..(n + 1)
          BY <4>2
        <5> HIDE DEF Restored
        <5> QED
          BY <3>1, <3>2, <5>1
      <4> QED
        BY <4>1, <4>2
    <3> HIDE DEF Restored
    <3> QED
      BY <3>2
  <2> QED
    BY <2>3, <2>5, <2>6
<1>6. Nat \subseteq S
  <2> HIDE DEF S
  <2> QED
    BY <1>4, <1>5, ByStep
<1>7. Answered(N)
  <2> HIDE DEF Answered
  <2> QED
    BY <1>2, <1>3, <1>6
<1> QED
  BY <1>1, <1>2, <1>7

(* load.go: "A team granting to itself would be self-widening, which is    *)
(* exactly what narrowing-only inheritance forbids".  In every merged head *)
(* what a Team has beyond a list above it came by a Grant on its own chain *)
(* at or below that list, of an owner strictly above the Grant's Team and  *)
(* outside of what the Grant serves.                                       *)
THEOREM WideningNeedsAnAncestor == Spec => []NobodyWidensThemselves
<1>1. CanMerge(head) => NobodyWidensThemselves
  <2> DEFINE teams == Tree(head)
  <2> SUFFICES ASSUME CanMerge(head), NEW team \in DOMAIN teams,
                      NEW c \in EffectivePalette(head, teams, head.catalogue, team),
                      NEW a \in Above(team), NEW l \in ListOf(head, a), ~Selects(l.allow, c)
               PROVE  \E g \in Range(head.grants) :
                        /\ Selects(g.adds, c)
                        /\ g.team \in Above(team) /\ a \in Above(g.team)
                        /\ TeamOfOwner(teams, g.owner) \in Above(g.team)
                        /\ TeamOfOwner(teams, g.owner) \notin Subtree(teams, g.team)
    BY DEF NobodyWidensThemselves
  <2>1. LoadsTeams(head.teams) /\ LoadsGrants(head.grants, teams, head.catalogue)
    BY DEF CanMerge, Loads, LoadsPolicy
  <2>2. PICK pos : IsTree(teams, pos, Len(head.teams))
    BY <2>1, TeamsAreATree DEF Tree
  <2>3. \A t : Above(t) = Range(Chain(teams, t))
    BY DEF Above
  <2> HIDE DEF teams
  <2>4. PICK seq : /\ seq = Chain(teams, team) /\ seq \in Seq(DOMAIN teams)
                   /\ \A k \in 1..Len(seq) : \A j \in 1..k : seq[j] \in Range(Chain(teams, seq[k]))
    BY <2>2, ChainsDescend
  <2>5. PICK j \in 1..Len(seq) : a = seq[j]
    BY <2>3, <2>4 DEF Range
  <2>6. Standing(head, teams, team, c).allowed
    BY DEF EffectivePalette
  <2>7. PICK i \in j..Len(seq), k \in DOMAIN head.grants :
          head.grants[k].team = seq[i] /\ Selects(head.grants[k].adds, c)
    BY <2>4, <2>5, <2>6, AllowedOrGranted
  <2> DEFINE g == head.grants[k]
             by == TeamOfOwner(teams, g.owner)
  <2>8. i \in 1..Len(seq) /\ j \in 1..i
    BY <2>4, <2>5, <2>7
  <2>9. g.team \in DOMAIN teams /\ g.team \in Above(team) /\ a \in Above(g.team)
    <3>1. seq[i] \in Range(seq) /\ seq[i] \in DOMAIN teams
      BY <2>4, <2>8 DEF Range
    <3> QED
      BY <2>3, <2>4, <2>5, <2>7, <2>8, <3>1
  <2>10. by # g.team /\ by \in Range(Chain(teams, g.team))
    BY <2>1 DEF LoadsGrants, GrantsWithAuthority, ProperAncestor
  <2>11. pos[by] < pos[g.team] /\ by \in DOMAIN teams
    <3>1. PICK e : /\ e = Chain(teams, g.team) /\ e \in Seq(DOMAIN teams)
                   /\ Len(e) >= 1 /\ e[Len(e)] = g.team
                   /\ \A n \in 1..(Len(e) - 1) : pos[e[n]] < pos[g.team]
      BY <2>2, <2>9, ChainsDescend
    <3>2. PICK n \in 1..Len(e) : by = e[n]
      BY <2>10, <3>1 DEF Range
    <3>3. n \in 1..(Len(e) - 1)
      BY <2>10, <3>1, <3>2
    <3> QED
      BY <3>1, <3>2, <3>3
  <2>12. by \notin Subtree(teams, g.team)
    <3>1. by \in Subtree(teams, g.team) => pos[g.team] <= pos[by]
      BY <2>2, <2>9, SubtreesComeAfter
    <3>2. pos[by] \in Nat /\ pos[g.team] \in Nat
      BY <2>2, <2>9, <2>11 DEF IsTree
    <3> HIDE DEF by, g
    <3> QED
      BY <2>11, <3>1, <3>2
  <2>13. g \in Range(head.grants)
    BY DEF Range
  <2> QED
    BY <2>3, <2>7, <2>9, <2>10, <2>12, <2>13
<1> QED
  BY <1>1, HeadsAreMerged, PTL

-----------------------------------------------------------------------------
(* Siblings and what is beneath them.                                      *)

(* What is beneath a Team has its parent beneath it too.                   *)
LEMMA ParentsAreBetween ==
  ASSUME NEW teams, NEW pos, NEW N, IsTree(teams, pos, N), NEW t \in DOMAIN teams
  PROVE  /\ \A u \in Subtree(teams, t) :
              u # t => teams[u].parent \in Subtree(teams, t)
         /\ \A u \in DOMAIN teams :
              teams[u].parent \in Subtree(teams, t) => u \in Subtree(teams, t)
<1> DEFINE D == DOMAIN teams
           rank == [u \in D |-> N - pos[u]]
           Good(v) == /\ \A u \in Subtree(teams, v) :
                           u # v => teams[u].parent \in Subtree(teams, v)
                      /\ \A u \in D :
                           teams[u].parent \in Subtree(teams, v) => u \in Subtree(teams, v)
           S == {v \in D : Good(v)}
<1>1. N \in Nat /\ pos \in [D -> 0..N]
  BY DEF IsTree
<1>2. rank \in [D -> Nat]
  BY <1>1
<1>3. ASSUME NEW v \in D, \A c \in D : rank[c] < rank[v] => c \in S
      PROVE  Good(v)
  <2>1. \A c \in teams[v].children : c \in D /\ teams[c].parent = v /\ c \in S
    <3> SUFFICES ASSUME NEW c \in teams[v].children
                 PROVE  c \in D /\ teams[c].parent = v /\ rank[c] < rank[v]
      BY <1>3
    <3>1. c \in D /\ teams[c].parent = v /\ v # Unset
      BY DEF IsTree
    <3>2. pos[v] < pos[c]
      BY <3>1 DEF IsTree
    <3> QED
      BY <1>1, <3>1, <3>2
  <2>2. Subtree(teams, v) = {v} \cup UNION {Subtree(teams, c) : c \in teams[v].children}
    BY SubtreesGoDown
  <2>3. \A c \in teams[v].children : c \in Subtree(teams, c)
    BY <2>1, SubtreesGoDown
  <2>4. ASSUME NEW u \in Subtree(teams, v), u # v
        PROVE  teams[u].parent \in Subtree(teams, v)
    <3>1. PICK c \in teams[v].children : u \in Subtree(teams, c)
      BY <2>2, <2>4
    <3> QED
      BY <2>1, <2>2, <3>1
  <2>5. ASSUME NEW u \in D, teams[u].parent \in Subtree(teams, v)
        PROVE  u \in Subtree(teams, v)
    <3>1. CASE teams[u].parent = v
      <4>1. u \in teams[v].children
        BY <3>1 DEF IsTree
      <4> QED
        BY <2>2, <2>3, <4>1
    <3>2. CASE teams[u].parent # v
      <4>1. PICK c \in teams[v].children : teams[u].parent \in Subtree(teams, c)
        BY <2>2, <2>5, <3>2
      <4> QED
        BY <2>1, <2>2, <4>1
    <3> QED
      BY <3>1, <3>2
  <2> QED
    BY <2>4, <2>5
<1>4. Inductive(D, rank, S)
  <2> HIDE DEF Good, rank
  <2> QED
    BY <1>2, <1>3 DEF Inductive
<1>5. t \in S
  <2> HIDE DEF S, rank
  <2> QED
    BY <1>4, ByRank
<1> QED
  BY <1>5

(* Two Teams with one parent have nothing beneath them in common.          *)
LEMMA SiblingsAreApart ==
  ASSUME NEW teams, NEW pos, NEW N, IsTree(teams, pos, N),
         NEW c \in DOMAIN teams, NEW d \in DOMAIN teams,
         c # d, teams[c].parent = teams[d].parent
  PROVE  Subtree(teams, c) \cap Subtree(teams, d) = {}
<1> DEFINE D == DOMAIN teams
           S == {u \in D : ~(u \in Subtree(teams, c) /\ u \in Subtree(teams, d))}
<1>1. pos \in [D -> Nat] /\ Unset \notin D
  BY DEF IsTree
<1>2. Subtree(teams, c) \subseteq D /\ Subtree(teams, d) \subseteq D
  BY SubtreesGoDown
<1>3. ASSUME NEW x \in D, NEW y \in D, teams[x].parent = teams[y].parent, x # y
      PROVE  x \notin Subtree(teams, y)
  <2> SUFFICES ASSUME x \in Subtree(teams, y)
               PROVE  FALSE
    OBVIOUS
  <2>1. teams[x].parent \in Subtree(teams, y)
    BY <1>3, ParentsAreBetween
  <2>2. teams[y].parent \in D /\ teams[y].parent # Unset
    BY <1>1, <1>3, <2>1, SubtreesGoDown
  <2>3. pos[teams[y].parent] < pos[y]
    BY <2>2 DEF IsTree
  <2>4. pos[y] <= pos[teams[y].parent]
    BY <1>3, <2>1, SubtreesComeAfter
  <2> QED
    BY <1>1, <2>2, <2>3, <2>4
<1>4. ASSUME NEW u \in D, \A v \in D : pos[v] < pos[u] => v \in S
      PROVE  u \in S
  <2> SUFFICES ASSUME u \in Subtree(teams, c), u \in Subtree(teams, d)
               PROVE  FALSE
    OBVIOUS
  <2>1. u # c /\ u # d
    BY <1>3
  <2>2. teams[u].parent \in Subtree(teams, c) /\ teams[u].parent \in Subtree(teams, d)
    BY <2>1, ParentsAreBetween
  <2>3. teams[u].parent \in D /\ pos[teams[u].parent] < pos[u]
    BY <1>1, <1>2, <2>2 DEF IsTree
  <2> QED
    BY <1>4, <2>2, <2>3
<1>5. Inductive(D, pos, S)
  <2> HIDE DEF S
  <2> QED
    BY <1>1, <1>4 DEF Inductive
<1>6. D \subseteq S
  <2> HIDE DEF S
  <2> QED
    BY <1>5, ByRank
<1> QED
  BY <1>2, <1>6

(* Everybody is beneath a Team at the top.                                 *)
LEMMA EverybodyHasATop ==
  ASSUME NEW teams, NEW pos, NEW N, IsTree(teams, pos, N)
  PROVE  \A u \in DOMAIN teams :
           \E t \in DOMAIN teams : teams[t].parent = Unset /\ u \in Subtree(teams, t)
<1> DEFINE D == DOMAIN teams
           S == {u \in D : \E t \in D : teams[t].parent = Unset /\ u \in Subtree(teams, t)}
<1>1. pos \in [D -> Nat]
  BY DEF IsTree
<1>2. ASSUME NEW u \in D, \A v \in D : pos[v] < pos[u] => v \in S
      PROVE  u \in S
  <2>1. CASE teams[u].parent = Unset
    BY <2>1, SubtreesGoDown
  <2>2. CASE teams[u].parent # Unset
    <3>1. teams[u].parent \in D /\ pos[teams[u].parent] < pos[u]
      BY <2>2 DEF IsTree
    <3>2. PICK t \in D : teams[t].parent = Unset /\ teams[u].parent \in Subtree(teams, t)
      BY <1>2, <3>1
    <3> QED
      BY <3>2, ParentsAreBetween
  <2> QED
    BY <2>1, <2>2
<1>3. Inductive(D, pos, S)
  <2> HIDE DEF S
  <2> QED
    BY <1>1, <1>2 DEF Inductive
<1>4. D \subseteq S
  <2> HIDE DEF S
  <2> QED
    BY <1>3, ByRank
<1> QED
  BY <1>4

-----------------------------------------------------------------------------
(* The roll-up.                                                            *)

(* The findings of a kind that are routed beneath a Team.                  *)
In(team, kind) ==
  {f \in Of(kind) : RoutedTo(head.objects, Tree(head), f.subject) \in Subtree(Tree(head), team)}

(* What a roll-up counts of a kind is what is routed beneath the Team.     *)
LEMMA CountedIsIn ==
  ASSUME NEW team, NEW kind
  PROVE  /\ IsFiniteSet(Of(kind)) /\ IsFiniteSet(In(team, kind))
         /\ Counted(team, kind) = Cardinality(In(team, kind))
<1> DEFINE routed == InRollup(head.objects, Tree(head), team, Reported)
           r == RollupOf(head.objects, Tree(head), team, Reported)
           here == {f \in routed : f.kind = kind}
<1>1. IsFiniteSet(Of(kind)) /\ IsFiniteSet(In(team, kind))
  <2>1. Of(kind) \in SUBSET Reported /\ In(team, kind) \in SUBSET Reported
    BY DEF Of, In
  <2> QED
    BY <2>1, ReportedAssumption, FS_Subset
<1>2. {f \in here : Counts(f)} = In(team, kind)
  BY DEF In, Of, InRollup
<1>3. r = [k \in {f.kind : f \in routed} |-> Score({f \in routed : f.kind = k})]
  BY DEF RollupOf
<1>4. Counted(team, kind) = IF kind \in DOMAIN r THEN r[kind].counted ELSE 0
  BY DEF Counted
<1> HIDE DEF routed, r
<1>5. CASE kind \in DOMAIN r
  <2>1. r[kind] = Score(here)
    BY <1>3, <1>5
  <2>2. Score(here).counted = Cardinality({f \in here : Counts(f)})
    BY DEF Score
  <2> QED
    BY <1>1, <1>2, <1>4, <1>5, <2>1, <2>2
<1>6. CASE kind \notin DOMAIN r
  <2>1. here = {}
    BY <1>3, <1>6
  <2>2. In(team, kind) = {}
    BY <1>2, <2>1
  <2> QED
    BY <1>1, <1>4, <1>6, <2>2, FS_EmptySet
<1> QED
  BY <1>5, <1>6

(* What the Teams of S count together, the findings that are, and that no  *)
(* finding is beneath two of them.                                         *)
Total(S, kind)     == MapThenSumSet(LAMBDA t : Counted(t, kind), S)
AllIn(S, kind)     == UNION {In(t, kind) : t \in S}
NoneTwice(S, kind) == \A t, u \in S : t # u => In(t, kind) \cap In(u, kind) = {}

(* The counts of Teams that have nothing in common add up.                 *)
LEMMA CountsAddUp ==
  ASSUME NEW S, IsFiniteSet(S), NEW kind, NoneTwice(S, kind)
  PROVE  Total(S, kind) = Cardinality(AllIn(S, kind))
<1> DEFINE D == SUBSET S
           g == [t \in S |-> Counted(t, kind)]
           part == [t \in S |-> In(t, kind)]
           Eq(it) == it = [s \in D |->
                             IF s = {} THEN 0
                             ELSE Counted(Some(s), kind) + it[s \ {Some(s)}]]
           iter == CHOOSE it : Eq(it)
           rank == [s \in D |-> Cardinality(s)]
           T == {s \in D : iter[s] \in Nat}
<1>1. Total(S, kind) = iter[S]
  BY DEF Total, MapThenSumSet, MapThenFoldSet, Some
<1>2. g \in [S -> Nat] /\ \A t \in S : IsFiniteSet(part[t]) /\ g[t] = Cardinality(part[t])
  <2>1. \A t \in S : /\ IsFiniteSet(In(t, kind)) /\ Counted(t, kind) = Cardinality(In(t, kind))
                     /\ Cardinality(In(t, kind)) \in Nat
    BY CountedIsIn, FS_CardinalityType
  <2> QED
    BY <2>1
<1>3. \A t \in S : g[t] = Counted(t, kind) /\ part[t] = In(t, kind)
  OBVIOUS
<1> HIDE DEF g, part, iter
<1>4. \E it : Eq(it)
  <2>1. PICK it : SumOf(S, g, it)
    BY <1>2, SumsAreThere
  <2>2. \A s \in D : s # {} => it[s] = Counted(Some(s), kind) + it[s \ {Some(s)}]
    <3>1. \A s \in D : s # {} => Some(s) \in S
      BY FewerAreLeft
    <3> QED
      BY <1>3, <2>1, <3>1 DEF SumOf
  <2>3. it = [s \in D |-> it[s]]
    BY <2>1 DEF SumOf
  <2>4. \A s \in D :
          it[s] = IF s = {} THEN 0 ELSE Counted(Some(s), kind) + it[s \ {Some(s)}]
    BY <2>1, <2>2 DEF SumOf
  <2> HIDE DEF D
  <2>5. it = [s \in D |-> IF s = {} THEN 0 ELSE Counted(Some(s), kind) + it[s \ {Some(s)}]]
    BY <2>3, <2>4
  <2> QED
    BY <2>5
<1>5. Eq(iter)
  <2> HIDE DEF Eq
  <2> QED
    BY <1>4 DEF iter
<1>6. /\ iter = [s \in D |-> iter[s]]
      /\ iter[{}] = 0
      /\ \A s \in D : s # {} => iter[s] = g[Some(s)] + iter[s \ {Some(s)}]
  <2>1. iter = [s \in D |-> iter[s]] /\ iter[{}] = 0
    BY <1>5
  <2>2. \A s \in D : s # {} => iter[s] = Counted(Some(s), kind) + iter[s \ {Some(s)}]
    BY <1>5
  <2>3. \A s \in D : s # {} => Some(s) \in S
    BY FewerAreLeft
  <2> QED
    BY <1>3, <2>1, <2>2, <2>3
<1>7. rank \in [D -> Nat]
  <2>1. \A s \in D : Cardinality(s) \in Nat
    BY FewerAreLeft
  <2> QED
    BY <2>1
<1>8. ASSUME NEW s \in D, \A u \in D : rank[u] < rank[s] => u \in T
      PROVE  iter[s] \in Nat
  <2>1. CASE s = {}
    BY <1>6, <2>1
  <2>2. CASE s # {}
    <3>1. Some(s) \in S /\ s \ {Some(s)} \in D /\ rank[s \ {Some(s)}] < rank[s]
      BY <2>2, FewerAreLeft
    <3>2. iter[s \ {Some(s)}] \in Nat
      BY <1>8, <3>1
    <3>3. iter[s] = g[Some(s)] + iter[s \ {Some(s)}]
      BY <1>6, <2>2
    <3> QED
      BY <1>2, <3>1, <3>2, <3>3
  <2> QED
    BY <2>1, <2>2
<1>9. Inductive(D, rank, T)
  <2> HIDE DEF rank
  <2> QED
    BY <1>7, <1>8 DEF Inductive
<1>10. SumOf(S, g, iter)
  <2>1. D \subseteq T
    <3> HIDE DEF D, T, rank
    <3> QED
      BY <1>9, ByRank
  <2>2. iter \in [D -> Nat]
    BY <1>6, <2>1
  <2> QED
    BY <1>6, <2>2 DEF SumOf
<1>11. Apart(S, part, g)
  BY <1>2, <1>3 DEF Apart, NoneTwice
<1>12. iter[S] = Cardinality(UNION {part[t] : t \in S})
  BY <1>10, <1>11, ApartAddsUp
<1> QED
  BY <1>1, <1>3, <1>12 DEF AllIn

(* A finding about an authored object reaches a Team of the tree.          *)
LEMMA FindingsReachATeam ==
  ASSUME LoadsObjects(head.objects, Tree(head)), NEW s, Routes(head.objects, s)
  PROVE  RoutedTo(head.objects, Tree(head), s) \in DOMAIN Tree(head)
<1>1. PICK o \in Subjects(head.objects, s) : o.owner = OwnerOf(head.objects, s)
  BY DEF Routes, OwnerOf
<1>2. o \in head.objects
  BY DEF Subjects
<1>3. o.owner \in OwnersIn(Tree(head))
  BY <1>2 DEF LoadsObjects
<1>4. \E t \in DOMAIN Tree(head) : OwnerOf(head.objects, s) \in Range(Tree(head)[t].owners)
  BY <1>1, <1>3 DEF OwnersIn
<1> QED
  BY <1>4 DEF RoutedTo, TeamOfOwner

(* ownership.go: "with two parents every roll-up would double-count".  In  *)
(* a merged head a Team counts its own findings and what its children      *)
(* count, and the Teams at the top count every finding there is.           *)
THEOREM RollupsAddUp == Spec => []RollupAddsUp
<1>1. CanMerge(head) => RollupAddsUp
  <2> DEFINE teams == Tree(head)
             home(f) == RoutedTo(head.objects, teams, f.subject)
  <2> SUFFICES ASSUME CanMerge(head), LoadsObjects(head.objects, teams),
                      \A f \in Reported : Routes(head.objects, f.subject), NEW kind
               PROVE  /\ \A team \in DOMAIN teams :
                           Counted(team, kind) =
                             Cardinality(OwnOf(team, Of(kind)))
                               + Total(teams[team].children, kind)
                      /\ Total(Top, kind) = Cardinality(Of(kind))
    BY DEF RollupAddsUp, Total
  <2>1. PICK pos : IsTree(teams, pos, Len(head.teams))
    BY TeamsAreATree DEF CanMerge, Loads, Tree
  <2>2. \A f \in Of(kind) : home(f) \in DOMAIN teams
    BY FindingsReachATeam DEF Of
  <2>3. IsFiniteSet(DOMAIN teams)
    BY <2>1 DEF IsTree
  <2>4. \A t : In(t, kind) = {f \in Of(kind) : home(f) \in Subtree(teams, t)}
    BY DEF In
  <2>5. \A t, u \in DOMAIN teams : t # u /\ teams[t].parent = teams[u].parent =>
          In(t, kind) \cap In(u, kind) = {}
    <3> SUFFICES ASSUME NEW t \in DOMAIN teams, NEW u \in DOMAIN teams,
                        t # u, teams[t].parent = teams[u].parent
                 PROVE  In(t, kind) \cap In(u, kind) = {}
      OBVIOUS
    <3>1. Subtree(teams, t) \cap Subtree(teams, u) = {}
      <4> HIDE DEF teams
      <4> QED
        BY <2>1, SiblingsAreApart
    <3> HIDE DEF teams, home
    <3> QED
      BY <2>4, <3>1
  <2>6. Top = {t \in DOMAIN teams : teams[t].parent = Unset}
    BY DEF Top
  <2>7. \A t : OwnOf(t, Of(kind)) = {f \in Of(kind) : home(f) = t}
    BY DEF OwnOf
  <2> HIDE DEF teams, home
  <2>8. ASSUME NEW team \in DOMAIN teams
        PROVE  Counted(team, kind) =
                 Cardinality(OwnOf(team, Of(kind)))
                   + Total(teams[team].children, kind)
    <3> DEFINE below == teams[team].children
               own == OwnOf(team, Of(kind))
               theirs == UNION {In(t, kind) : t \in below}
    <3>1. below \subseteq DOMAIN teams /\ \A t \in below : teams[t].parent = team
      BY <2>1 DEF IsTree
    <3>2. Total(below, kind) = Cardinality(theirs)
      <4>1. IsFiniteSet(below)
        BY <2>3, <3>1, FS_Subset
      <4>2. NoneTwice(below, kind)
        BY <2>5, <3>1 DEF NoneTwice
      <4> HIDE DEF below
      <4> QED
        BY <4>1, <4>2, CountsAddUp DEF AllIn
    <3>3. In(team, kind) = own \cup theirs
      <4>1. Subtree(teams, team) = {team} \cup UNION {Subtree(teams, c) : c \in below}
        BY <2>1, SubtreesGoDown
      <4> QED
        BY <2>4, <2>7, <4>1
    <3>4. own \cap theirs = {}
      <4> SUFFICES ASSUME NEW t \in below
                   PROVE  team \notin Subtree(teams, t)
        BY <2>4, <2>7
      <4>1. t \in DOMAIN teams /\ pos[team] < pos[t]
        <5>1. teams[t].parent = team /\ team # Unset /\ t \in DOMAIN teams
          BY <2>1, <3>1 DEF IsTree
        <5> QED
          BY <2>1, <5>1 DEF IsTree
      <4>2. team \in Subtree(teams, t) => pos[t] <= pos[team]
        BY <2>1, <4>1, SubtreesComeAfter
      <4>3. pos[t] \in Nat /\ pos[team] \in Nat
        BY <2>1, <4>1 DEF IsTree
      <4> QED
        BY <4>1, <4>2, <4>3
    <3>5. IsFiniteSet(own) /\ IsFiniteSet(theirs)
      <4>1. IsFiniteSet(Of(kind))
        BY CountedIsIn
      <4>2. own \in SUBSET Of(kind) /\ theirs \in SUBSET Of(kind)
        BY <2>4, <2>7
      <4> HIDE DEF own, theirs
      <4> QED
        BY <4>1, <4>2, FS_Subset
    <3> HIDE DEF own, theirs, below
    <3>6. Cardinality(own \cup theirs) =
            Cardinality(own) + Cardinality(theirs) - Cardinality(own \cap theirs)
      BY <3>5, FS_Union
    <3>7. Cardinality(own \cap theirs) = 0
      BY <3>4, FS_EmptySet
    <3>8. Cardinality(own) \in Nat /\ Cardinality(theirs) \in Nat
      BY <3>5, FS_CardinalityType
    <3>9. Counted(team, kind) = Cardinality(own \cup theirs)
      BY <3>3, CountedIsIn
    <3>10. Counted(team, kind) = Cardinality(own) + Cardinality(theirs)
      BY <3>6, <3>7, <3>8, <3>9
    <3> QED
      BY <3>2, <3>10 DEF own, below
  <2>9. Total(Top, kind) = Cardinality(Of(kind))
    <3>1. IsFiniteSet(Top)
      BY <2>3, <2>6, FS_Subset
    <3>2. NoneTwice(Top, kind)
      BY <2>5, <2>6 DEF NoneTwice
    <3>3. UNION {In(t, kind) : t \in Top} = Of(kind)
      <4>1. \A u \in DOMAIN teams : \E t \in Top : u \in Subtree(teams, t)
        BY <2>1, <2>6, EverybodyHasATop
      <4> QED
        BY <2>2, <2>4, <4>1
    <3>4. Total(Top, kind) = Cardinality(AllIn(Top, kind))
      BY <3>1, <3>2, CountsAddUp
    <3> QED
      BY <3>3, <3>4 DEF AllIn
  <2> QED
    BY <2>8, <2>9
<1> QED
  BY <1>1, HeadsAreMerged, PTL
=============================================================================
