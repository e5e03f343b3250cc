------------------------------ MODULE Ownership ------------------------------
(***************************************************************************)
(* The team tree and what routes through it (pkg/ownership and             *)
(* internal/renderer codeowners.go): teams.yaml is flattened into a tree,  *)
(* every authored object carries an owner of the tree, a finding routes to *)
(* the owner of the object it is about, and a Team's roll-up scores the    *)
(* findings routed into its subtree.                                       *)
(*                                                                         *)
(* teams.yaml is a sequence of nodes in the order they are written, each   *)
(* with the position of the node it is nested in, 0 at the top.  Unset is  *)
(* the empty string, wherever a field is not written.                      *)
(***************************************************************************)
EXTENDS Naturals, Sequences, FiniteSets, SequencesExt, FiniteSetsExt

CONSTANT Unset

-----------------------------------------------------------------------------
(* Loading the tree.  A Team has at most one parent and an Owner belongs   *)
(* to exactly one Team.                                                    *)

OwnerSlots(nodes) == UNION {{<<i, k>> : k \in DOMAIN nodes[i].owners} : i \in DOMAIN nodes}
OwnerAt(nodes, s) == nodes[s[1]].owners[s[2]]

OneTeamPerOwner(nodes) ==
  \A s, t \in OwnerSlots(nodes) : OwnerAt(nodes, s) = OwnerAt(nodes, t) => s = t

(* A node is written inside the one it is nested in, so after it.          *)
WrittenInside(nodes) ==
  /\ nodes \in Seq(Range(nodes))
  /\ \A i \in DOMAIN nodes : nodes[i].under \in 0..(i - 1)

LoadsTeamsNested(nodes) ==          \* mutant: a Team may be nested twice
  /\ WrittenInside(nodes)
  /\ nodes # <<>>
  /\ \A i \in DOMAIN nodes : nodes[i].id # Unset
  /\ \A s \in OwnerSlots(nodes) : OwnerAt(nodes, s) # Unset
  /\ OneTeamPerOwner(nodes)

LoadsTeams(nodes) ==
  /\ WrittenInside(nodes)
  /\ nodes # <<>>
  /\ \A i \in DOMAIN nodes : nodes[i].id # Unset
  /\ \A i, j \in DOMAIN nodes : nodes[i].id = nodes[j].id => i = j
  /\ \A s \in OwnerSlots(nodes) : OwnerAt(nodes, s) # Unset
  /\ OneTeamPerOwner(nodes)

NodesOf(nodes, t)    == {i \in DOMAIN nodes : nodes[i].id = t}
TeamsOf(nodes)       == {nodes[i].id : i \in DOMAIN nodes}
ParentOf(nodes, i)   == IF nodes[i].under = 0 THEN Unset ELSE nodes[nodes[i].under].id
ChildrenOf(nodes, t) == {nodes[i].id : i \in {j \in DOMAIN nodes : ParentOf(nodes, j) = t}}

(* The loaded tree.                                                        *)
TreeOf(nodes) ==
  [t \in TeamsOf(nodes) |->
    [parent   |-> ParentOf(nodes, Max(NodesOf(nodes, t))),
     children |-> ChildrenOf(nodes, t),
     owners   |-> nodes[Max(NodesOf(nodes, t))].owners]]

OwnersIn(tree)      == UNION {Range(tree[t].owners) : t \in DOMAIN tree}
TeamOfOwner(tree, o) == CHOOSE t \in DOMAIN tree : o \in Range(tree[t].owners)

(* A Team and everything beneath it; a Team and everything above it, root  *)
(* first.                                                                  *)
Subtree(tree, team) ==
  LET below[t \in DOMAIN tree] == {t} \cup UNION {below[c] : c \in tree[t].children}
  IN  below[team]

Chain(tree, team) ==
  LET above[t \in DOMAIN tree] ==
        IF tree[t].parent = Unset THEN <<t>> ELSE Append(above[tree[t].parent], t)
  IN  above[team]

ProperAncestorOrSelf(tree, a, b) ==      \* mutant: the walk starts at the target itself
  a \in Range(Chain(tree, b))

ProperAncestor(tree, a, b) == a # b /\ a \in Range(Chain(tree, b))

-----------------------------------------------------------------------------
(* Authored objects, and the owner a finding about one reaches.  A         *)
(* collector is derived: it inherits the owner of the Tier it matched.     *)

AuthoredKinds == {"component", "blueprint", "tier", "hop", "path", "service",
             "requirement", "exemption"}

LoadsObjects(objects, tree) ==
  /\ objects # {}
  /\ \A o \in objects : o.kind \in AuthoredKinds /\ o.id # Unset /\ o.owner \in OwnersIn(tree)
  /\ \A o, p \in objects : o.kind = p.kind /\ o.id = p.id => o = p

Subjects(objects, s) ==
  IF s.kind = "collector"
  THEN {o \in objects : o.kind = "tier" /\ o.id = s.tier}
  ELSE {o \in objects : o.kind = s.kind /\ o.id = s.id /\ s.tier = Unset}

Routes(objects, s)           == Subjects(objects, s) # {}
OwnerOf(objects, s)          == (CHOOSE o \in Subjects(objects, s) : TRUE).owner
RoutedTo(objects, tree, s)   == TeamOfOwner(tree, OwnerOf(objects, s))

-----------------------------------------------------------------------------
(* The roll-up of one Team, per kind of finding.  A waived finding leaves  *)
(* the ratio and is counted beside it, a neutral one settles nothing.      *)

Severity(grade) == CASE grade = "violation" -> 2 [] grade = "advisory" -> 1 [] OTHER -> 0

InRollup(objects, tree, team, findings) ==
  {f \in findings : RoutedTo(objects, tree, f.subject) \in Subtree(tree, team)}

Counts(f) == ~f.waived /\ f.grade # "neutral"

Score(fs) ==
  [passing |-> Cardinality({f \in fs : Counts(f) /\ f.grade = "pass"}),
   counted |-> Cardinality({f \in fs : Counts(f)}),
   worst   |-> Max({0} \cup {Severity(f.grade) : f \in {g \in fs : Counts(g)}}),
   waived  |-> Cardinality({f \in fs : f.waived})]

RollupOf(objects, tree, team, findings) ==
  LET routed == InRollup(objects, tree, team, findings)
  IN  [kind \in {f.kind : f \in routed} |-> Score({f \in routed : f.kind = kind})]

-----------------------------------------------------------------------------
(* The code-ownership projection: one line for each Team, its owners and   *)
(* those of the Teams above it, nearest first; none where nobody answers.  *)

Handles(tree, team) ==
  FoldLeft(LAMBDA out, t : out \o SelectSeq(tree[t].owners, LAMBDA o : o \notin Range(out)),
           <<>>, Reverse(Chain(tree, team)))

CodeOwners(tree) ==
  [t \in {u \in DOMAIN tree : Handles(tree, u) # <<>>} |-> Handles(tree, t)]

RootHandles(tree) == UNION {Range(tree[t].owners) : t \in {u \in DOMAIN tree : tree[u].parent = Unset}}
=============================================================================
