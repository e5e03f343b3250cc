---------------------------- MODULE Proposal_proofs ----------------------------
(***************************************************************************)
(* What the exits and the forge adapter keep for any number of calls,      *)
(* replicas, branches and commits, whichever request fails and whatever    *)
(* people and the git host do between any two.                             *)
(*                                                                         *)
(* The inductive invariant has five parts: the base branch (Repository),   *)
(* what a call that was begun proposes (Proposes), what stands on the      *)
(* branches (Offers), what a call that nobody disturbed may rely on        *)
(* (Alone), and the pull requests (NoSecondProposal).                      *)
(***************************************************************************)
EXTENDS Proposal, SequenceTheorems, WellFoundedInduction, TLAPS

Pull ==
  [branch : Branch, state : {"open", "closed", "merged"}, title : Call, by : Call,
   delivers : Call \cup {NoChange}]

(* A call that has made its commit, and one that has read the ref.         *)
Committed == {"list", "refresh", "open", "done", "failed"}
Based     == {"create", "force", "commit"} \cup Committed

Types ==
  /\ pc \in [Call -> Active \cup {"idle", "done", "failed"}]
  /\ DOMAIN change = Call /\ DOMAIN base = Call /\ DOMAIN listed = Call
  /\ branch \in [Branch -> [base : Nat, ahead : Seq(Call)]]
  /\ pulls \in Seq(Pull)
  /\ disturbed \subseteq Call

AList(s) == s \in Seq(Range(s))

Loads(tree) ==
  /\ DOMAIN tree = Key
  /\ tree["stage"] \in {Absent} \cup 0 .. Stages - 1
  /\ Sound(tree["record"]) /\ AList(tree["record"].activations)

Repository ==
  /\ main \in Seq(Range(main)) /\ Len(main) >= 1
  /\ \A n \in DOMAIN main : Loads(main[n])
  /\ DOMAIN seen = Replica /\ DOMAIN docs = Replica
  /\ \A r \in Replica : seen[r] \in 1 .. Len(main) /\ docs[r] \in 0 .. seen[r]

(* The files of a change that mean to move a rollout judged at a stage,    *)
(* and the branch they travel on.                                          *)
Moves(on, files, stage) ==
  /\ stage # Absent
  /\ \/ /\ on = <<"abort", stage + 1>>
        /\ files["stage"] = Absent /\ "binding" \notin DOMAIN files
     \/ /\ on = <<"advance", stage + 2>> /\ stage + 1 \in 1 .. Stages - 1
        /\ files["stage"] = stage + 1 /\ "binding" \notin DOMAIN files
     \/ /\ on = <<"advance", Stages + 1>> /\ stage = Stages - 1
        /\ files["stage"] = Absent /\ "binding" \in DOMAIN files /\ files["binding"] = To

Proposed(ch) ==
  /\ ch.branch \in Branch
  /\ ch.at \in 1 .. Len(main) /\ ch.judged \in 1 .. Len(main)
  /\ DOMAIN ch.files \subseteq Key
  /\ \A k \in DOMAIN ch.files \ ch.intends : ch.files[k] = main[ch.at][k]
  /\ "stage" \in DOMAIN ch.files => Moves(ch.branch, ch.files, main[ch.judged]["stage"])
  /\ "binding" \in DOMAIN ch.files /\ "stage" \notin DOMAIN ch.files =>
       ch.branch = <<"claim", "tier">> /\ ch.files["binding"] = main[ch.at]["binding"]
  /\ "record" \in DOMAIN ch.files =>
       /\ Sound(ch.files["record"])
       /\ \E v \in Versions :
            ch.files["record"] =
              Designate(main[ch.at]["record"], v, main[ch.judged]["record"].active)

Proposes ==
  \A c \in Call :
    /\ pc[c] # "idle" => Proposed(change[c])
    /\ pc[c] \in Based \ {"failed"} => base[c] \in 1 .. Len(main)

(* What a committed change deletes, its parent had.                        *)
Parented(c) == \A k \in Deletes(c) : main[base[c]][k] # Absent

(* What stands on a branch or was merged from one is a commit that was     *)
(* made, on the base it was made on.                                       *)
Offers ==
  /\ OneCommitOnItsBase
  /\ \A b \in Branch : \A c \in Range(branch[b].ahead) :
       pc[c] \in Committed /\ base[c] \in 1 .. Len(main) /\ Parented(c)
  /\ \A i \in DOMAIN pulls : pulls[i].state = "merged" =>
       pulls[i].delivers \in Call /\ pc[pulls[i].delivers] \in Committed
  /\ \A c \in Call : pc[c] = "refresh" =>
       listed[c].pull \in DOMAIN pulls /\ pulls[listed[c].pull].branch = Mine(c)

(* Nobody else is at work on the branch of a call that is not disturbed,   *)
(* so it finds there what it left.                                         *)
Alone(c) ==
  /\ \A d \in Call \ {c} : pc[d] \in Active => Mine(d) # Mine(c)
  /\ ~ Delivered(c)
  /\ pc[c] \in {"list", "refresh", "open"} => branch[Mine(c)].ahead = <<c>>
  /\ pc[c] = "refresh" =>
       listed[c].state = "closed" \/ pulls[listed[c].pull].state = "open"
  /\ pc[c] = "open" => Unmerged(Mine(c)) = {}

AllAlone == \A c \in Call : pc[c] \in Active /\ c \notin disturbed => Alone(c)

ProposalInv ==
  Types /\ Repository /\ Proposes /\ Offers /\ AllAlone /\ NoSecondProposal

-----------------------------------------------------------------------------
(* Sequences that grow at their end.                                       *)

LEMMA Appended ==
  ASSUME NEW s, s \in Seq(Range(s)), NEW x
  PROVE  /\ Append(s, x) \in Seq(Range(Append(s, x)))
         /\ Len(Append(s, x)) = Len(s) + 1
         /\ Len(s) \in Nat /\ DOMAIN s = 1 .. Len(s)
         /\ DOMAIN Append(s, x) = 1 .. Len(s) + 1
         /\ \A n \in 1 .. Len(s) : Append(s, x)[n] = s[n]
         /\ Append(s, x)[Len(s) + 1] = x
<1> DEFINE S == Range(s) \cup {x}
<1>1. s \in Seq(S) /\ x \in S
  BY SeqMonotonic
<1>2. /\ Append(s, x) \in Seq(S)
      /\ Len(Append(s, x)) = Len(s) + 1
      /\ \A n \in 1 .. Len(s) : Append(s, x)[n] = s[n]
      /\ Append(s, x)[Len(s) + 1] = x
  BY <1>1, AppendProperties
<1>3. Len(s) \in Nat /\ DOMAIN s = 1 .. Len(s)
  BY LenProperties
<1>4. DOMAIN Append(s, x) = 1 .. Len(s) + 1
  BY <1>2, LenProperties
<1>5. Append(s, x) \in Seq(Range(Append(s, x)))
  BY <1>2, SeqOfRange
<1> QED
  BY <1>2, <1>3, <1>4, <1>5

-----------------------------------------------------------------------------
(* A step of one call, and what everybody else does.                       *)

CallStep(c) == Step(c) \/ Failure(c)

OthersStep == HostActs \/ PeopleAct \/ (\E v \in Versions : CommandActivates(v))
                \/ (\E r \in Replica : Fetch(r) \/ Rebuild(r))

(* A call goes on from where it stands, and what it proposes and the base  *)
(* it read stay what they were.                                            *)
LEMMA CallsGoOn ==
  ASSUME Types, [ProposalNext]_pvars, NEW c \in Call
  PROVE  /\ pc[c] # "idle" => pc'[c] # "idle" /\ change'[c] = change[c]
         /\ pc[c] \in Based => pc'[c] \in Based /\ base'[c] = base[c]
         /\ pc[c] \in Committed => pc'[c] \in Committed
         /\ pc[c] # "idle" /\ pc'[c] \in Active => pc[c] \in Active
<1> USE DEF Types, Active, Based, Committed
<1>1. ASSUME NEW d \in Call, Step(d) \/ Failure(d)
      PROVE  /\ change' = change /\ pc[d] \in Active
             /\ \E l : pc' = [pc EXCEPT ![d] = l] /\ (pc[d] \in Based => l \in Based)
                      /\ (pc[d] \in Committed => l \in Committed) /\ l # "idle"
             /\ base' = base \/ (pc[d] = "ref" /\ \E n : base' = [base EXCEPT ![d] = n])
  BY <1>1 DEF Step, Renders, RenderUnavailable, Failure, Fails, Requests, ReadRef, CreateRef,
     ForceMove, CreateCommit, CommitsOn, ListPulls, ListsAmong, Refresh, Refreshes, OpenPull,
     Goes, Answered
<1>2. ASSUME NEW d \in Call, NEW r \in Replica, Begins(d, r)
      PROVE  /\ base' = base /\ pc[d] = "idle"
             /\ \E ch, l : pc' = [pc EXCEPT ![d] = l] /\ change' = [change EXCEPT ![d] = ch]
  BY <1>2 DEF Begins, Compose, ComposeClaim, AddTier, Attach, Govern, Activate, Advance, Abort,
     Exit, Takes, Goes
<1>3. CASE OthersStep
  BY <1>3 DEF OthersStep, HostActs, HostCloses, PeopleAct, PersonCloses, PersonMerges,
     PersonDeletes, CommandActivates, Fetch, Rebuild, fvars
<1>4. CASE UNCHANGED pvars
  BY <1>4 DEF pvars, fvars
<1> QED
  BY <1>1, <1>2, <1>3, <1>4 DEF ProposalNext, OthersStep

-----------------------------------------------------------------------------
(* What a step may do to the pull requests.                                *)

LEMMA Listing ==
  ASSUME Types
  PROVE  /\ Len(pulls) \in Nat /\ DOMAIN pulls = 1 .. Len(pulls)
         /\ pulls \in [1 .. Len(pulls) -> Pull]
BY LenProperties DEF Types

LEMMA StillAList ==
  ASSUME Types, NEW q, q \in [DOMAIN pulls -> Pull]
  PROVE  q \in Seq(Pull) /\ DOMAIN q = DOMAIN pulls
BY Listing, SeqDef

(* One pull request is changed in place: its branch and who opened it      *)
(* stay, and one that was merged stays so.                                 *)
Kept(i) ==
  /\ pulls'[i].branch = pulls[i].branch /\ pulls'[i].by = pulls[i].by
  /\ pulls[i].state = "merged" => pulls'[i].state = "merged" /\ pulls'[i].delivers = pulls[i].delivers

Updated == pulls' \in Seq(Pull) /\ DOMAIN pulls' = DOMAIN pulls

(* The newest of some is one of them.                                      *)
LEMMA NewestExists ==
  ASSUME NEW n \in Nat, NEW S, S \subseteq 1 .. n, S # {}
  PROVE  Newest(S) \in S
<1> DEFINE T == {m \in Nat : \A j \in S : j <= m}
<1>1. T # {} /\ T \subseteq Nat
  <2>1. n \in T
    OBVIOUS
  <2> QED
    BY <2>1
<1>2. PICK m \in T : \A k \in T : ~ (<<k, m>> \in OpToRel(<, Nat))
  <2> HIDE DEF T
  <2> QED
    BY <1>1, WFMin, NatLessThanWellFounded
<1>3. \A k \in T : ~ (k < m)
  BY <1>1, <1>2 DEF OpToRel
<1>4. m \in S
  <2> SUFFICES ASSUME m \notin S PROVE FALSE
    OBVIOUS
  <2>1. m # 0 /\ m - 1 \in Nat
    <3>1. PICK j : j \in S
      OBVIOUS
    <3>2. j \in 1 .. n /\ j <= m /\ m \in Nat
      BY <3>1
    <3> QED
      BY <3>2
  <2>2. \A j \in S : j <= m - 1
    OBVIOUS
  <2>3. m - 1 \in T
    BY <2>1, <2>2
  <2> QED
    BY <1>3, <2>1, <2>3
<1> QED
  BY <1>4 DEF Newest

LEMMA Refreshing ==
  ASSUME Types, NEW c \in Call, Refresh(c)
  PROVE  /\ Updated
         /\ \A i \in DOMAIN pulls :
              /\ Kept(i)
              /\ pulls'[i].delivers = pulls[i].delivers
              /\ pulls'[i].state = "merged" => pulls[i].state = "merged"
              /\ i # listed[c].pull => pulls'[i] = pulls[i]
         /\ listed[c].pull \in DOMAIN pulls =>
              LET i == listed[c].pull IN
                /\ pulls'[i].title = c
                /\ pulls'[i].state = IF listed[c].state = "closed" THEN "open" ELSE pulls[i].state
<1> DEFINE i == listed[c].pull
           s == IF listed[c].state = "closed" THEN "open" ELSE pulls[i].state
<1>0. pulls \in [DOMAIN pulls -> Pull]
  BY Listing
<1>1. pulls' = [pulls EXCEPT ![i] = [[pulls[i] EXCEPT !.title = c] EXCEPT !.state = s]]
  BY DEF Refresh, Refreshes
<1>2. listed[c].state = "closed" => pulls[i].state \in {"open", "closed"}
  BY DEF Refresh, Refreshes, Reopens
<1>3. i \in DOMAIN pulls => s \in {"open", "closed", "merged"}
  BY <1>0 DEF Pull
<1>4. i \in DOMAIN pulls => [[pulls[i] EXCEPT !.title = c] EXCEPT !.state = s] \in Pull
  BY <1>0, <1>3 DEF Pull
<1>5. pulls' \in [DOMAIN pulls -> Pull]
  BY <1>0, <1>1, <1>4
<1>6. Updated
  BY <1>5, StillAList DEF Updated
<1>7. ASSUME NEW j \in DOMAIN pulls, j # i PROVE pulls'[j] = pulls[j]
  BY <1>0, <1>1, <1>7
<1>8. ASSUME i \in DOMAIN pulls
      PROVE  /\ pulls'[i].branch = pulls[i].branch /\ pulls'[i].by = pulls[i].by
             /\ pulls'[i].delivers = pulls[i].delivers
             /\ pulls'[i].title = c /\ pulls'[i].state = s
  BY <1>0, <1>1, <1>8 DEF Pull
<1> HIDE DEF i, s
<1>9. ASSUME NEW j \in DOMAIN pulls
      PROVE  /\ Kept(j)
             /\ pulls'[j].delivers = pulls[j].delivers
             /\ pulls'[j].state = "merged" => pulls[j].state = "merged"
  <2>1. CASE j = i
    BY <1>2, <1>8, <2>1 DEF Kept, s
  <2>2. CASE j # i
    BY <1>7, <2>2 DEF Kept
  <2> QED
    BY <2>1, <2>2
<1> QED
  BY <1>6, <1>7, <1>8, <1>9 DEF i, s

LEMMA Opening ==
  ASSUME Types, NEW c \in Call, Mine(c) \in Branch, OpenPull(c)
  PROVE  /\ pulls' \in Seq(Pull)
         /\ DOMAIN pulls' = DOMAIN pulls \cup {Len(pulls) + 1}
         /\ Len(pulls) + 1 \notin DOMAIN pulls
         /\ \A i \in DOMAIN pulls : pulls'[i] = pulls[i]
         /\ LET i == Len(pulls) + 1 IN
              /\ pulls'[i].branch = Mine(c) /\ pulls'[i].state = "open"
              /\ pulls'[i].title = c /\ pulls'[i].by = c
<1> DEFINE p == [branch |-> Mine(c), state |-> "open", title |-> c, by |-> c,
                 delivers |-> NoChange]
<1>1. p \in Pull
  BY DEF Pull
<1>2. pulls' = Append(pulls, p)
  BY DEF OpenPull
<1> HIDE DEF p
<1>3. /\ pulls' \in Seq(Pull) /\ Len(pulls') = Len(pulls) + 1
      /\ \A i \in 1 .. Len(pulls) : pulls'[i] = pulls[i]
      /\ pulls'[Len(pulls) + 1] = p
  BY <1>1, <1>2, AppendProperties DEF Types
<1>4. DOMAIN pulls' = 1 .. Len(pulls) + 1
  BY <1>3, LenProperties
<1> QED
  BY <1>3, <1>4, Listing DEF p

(* Somebody changes the state of some, by hand or by a rule of the host's. *)
LEMMA Closing ==
  ASSUME Types, NEW S, S \subseteq DOMAIN pulls, \A i \in S : pulls[i].state = "open",
         pulls' = [i \in DOMAIN pulls |->
                     IF i \in S THEN [pulls[i] EXCEPT !.state = "closed"] ELSE pulls[i]]
  PROVE  /\ Updated
         /\ \A i \in DOMAIN pulls :
              /\ Kept(i)
              /\ pulls'[i].delivers = pulls[i].delivers
              /\ pulls'[i].state = "merged" => pulls[i].state = "merged"
              /\ i \notin S => pulls'[i] = pulls[i]
<1>0. pulls \in [DOMAIN pulls -> Pull]
  BY Listing
<1>1. ASSUME NEW i \in DOMAIN pulls
      PROVE  [pulls[i] EXCEPT !.state = "closed"] \in Pull
  BY <1>0 DEF Pull
<1>2. pulls' \in [DOMAIN pulls -> Pull]
  BY <1>0, <1>1
<1>3. Updated
  BY <1>2, StillAList DEF Updated
<1>4. ASSUME NEW i \in S PROVE pulls'[i] = [pulls[i] EXCEPT !.state = "closed"]
  BY <1>4
<1> QED
  BY <1>0, <1>3, <1>4 DEF Kept, Pull

LEMMA ClosingOne ==
  ASSUME Types, NEW i \in DOMAIN pulls, HostCloses(i) \/ PersonCloses(i)
  PROVE  /\ Updated
         /\ \A j \in DOMAIN pulls :
              /\ Kept(j)
              /\ pulls'[j].delivers = pulls[j].delivers
              /\ pulls'[j].state = "merged" => pulls[j].state = "merged"
              /\ j # i => pulls'[j] = pulls[j]
<1>1. pulls[i].state = "open" /\ pulls' = [pulls EXCEPT ![i].state = "closed"]
  BY DEF HostCloses, PersonCloses
<1>2. pulls' = [j \in DOMAIN pulls |->
                  IF j \in {i} THEN [pulls[j] EXCEPT !.state = "closed"] ELSE pulls[j]]
  BY <1>1, Listing
<1> QED
  BY <1>1, <1>2, Closing

(* A branch holds one commit at most, so what a merge delivers is that one.*)
LEMMA TheCommit ==
  ASSUME Types, OneCommitOnItsBase, NEW b \in Branch
  PROVE  /\ branch[b].ahead \in Seq(Call) /\ DOMAIN branch[b].ahead \subseteq {1}
         /\ \A c \in Range(branch[b].ahead) : c \in Call /\ Mine(c) = b
         /\ Ahead(b) # {} =>
              LET c == branch[b].ahead[Newest(Ahead(b))] IN
                /\ c \in Range(branch[b].ahead)
                /\ ~ Delivered(c)
         /\ \A c : branch[b].ahead = <<c>> /\ ~ Delivered(c) => Ahead(b) # {}
<1>1. branch[b].ahead \in Seq(Call)
  BY DEF Types
<1>2. Len(branch[b].ahead) \in Nat /\ DOMAIN branch[b].ahead = 1 .. Len(branch[b].ahead)
  BY <1>1, LenProperties
<1>3. DOMAIN branch[b].ahead \subseteq {1}
  BY <1>2 DEF OneCommitOnItsBase
<1>4. \A c \in Range(branch[b].ahead) : c \in Call /\ Mine(c) = b
  BY <1>1, <1>2, ElementOfSeq DEF OneCommitOnItsBase, Range
<1>5. ASSUME Ahead(b) # {}
      PROVE  LET c == branch[b].ahead[Newest(Ahead(b))] IN
               c \in Range(branch[b].ahead) /\ ~ Delivered(c)
  <2>1. Ahead(b) = {1} /\ 1 \in DOMAIN branch[b].ahead /\ ~ Delivered(branch[b].ahead[1])
    BY <1>3, <1>5 DEF Ahead
  <2>2. Newest({1}) = 1
    BY DEF Newest
  <2> QED
    BY <2>1, <2>2 DEF Range
<1>6. ASSUME NEW c, branch[b].ahead = <<c>>, ~ Delivered(c)
      PROVE  Ahead(b) # {}
  BY <1>6 DEF Ahead
<1> QED
  BY <1>1, <1>3, <1>4, <1>5, <1>6

LEMMA Merging ==
  ASSUME Types, OneCommitOnItsBase, NEW i \in DOMAIN pulls, PersonMerges(i)
  PROVE  \E c \in Call :
           /\ c \in Range(branch[pulls[i].branch].ahead) /\ Mine(c) = pulls[i].branch
           /\ pulls[i].branch \in Branch
           /\ pulls[i].state = "open"
           /\ Conflicts(c) = {}
           /\ main' = Append(main, MergedTree(c))
           /\ Updated
           /\ pulls'[i].state = "merged" /\ pulls'[i].delivers = c
           /\ \A j \in DOMAIN pulls : Kept(j) /\ (j # i => pulls'[j] = pulls[j])
<1> DEFINE b == pulls[i].branch
           c == branch[b].ahead[Newest(Ahead(b))]
<1>0. pulls \in [DOMAIN pulls -> Pull] /\ b \in Branch
  BY Listing DEF Pull
<1>1. c \in Range(branch[b].ahead) /\ c \in Call /\ Mine(c) = b
  BY <1>0, TheCommit DEF PersonMerges
<1>2. /\ pulls[i].state = "open" /\ Conflicts(c) = {} /\ main' = Append(main, MergedTree(c))
      /\ pulls' = [pulls EXCEPT ![i] = [[pulls[i] EXCEPT !.state = "merged"] EXCEPT !.delivers = c]]
  BY DEF PersonMerges
<1> HIDE DEF c
<1>3. [[pulls[i] EXCEPT !.state = "merged"] EXCEPT !.delivers = c] \in Pull
  BY <1>0, <1>1 DEF Pull
<1>4. pulls' \in [DOMAIN pulls -> Pull]
  BY <1>0, <1>2, <1>3
<1>5. Updated
  BY <1>4, StillAList DEF Updated
<1>6. /\ pulls'[i].state = "merged" /\ pulls'[i].delivers = c
      /\ pulls'[i].branch = b /\ pulls'[i].by = pulls[i].by
  BY <1>0, <1>2 DEF Pull
<1>7. \A j \in DOMAIN pulls : Kept(j) /\ (j # i => pulls'[j] = pulls[j])
  BY <1>0, <1>2, <1>6 DEF Kept
<1> QED
  BY <1>0, <1>1, <1>2, <1>5, <1>6, <1>7

-----------------------------------------------------------------------------
(* The base branch only grows.                                             *)

LEMMA MainGrows ==
  ASSUME Types, Repository, OneCommitOnItsBase, [ProposalNext]_pvars
  PROVE  /\ Len(main) \in Nat /\ DOMAIN main = 1 .. Len(main)
         /\ main' \in Seq(Range(main'))
         /\ \/ main' = main
            \/ /\ Len(main') = Len(main) + 1
               /\ \A n \in 1 .. Len(main) : main'[n] = main[n]
         /\ Len(main') \in Nat /\ DOMAIN main' = 1 .. Len(main')
         /\ Len(main) <= Len(main') /\ \A n \in 1 .. Len(main) : main'[n] = main[n]
<1>0. Len(main) \in Nat /\ DOMAIN main = 1 .. Len(main)
  BY Appended DEF Repository
<1>1. main' = main \/ \E tree : main' = Append(main, tree)
  <2>1. ASSUME NEW c \in Call, CallStep(c) PROVE main' = main
    BY <2>1 DEF CallStep, Step, Renders, RenderUnavailable, Failure, Fails, Requests, ReadRef,
       CreateRef, ForceMove, CreateCommit, CommitsOn, ListPulls, ListsAmong, Refresh, Refreshes,
       OpenPull, host
  <2>2. ASSUME NEW c \in Call, NEW r \in Replica, Begins(c, r) PROVE main' = main
    BY <2>2 DEF Begins, Compose, ComposeClaim, AddTier, Attach, Govern, Activate, Advance, Abort,
       Exit, Takes, host
  <2>3. CASE HostActs
    BY <2>3 DEF HostActs, HostCloses
  <2>4. CASE PeopleAct
    BY <2>4 DEF PeopleAct, PersonCloses, PersonMerges, PersonDeletes
  <2>5. ASSUME NEW v \in Versions, CommandActivates(v) PROVE \E tree : main' = Append(main, tree)
    BY <2>5 DEF CommandActivates
  <2>6. ASSUME NEW r \in Replica, Fetch(r) \/ Rebuild(r) PROVE main' = main
    BY <2>6 DEF Fetch, Rebuild, fvars
  <2> QED
    BY <2>1, <2>2, <2>3, <2>4, <2>5, <2>6 DEF ProposalNext, CallStep, pvars, fvars
<1>2. CASE main' = main
  BY <1>0, <1>2 DEF Repository
<1>3. ASSUME NEW tree, main' = Append(main, tree) PROVE
        /\ main' \in Seq(Range(main')) /\ Len(main') = Len(main) + 1
        /\ DOMAIN main' = 1 .. Len(main')
        /\ \A n \in 1 .. Len(main) : main'[n] = main[n]
  BY <1>3, Appended DEF Repository
<1> QED
  BY <1>0, <1>1, <1>2, <1>3

-----------------------------------------------------------------------------
(* Every exit authors a change such as Proposed says.                      *)

BeginsWith(c, ch) ==
  \E to \in {"ref", "render"} :
    /\ pc[c] = "idle"
    /\ change' = [change EXCEPT ![c] = ch]
    /\ pc' = [pc EXCEPT ![c] = to]
    /\ disturbed' = disturbed \cup Disturbs(ch.branch)
                       \cup (IF Contends(c, ch.branch) THEN {c} ELSE {})
    /\ UNCHANGED <<host, base, listed, local>>

LEMMA ExitTakes ==
  ASSUME NEW c \in Call, NEW r \in Replica, NEW ch, NEW name, NEW to \in {"ref", "render"},
         Exit(name, c, r, ch, to)
  PROVE  BeginsWith(c, ch) /\ docs[r] # 0
BY DEF Exit, Takes, BeginsWith, Goes

LEMMA Begun ==
  ASSUME Repository, NEW c \in Call, NEW r \in Replica, Begins(c, r)
  PROVE  \E ch : Proposed(ch) /\ BeginsWith(c, ch)
<1> USE EstateAssumption, ProposalAssumption DEF Named, Change, Edited, BlueprintFile, TierFile
<1>0. /\ seen[r] \in 1 .. Len(main) /\ Len(main) \in Nat /\ DOMAIN main = 1 .. Len(main)
      /\ docs[r] # 0 => docs[r] \in 1 .. Len(main)
      /\ docs[r] # 0 => Loads(Doc(r))
  BY Appended DEF Repository, Doc
<1>1. CASE Compose(c, r)
  <2>1. BeginsWith(c, Composed(c, r)) /\ docs[r] # 0
    BY <1>1, ExitTakes DEF Compose
  <2>2. Proposed(Composed(c, r))
    BY <1>0, <2>1 DEF Composed, Proposed, Held
  <2> QED
    BY <2>1, <2>2
<1>2. CASE ComposeClaim(c, r)
  <2>1. BeginsWith(c, Drafted(c, r)) /\ docs[r] # 0
    BY <1>2, ExitTakes DEF ComposeClaim
  <2>2. Proposed(Drafted(c, r))
    BY <1>0, <2>1 DEF Drafted, Proposed, Held
  <2> QED
    BY <2>1, <2>2
<1>3. CASE AddTier(c, r)
  <2>1. BeginsWith(c, TierAdded(r)) /\ docs[r] # 0
    BY <1>3, ExitTakes DEF AddTier
  <2>2. Proposed(TierAdded(r))
    BY <1>0, <2>1 DEF TierAdded, Proposed
  <2> QED
    BY <2>1, <2>2
<1>4. ASSUME NEW claim \in Claims, Attach(c, r, claim) PROVE \E ch : Proposed(ch) /\ BeginsWith(c, ch)
  <2>1. BeginsWith(c, Attached(r, claim)) /\ docs[r] # 0
    BY <1>4, ExitTakes DEF Attach
  <2>2. Proposed(Attached(r, claim))
    BY <1>0, <2>1 DEF Attached, Proposed, Held
  <2> QED
    BY <2>1, <2>2
<1>5. ASSUME NEW p \in Policies, Govern(c, r, p) PROVE \E ch : Proposed(ch) /\ BeginsWith(c, ch)
  <2>1. BeginsWith(c, Governed(r, p)) /\ docs[r] # 0
    BY <1>5, ExitTakes DEF Govern
  <2>2. Proposed(Governed(r, p))
    BY <1>0, <2>1 DEF Governed, Proposed
  <2> QED
    BY <2>1, <2>2
<1>6. ASSUME NEW v \in Versions, Activate(c, r, v) PROVE \E ch : Proposed(ch) /\ BeginsWith(c, ch)
  <2>1. BeginsWith(c, Activated(r, v)) /\ docs[r] # 0
    BY <1>6, ExitTakes DEF Activate
  <2>2. Sound(Designate(Held(r)["record"], v, Doc(r)["record"].active))
    BY <1>6 DEF Activate, Designates
  <2>3. Proposed(Activated(r, v))
    BY <1>0, <2>1, <2>2 DEF Activated, Proposed, Held, Doc
  <2> QED
    BY <2>1, <2>3
<1>7. CASE Advance(c, r)
  <2>1. BeginsWith(c, Advanced(r)) /\ docs[r] # 0
    BY <1>7, ExitTakes DEF Advance
  <2>2. Doc(r)["stage"] \in 0 .. Stages - 1
    BY <1>0, <1>7, <2>1 DEF Advance, Loads
  <2>3. CASE Final(r)
    <3> DEFINE new == [stage |-> Absent, binding |-> To]
               fs == [k \in {"selector", "binding", "stage"} |->
                        IF k \in DOMAIN new THEN new[k] ELSE Held(r)[k]]
               ch == Change(r, <<"advance", Doc(r)["stage"] + 2>>, new, fs)
    <3>1. Advanced(r) = ch
      BY <2>3 DEF Advanced
    <3>2. /\ fs["stage"] = Absent /\ fs["binding"] = To /\ fs["selector"] = Held(r)["selector"]
          /\ DOMAIN fs = {"selector", "binding", "stage"} /\ DOMAIN new = {"stage", "binding"}
      OBVIOUS
    <3> HIDE DEF fs, new
    <3>3. /\ ch.branch \in Branch /\ ch.branch = <<"advance", Doc(r)["stage"] + 2>>
          /\ ch.at = seen[r] /\ ch.judged = docs[r]
          /\ ch.files = fs /\ ch.intends = DOMAIN new
      BY <2>2
    <3>4. Proposed(ch)
      BY <1>0, <2>1, <2>2, <2>3, <3>2, <3>3 DEF Final, Proposed, Moves, Held, Doc
    <3> QED
      BY <2>1, <3>1, <3>4
  <2>4. CASE ~ Final(r)
    <3> DEFINE new == [stage |-> Doc(r)["stage"] + 1]
               fs == [k \in {"stage"} |-> IF k \in DOMAIN new THEN new[k] ELSE Held(r)[k]]
               ch == Change(r, <<"advance", Doc(r)["stage"] + 2>>, new, fs)
    <3>1. Advanced(r) = ch
      BY <2>4 DEF Advanced
    <3>2. fs["stage"] = Doc(r)["stage"] + 1 /\ DOMAIN fs = {"stage"} /\ DOMAIN new = {"stage"}
      OBVIOUS
    <3> HIDE DEF fs, new
    <3>3. /\ ch.branch \in Branch /\ ch.branch = <<"advance", Doc(r)["stage"] + 2>>
          /\ ch.at = seen[r] /\ ch.judged = docs[r]
          /\ ch.files = fs /\ ch.intends = DOMAIN new
      BY <2>2
    <3>4. Doc(r)["stage"] + 1 \in 1 .. Stages - 1
      BY <2>2, <2>4 DEF Final
    <3>5. Proposed(ch)
      BY <1>0, <2>1, <2>2, <3>2, <3>3, <3>4 DEF Proposed, Moves, Doc
    <3> QED
      BY <2>1, <3>1, <3>5
  <2> QED
    BY <2>3, <2>4
<1>8. CASE Abort(c, r)
  <2>1. BeginsWith(c, Aborted(r)) /\ docs[r] # 0
    BY <1>8, ExitTakes DEF Abort
  <2>2. Doc(r)["stage"] \in 0 .. Stages - 1
    BY <1>0, <1>8, <2>1 DEF Abort, Loads
  <2> DEFINE new == [stage |-> Absent]
             ch == Change(r, <<"abort", Doc(r)["stage"] + 1>>, new, new)
  <2>3. Aborted(r) = ch
    BY DEF Aborted
  <2>4. new["stage"] = Absent /\ DOMAIN new = {"stage"}
    OBVIOUS
  <2> HIDE DEF new
  <2>5. /\ ch.branch \in Branch /\ ch.branch = <<"abort", Doc(r)["stage"] + 1>>
        /\ ch.at = seen[r] /\ ch.judged = docs[r]
        /\ ch.files = new /\ ch.intends = DOMAIN new
    BY <2>2
  <2>6. Proposed(ch)
    BY <1>0, <2>1, <2>2, <2>4, <2>5 DEF Proposed, Moves, Doc
  <2> QED
    BY <2>1, <2>3, <2>6
<1> QED
  BY <1>1, <1>2, <1>3, <1>4, <1>5, <1>6, <1>7, <1>8 DEF Begins

-----------------------------------------------------------------------------
(* The invariant, part by part.  First a step of the calls, and what the   *)
(* rest leave alone.                                                       *)

LEMMA Quiet ==
  ASSUME \/ \E v \in Versions : CommandActivates(v)
         \/ \E r \in Replica : Fetch(r) \/ Rebuild(r)
         \/ UNCHANGED pvars
  PROVE  UNCHANGED <<branch, pulls, pc, change, base, listed, disturbed>>
BY DEF CommandActivates, Fetch, Rebuild, pvars, fvars, local

LEMMA Calling ==
  ASSUME Types, NEW c \in Call, CallStep(c)
  PROVE  /\ UNCHANGED <<main, change, disturbed, exits, seen, docs>>
         /\ pc[c] \in Active
         /\ \E l \in Active \cup {"done", "failed"} : pc' = [pc EXCEPT ![c] = l]
         /\ base' = base \/ (pc[c] = "ref" /\ base' = [base EXCEPT ![c] = Len(main)])
         /\ listed' = listed \/ ListPulls(c)
         /\ branch' = branch \/ CreateRef(c) \/ ForceMove(c) \/ CreateCommit(c)
         /\ pulls' = pulls \/ Refresh(c) \/ OpenPull(c)
<1> USE DEF Active
<1>1. CASE Renders(c) \/ RenderUnavailable(c)
  BY <1>1 DEF Renders, RenderUnavailable, Goes, host
<1>2. CASE Failure(c)
  BY <1>2 DEF Failure, Fails, Goes, host, local
<1>3. CASE Requests(c) /\ UNCHANGED <<local, disturbed>>
  BY <1>3 DEF Requests, ReadRef, CreateRef, ForceMove, CreateCommit, CommitsOn, ListPulls,
     ListsAmong, Refresh, Refreshes, OpenPull, Goes, Answered, host, local
<1> QED
  BY <1>1, <1>2, <1>3 DEF CallStep, Step

(* A designation adds one activation to those before it, which names the   *)
(* version it replaced as the record had it, and the one it was shown.     *)
LEMMA Designation ==
  ASSUME NEW rec, AList(rec.activations), NEW v, NEW from
  PROVE  /\ AList(Designate(rec, v, from).activations)
         /\ AddsOne(rec, Designate(rec, v, from), from)
<1> DEFINE was == rec.activations
           e == Entry(v, rec.active, from)
<1>1. Designate(rec, v, from).activations = Append(was, e)
  BY DEF Designate, Designated
<1>2. e.from = from /\ e.previous = rec.active
  BY DEF Entry
<1> HIDE DEF was, e
<1>3. ASSUME AList(was)
      PROVE  /\ AList(Append(was, e)) /\ Len(Append(was, e)) = Len(was) + 1
             /\ DOMAIN was = 1 .. Len(was)
             /\ \A n \in 1 .. Len(was) : Append(was, e)[n] = was[n]
             /\ Append(was, e)[Len(was) + 1] = e
  BY <1>3, Appended DEF AList
<1> QED
  BY <1>1, <1>2, <1>3 DEF AddsOne, was

LEMMA LoadsMerged ==
  ASSUME Repository, NEW c \in Call, Proposed(change[c]), base[c] \in 1 .. Len(main)
  PROVE  Loads(MergedTree(c))
<1> USE ProposalAssumption DEF Loads
<1>1. Len(main) \in Nat /\ DOMAIN main = 1 .. Len(main)
  BY Appended DEF Repository
<1>2. Loads(main[Len(main)]) /\ Loads(main[base[c]])
  BY <1>1 DEF Repository
<1>3. DOMAIN MergedTree(c) = Key /\ DOMAIN Tree(c) = Key
  BY DEF MergedTree, Tree
<1>4. \A k \in Key : MergedTree(c)[k] \in {Tree(c)[k], main[Len(main)][k]}
  BY DEF MergedTree
<1>5. \A k \in Key : Tree(c)[k] = IF k \in DOMAIN change[c].files
                                THEN change[c].files[k] ELSE main[base[c]][k]
  BY DEF Tree
<1>6. Tree(c)["stage"] \in {Absent} \cup 0 .. Stages - 1
  BY <1>2, <1>5 DEF Proposed, Moves
<1>7. Sound(Tree(c)["record"])
  BY <1>2, <1>5 DEF Proposed
<1>8. AList(Tree(c)["record"].activations)
  <2>1. CASE "record" \in DOMAIN change[c].files
    <3>1. /\ Loads(main[change[c].at])
          /\ \E v : Tree(c)["record"] =
                Designate(main[change[c].at]["record"], v, main[change[c].judged]["record"].active)
      BY <1>1, <1>5, <2>1 DEF Proposed, Repository
    <3> QED
      BY <3>1, Designation
  <2>2. CASE "record" \notin DOMAIN change[c].files
    BY <1>2, <1>5, <2>2
  <2> QED
    BY <2>1, <2>2
<1> QED
  BY <1>2, <1>3, <1>4, <1>6, <1>7, <1>8

LEMMA RepositoryStep ==
  ASSUME Types, Repository, Proposes, Offers, [ProposalNext]_pvars
  PROVE  Repository'
<1>0. OneCommitOnItsBase
  BY DEF Offers
<1>1. /\ Len(main) \in Nat /\ DOMAIN main = 1 .. Len(main)
      /\ main' \in Seq(Range(main'))
      /\ Len(main') \in Nat /\ DOMAIN main' = 1 .. Len(main')
      /\ Len(main) <= Len(main') /\ \A n \in 1 .. Len(main) : main'[n] = main[n]
  BY <1>0, MainGrows
<1>2. ASSUME NEW tree, main' = Append(main, tree), Loads(tree)
      PROVE  \A n \in DOMAIN main' : Loads(main'[n])
  <2>1. Len(main') = Len(main) + 1 /\ main'[Len(main) + 1] = tree
    BY <1>2, Appended DEF Repository
  <2>2. ASSUME NEW n \in DOMAIN main' PROVE n \in 1 .. Len(main) \/ n = Len(main) + 1
    BY <1>1, <2>1
  <2> QED
    BY <1>1, <1>2, <2>1, <2>2 DEF Repository
<1>3. \A n \in DOMAIN main' : Loads(main'[n])
  <2>1. CASE main' = main
    BY <2>1 DEF Repository
  <2>2. ASSUME NEW i \in DOMAIN pulls, PersonMerges(i)
        PROVE  \A n \in DOMAIN main' : Loads(main'[n])
    <3>1. PICK c \in Call : /\ c \in Range(branch[pulls[i].branch].ahead)
                            /\ pulls[i].branch \in Branch
                            /\ main' = Append(main, MergedTree(c))
      BY <1>0, <2>2, Merging
    <3>2. pc[c] \in Committed /\ base[c] \in 1 .. Len(main)
      BY <3>1 DEF Offers
    <3>3. Proposed(change[c])
      BY <3>2 DEF Proposes, Committed
    <3> QED
      BY <1>2, <3>1, <3>2, <3>3, LoadsMerged
  <2>3. ASSUME NEW v \in Versions, CommandActivates(v)
        PROVE  \A n \in DOMAIN main' : Loads(main'[n])
    <3> DEFINE last == main[Len(main)]
               tree == [last EXCEPT !["record"] = Designate(last["record"], v, last["record"].active)]
    <3>1. main' = Append(main, tree) /\ Sound(Designate(last["record"], v, last["record"].active))
      BY <2>3 DEF CommandActivates, Applies, Designates
    <3>2. Loads(last)
      BY <1>1 DEF Repository
    <3>3. AList(tree["record"].activations)
      BY <3>2, Designation, ProposalAssumption DEF Loads
    <3>4. Loads(tree)
      BY <3>1, <3>2, <3>3, ProposalAssumption DEF Loads
    <3> QED
      BY <1>2, <3>1, <3>4
  <2>4. ASSUME NEW c \in Call, CallStep(c) PROVE main' = main
    BY <2>4, Calling
  <2>5. ASSUME NEW c \in Call, NEW r \in Replica, Begins(c, r) PROVE main' = main
    BY <2>5, Begun DEF BeginsWith, host
  <2>6. CASE HostActs
    BY <2>1, <2>6 DEF HostActs, HostCloses
  <2>7. ASSUME PeopleAct PROVE main' = main \/ \E i \in DOMAIN pulls : PersonMerges(i)
    BY <2>7 DEF PeopleAct, PersonCloses, PersonDeletes
  <2>8. ASSUME NEW r \in Replica, Fetch(r) \/ Rebuild(r) PROVE main' = main
    BY <2>8 DEF Fetch, Rebuild, fvars
  <2> QED
    BY <2>1, <2>2, <2>3, <2>4, <2>5, <2>6, <2>7, <2>8 DEF ProposalNext, CallStep, pvars, fvars
<1>4. /\ DOMAIN seen' = Replica /\ DOMAIN docs' = Replica
      /\ \A r \in Replica : seen'[r] \in 1 .. Len(main') /\ docs'[r] \in 0 .. seen'[r]
  <2>1. CASE UNCHANGED <<seen, docs>>
    BY <1>1, <2>1 DEF Repository
  <2>2. ASSUME NEW r \in Replica, Fetch(r)
        PROVE  <1>4!:
    <3>1. /\ docs' = docs /\ main' = main
          /\ \E n \in seen[r] + 1 .. Len(main) : seen' = [seen EXCEPT ![r] = n]
      BY <2>2 DEF Fetch, fvars
    <3> QED
      BY <1>1, <3>1 DEF Repository
  <2>3. ASSUME NEW r \in Replica, Rebuild(r)
        PROVE  <1>4!:
    <3>1. seen' = seen /\ main' = main /\ docs' = [docs EXCEPT ![r] = seen[r]]
      BY <2>3 DEF Rebuild, fvars
    <3> QED
      BY <1>1, <3>1 DEF Repository
  <2>4. ASSUME NEW c \in Call, NEW r \in Replica, Begins(c, r) PROVE UNCHANGED <<seen, docs>>
    BY <2>4, Begun DEF BeginsWith, local
  <2>5. ASSUME NEW c \in Call, CallStep(c) PROVE UNCHANGED <<seen, docs>>
    BY <2>5, Calling
  <2>6. CASE HostActs \/ PeopleAct \/ (\E v \in Versions : CommandActivates(v)) \/ UNCHANGED pvars
    BY <2>1, <2>6 DEF HostActs, PeopleAct, Touching, CommandActivates, local, pvars
  <2> QED
    BY <2>1, <2>2, <2>3, <2>4, <2>5, <2>6 DEF ProposalNext, CallStep
<1> QED
  BY <1>1, <1>3, <1>4 DEF Repository

LEMMA TypesStep ==
  ASSUME Types, Repository, Proposes, Offers, [ProposalNext]_pvars
  PROVE  Types'
<1> USE DEF Active
<1>0. /\ OneCommitOnItsBase /\ Len(main) \in Nat
      /\ pulls \in [DOMAIN pulls -> Pull]
  BY Appended, Listing DEF Offers, Repository
<1>1. ASSUME UNCHANGED <<branch, pulls, pc, change, base, listed>>, disturbed' \subseteq Call
      PROVE  Types'
  BY <1>1 DEF Types
<1>2. ASSUME NEW c \in Call, CallStep(c) PROVE Types'
  <2>0. /\ UNCHANGED <<change, disturbed>> /\ pc[c] \in Active
        /\ \E l \in Active \cup {"done", "failed"} : pc' = [pc EXCEPT ![c] = l]
        /\ base' = base \/ base' = [base EXCEPT ![c] = Len(main)]
        /\ listed' = listed \/ ListPulls(c)
        /\ branch' = branch \/ CreateRef(c) \/ ForceMove(c) \/ CreateCommit(c)
        /\ pulls' = pulls \/ Refresh(c) \/ OpenPull(c)
    BY <1>2, Calling
  <2>a. Mine(c) \in Branch
    <3>1. pc[c] # "idle"
      BY <2>0
    <3> QED
      BY <3>1 DEF Proposes, Proposed, Mine
  <2>1. DOMAIN listed' = Call
    BY <2>0 DEF ListPulls, ListsAmong, Types
  <2>2. branch' \in [Branch -> [base : Nat, ahead : Seq(Call)]]
    <3>1. CASE branch' = branch
      BY <3>1 DEF Types
    <3>2. CASE CreateRef(c) \/ ForceMove(c)
      <4>1. branch' = branch \/ Resets(c)
        BY <3>2 DEF CreateRef, ForceMove
      <4>2. base[c] \in Nat
        BY <1>0, <3>2 DEF CreateRef, ForceMove, Proposes, Based
      <4> DEFINE sits == [base |-> base[c], ahead |-> <<>>]
      <4>3. sits \in [base : Nat, ahead : Seq(Call)]
        BY <4>2, EmptySeq
      <4>4. branch' = branch \/ branch' = [branch EXCEPT ![Mine(c)] = sits]
        BY <4>1 DEF Resets
      <4> HIDE DEF sits
      <4> QED
        BY <4>3, <4>4 DEF Types
    <3>3. CASE CreateCommit(c)
      <4> DEFINE b == Mine(c)
                 q == Append(branch[b].ahead, c)
      <4>1. branch' = [branch EXCEPT ![b] = [branch[b] EXCEPT !.ahead = q]]
        BY <3>3 DEF CreateCommit, CommitsOn
      <4>2. branch[b] \in [base : Nat, ahead : Seq(Call)]
        BY <2>a DEF Types
      <4>3. q \in Seq(Call)
        BY <4>2, AppendProperties
      <4> HIDE DEF q, b
      <4>4. [branch[b] EXCEPT !.ahead = q] \in [base : Nat, ahead : Seq(Call)]
        BY <4>2, <4>3
      <4> QED
        BY <4>1, <4>4 DEF Types
    <3> QED
      BY <2>0, <3>1, <3>2, <3>3
  <2>3. pulls' \in Seq(Pull)
    <3>1. CASE Refresh(c)
      BY <3>1, Refreshing DEF Updated
    <3>2. CASE OpenPull(c)
      <4>1. Mine(c) \in Branch
        BY <3>2, <2>a
      <4> QED
        BY <3>2, <4>1, Opening
    <3> QED
      BY <2>0, <3>1, <3>2 DEF Types
  <2> QED
    BY <2>0, <2>1, <2>2, <2>3 DEF Types
<1>3. ASSUME NEW c \in Call, NEW r \in Replica, Begins(c, r) PROVE Types'
  <2>1. PICK ch : BeginsWith(c, ch)
    BY <1>3, Begun
  <2>2. disturbed' \subseteq Call
    BY <2>1 DEF BeginsWith, Disturbs, Types
  <2> QED
    BY <2>1, <2>2 DEF BeginsWith, Types, host
<1>4. ASSUME NEW i \in DOMAIN pulls, HostCloses(i) \/ PersonCloses(i) \/ PersonMerges(i),
             UNCHANGED disturbed \/ Touching(pulls[i].branch)
      PROVE  Types'
  <2>1. pulls' \in Seq(Pull)
    BY <1>0, <1>4, ClosingOne, Merging DEF Updated
  <2>2. UNCHANGED <<branch, pc, change, base, listed>> /\ disturbed' \subseteq Call
    BY <1>4 DEF HostCloses, PersonCloses, PersonMerges, Touching, Disturbs, Types
  <2> QED
    BY <2>1, <2>2 DEF Types
<1>5. ASSUME NEW b \in Branch, PersonDeletes(b), Touching(b) PROVE Types'
  <2>1. pulls' \in Seq(Pull)
    <3>1. OpenPulls(b) \subseteq DOMAIN pulls /\ \A i \in OpenPulls(b) : pulls[i].state = "open"
      BY DEF OpenPulls
    <3> QED
      BY <1>5, <3>1, Closing DEF PersonDeletes, Updated
  <2>2. branch' \in [Branch -> [base : Nat, ahead : Seq(Call)]]
    BY <1>5, EmptySeq DEF PersonDeletes, NoBranch, Types
  <2>3. UNCHANGED <<pc, change, base, listed>> /\ disturbed' \subseteq Call
    BY <1>5 DEF PersonDeletes, Touching, Disturbs, Types
  <2> QED
    BY <2>1, <2>2, <2>3 DEF Types
<1>6. CASE HostActs
  BY <1>4, <1>6 DEF HostActs
<1>7. CASE PeopleAct
  BY <1>4, <1>5, <1>7 DEF PeopleAct
<1> QED
  BY <1>1, <1>2, <1>3, <1>6, <1>7, Quiet DEF ProposalNext, CallStep, Types

LEMMA ProposedStays ==
  ASSUME NEW ch, Proposed(ch), Len(main) \in Nat, Len(main') \in Nat, Len(main) <= Len(main'),
         \A n \in 1 .. Len(main) : main'[n] = main[n]
  PROVE  Proposed(ch)'
<1>1. /\ ch.at \in 1 .. Len(main') /\ ch.judged \in 1 .. Len(main')
      /\ main'[ch.at] = main[ch.at] /\ main'[ch.judged] = main[ch.judged]
  BY DEF Proposed
<1> QED
  BY <1>1 DEF Proposed

LEMMA ProposesStep ==
  ASSUME Types, Repository, Proposes, Offers, [ProposalNext]_pvars
  PROVE  Proposes'
<1>0. /\ Len(main) \in Nat /\ Len(main') \in Nat
      /\ Len(main) <= Len(main') /\ \A n \in 1 .. Len(main) : main'[n] = main[n]
  BY MainGrows DEF Offers
<1>1. ASSUME NEW c \in Call, pc[c] # "idle" PROVE Proposed(change[c])'
  <2>1. Proposed(change[c]) /\ change'[c] = change[c]
    BY <1>1, CallsGoOn DEF Proposes
  <2>2. \A ch : Proposed(ch) => Proposed(ch)'
    BY <1>0, ProposedStays
  <2> QED
    BY <2>1, <2>2 DEF Proposed
<1>2. ASSUME NEW c \in Call, NEW d \in Call, NEW r \in Replica, Begins(d, r)
      PROVE  /\ pc'[c] # "idle" => Proposed(change[c])'
             /\ pc'[c] \in Based \ {"failed"} => base'[c] \in 1 .. Len(main')
  <2>1. PICK ch : Proposed(ch) /\ BeginsWith(d, ch)
    BY <1>2, Begun
  <2>2. CASE c = d
    <3>1. change'[c] = ch /\ pc'[c] \notin Based /\ main' = main
      BY <2>1, <2>2 DEF BeginsWith, Types, Based, Committed, host
    <3> QED
      BY <2>1, <3>1 DEF Proposed
  <2>3. CASE c # d
    <3>1. pc'[c] = pc[c] /\ base' = base
      BY <2>1, <2>3 DEF BeginsWith, Types
    <3> QED
      BY <1>0, <1>1, <3>1 DEF Proposes
  <2> QED
    BY <2>2, <2>3
<1>3. ASSUME NEW c \in Call, NEW d \in Call, CallStep(d)
      PROVE  /\ pc'[c] # "idle" => Proposed(change[c])'
             /\ pc'[c] \in Based \ {"failed"} => base'[c] \in 1 .. Len(main')
  <2>1. pc[d] \in Active /\ \E l : pc' = [pc EXCEPT ![d] = l]
    BY <1>3, Calling
  <2>2. pc[c] # "idle" \/ pc'[c] = "idle"
    BY <2>1 DEF Types, Active
  <2>3. CASE pc[c] \in Based \ {"failed"}
    <3>1. base'[c] = base[c] /\ base[c] \in 1 .. Len(main)
      BY <2>3, CallsGoOn DEF Proposes
    <3> QED
      BY <1>0, <1>1, <2>2, <3>1
  <2>4. CASE pc[c] \notin Based \ {"failed"} /\ pc'[c] \in Based \ {"failed"}
    <3>1. c = d /\ ReadRef(c)
      BY <1>3, <2>1, <2>4 DEF CallStep, Step, Renders, RenderUnavailable, Failure, Fails, Requests,
         CreateRef, ForceMove, CreateCommit, CommitsOn, ListPulls, ListsAmong, Refresh, Refreshes,
         OpenPull, Goes, Based, Committed, Types
    <3>2. base'[c] = Len(main) /\ Len(main) >= 1
      BY <3>1 DEF ReadRef, Types, Repository
    <3> QED
      BY <1>0, <1>1, <2>2, <3>2
  <2> QED
    BY <1>1, <2>2, <2>3, <2>4
<1>4. ASSUME UNCHANGED <<pc, change, base>> PROVE Proposes'
  BY <1>0, <1>1, <1>4 DEF Proposes
<1>5. CASE HostActs \/ PeopleAct
  BY <1>4, <1>5 DEF HostActs, HostCloses, PeopleAct, PersonCloses, PersonMerges, PersonDeletes
<1> QED
  BY <1>2, <1>3, <1>4, <1>5, Quiet DEF ProposalNext, CallStep, Proposes

(* What a step makes of one branch: createCommitOnBranch writes only onto  *)
(* the head it expects, so that no commit ever lands on another.           *)
Emptied(b) == branch'[b].ahead = <<>>

CommittedOn(b, c) ==
  /\ CreateCommit(c) /\ Mine(c) = b
  /\ branch'[b] = [base |-> base[c], ahead |-> <<c>>]

LEMMA BranchStep ==
  ASSUME Types, NEW b \in Branch, [ProposalNext]_pvars
  PROVE  \/ branch'[b] = branch[b]
         \/ /\ Emptied(b)
            /\ \/ PeopleAct /\ PersonDeletes(b) /\ Touching(b)
               \/ \E c \in Call : CallStep(c) /\ Mine(c) = b
         \/ \E c \in Call : CallStep(c) /\ CommittedOn(b, c)
<1>1. ASSUME NEW c \in Call, CallStep(c), branch'[b] # branch[b]
      PROVE  Mine(c) = b /\ (Emptied(b) \/ CommittedOn(b, c))
  <2>1. CreateRef(c) \/ ForceMove(c) \/ CreateCommit(c)
    BY <1>1, Calling
  <2>2. CASE CreateRef(c) \/ ForceMove(c)
    BY <1>1, <2>2 DEF CreateRef, ForceMove, Resets, Emptied, Types
  <2>3. CASE CreateCommit(c)
    <3>1. /\ branch' = [branch EXCEPT ![Mine(c)].ahead = Append(@, c)]
          /\ branch[Mine(c)] = [base |-> base[c], ahead |-> <<>>]
      BY <2>3 DEF CreateCommit, CommitsOn, SitsAtExpectedHead
    <3>2. Mine(c) = b
      BY <1>1, <3>1 DEF Types
    <3>3. Append(<<>>, c) = <<c>>
      OBVIOUS
    <3> QED
      BY <2>3, <3>1, <3>2, <3>3 DEF CommittedOn, Types
  <2> QED
    BY <2>1, <2>2, <2>3
<1>2. ASSUME NEW d \in Branch, PersonDeletes(d), Touching(d), branch'[b] # branch[b]
      PROVE  d = b /\ Emptied(b)
  BY <1>2 DEF PersonDeletes, NoBranch, Emptied, Types
<1>3. CASE branch' = branch
  BY <1>3
<1>4. ASSUME NEW c \in Call, NEW r \in Replica, Begins(c, r) PROVE branch' = branch
  BY <1>4 DEF Begins, Compose, ComposeClaim, AddTier, Attach, Govern, Activate, Advance, Abort,
     Exit, Takes, host
<1>5. ASSUME HostActs PROVE branch' = branch
  BY <1>5 DEF HostActs, HostCloses
<1>6. ASSUME PeopleAct
      PROVE  branch' = branch \/ \E d \in Branch : PersonDeletes(d) /\ Touching(d)
  BY <1>6 DEF PeopleAct, PersonCloses, PersonMerges
<1> QED
  BY <1>1, <1>2, <1>3, <1>4, <1>5, <1>6, Quiet DEF ProposalNext, CallStep

LEMMA CommitsStep ==
  ASSUME Types, Repository, Proposes, Offers, [ProposalNext]_pvars
  PROVE  /\ OneCommitOnItsBase'
         /\ \A b \in Branch : \A c \in Range(branch'[b].ahead) :
              pc'[c] \in Committed /\ base'[c] \in 1 .. Len(main') /\ Parented(c)'
<1>0. /\ Len(main) \in Nat /\ Len(main') \in Nat /\ Len(main) <= Len(main')
      /\ \A n \in 1 .. Len(main) : main'[n] = main[n]
  BY MainGrows DEF Offers
<1> SUFFICES ASSUME NEW b \in Branch
             PROVE  /\ Len(branch'[b].ahead) <= 1
                    /\ \A c \in Range(branch'[b].ahead) :
                         /\ change'[c].branch = b /\ branch'[b].base = base'[c]
                         /\ pc'[c] \in Committed /\ base'[c] \in 1 .. Len(main')
                         /\ Parented(c)'
  BY DEF OneCommitOnItsBase, Mine
<1>4. ASSUME NEW c, base[c] \in 1 .. Len(main), Parented(c),
             change'[c] = change[c], base'[c] = base[c]
      PROVE  Parented(c)'
  BY <1>0, <1>4 DEF Parented, Deletes
<1>1. CASE branch'[b] = branch[b]
  <2>1. ASSUME NEW c \in Range(branch[b].ahead)
        PROVE  /\ c \in Call /\ Mine(c) = b /\ branch[b].base = base[c]
               /\ pc[c] \in Committed /\ base[c] \in 1 .. Len(main) /\ Parented(c)
    BY TheCommit DEF Offers, OneCommitOnItsBase
  <2>2. ASSUME NEW c \in Range(branch[b].ahead)
        PROVE  change'[c] = change[c] /\ base'[c] = base[c] /\ pc'[c] \in Committed
    BY <2>1, CallsGoOn DEF Committed, Based
  <2> QED
    BY <1>0, <1>1, <1>4, <2>1, <2>2 DEF Offers, OneCommitOnItsBase, Mine
<1>2. CASE Emptied(b)
  BY <1>2 DEF Emptied, Range
<1>3. ASSUME NEW c \in Call, CallStep(c), CommittedOn(b, c)
      PROVE  /\ Len(branch'[b].ahead) <= 1
             /\ \A d \in Range(branch'[b].ahead) :
                  /\ change'[d].branch = b /\ branch'[b].base = base'[d]
                  /\ pc'[d] \in Committed /\ base'[d] \in 1 .. Len(main')
                  /\ Parented(d)'
  <2>1. branch'[b].base = base[c] /\ branch'[b].ahead = <<c>>
    BY <1>3 DEF CommittedOn
  <2>2. Len(branch'[b].ahead) = 1 /\ Range(branch'[b].ahead) = {c}
    BY <2>1 DEF Range
  <2>3. /\ pc[c] = "commit" /\ pc'[c] \in {"list", "failed"} /\ UNCHANGED <<change, base>>
    BY <1>3 DEF CommittedOn, CreateCommit, CommitsOn, Answered, Goes, Types
  <2>4. base[c] \in 1 .. Len(main)
    BY <2>3 DEF Proposes, Based
  <2>5. Parented(c)'
    <3>1. Parented(c)
      BY <1>3 DEF CommittedOn, CreateCommit, CommitsOn, Parented
    <3> QED
      BY <1>4, <2>3, <2>4, <3>1
  <2> QED
    BY <1>0, <1>3, <2>1, <2>2, <2>3, <2>4, <2>5 DEF CommittedOn, Mine, Committed
<1> QED
  BY <1>1, <1>2, <1>3, BranchStep

(* What a step makes of the pull requests, and who took it: one of the     *)
(* calls on the branch, the host, or a person, who disturbs those calls.   *)
LEMMA PullsStep ==
  ASSUME Types, Proposes, Offers, [ProposalNext]_pvars
  PROVE  /\ DOMAIN pulls \subseteq DOMAIN pulls'
         /\ \A i \in DOMAIN pulls :
              /\ Kept(i)
              /\ pulls'[i].state = "merged" /\ pulls[i].state # "merged" =>
                   /\ PersonMerges(i) /\ Touching(pulls[i].branch)
                   /\ pulls[i].branch \in Branch
                   /\ pulls'[i].delivers \in Range(branch[pulls[i].branch].ahead)
              /\ \/ pulls'[i] = pulls[i]
                 \/ HostCloses(i)
                 \/ Touching(pulls[i].branch)
                 \/ \E c \in Call : CallStep(c) /\ Refresh(c) /\ i = listed[c].pull
         /\ \A i \in DOMAIN pulls' \ DOMAIN pulls :
              \E c \in Call :
                /\ CallStep(c) /\ OpenPull(c)
                /\ pulls'[i].branch = Mine(c) /\ pulls'[i].state = "open"
                /\ pulls'[i].title = c /\ pulls'[i].by = c
                /\ \A j \in DOMAIN pulls : j < i
<1> DEFINE Goal(i) ==
      /\ Kept(i)
      /\ pulls'[i].state = "merged" /\ pulls[i].state # "merged" =>
           /\ PersonMerges(i) /\ Touching(pulls[i].branch)
           /\ pulls[i].branch \in Branch
           /\ pulls'[i].delivers \in Range(branch[pulls[i].branch].ahead)
      /\ \/ pulls'[i] = pulls[i]
         \/ HostCloses(i)
         \/ Touching(pulls[i].branch)
         \/ \E c \in Call : CallStep(c) /\ Refresh(c) /\ i = listed[c].pull
<1>1. ASSUME pulls' = pulls PROVE DOMAIN pulls' = DOMAIN pulls /\ \A i \in DOMAIN pulls : Goal(i)
  BY <1>1 DEF Kept
<1>2. ASSUME NEW c \in Call, CallStep(c), Refresh(c)
      PROVE  DOMAIN pulls' = DOMAIN pulls /\ \A i \in DOMAIN pulls : Goal(i)
  <2>1. Updated /\ \A i \in DOMAIN pulls :
          /\ Kept(i) /\ (pulls'[i].state = "merged" => pulls[i].state = "merged")
          /\ i # listed[c].pull => pulls'[i] = pulls[i]
    BY <1>2, Refreshing
  <2> QED
    BY <1>2, <2>1 DEF Updated
<1>3. ASSUME NEW c \in Call, CallStep(c), OpenPull(c)
      PROVE  /\ DOMAIN pulls \subseteq DOMAIN pulls' /\ \A i \in DOMAIN pulls : Goal(i)
             /\ \A i \in DOMAIN pulls' \ DOMAIN pulls :
                  /\ pulls'[i].branch = Mine(c) /\ pulls'[i].state = "open"
                  /\ pulls'[i].title = c /\ pulls'[i].by = c
                  /\ \A j \in DOMAIN pulls : j < i
  <2>1. Mine(c) \in Branch
    <3>1. pc[c] # "idle"
      BY <1>3, Calling DEF Active
    <3> QED
      BY <3>1 DEF Proposes, Proposed, Mine
  <2>2. Len(pulls) \in Nat /\ DOMAIN pulls = 1 .. Len(pulls)
    BY Listing
  <2>3. /\ DOMAIN pulls' = DOMAIN pulls \cup {Len(pulls) + 1}
        /\ \A i \in DOMAIN pulls : pulls'[i] = pulls[i]
        /\ LET i == Len(pulls) + 1 IN
             /\ pulls'[i].branch = Mine(c) /\ pulls'[i].state = "open"
             /\ pulls'[i].title = c /\ pulls'[i].by = c
    BY <1>3, <2>1, Opening
  <2> QED
    BY <2>2, <2>3 DEF Kept
<1>4. ASSUME NEW i \in DOMAIN pulls,
             HostCloses(i) \/ (PersonCloses(i) /\ Touching(pulls[i].branch))
      PROVE  DOMAIN pulls' = DOMAIN pulls /\ \A j \in DOMAIN pulls : Goal(j)
  <2>1. Updated /\ \A j \in DOMAIN pulls :
          /\ Kept(j) /\ (pulls'[j].state = "merged" => pulls[j].state = "merged")
          /\ j # i => pulls'[j] = pulls[j]
    BY <1>4, ClosingOne
  <2> QED
    BY <1>4, <2>1 DEF Updated
<1>5. ASSUME NEW i \in DOMAIN pulls, PersonMerges(i), Touching(pulls[i].branch)
      PROVE  DOMAIN pulls' = DOMAIN pulls /\ \A j \in DOMAIN pulls : Goal(j)
  <2>1. PICK c \in Call :
          /\ c \in Range(branch[pulls[i].branch].ahead) /\ pulls[i].branch \in Branch
          /\ Updated /\ pulls'[i].delivers = c
          /\ \A j \in DOMAIN pulls : Kept(j) /\ (j # i => pulls'[j] = pulls[j])
    BY <1>5, Merging DEF Offers
  <2> QED
    BY <1>5, <2>1 DEF Updated
<1>6. ASSUME NEW b \in Branch, PersonDeletes(b), Touching(b)
      PROVE  DOMAIN pulls' = DOMAIN pulls /\ \A i \in DOMAIN pulls : Goal(i)
  <2>1. OpenPulls(b) \subseteq DOMAIN pulls
        /\ \A i \in OpenPulls(b) : pulls[i].state = "open" /\ pulls[i].branch = b
    BY DEF OpenPulls
  <2>2. Updated /\ \A i \in DOMAIN pulls :
          /\ Kept(i) /\ (pulls'[i].state = "merged" => pulls[i].state = "merged")
          /\ i \notin OpenPulls(b) => pulls'[i] = pulls[i]
    BY <1>6, <2>1, Closing DEF PersonDeletes
  <2> QED
    BY <1>6, <2>1, <2>2 DEF Updated
<1>7. ASSUME NEW c \in Call, CallStep(c) PROVE pulls' = pulls \/ Refresh(c) \/ OpenPull(c)
  BY <1>7, Calling
<1>8. ASSUME NEW c \in Call, NEW r \in Replica, Begins(c, r) PROVE pulls' = pulls
  BY <1>8 DEF Begins, Compose, ComposeClaim, AddTier, Attach, Govern, Activate, Advance, Abort,
     Exit, Takes, host
<1>9. CASE HostActs
  <2>1. PICK i \in DOMAIN pulls : HostCloses(i)
    BY <1>9 DEF HostActs
  <2> HIDE DEF Goal
  <2>2. DOMAIN pulls' = DOMAIN pulls /\ \A j \in DOMAIN pulls : Goal(j)
    BY <1>4, <2>1
  <2> QED
    BY <2>2 DEF Goal
<1>10. CASE PeopleAct
  <2> HIDE DEF Goal
  <2>1. DOMAIN pulls' = DOMAIN pulls /\ \A j \in DOMAIN pulls : Goal(j)
    BY <1>4, <1>5, <1>6, <1>10 DEF PeopleAct
  <2> QED
    BY <2>1 DEF Goal
<1>11. ASSUME NEW c \in Call, CallStep(c)
       PROVE  /\ DOMAIN pulls \subseteq DOMAIN pulls' /\ \A i \in DOMAIN pulls : Goal(i)
              /\ \A i \in DOMAIN pulls' \ DOMAIN pulls :
                   /\ OpenPull(c)
                   /\ pulls'[i].branch = Mine(c) /\ pulls'[i].state = "open"
                   /\ pulls'[i].title = c /\ pulls'[i].by = c
                   /\ \A j \in DOMAIN pulls : j < i
  <2> HIDE DEF Goal
  <2> QED
    BY <1>1, <1>2, <1>3, <1>7, <1>11
<1>12. CASE pulls' = pulls
  BY <1>1, <1>12
<1> QED
  BY <1>8, <1>9, <1>10, <1>11, <1>12, Quiet DEF ProposalNext, CallStep

LEMMA OffersStep ==
  ASSUME Types, Repository, Proposes, Offers, [ProposalNext]_pvars
  PROVE  Offers'
<1>1. ASSUME NEW i \in DOMAIN pulls', pulls'[i].state = "merged"
      PROVE  pulls'[i].delivers \in Call /\ pc'[pulls'[i].delivers] \in Committed
  <2>1. i \in DOMAIN pulls
    BY <1>1, PullsStep
  <2>2. CASE pulls[i].state = "merged"
    <3>1. pulls'[i].delivers = pulls[i].delivers
      BY <2>1, <2>2, PullsStep DEF Kept
    <3> QED
      BY <2>1, <2>2, <3>1, CallsGoOn DEF Offers
  <2>3. CASE pulls[i].state # "merged"
    <3>1. /\ pulls[i].branch \in Branch
          /\ pulls'[i].delivers \in Range(branch[pulls[i].branch].ahead)
      BY <1>1, <2>1, <2>3, PullsStep
    <3>2. pulls'[i].delivers \in Call /\ pc[pulls'[i].delivers] \in Committed
      BY <3>1, TheCommit DEF Offers
    <3> QED
      BY <3>2, CallsGoOn
  <2> QED
    BY <2>2, <2>3
<1>2. ASSUME NEW c \in Call, pc'[c] = "refresh"
      PROVE  listed'[c].pull \in DOMAIN pulls' /\ pulls'[listed'[c].pull].branch = change'[c].branch
  <2> DEFINE Goal == /\ listed'[c].pull \in DOMAIN pulls'
                     /\ pulls'[listed'[c].pull].branch = change'[c].branch
  <2>1. ASSUME pc[c] = "refresh", listed'[c] = listed[c] PROVE Goal
    <3>1. change'[c] = change[c]
      BY <2>1, CallsGoOn
    <3> QED
      BY <2>1, <3>1, PullsStep DEF Offers, Kept, Mine
  <2>2. ASSUME NEW d \in Call, CallStep(d), ListPulls(d) PROVE Goal
    <3>1. CASE c # d
      BY <1>2, <2>1, <2>2, <3>1 DEF ListPulls, ListsAmong, Goes, Types
    <3>2. CASE c = d
      <4> DEFINE S == Unmerged(Mine(c))
      <4>1. S # {} /\ listed'[c].pull = Newest(S) /\ UNCHANGED <<pulls, change>>
        BY <1>2, <2>2, <3>2 DEF ListPulls, ListsAmong, Goes, Types, host
      <4>2. S \subseteq 1 .. Len(pulls) /\ Len(pulls) \in Nat
        BY Listing DEF Unmerged
      <4>3. Newest(S) \in S
        BY <4>1, <4>2, NewestExists
      <4> QED
        BY <4>1, <4>3 DEF Unmerged, Mine
    <3> QED
      BY <3>1, <3>2
  <2>3. ASSUME NEW d \in Call, CallStep(d), ~ ListPulls(d)
        PROVE  pc[c] = "refresh" /\ listed' = listed
    <3>1. listed' = listed
      BY <2>3, Calling
    <3>2. pc[c] = "refresh"
      BY <1>2, <2>3 DEF CallStep, Step, Renders, RenderUnavailable, Failure, Fails, Requests,
         ReadRef, CreateRef, ForceMove, CreateCommit, CommitsOn, Refresh, Refreshes, OpenPull,
         Goes, Answered, Types
    <3> QED
      BY <3>1, <3>2
  <2>4. ASSUME NEW d \in Call, NEW r \in Replica, Begins(d, r)
        PROVE  pc[c] = "refresh" /\ listed' = listed
    <3>1. PICK ch : BeginsWith(d, ch)
      BY <2>4, Begun
    <3> QED
      BY <1>2, <3>1 DEF BeginsWith, Types
  <2>5. ASSUME HostActs \/ PeopleAct PROVE UNCHANGED <<pc, listed>>
    BY <2>5 DEF HostActs, HostCloses, PeopleAct, PersonCloses, PersonMerges, PersonDeletes
  <2>6. CASE UNCHANGED <<pc, listed>>
    BY <1>2, <2>1, <2>6
  <2> QED
    BY <2>1, <2>2, <2>3, <2>4, <2>5, <2>6, Quiet DEF ProposalNext, CallStep
<1> QED
  BY <1>1, <1>2, CommitsStep DEF Offers, Mine

(* Nobody disturbs a call without its being told of.                       *)
LEMMA OnlyMoreAreDisturbed ==
  ASSUME Types, [ProposalNext]_pvars
  PROVE  disturbed \subseteq disturbed'
<1>1. ASSUME NEW c \in Call, NEW r \in Replica, Begins(c, r) PROVE disturbed \subseteq disturbed'
  BY <1>1 DEF Begins, Compose, ComposeClaim, AddTier, Attach, Govern, Activate, Advance, Abort, Exit
<1>2. ASSUME NEW c \in Call, CallStep(c) PROVE disturbed \subseteq disturbed'
  BY <1>2, Calling
<1>3. CASE HostActs \/ PeopleAct
  BY <1>3 DEF HostActs, PeopleAct, Touching
<1> QED
  BY <1>1, <1>2, <1>3, Quiet DEF ProposalNext, CallStep

LEMMA NoSecondStep ==
  ASSUME Types, Repository, Proposes, Offers, AllAlone, NoSecondProposal, [ProposalNext]_pvars
  PROVE  NoSecondProposal'
<1> SUFFICES ASSUME NEW b \in Branch, NEW i \in Unmerged(b)', NEW j \in Unmerged(b)', i < j
             PROVE  pulls'[j].by \in disturbed'
  BY DEF NoSecondProposal
<1>0. /\ i \in DOMAIN pulls' /\ pulls'[i].branch = b /\ pulls'[i].state # "merged"
      /\ j \in DOMAIN pulls' /\ pulls'[j].branch = b /\ pulls'[j].state # "merged"
      /\ DOMAIN pulls \subseteq Nat
  BY Listing DEF Unmerged
<1>1. ASSUME NEW k \in DOMAIN pulls, k \in Unmerged(b)'
      PROVE  k \in Unmerged(b) /\ pulls'[k].by = pulls[k].by
  BY <1>1, PullsStep DEF Unmerged, Kept
<1>2. CASE j \in DOMAIN pulls
  <2>1. i \in DOMAIN pulls
    <3> SUFFICES ASSUME i \notin DOMAIN pulls PROVE FALSE
      OBVIOUS
    <3>1. j < i
      BY <1>0, <1>2, PullsStep
    <3>2. i \in Nat /\ j \in Nat
      <4>1. Types'
        BY TypesStep
      <4>2. DOMAIN pulls' \subseteq Nat
        BY <4>1, LenProperties DEF Types
      <4> QED
        BY <1>0, <4>2
    <3> QED
      BY <3>1, <3>2
  <2> QED
    BY <1>1, <1>2, <2>1, OnlyMoreAreDisturbed DEF NoSecondProposal
<1>3. CASE j \notin DOMAIN pulls
  <2>1. PICK c \in Call :
          /\ CallStep(c) /\ OpenPull(c) /\ pulls'[j].branch = Mine(c) /\ pulls'[j].by = c
    BY <1>0, <1>3, PullsStep
  <2>2. disturbed' = disturbed /\ pc[c] = "open"
    BY <2>1, Calling DEF OpenPull
  <2>3. CASE c \in disturbed
    BY <2>1, <2>2, <2>3
  <2>4. CASE c \notin disturbed
    <3>1. Unmerged(b) = {}
      BY <1>0, <2>1, <2>2, <2>4 DEF AllAlone, Alone, Active
    <3>2. i \in DOMAIN pulls
      <4> SUFFICES ASSUME i \notin DOMAIN pulls PROVE FALSE
        OBVIOUS
      <4>1. Mine(c) \in Branch
        BY <1>0, <2>1
      <4>2. DOMAIN pulls' = DOMAIN pulls \cup {Len(pulls) + 1}
        BY <2>1, <4>1, Opening
      <4> QED
        BY <1>0, <1>3, <4>2, Listing
    <3> QED
      BY <1>1, <3>1, <3>2
  <2> QED
    BY <2>3, <2>4
<1> QED
  BY <1>2, <1>3

(* How a call comes to where it stands.                                    *)
LEMMA Arrives ==
  ASSUME Types, [ProposalNext]_pvars, NEW c \in Call
  PROVE  /\ pc[c] = "idle" /\ pc'[c] # "idle" => \E r \in Replica : Begins(c, r)
         /\ pc'[c] # pc[c] /\ pc[c] # "idle" => CallStep(c)
         /\ pc'[c] = "list" /\ pc[c] # "list" => CreateCommit(c)
         /\ pc'[c] \in {"refresh", "open"} /\ pc'[c] # pc[c] => ListPulls(c)
         /\ pc'[c] = "done" /\ pc[c] # "done" => Refresh(c) \/ OpenPull(c)
         /\ listed'[c] # listed[c] => ListPulls(c)
<1>1. ASSUME NEW d \in Call, CallStep(d)
      PROVE  /\ pc[d] # "idle" /\ (c # d => pc'[c] = pc[c] /\ listed'[c] = listed[c])
             /\ pc'[d] = "list" /\ pc[d] # "list" => CreateCommit(d)
             /\ pc'[d] \in {"refresh", "open"} /\ pc'[d] # pc[d] => ListPulls(d)
             /\ pc'[d] = "done" => Refresh(d) \/ OpenPull(d)
             /\ listed'[d] # listed[d] => ListPulls(d)
  BY <1>1 DEF CallStep, Step, Renders, RenderUnavailable, Failure, Fails, Requests, ReadRef,
     CreateRef, ForceMove, CreateCommit, CommitsOn, ListPulls, ListsAmong, Refresh, Refreshes,
     OpenPull, Goes, Answered, Types, Active, host
<1>2. ASSUME NEW d \in Call, NEW r \in Replica, Begins(d, r)
      PROVE  /\ pc[d] = "idle" /\ pc'[d] \in {"ref", "render"}
             /\ (c # d => pc'[c] = pc[c]) /\ listed' = listed
  BY <1>2 DEF Begins, Compose, ComposeClaim, AddTier, Attach, Govern, Activate, Advance, Abort,
     Exit, Takes, Goes, Types
<1>3. ASSUME HostActs \/ PeopleAct PROVE UNCHANGED <<pc, listed>>
  BY <1>3 DEF HostActs, HostCloses, PeopleAct, PersonCloses, PersonMerges, PersonDeletes
<1> QED
  BY <1>1, <1>2, <1>3, Quiet DEF ProposalNext, CallStep

LEMMA AloneStep ==
  ASSUME Types, Repository, Proposes, Offers, AllAlone, [ProposalNext]_pvars
  PROVE  AllAlone'
<1> SUFFICES ASSUME NEW c \in Call, pc'[c] \in Active, c \notin disturbed' PROVE Alone(c)'
  BY DEF AllAlone
<1> USE DEF Active
<1>0. OneCommitOnItsBase /\ disturbed \subseteq disturbed'
  BY OnlyMoreAreDisturbed DEF Offers
<1>1. CASE pc[c] = "idle"
  <2>1. PICK r \in Replica : Begins(c, r)
    BY <1>1, Arrives
  <2>2. PICK ch : BeginsWith(c, ch)
    BY <2>1, Begun
  <2>3. pc'[c] \in {"ref", "render"} /\ change'[c] = ch /\ UNCHANGED <<branch, pulls>>
    BY <2>2 DEF BeginsWith, Types, host
  <2>4. ~ Contends(c, ch.branch)
    BY <2>2 DEF BeginsWith
  <2>5. ASSUME NEW d \in Call \ {c}, pc'[d] \in Active PROVE change'[d].branch # ch.branch
    BY <2>2, <2>4, <2>5 DEF BeginsWith, Contends, Mine, Types
  <2>6. ~ Delivered(c)
    BY <1>1 DEF Offers, Delivered, Committed
  <2>7. ~ Delivered(c)'
    BY <2>3, <2>6 DEF Delivered
  <2> QED
    BY <2>3, <2>5, <2>7 DEF Alone, Mine
<1>2. CASE pc[c] # "idle"
  <2> DEFINE b == Mine(c)
  <2>0. /\ pc[c] \in Active /\ Alone(c) /\ change'[c] = change[c] /\ b \in Branch
        /\ Proposed(change[c])
    BY <1>0, <1>2, CallsGoOn DEF AllAlone, Proposes, Proposed, Mine
  <2>1. ~ Touching(b)
    BY <2>0 DEF Touching, Disturbs
  <2>2. ASSUME NEW d \in Call, CallStep(d), Mine(d) = b PROVE d = c
    <3>1. pc[d] \in Active
      BY <2>2, Calling
    <3> QED
      BY <2>0, <2>2, <3>1 DEF Alone
  <2>3. ASSUME NEW d \in Call \ {c}, pc'[d] \in Active PROVE change'[d].branch # b
    <3>1. CASE pc[d] # "idle"
      BY <2>0, <2>3, <3>1, CallsGoOn DEF Alone, Mine
    <3>2. CASE pc[d] = "idle"
      <4>1. PICK r \in Replica : Begins(d, r)
        BY <2>3, <3>2, Arrives
      <4>2. PICK ch : BeginsWith(d, ch)
        BY <4>1, Begun
      <4>3. Disturbs(ch.branch) \subseteq disturbed' /\ change'[d] = ch
        BY <4>2 DEF BeginsWith, Types
      <4> QED
        BY <2>0, <4>3 DEF Disturbs
    <3> QED
      BY <3>1, <3>2
  <2>4. ~ Delivered(c)'
    <3> SUFFICES ASSUME NEW i \in DOMAIN pulls', pulls'[i].state = "merged", pulls'[i].delivers = c
                 PROVE  FALSE
      BY DEF Delivered
    <3>1. i \in DOMAIN pulls
      BY PullsStep
    <3>2. CASE pulls[i].state = "merged"
      BY <2>0, <3>1, <3>2, PullsStep DEF Kept, Alone, Delivered
    <3>3. CASE pulls[i].state # "merged"
      <4>1. /\ Touching(pulls[i].branch) /\ pulls[i].branch \in Branch
            /\ c \in Range(branch[pulls[i].branch].ahead)
        BY <3>1, <3>3, PullsStep
      <4>2. Mine(c) = pulls[i].branch
        BY <1>0, <4>1, TheCommit
      <4> QED
        BY <2>1, <4>1, <4>2
    <3> QED
      BY <3>2, <3>3
  <2>5. ASSUME pc'[c] \in {"list", "refresh", "open"} PROVE branch'[b].ahead = <<c>>
    <3>1. CASE pc[c] \in {"list", "refresh", "open"}
      <4>1. branch[b].ahead = <<c>>
        BY <2>0, <3>1 DEF Alone
      <4>2. ASSUME NEW d \in Call, CallStep(d), Mine(d) = b PROVE branch' = branch
        <5>1. d = c
          BY <2>2, <4>2
        <5> QED
          BY <3>1, <4>2, <5>1, Calling DEF CreateRef, ForceMove, CreateCommit, CommitsOn
      <4> QED
        BY <2>0, <2>1, <4>1, <4>2, BranchStep DEF CommittedOn
    <3>2. CASE pc[c] \notin {"list", "refresh", "open"}
      <4>1. CreateCommit(c) \/ ListPulls(c)
        BY <2>5, <3>2, Arrives
      <4>2. CreateCommit(c)
        BY <3>2, <4>1 DEF ListPulls, ListsAmong
      <4>3. /\ branch' = [branch EXCEPT ![b].ahead = Append(@, c)]
            /\ branch[b].ahead = <<>>
        BY <4>2 DEF CreateCommit, CommitsOn, SitsAtExpectedHead
      <4> QED
        BY <2>0, <4>3 DEF Types
    <3> QED
      BY <3>1, <3>2
  <2>6. ASSUME pc'[c] = "refresh"
        PROVE  listed'[c].state = "closed" \/ pulls'[listed'[c].pull].state = "open"
    <3> DEFINE i == listed[c].pull
    <3>1. CASE ListPulls(c)
      <4> DEFINE S == Unmerged(b)
                 k == Newest(S)
      <4>1. /\ S # {} /\ listed'[c].pull = k /\ listed'[c].state = pulls[k].state
            /\ pulls' = pulls
        BY <2>6, <3>1 DEF ListPulls, ListsAmong, Goes, Types, host
      <4>2. S \subseteq 1 .. Len(pulls) /\ Len(pulls) \in Nat
        BY Listing DEF Unmerged
      <4>3. k \in S
        BY <4>1, <4>2, NewestExists
      <4>4. pulls[k].state \in {"open", "closed", "merged"} /\ pulls[k].state # "merged"
        BY <4>3, Listing DEF Unmerged, Pull
      <4> QED
        BY <4>1, <4>4
    <3>2. CASE ~ ListPulls(c)
      <4>1. pc[c] = "refresh" /\ listed'[c] = listed[c]
        BY <2>6, <3>2, Arrives
      <4>2. /\ i \in DOMAIN pulls /\ pulls[i].branch = b
            /\ listed[c].state = "closed" \/ pulls[i].state = "open"
            /\ branch[b].ahead = <<c>> /\ ~ Delivered(c)
        BY <2>0, <4>1 DEF Offers, Alone
      <4>3. ~ HostCloses(i)
        <5>1. Ahead(b) # {}
          BY <1>0, <2>0, <4>2, TheCommit
        <5> QED
          BY <4>2, <5>1 DEF HostCloses
      <4>4. ASSUME NEW d \in Call, CallStep(d), Refresh(d), i = listed[d].pull PROVE FALSE
        <5>1. pc[d] = "refresh"
          BY <4>4 DEF Refresh, Refreshes
        <5>2. Mine(d) = b
          BY <4>2, <4>4, <5>1 DEF Offers
        <5>3. d = c
          BY <2>2, <4>4, <5>2
        <5> QED
          BY <2>6, <4>4, <5>3 DEF Refresh, Refreshes, Answered, Goes, Types
      <4>5. pulls'[i] = pulls[i]
        BY <2>1, <4>2, <4>3, <4>4, PullsStep
      <4> QED
        BY <4>1, <4>2, <4>5
    <3> QED
      BY <3>1, <3>2
  <2>7. ASSUME pc'[c] = "open" PROVE Unmerged(b)' = {}
    <3>1. CASE ListPulls(c)
      BY <2>0, <2>7, <3>1 DEF ListPulls, ListsAmong, Goes, Types, host, Unmerged, Mine
    <3>2. CASE ~ ListPulls(c)
      <4>1. pc[c] = "open"
        BY <2>7, <3>2, Arrives
      <4>2. Unmerged(b) = {}
        BY <2>0, <4>1 DEF Alone
      <4> SUFFICES ASSUME NEW k \in DOMAIN pulls', pulls'[k].branch = b, pulls'[k].state # "merged"
                   PROVE  FALSE
        BY <2>0 DEF Unmerged, Mine
      <4>3. CASE k \in DOMAIN pulls
        BY <4>2, <4>3, PullsStep DEF Kept, Unmerged
      <4>4. CASE k \notin DOMAIN pulls
        <5>1. PICK d \in Call : CallStep(d) /\ OpenPull(d) /\ Mine(d) = b
          BY <4>4, PullsStep
        <5>2. d = c
          BY <2>2, <5>1
        <5> QED
          BY <2>7, <5>1, <5>2 DEF OpenPull, Answered, Goes, Types
      <4> QED
        BY <4>3, <4>4
    <3> QED
      BY <3>1, <3>2
  <2> QED
    BY <2>0, <2>3, <2>4, <2>5, <2>6, <2>7 DEF Alone, Mine
<1> QED
  BY <1>1, <1>2

LEMMA ProposalInvHolds ==
  ProposalSpec => []ProposalInv
<1>1. ProposalInit => ProposalInv
  <2> SUFFICES ASSUME ProposalInit PROVE ProposalInv
    OBVIOUS
  <2> USE DEF ProposalInit, ForgeInit
  <2>1. PICK f \in Firsts : main = <<f>>
    OBVIOUS
  <2>2. /\ main \in Seq(Range(main)) /\ Len(main) = 1 /\ DOMAIN main = {1} /\ main[1] = f
    <3>1. main \in Seq({f})
      BY <2>1
    <3>2. main \in Seq(Range(main))
      BY <3>1, SeqOfRange
    <3>3. Len(main) = 1 /\ DOMAIN main = {1} /\ main[1] = f
      BY ONLY <2>1
    <3> QED
      BY <3>2, <3>3
  <2>3. Loads(f)
    BY ForgeAssumption, EstateAssumption DEF Loads, AList
  <2>4. Repository
    BY <2>2, <2>3 DEF Repository
  <2>5. <<>> \in Seq(Call) /\ Len(<<>>) = 0 /\ <<>> \in Seq(Pull)
    BY EmptySeq
  <2>6. Types
    BY <2>5 DEF Types, NoBranch
  <2>7. Proposes /\ Offers /\ AllAlone /\ NoSecondProposal
    BY <2>5 DEF Proposes, Offers, OneCommitOnItsBase, NoBranch, Range, AllAlone, Based, Committed,
       Active, NoSecondProposal, Unmerged
  <2> QED
    BY <2>4, <2>6, <2>7 DEF ProposalInv
<1>2. ProposalInv /\ [ProposalNext]_pvars => ProposalInv'
  BY TypesStep, RepositoryStep, ProposesStep, OffersStep, AloneStep, NoSecondStep DEF ProposalInv
<1> QED
  BY <1>1, <1>2, PTL DEF ProposalSpec

-----------------------------------------------------------------------------
(* However many calls contend for a branch, it holds one commit at most,   *)
(* on the base its call had read: createCommitOnBranch's expectedHeadOid.  *)
THEOREM BranchesHoldOneCommit ==
  ProposalSpec => []OneCommitOnItsBase
<1>1. ProposalInv => OneCommitOnItsBase
  BY DEF ProposalInv, Offers
<1> QED
  BY <1>1, ProposalInvHolds, PTL

(* A second pull request on a branch is opened by a call that another call *)
(* or a person met on it, and by no other (ensureProposal, github.go).     *)
THEOREM NoneBesideAnother ==
  ProposalSpec => []NoSecondProposal
<1>1. ProposalInv => NoSecondProposal
  BY DEF ProposalInv
<1> QED
  BY <1>1, ProposalInvHolds, PTL

(* A call that nobody met and that is told "done" has its pull request     *)
(* open, by its title, on a branch of its one commit.                      *)
THEOREM TheAnswerIsTrue ==
  ProposalSpec => OpenedIsOffered
<1>1. ASSUME ProposalInv, [ProposalNext]_pvars, NEW c \in Call,
             pc[c] # "done", pc'[c] = "done", c \notin disturbed
      PROVE  /\ branch'[change'[c].branch].ahead = <<c>>
             /\ \E i \in DOMAIN pulls' : /\ pulls'[i].branch = change'[c].branch
                                         /\ pulls'[i].state = "open"
                                         /\ pulls'[i].title = c
  <2> USE DEF ProposalInv
  <2>1. Refresh(c) \/ OpenPull(c)
    BY <1>1, Arrives
  <2>2. /\ pc[c] \in {"refresh", "open"} /\ UNCHANGED <<branch, change>>
    BY <2>1 DEF Refresh, Refreshes, OpenPull
  <2>3. Alone(c) /\ branch[Mine(c)].ahead = <<c>> /\ Mine(c) \in Branch
    BY <1>1, <2>2 DEF AllAlone, Alone, Active, Proposes, Proposed, Mine
  <2>4. CASE Refresh(c)
    <3> DEFINE i == listed[c].pull
    <3>1. /\ i \in DOMAIN pulls /\ pulls[i].branch = Mine(c)
          /\ listed[c].state = "closed" \/ pulls[i].state = "open"
      BY <1>1, <2>3, <2>4 DEF Refresh, Refreshes, Offers, Alone
    <3>2. /\ DOMAIN pulls' = DOMAIN pulls /\ pulls'[i].branch = pulls[i].branch
          /\ pulls'[i].title = c
          /\ pulls'[i].state = IF listed[c].state = "closed" THEN "open" ELSE pulls[i].state
      BY <1>1, <2>4, <3>1, Refreshing DEF Updated, Kept
    <3>3. pulls'[i].state = "open"
      BY <3>1, <3>2
    <3> QED
      BY <2>2, <2>3, <3>1, <3>2, <3>3 DEF Mine
  <2>5. CASE OpenPull(c)
    BY <1>1, <2>2, <2>3, <2>5, Opening DEF Mine
  <2> QED
    BY <2>1, <2>4, <2>5
<1>2. ProposalInv /\ [ProposalNext]_pvars =>
        [\A c \in Call :
           pc[c] # "done" /\ pc'[c] = "done" /\ c \notin disturbed =>
             /\ branch'[Mine(c)].ahead = <<c>>
             /\ \E i \in DOMAIN pulls' : /\ pulls'[i].branch = Mine(c)
                                         /\ pulls'[i].state = "open"
                                         /\ pulls'[i].title = c]_pvars
  <2> SUFFICES ASSUME ProposalInv, [ProposalNext]_pvars, NEW c \in Call,
                      pc[c] # "done", pc'[c] = "done", c \notin disturbed
               PROVE  /\ branch'[Mine(c)].ahead = <<c>>
                      /\ \E i \in DOMAIN pulls' : /\ pulls'[i].branch = Mine(c)
                                                  /\ pulls'[i].state = "open"
                                                  /\ pulls'[i].title = c
    OBVIOUS
  <2>1. change'[c] = change[c]
    <3>1. Refresh(c) \/ OpenPull(c)
      BY Arrives DEF ProposalInv
    <3> QED
      BY <3>1 DEF Refresh, Refreshes, OpenPull
  <2> QED
    BY <1>1, <2>1 DEF Mine
<1> QED
  BY <1>2, ProposalInvHolds, PTL DEF ProposalSpec, OpenedIsOffered

-----------------------------------------------------------------------------
(* What a merge does to one key of the base branch, by whether the change  *)
(* carries it and whether it says anything new of it.                      *)
KeyDelivered(c, k) ==
  LET files == change[c].files
      was   == main[base[c]][k]
  IN  /\ k \notin DOMAIN files => After(k) = Before(k)
      /\ k \in DOMAIN files /\ files[k] = was => After(k) = Before(k)
      /\ k \in DOMAIN files /\ files[k] # was =>
           After(k) = files[k] /\ Before(k) \in {was, files[k]}

LEMMA Delivery ==
  ASSUME ProposalInv, [ProposalNext]_pvars, NEW i \in DOMAIN pulls, Delivers(i)
  PROVE  LET c == pulls'[i].delivers IN
           /\ Proposed(change[c]) /\ Parented(c)
           /\ \A k \in Key : KeyDelivered(c, k)
<1> DEFINE c == pulls'[i].delivers
<1> USE DEF ProposalInv
<1>1. PersonMerges(i)
  BY PullsStep DEF Delivers
<1>2. /\ c \in Call /\ c \in Range(branch[pulls[i].branch].ahead) /\ pulls[i].branch \in Branch
      /\ Conflicts(c) = {} /\ main' = Append(main, MergedTree(c))
  BY <1>1, Merging DEF Offers
<1>3. pc[c] \in Committed /\ Parented(c)
  BY <1>2 DEF Offers
<1>4. Proposed(change[c])
  BY <1>2, <1>3 DEF Proposes, Committed
<1>5. Len(main') = Len(main) + 1 /\ main'[Len(main) + 1] = MergedTree(c)
  BY <1>2, Appended DEF Repository
<1> HIDE DEF c
<1>6. ASSUME NEW k \in Key PROVE KeyDelivered(c, k)
  <2>1. After(k) = MergedTree(c)[k]
    BY <1>5 DEF After
  <2>2. MergedTree(c)[k] = IF Tree(c)[k] = main[base[c]][k] THEN Before(k) ELSE Tree(c)[k]
    BY DEF MergedTree, Before
  <2>3. Tree(c)[k] = IF k \in DOMAIN change[c].files THEN change[c].files[k]
                                                     ELSE main[base[c]][k]
    BY DEF Tree
  <2>4. ~ (/\ Tree(c)[k] # main[base[c]][k] /\ Before(k) # main[base[c]][k]
           /\ Before(k) # Tree(c)[k])
    BY <1>2 DEF Conflicts, Before
  <2> QED
    BY <2>1, <2>2, <2>3, <2>4 DEF KeyDelivered
<1> QED
  BY <1>3, <1>4, <1>6 DEF c

(* What a merge replaces stood on the base its change was committed onto,  *)
(* and what it replaces without its exit's meaning to is what the exit's   *)
(* working tree held: nothing merged after the base was read is undone.    *)
THEOREM WhatOthersMergedStays ==
  ProposalSpec => MergedStaysMerged
<1>1. ASSUME ProposalInv, [ProposalNext]_pvars, NEW i \in DOMAIN pulls, Delivers(i),
             NEW k \in Key, After(k) # Before(k)
      PROVE  LET c == pulls'[i].delivers IN
               /\ Before(k) = Onto(c, k)
               /\ k \in change[c].intends \/ After(k) = Found(c, k)
  <2> DEFINE c == pulls'[i].delivers
  <2>1. Proposed(change[c]) /\ KeyDelivered(c, k)
    BY <1>1, Delivery
  <2> HIDE DEF c
  <2>2. /\ k \in DOMAIN change[c].files
        /\ After(k) = change[c].files[k] /\ Before(k) = Onto(c, k)
    BY <1>1, <2>1 DEF KeyDelivered, Onto
  <2>3. ASSUME k \notin change[c].intends PROVE After(k) = Found(c, k)
    BY <2>1, <2>2, <2>3 DEF Proposed, Found
  <2> QED
    BY <2>2, <2>3 DEF c
<1>2. ProposalInv /\ [ProposalNext]_pvars =>
        [\A i \in DOMAIN pulls : Delivers(i) =>
           LET c == pulls'[i].delivers IN
             \A k \in Key : After(k) # Before(k) =>
               /\ Before(k) = Onto(c, k)
               /\ k \in change[c].intends \/ After(k) = Found(c, k)]_pvars
  BY <1>1
<1> QED
  BY <1>2, ProposalInvHolds, PTL DEF ProposalSpec, MergedStaysMerged

(* Whatever was merged meanwhile, a merge that moves a rollout takes it to *)
(* the one stage its evidence was judged for, and one that rebinds the     *)
(* Tier completes the rollout or puts back what an attach found.           *)
THEOREM RolloutsMoveAsJudged ==
  ProposalSpec => RolloutMovesAsJudged
<1>1. ASSUME ProposalInv, [ProposalNext]_pvars, NEW i \in DOMAIN pulls, Delivers(i)
      PROVE  LET c      == pulls'[i].delivers
                 judged == Judged(c, "stage")
             IN  /\ After("stage") # Before("stage") =>
                      /\ judged # Absent
                      /\ Advances(c, judged) \/ Completes(c, judged) \/ Aborts(c, judged)
                 /\ After("binding") # Before("binding") =>
                      \/ Completes(c, judged) /\ After("binding") = To
                      \/ Mine(c) = <<"claim", "tier">> /\ After("binding") = Found(c, "binding")
  <2> DEFINE c      == pulls'[i].delivers
             files  == change[c].files
             judged == Judged(c, "stage")
  <2> USE ProposalAssumption
  <2>1. /\ Proposed(change[c]) /\ KeyDelivered(c, "stage") /\ KeyDelivered(c, "binding")
        /\ Parented(c)
    BY <1>1, Delivery
  <2>2. ASSUME NEW k \in {"stage", "binding"}, After(k) # Before(k)
        PROVE  k \in DOMAIN files /\ After(k) = files[k]
    BY <2>1, <2>2 DEF KeyDelivered
  <2>3. ASSUME NEW k \in {"stage", "binding"}, k \in DOMAIN files
        PROVE  After(k) = files[k] \/ files[k] = Onto(c, k)
    BY <2>1, <2>3 DEF KeyDelivered, Onto
  <2>4. ASSUME "stage" \in DOMAIN files, files["stage"] = Absent PROVE After("stage") = Absent
    <3>1. Onto(c, "stage") # Absent
      BY <2>1, <2>4 DEF Parented, Deletes, Onto
    <3> QED
      BY <2>3, <2>4, <3>1
  <2>5. /\ "stage" \in DOMAIN files => Moves(Mine(c), files, judged)
        /\ "binding" \in DOMAIN files /\ "stage" \notin DOMAIN files =>
             Mine(c) = <<"claim", "tier">> /\ files["binding"] = Found(c, "binding")
    BY <2>1 DEF Proposed, Mine, Judged, Found
  <2>6. judged # Absent => judged \in 0 .. Stages - 1
    <3>1. main \in Seq(Range(main)) /\ change[c].judged \in 1 .. Len(main)
      BY <1>1, <2>1 DEF ProposalInv, Repository, Proposed
    <3>2. Loads(main[change[c].judged])
      BY <1>1, <3>1, Appended DEF ProposalInv, Repository
    <3> QED
      BY <3>2 DEF Loads, Judged
  <2> HIDE DEF c, files, judged
  <2>7. ASSUME "stage" \in DOMAIN files, judged = Stages - 1, judged # Absent,
               Mine(c) = <<"advance", Stages + 1>>,
               files["stage"] = Absent, "binding" \in DOMAIN files, files["binding"] = To
        PROVE  Completes(c, judged)
    BY <2>3, <2>4, <2>7 DEF Completes
  <2>8. ASSUME After("stage") # Before("stage")
        PROVE  /\ judged # Absent
               /\ Advances(c, judged) \/ Completes(c, judged) \/ Aborts(c, judged)
    <3>1. "stage" \in DOMAIN files /\ After("stage") = files["stage"]
      BY <2>2, <2>8
    <3>2. Moves(Mine(c), files, judged) /\ judged # Absent
      BY <2>5, <3>1 DEF Moves
    <3>3. CASE /\ Mine(c) = <<"abort", judged + 1>>
               /\ files["stage"] = Absent /\ "binding" \notin DOMAIN files
      BY <2>2, <3>1, <3>2, <3>3 DEF Aborts
    <3>4. CASE /\ Mine(c) = <<"advance", judged + 2>> /\ judged + 1 \in 1 .. Stages - 1
               /\ files["stage"] = judged + 1 /\ "binding" \notin DOMAIN files
      <4>1. judged + 1 < Stages
        BY <2>6, <3>2, <3>4
      <4> QED
        BY <3>1, <3>2, <3>4, <4>1 DEF Advances
    <3>5. CASE /\ Mine(c) = <<"advance", Stages + 1>> /\ judged = Stages - 1
               /\ files["stage"] = Absent /\ "binding" \in DOMAIN files /\ files["binding"] = To
      BY <2>7, <3>1, <3>2, <3>5
    <3> QED
      BY <3>2, <3>3, <3>4, <3>5 DEF Moves
  <2>9. ASSUME After("binding") # Before("binding")
        PROVE  \/ Completes(c, judged) /\ After("binding") = To
               \/ Mine(c) = <<"claim", "tier">> /\ After("binding") = Found(c, "binding")
    <3>1. "binding" \in DOMAIN files /\ After("binding") = files["binding"]
      BY <2>2, <2>9
    <3>2. CASE "stage" \in DOMAIN files
      BY <2>5, <2>7, <3>1, <3>2 DEF Moves
    <3>3. CASE "stage" \notin DOMAIN files
      BY <2>5, <3>1, <3>3
    <3> QED
      BY <3>2, <3>3
  <2> QED
    BY <2>8, <2>9 DEF c, judged
<1>2. ProposalInv /\ [ProposalNext]_pvars =>
        [\A i \in DOMAIN pulls : Delivers(i) =>
           LET c      == pulls'[i].delivers
               judged == Judged(c, "stage")
           IN  /\ After("stage") # Before("stage") =>
                    judged # Absent /\ (Advances(c, judged) \/ Completes(c, judged) \/ Aborts(c, judged))
               /\ After("binding") # Before("binding") =>
                    \/ Completes(c, judged) /\ After("binding") = To
                    \/ Mine(c) = <<"claim", "tier">> /\ After("binding") = Found(c, "binding")]_pvars
  BY <1>1
<1> QED
  BY <1>2, ProposalInvHolds, PTL DEF ProposalSpec, RolloutMovesAsJudged

(* No record that does not load reaches the base branch, and a merge adds  *)
(* one activation to those of the record its exit held, with the version   *)
(* that record had active and the one the operator was shown.              *)
THEOREM AuditTrailIsKept ==
  ProposalSpec => AuditTrailKept
<1>1. ProposalInv /\ [ProposalNext]_pvars => RecordLoads'
  BY RepositoryStep DEF ProposalInv, Repository, Loads, RecordLoads
<1>2. ASSUME ProposalInv, [ProposalNext]_pvars, NEW i \in DOMAIN pulls, Delivers(i),
             After("record") # Before("record")
      PROVE  LET c == pulls'[i].delivers IN
               /\ Before("record") = Onto(c, "record")
               /\ AddsOne(Found(c, "record"), After("record"), Judged(c, "record").active)
  <2> DEFINE c    == pulls'[i].delivers
             was  == Found(c, "record")
             from == Judged(c, "record").active
  <2>1. Proposed(change[c]) /\ KeyDelivered(c, "record")
    BY <1>2, Delivery, ProposalAssumption
  <2>2. /\ "record" \in DOMAIN change[c].files
        /\ After("record") = change[c].files["record"] /\ Before("record") = Onto(c, "record")
    BY <1>2, <2>1 DEF KeyDelivered, Onto
  <2>3. \E v : After("record") = Designate(was, v, from)
    BY <2>1, <2>2 DEF Proposed, Found, Judged
  <2>4. AList(was.activations)
    BY <1>2, <2>1, Appended DEF ProposalInv, Repository, Proposed, Loads, Found
  <2> HIDE DEF was, from
  <2>5. AddsOne(was, After("record"), from)
    BY <2>3, <2>4, Designation
  <2> QED
    BY <2>2, <2>5 DEF was, from
<1>3. ProposalInv /\ [ProposalNext]_pvars =>
        [/\ RecordLoads'
         /\ \A i \in DOMAIN pulls : Delivers(i) =>
              LET c == pulls'[i].delivers IN
                After("record") # Before("record") =>
                  /\ Before("record") = Onto(c, "record")
                  /\ AddsOne(Found(c, "record"), After("record"), Judged(c, "record").active)]_pvars
  BY <1>1, <1>2
<1> QED
  BY <1>3, ProposalInvHolds, PTL DEF ProposalSpec, AuditTrailKept

=============================================================================
