--------------------------------- MODULE Forge ---------------------------------
(***************************************************************************)
(* The change-proposal seam's GitHub adapter (internal/provider/forge) and *)
(* the repository behind it.                                               *)
(*                                                                         *)
(* A Call is one call of Propose, from the exit that made it to its        *)
(* answer.  It is five or six requests to the git host, each of them a     *)
(* step here, and other calls, the host's own jobs and people act between  *)
(* any two.  Nothing in the adapter excludes two calls on one branch: the  *)
(* only mutual exclusion is the expected head of createCommitOnBranch.     *)
(*                                                                         *)
(* Every request may fail, with or without having been carried out: an     *)
(* answer that is lost is a failure to the adapter, which retries nothing. *)
(*                                                                         *)
(* A tree is a function from Key to values, a key standing for one part of *)
(* one authored file.  A change carries whole files, so its "files" maps   *)
(* every key of every file it writes.                                      *)
(***************************************************************************)
EXTENDS Integers, Sequences, FiniteSets, Functions

CONSTANTS
  Call,       \* the calls of Propose a behaviour may hold
  Branch,     \* the branches they propose on
  Key,        \* the parts of the estate's authored files
  Absent,     \* the value of a key whose file does not exist
  NoChange,   \* the change of a call that has not begun
  Firsts,     \* the trees the estate may begin with
  MaxMain     \* bound: the commits the base branch may come to hold

ASSUME ForgeAssumption ==
  /\ \A f \in Firsts : DOMAIN f = Key
  /\ MaxMain \in Nat \ {0}

VARIABLES
  main,      \* the base branch: its trees, oldest first
  branch,    \* where each proposal branch sits, and what it holds beyond that
  pulls,     \* the pull requests, in the order they were created
  pc,        \* the request each call makes next
  change,    \* the change each call proposes
  base,      \* baseSHA: the commit of main the call resets its branch onto
  listed     \* the unmerged pull request the call found, with its state

host == <<main, branch, pulls>>
fvars == <<main, branch, pulls, pc, change, base, listed>>

NoBranch == [base |-> 0, ahead |-> <<>>]
NoPull   == [pull |-> 0, state |-> "none"]

Tree(c) == [k \in Key |-> IF k \in DOMAIN change[c].files THEN change[c].files[k] ELSE main[base[c]][k]]

Exists(b) == branch[b].base # 0

Delivered(c) == \E i \in DOMAIN pulls : pulls[i].state = "merged" /\ pulls[i].delivers = c

(* What the branch holds that the base branch does not, as positions in it.*)
Ahead(b) == {n \in DOMAIN branch[b].ahead : ~Delivered(branch[b].ahead[n])}

Newest(S) == CHOOSE i \in S : \A j \in S : j <= i

OpenPulls(b) == {i \in DOMAIN pulls : pulls[i].branch = b /\ pulls[i].state = "open"}
Unmerged(b)  == {i \in DOMAIN pulls : pulls[i].branch = b /\ pulls[i].state # "merged"}

ForgeInit ==
  /\ main \in {<<f>> : f \in Firsts}
  /\ branch = [b \in Branch |-> NoBranch]
  /\ pulls = <<>>
  /\ pc = [c \in Call |-> "idle"]
  /\ change = [c \in Call |-> NoChange]
  /\ base = [c \in Call |-> 0]
  /\ listed = [c \in Call |-> NoPull]

Active == {"render", "ref", "create", "force", "commit", "list", "refresh", "open"}

Mine(c) == change[c].branch

-----------------------------------------------------------------------------
(* Propose's requests.                                                     *)

Goes(c, to) == pc' = [pc EXCEPT ![c] = to]

(* A request that was carried out is answered, or its answer is lost.      *)
Answered(c, to) == Goes(c, to) \/ Goes(c, "failed")

Fails(c) ==
  /\ pc[c] \in Active
  /\ Goes(c, "failed")
  /\ UNCHANGED <<host, change, base, listed>>

(* forge.Open, or the end of forge.Submit: the change goes to the adapter. *)
Takes(c, ch, to) ==
  /\ pc[c] = "idle"
  /\ change' = [change EXCEPT ![c] = ch]
  /\ Goes(c, to)
  /\ UNCHANGED <<host, base, listed>>

ReadRef(c) ==
  /\ pc[c] = "ref"
  /\ base' = [base EXCEPT ![c] = Len(main)]
  /\ Goes(c, "create")
  /\ UNCHANGED <<host, change, listed>>

Resets(c) == branch' = [branch EXCEPT ![Mine(c)] = [base |-> base[c], ahead |-> <<>>]]

(* moveBranch: a refusal to create the ref says that it exists, and the    *)
(* branch is then force-moved.                                             *)
CreateRef(c) ==
  /\ pc[c] = "create"
  /\ IF Exists(Mine(c))
       THEN /\ Goes(c, "force")
            /\ UNCHANGED branch
       ELSE /\ Answered(c, "commit")
            /\ Resets(c)
  /\ UNCHANGED <<main, pulls, change, base, listed>>

ForceMove(c) ==
  /\ pc[c] = "force"
  /\ Exists(Mine(c))
  /\ Answered(c, "commit")
  /\ Resets(c)
  /\ UNCHANGED <<main, pulls, change, base, listed>>

(* createCommitOnBranch refuses to delete a file the parent lacks.         *)
Deletes(c) == {k \in DOMAIN change[c].files : change[c].files[k] = Absent}

CommitsOn(c, sits) ==
  /\ pc[c] = "commit"
  /\ sits
  /\ \A k \in Deletes(c) : main[base[c]][k] # Absent
  /\ branch' = [branch EXCEPT ![Mine(c)].ahead = Append(@, c)]
  /\ Answered(c, "list")
  /\ UNCHANGED <<main, pulls, change, base, listed>>

SitsAtExpectedHead(c) == branch[Mine(c)] = [base |-> base[c], ahead |-> <<>>]

CommitUnchecked(c) == CommitsOn(c, Exists(Mine(c)))         \* mutant: no expectedHeadOid

CreateCommit(c) == CommitsOn(c, SitsAtExpectedHead(c))

-----------------------------------------------------------------------------
(* ensureProposal.                                                         *)

ListsAmong(c, candidates) ==
  /\ pc[c] = "list"
  /\ IF candidates = {}
       THEN /\ Goes(c, "open")
            /\ UNCHANGED listed
       ELSE /\ Goes(c, "refresh")
            /\ listed' = [listed EXCEPT ![c] = [pull |-> Newest(candidates), state |-> pulls[Newest(candidates)].state]]
  /\ UNCHANGED <<host, change, base>>

ListsOpen(c) == ListsAmong(c, OpenPulls(Mine(c)))           \* mutant: state=open

ListPulls(c) == ListsAmong(c, Unmerged(Mine(c)))

(* The host holds at most one open pull request per branch, and none with  *)
(* nothing in it; a merged one does not reopen.                            *)
Reopens(c, i) ==
  /\ pulls[i].state = "closed"
  /\ OpenPulls(Mine(c)) = {}
  /\ Ahead(Mine(c)) # {}

Refreshes(c, reopening) ==
  LET i == listed[c].pull IN
    /\ pc[c] = "refresh"
    /\ reopening => pulls[i].state = "open" \/ Reopens(c, i)
    /\ pulls' = [pulls EXCEPT ![i].title = c,
                              ![i].state = IF reopening THEN "open" ELSE @]
    /\ Answered(c, "done")
    /\ UNCHANGED <<main, branch, change, base, listed>>

RefreshOnly(c) == Refreshes(c, FALSE)                       \* mutant: the closed one is left closed

Refresh(c) == Refreshes(c, listed[c].state = "closed")

OpenPull(c) ==
  /\ pc[c] = "open"
  /\ OpenPulls(Mine(c)) = {}
  /\ Ahead(Mine(c)) # {}
  /\ pulls' = Append(pulls, [branch |-> Mine(c), state |-> "open", title |-> c, by |-> c, delivers |-> NoChange])
  /\ Answered(c, "done")
  /\ UNCHANGED <<main, branch, change, base, listed>>

Requests(c) ==
  \/ ReadRef(c) \/ CreateRef(c) \/ ForceMove(c) \/ CreateCommit(c)
  \/ ListPulls(c) \/ Refresh(c) \/ OpenPull(c)

-----------------------------------------------------------------------------
(* The git host's own job and the people on the other side of the review.  *)

HostCloses(i) ==
  /\ pulls[i].state = "open"
  /\ Ahead(pulls[i].branch) = {}
  /\ pulls' = [pulls EXCEPT ![i].state = "closed"]
  /\ UNCHANGED <<main, branch, pc, change, base, listed>>

PersonCloses(i) ==
  /\ pulls[i].state = "open"
  /\ pulls' = [pulls EXCEPT ![i].state = "closed"]
  /\ UNCHANGED <<main, branch, pc, change, base, listed>>

(* git merges key by key: what only one side changed is taken from it, and *)
(* a key both changed differently is a conflict.                           *)
Conflicts(c) ==
  {k \in Key : LET was == main[base[c]][k] now == main[Len(main)][k] IN
                 Tree(c)[k] # was /\ now # was /\ now # Tree(c)[k]}

MergedTree(c) ==
  [k \in Key |-> IF Tree(c)[k] = main[base[c]][k] THEN main[Len(main)][k] ELSE Tree(c)[k]]

PersonMerges(i) ==
  LET b == pulls[i].branch
      c == branch[b].ahead[Newest(Ahead(b))] IN
    /\ pulls[i].state = "open"
    /\ Len(main) < MaxMain
    /\ Ahead(b) # {}
    /\ Conflicts(c) = {}
    /\ main' = Append(main, MergedTree(c))
    /\ pulls' = [pulls EXCEPT ![i].state = "merged", ![i].delivers = c]
    /\ UNCHANGED <<branch, pc, change, base, listed>>

(* Deleting a branch closes what stands open on it.                        *)
PersonDeletes(b) ==
  /\ Exists(b)
  /\ branch' = [branch EXCEPT ![b] = NoBranch]
  /\ pulls' = [i \in DOMAIN pulls |->
                 IF i \in OpenPulls(b) THEN [pulls[i] EXCEPT !.state = "closed"] ELSE pulls[i]]
  /\ UNCHANGED <<main, pc, change, base, listed>>

=============================================================================
