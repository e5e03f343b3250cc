------------------------------- MODULE Proposal --------------------------------
(***************************************************************************)
(* The exits: the Instance's write API (internal/instance/write.go) and    *)
(* the rollout's advance and abort (internal/rollout/propose.go), each     *)
(* authoring a change and handing it to the forge adapter.                 *)
(*                                                                         *)
(* An exit judges the request against the memoised documents and computes  *)
(* the files it proposes from the working tree the process serves; both    *)
(* lag the base branch, the documents behind the tree, while the adapter   *)
(* commits onto the base branch as it is when Propose reads its ref.       *)
(*                                                                         *)
(* Several processes may serve one estate: a Replica is one of them.  What *)
(* a file holds is a handful of keys here:                                 *)
(*   version, body       the Blueprint's file                              *)
(*   selector, binding   the Tier's file                                   *)
(*   stage               the Rollout's file: its active stage, from 0      *)
(*   drafted             the file of a Tier drafted beside a Blueprint     *)
(*   policy              the two policy files, written together            *)
(*   record              one substrate's designation                       *)
(***************************************************************************)
EXTENDS Forge, Activation, FiniteSetsExt

CONSTANTS
  Replica,       \* the processes serving the estate
  Crews,         \* bound: the sets of exits one behaviour uses together
  Claims,        \* the selectors claims carry, sets of pairs
  Policies,      \* the policies the governance editor submits
  Versions,      \* the imported versions of the substrate
  Stages,        \* the stages the Rollout declares
  From, To,      \* the Rollout's two Blueprint versions
  MaxAttempts    \* Retry.Attempts of the render

ASSUME ProposalAssumption ==
  /\ Key = {"version", "body", "selector", "binding", "stage", "drafted", "policy", "record"}
  /\ Stages \in Nat \ {0}
  /\ MaxAttempts \in Nat \ {0}

(* What the exits name their branches.                                     *)
Named ==
  {<<"compose">>, <<"claim", "drafted">>, <<"claim", "tier">>, <<"tier", "drafted">>}
    \cup {<<"governance", p>> : p \in Policies}
    \cup {<<"activate", v>> : v \in Versions}
    \cup {<<"advance", n>> : n \in 2 .. Stages + 1}
    \cup {<<"abort", n>> : n \in 1 .. Stages}

(* The trees an estate begins with: a Rollout stands at a stage it         *)
(* declares, and the designation record loads.                             *)
ASSUME EstateAssumption ==
  /\ Named \subseteq Branch
  /\ Absent \notin Nat
  /\ \A f \in Firsts :
       /\ f["stage"] \in {Absent} \cup 0 .. Stages - 1
       /\ Sound(f["record"])
       /\ f["record"].activations \in Seq(Range(f["record"].activations))

VARIABLES
  exits,      \* the exits in use, which no step changes
  seen,       \* the commit of main each process's working tree is at
  docs,       \* the commit its documents were computed from, 0 before the first
  attempts,   \* the renders a call has tried
  disturbed   \* history: the calls something else touched the branch of

pvars == <<fvars, exits, seen, docs, attempts, disturbed>>
local == <<exits, seen, docs, attempts>>

BlueprintFile == {"version", "body"}
TierFile      == {"selector", "binding"}

Held(r) == main[seen[r]]
Doc(r)  == main[docs[r]]

ProposalInit ==
  /\ ForgeInit
  /\ exits \in Crews
  /\ seen = [r \in Replica |-> 1]
  /\ docs = [r \in Replica |-> 0]
  /\ attempts = [c \in Call |-> 0]
  /\ disturbed = {}

-----------------------------------------------------------------------------
(* The authored files.                                                     *)

(* mutant: the file is written again from the keys the exit knows          *)
Rewritten(r, file, new) == [k \in file |-> IF k \in DOMAIN new THEN new[k] ELSE Absent]

(* SetTopLevel: the file as it is held, with some of its keys replaced.    *)
Edited(r, file, new) == [k \in file |-> IF k \in DOMAIN new THEN new[k] ELSE Held(r)[k]]

(* blueprintFile: the version moves with the body.                         *)
NextVersion(draft, held) ==
  IF held # 0 /\ draft <= held THEN held + 1 ELSE Max({draft, 1})

Change(r, on, new, files) == 
  [branch |-> on, judged |-> docs[r], at |-> seen[r], intends |-> DOMAIN new, files |-> files]

(* The version a draft carries is the one the documents showed it at.      *)
Composed(c, r) ==
  LET new == [version |-> NextVersion(Doc(r)["version"], Held(r)["version"]), body |-> c]
  IN  Change(r, <<"compose">>, new, Edited(r, BlueprintFile, new))

(* The Tier drafted beside it binds the version the draft carries.         *)
Drafted(c, r) ==
  LET new == [version |-> NextVersion(Doc(r)["version"], Held(r)["version"]), body |-> c,
              drafted |-> Doc(r)["version"]]
  IN  Change(r, <<"claim", "drafted">>, new, Edited(r, BlueprintFile \cup {"drafted"}, new))

(* Add a Tier: the version bound must be the one the documents show.       *)
TierAdded(r) ==
  LET new == [drafted |-> Doc(r)["version"]] IN Change(r, <<"tier", "drafted">>, new, new)

SharedPairs(a, b) == a \cap b

Attached(r, claim) ==
  LET new == [selector |-> SharedPairs(Doc(r)["selector"], claim)]
  IN  Change(r, <<"claim", "tier">>, new, Edited(r, TierFile, new))

(* The whole policy travels, and the branch is named for what it says.     *)
Governed(r, p) ==
  LET new == [policy |-> p] IN Change(r, <<"governance", p>>, new, new)

Activated(r, v) ==
  LET new == [record |-> Designate(Held(r)["record"], v, Doc(r)["record"].active)]
  IN  Change(r, <<"activate", v>>, new, new)

(* AdvanceChange: the next stage, or on the last one the Tier rebound and  *)
(* the Rollout's file deleted.                                             *)
Final(r) == Doc(r)["stage"] = Stages - 1

(* mutant: the stage is the next of the file's, not of the Rollout judged  *)
AdvancedFromTheFile(r) ==
  LET on  == <<"advance", Doc(r)["stage"] + 2>>
      new == IF Final(r) THEN [stage |-> Absent, binding |-> To] ELSE [stage |-> Held(r)["stage"] + 1]
  IN  Change(r, on, new, Edited(r, IF Final(r) THEN TierFile \cup {"stage"} ELSE {"stage"}, new))

Advanced(r) ==
  LET on  == <<"advance", Doc(r)["stage"] + 2>>
      new == IF Final(r) THEN [stage |-> Absent, binding |-> To] ELSE [stage |-> Doc(r)["stage"] + 1]
  IN  Change(r, on, new, Edited(r, IF Final(r) THEN TierFile \cup {"stage"} ELSE {"stage"}, new))

Aborted(r) ==
  LET new == [stage |-> Absent] IN Change(r, <<"abort", Doc(r)["stage"] + 1>>, new, new)

-----------------------------------------------------------------------------
(* The exits.  Each is refused until there are documents to judge by.      *)

Contends(c, b) == \E d \in Call \ {c} : pc[d] \in Active /\ Mine(d) = b

Disturbs(b) == {d \in Call : pc[d] \in Active /\ Mine(d) = b}

Exit(name, c, r, ch, to) ==
  /\ name \in exits
  /\ docs[r] # 0
  /\ Takes(c, ch, to)
  /\ disturbed' = disturbed \cup Disturbs(ch.branch) \cup (IF Contends(c, ch.branch) THEN {c} ELSE {})
  /\ UNCHANGED local

Compose(c, r) == Exit("compose", c, r, Composed(c, r), "ref")

ComposeClaim(c, r) ==
  /\ docs[r] # 0
  /\ Doc(r)["drafted"] = Absent
  /\ Exit("draft", c, r, Drafted(c, r), "ref")

AddTier(c, r) ==
  /\ docs[r] # 0
  /\ Doc(r)["drafted"] = Absent
  /\ Doc(r)["version"] # 0
  /\ Exit("tier", c, r, TierAdded(r), "ref")

Attach(c, r, claim) ==
  /\ docs[r] # 0
  /\ SharedPairs(Doc(r)["selector"], claim) # {}
  /\ Exit("attach", c, r, Attached(r, claim), "ref")

Govern(c, r, p) == Exit("govern", c, r, Governed(r, p), "ref")

(* The candidates offered are the installed versions but the active one,   *)
(* as the documents have them; the record is the working tree's.           *)
Activate(c, r, v) ==
  /\ docs[r] # 0
  /\ v # Doc(r)["record"].active
  /\ Designates(Held(r)["record"], v, Doc(r)["record"].active)
  /\ Exit("activate", c, r, Activated(r, v), "ref")

(* rollout.Propose, on a verdict to advance or to abort: whoever evaluates *)
(* has the Rollout as loaded, and the authored files are read again.       *)
Advance(c, r) ==
  /\ docs[r] # 0
  /\ Doc(r)["stage"] # Absent
  /\ Held(r)["stage"] # Absent
  /\ Exit("rollout", c, r, Advanced(r), "render")

Abort(c, r) ==
  /\ docs[r] # 0
  /\ Doc(r)["stage"] # Absent
  /\ Held(r)["stage"] # Absent
  /\ Exit("rollout", c, r, Aborted(r), "render")

Begins(c, r) ==
  \/ Compose(c, r)
  \/ ComposeClaim(c, r)
  \/ AddTier(c, r)
  \/ \E claim \in Claims : Attach(c, r, claim)
  \/ \E p \in Policies : Govern(c, r, p)
  \/ \E v \in Versions : Activate(c, r, v)
  \/ Advance(c, r)
  \/ Abort(c, r)

-----------------------------------------------------------------------------
(* renderClosed: no proposal without a rendered tree.  A refusal is final, *)
(* which is Fails; any other failure is tried again, so many times.        *)

Renders(c) ==
  /\ pc[c] = "render"
  /\ Goes(c, "ref")
  /\ UNCHANGED <<host, change, base, listed, exits, seen, docs, attempts, disturbed>>

RenderRetriesForever(c) ==               \* mutant: the attempts are not counted
  /\ pc[c] = "render"
  /\ attempts' = [attempts EXCEPT ![c] = 1 - @]
  /\ UNCHANGED <<fvars, exits, seen, docs, disturbed>>

RenderUnavailable(c) ==
  /\ pc[c] = "render"
  /\ attempts' = [attempts EXCEPT ![c] = IF @ < MaxAttempts THEN @ + 1 ELSE @]
  /\ Goes(c, IF attempts[c] + 1 = MaxAttempts THEN "failed" ELSE "render")
  /\ UNCHANGED <<host, change, base, listed, exits, seen, docs, disturbed>>

-----------------------------------------------------------------------------
Step(c) ==
  \/ Renders(c)
  \/ RenderUnavailable(c)
  \/ Requests(c) /\ UNCHANGED <<local, disturbed>>

Failure(c) == Fails(c) /\ UNCHANGED <<local, disturbed>>

Touching(b) == disturbed' = disturbed \cup Disturbs(b) /\ UNCHANGED local

HostActs == \E i \in DOMAIN pulls : HostCloses(i) /\ UNCHANGED <<local, disturbed>>

PeopleAct ==
  \/ \E i \in DOMAIN pulls : PersonCloses(i) /\ Touching(pulls[i].branch)
  \/ \E i \in DOMAIN pulls : PersonMerges(i) /\ Touching(pulls[i].branch)
  \/ \E b \in Branch : PersonDeletes(b) /\ Touching(b)

(* telecraft activate in a working copy, committed to the base branch.     *)
CommandActivates(v) ==
  LET rec == main[Len(main)]["record"] IN
    /\ "activate" \in exits
    /\ Len(main) < MaxMain
    /\ Applies(rec, v, rec.active)
    /\ main' = Append(main, [main[Len(main)] EXCEPT !["record"] = Designate(rec, v, rec.active)])
    /\ UNCHANGED <<branch, pulls, pc, change, base, listed, local, disturbed>>

Fetch(r) ==
  /\ seen[r] < Len(main)
  /\ \E n \in seen[r] + 1 .. Len(main) : seen' = [seen EXCEPT ![r] = n]
  /\ UNCHANGED <<fvars, exits, docs, attempts, disturbed>>

Rebuild(r) ==
  /\ docs[r] < seen[r]
  /\ docs' = [docs EXCEPT ![r] = seen[r]]
  /\ UNCHANGED <<fvars, exits, seen, attempts, disturbed>>

ProposalNext ==
  \/ \E c \in Call : Step(c) \/ Failure(c) \/ \E r \in Replica : Begins(c, r)
  \/ HostActs
  \/ PeopleAct
  \/ \E v \in Versions : CommandActivates(v)
  \/ \E r \in Replica : Fetch(r) \/ Rebuild(r)

(* A request is answered or times out, so a call under way goes on.        *)
ProposalSpec ==
  /\ ProposalInit /\ [][ProposalNext]_pvars
  /\ \A c \in Call : WF_pvars(Step(c) \/ Failure(c))

-----------------------------------------------------------------------------

(* "Reset the change's branch onto the base, write one signed bot commit   *)
(* carrying every file change": however calls on one branch interleave, a  *)
(* branch holds at most one commit, and that commit's call reset the       *)
(* branch onto the very base it stands on ("a concurrent move cannot be    *)
(* silently overwritten").                                                 *)
OneCommitOnItsBase ==
  \A b \in Branch :
    /\ Len(branch[b].ahead) <= 1
    /\ \A c \in Range(branch[b].ahead) : Mine(c) = b /\ branch[b].base = base[c]

(* ensureProposal's promise: a retry "refreshes the same pull request" and *)
(* never opens a second one beside it, unless something else was at work   *)
(* on the branch while the call was: another call, or a person.            *)
NoSecondProposal ==
  \A b \in Branch : \A i, j \in Unmerged(b) : i < j => pulls[j].by \in disturbed

(* A call told that its proposal stands has one: the pull request is open, *)
(* carries its title, and its branch holds its commit and nothing else,    *)
(* whatever an earlier call, failed or not, had left there and whatever    *)
(* the host closed meanwhile.                                              *)
OpenedIsOffered ==
  [][\A c \in Call :
       pc[c] # "done" /\ pc'[c] = "done" /\ c \notin disturbed =>
         /\ branch'[Mine(c)].ahead = <<c>>
         /\ \E i \in DOMAIN pulls' : /\ pulls'[i].branch = Mine(c)
                                     /\ pulls'[i].state = "open"
                                     /\ pulls'[i].title = c]_pvars

-----------------------------------------------------------------------------
(* What a merge does to the base branch.                                   *)

Delivers(i) == i \in DOMAIN pulls' /\ pulls'[i].state = "merged" /\ pulls[i].state # "merged"

Before(k) == main[Len(main)][k]
After(k)  == main'[Len(main')][k]

(* What the change was judged on, what its working tree held, and what it  *)
(* was committed onto, the base branch as Propose read it.                 *)
Judged(c, k) == main[change[c].judged][k]
Found(c, k)  == main[change[c].at][k]
Onto(c, k)   == main[base[c]][k]

(* A file a human wrote "is edited rather than rewritten", "everything     *)
(* else stays where it was found": a merge changes a key its exit did not  *)
(* mean to change only back to what the exit's working tree held.  That    *)
(* takes back what others merged after the working tree was fetched and    *)
(* before Propose read the base branch, and nothing merged later: what a   *)
(* merge replaces, meant or not, stood on the base when it was read.       *)
MergedStaysMerged ==
  [][\A i \in DOMAIN pulls : Delivers(i) =>
       LET c == pulls'[i].delivers IN
         \A k \in Key : After(k) # Before(k) =>
           /\ Before(k) = Onto(c, k)
           /\ k \in change[c].intends \/ After(k) = Found(c, k)]_pvars

(* Whatever was merged meanwhile, a proposal does to the Rollout what its  *)
(* branch is named for and its evidence was judged of ("the stage number   *)
(* is the one being advanced to", "one past the last stage" for the        *)
(* completion, "the stage it aborts from").  An advance sets the declared  *)
(* stage after the one judged, so none is entered that a judged one does   *)
(* not precede; only the completion rebinds the Tier, and in the merge     *)
(* that leaves no Rollout; an abort leaves the binding alone.  It is not   *)
(* said that the stage only grows: where the base had moved on before      *)
(* Propose read it, the stage judged is not the one replaced, so that an   *)
(* advance may put a Rollout back that was ended, or to an earlier stage,  *)
(* a completion may rebind a Tier whose Rollout was aborted, and an attach *)
(* out of an old working tree takes a rebinding back.                      *)
Advances(c, judged) ==
  /\ Mine(c) = <<"advance", judged + 2>>
  /\ After("stage") = judged + 1
  /\ judged + 1 < Stages

Completes(c, judged) ==
  /\ Mine(c) = <<"advance", Stages + 1>>
  /\ judged = Stages - 1
  /\ After("stage") = Absent
  /\ To \in {After("binding"), Onto(c, "binding")}

Aborts(c, judged) ==
  /\ Mine(c) = <<"abort", judged + 1>>
  /\ After("stage") = Absent
  /\ After("binding") = Before("binding")

RolloutMovesAsJudged ==
  [][\A i \in DOMAIN pulls : Delivers(i) =>
       LET c      == pulls'[i].delivers
           judged == Judged(c, "stage")
       IN  /\ After("stage") # Before("stage") =>
                judged # Absent /\ (Advances(c, judged) \/ Completes(c, judged) \/ Aborts(c, judged))
           /\ After("binding") # Before("binding") =>
                \/ Completes(c, judged) /\ After("binding") = To
                \/ Mine(c) = <<"claim", "tier">> /\ After("binding") = Found(c, "binding")]_pvars

(* The designation "fails closed" on a record that does not load, so none  *)
(* reaches the base branch, whichever record an activation was written     *)
(* onto and whatever was activated meanwhile; and "every activation that   *)
(* has happened, oldest first" is kept of the record the working tree      *)
(* held: a merge adds one to those, which replaces the version that record *)
(* had active and carries the report from the version the operator was     *)
(* shown active.  An activation merged between the working tree's fetch    *)
(* and Propose's reading of the base is in neither, and is lost.           *)
RecordLoads == \A n \in DOMAIN main : Sound(main[n]["record"])

AddsOne(was, is, shown) ==
  /\ Len(is.activations) = Len(was.activations) + 1
  /\ \A n \in DOMAIN was.activations : is.activations[n] = was.activations[n]
  /\ is.activations[Len(is.activations)].previous = was.active
  /\ is.activations[Len(is.activations)].from = shown

AuditTrailKept ==
  [][/\ RecordLoads'
     /\ \A i \in DOMAIN pulls : Delivers(i) =>
          LET c == pulls'[i].delivers IN
            After("record") # Before("record") =>
              /\ Before("record") = Onto(c, "record")
              /\ AddsOne(Found(c, "record"), After("record"), Judged(c, "record").active)]_pvars

(* Every call comes to an answer: a renderer that stays unavailable fails  *)
(* the call closed after its attempts, and no answer of the host's sends   *)
(* it round again.                                                         *)
EveryCallAnswers == \A c \in Call : pc[c] \in Active ~> pc[c] \in {"done", "failed"}

=============================================================================
