------------------------------- MODULE Instance -------------------------------
(***************************************************************************)
(* The Instance server (internal/instance): one process that serves the    *)
(* collectors through Serving and the humans through documents computed    *)
(* from the same checkout.                                                 *)
(*                                                                         *)
(* The instance's own goroutine runs Start after the serving path's, and   *)
(* then pollLoop.  It is the caller Docs of Serving's Refresh.  Where the  *)
(* OpAMP endpoint is closed there is no serving path, and it takes the     *)
(* snapshots itself.                                                       *)
(*                                                                         *)
(* The documents are built from files the goroutine reads one after        *)
(* another out of the checkout the serving path's own poll rewrites, and   *)
(* under no lock of its: "work" is read step by step here.  Files are in   *)
(* four groups:                                                            *)
(*   topology, tree   as Snapshot has them; a tree here also carries       *)
(*                    "of" and "stamp", the sources and the commit it was  *)
(*                    rendered from                                        *)
(*   rows             rows.yaml and the libraries the verdicts need        *)
(*   org              teams.yaml, users.yaml and providers.yaml            *)
(***************************************************************************)
EXTENDS Serving

CONSTANTS
  Docs,        \* the instance's goroutine
  OpAMPOpen,   \* whether the OpAMP endpoint may be open (serve -listen), a set
  NoDocs,      \* a nil *console.Bundle
  NoAuth       \* a nil *auth.Handler

ASSUME InstanceAssumption ==
  /\ OpAMPOpen \subseteq BOOLEAN
  /\ Refresher = {Docs} /\ Cancels = {Docs}
  /\ {"topology", "tree", "rows", "org"} \subseteq Files
  /\ Absent \notin {NoDocs, NoAuth}

(* What a file of the checkout may hold, and the documents built from them:*)
(* a nil document set is none of those.                                    *)
Contents(f) == {Absent} \cup {Commit[h][f] : h \in Heads}

Stamps ==
  {Absent} \cup {Commit[h]["tree"].stamp : h \in {g \in Heads : Commit[g]["tree"] # Absent}}

Bundles ==
  [taken : Contents("topology"), commit : Stamps, rows : Contents("rows"), org : Contents("org"),
   topology : Contents("topology"),
   again : {Absent} \cup {LoadSnapshot(s, t, c) : s \in Contents("topology"),
                                                 t \in Contents("tree"), c \in Stamps}]

ASSUME BundleAssumption == NoDocs \notin Bundles

VARIABLES
  opamp,      \* the OpAMP endpoint is open
  at,         \* where the instance's goroutine stands
  draft,      \* what the build under way has read, its local variables
  docs,       \* the memoised documents
  shown,      \* history: each part of the documents as it was last shown
  authz,      \* the auth handler: what of "org" it was built from
  nudge,      \* the one buffered slot
  pushed,     \* history: the repository's HEAD at the last nudge accepted
  quitting    \* Stop has cancelled the poll's context

mine  == <<opamp, at, draft, docs, shown, authz, nudge, pushed, quitting>>
ivars == <<vars, mine>>

NothingRead ==
  [taken |-> Absent, commit |-> Absent, rows |-> Absent, org |-> Absent,
   topology |-> Absent, again |-> Absent]

InstanceInit ==
  /\ Init
  /\ opamp \in OpAMPOpen
  /\ at = "off"
  /\ draft = NothingRead
  /\ docs = NoDocs
  /\ shown = NothingRead
  /\ authz = NoAuth
  /\ nudge = FALSE
  /\ pushed = 0
  /\ quitting = FALSE

-----------------------------------------------------------------------------
(* Start, once the serving path is up: the estate's users and providers    *)
(* are read before the HTTP endpoint opens, and failing to read them is    *)
(* failing to start.                                                       *)

BootAuth ==
  /\ at = "off"
  /\ phase = "up"
  /\ work["org"] # Absent
  /\ authz' = work["org"]
  /\ at' = "auth"
  /\ UNCHANGED <<vars, opamp, draft, docs, shown, nudge, pushed, quitting>>

(* Everything the process holds dies with it.                              *)
Forgets ==
  /\ at' = "off"
  /\ draft' = NothingRead
  /\ docs' = NoDocs
  /\ shown' = NothingRead
  /\ authz' = NoAuth
  /\ nudge' = FALSE
  /\ pushed' = 0
  /\ quitting' = FALSE
  /\ UNCHANGED opamp

BootRefused ==
  /\ at = "off"
  /\ phase = "up"
  /\ work["org"] = Absent
  /\ Dies
  /\ Forgets

-----------------------------------------------------------------------------
(* pollLoop's select, and fetch.                                           *)

Tick ==
  /\ at = "idle"
  /\ at' = IF opamp THEN "auth" ELSE "fetch"
  /\ UNCHANGED <<vars, opamp, draft, docs, shown, authz, nudge, pushed, quitting>>

TakesNudge ==
  /\ at = "idle"
  /\ nudge
  /\ nudge' = FALSE
  /\ at' = "fetch"
  /\ UNCHANGED <<vars, opamp, draft, docs, shown, authz, pushed, quitting>>

(* opamp.Refresh queues on the serving path's mutex; with no serving path  *)
(* the source is asked outright.                                           *)
FetchesUnlocked ==                      \* mutant: the source is asked behind the mutex's back
  /\ at = "fetch"
  /\ at' = "fetching"
  /\ asked' = [asked EXCEPT ![Docs] = remote]
  /\ GoTo(Docs, SourceEntry)
  /\ UNCHANGED <<repo, dir, proc, fetchMu, label, topo, snap, holding, wire>>
  /\ UNCHANGED <<opamp, draft, docs, shown, authz, nudge, pushed, quitting>>

Fetches ==
  /\ at = "fetch"
  /\ at' = "fetching"
  /\ IF opamp
     THEN Asks(Docs)
     ELSE /\ asked' = [asked EXCEPT ![Docs] = remote]
          /\ GoTo(Docs, SourceEntry)
          /\ UNCHANGED <<repo, dir, proc, fetchMu, label, topo, snap, holding, wire>>
  /\ UNCHANGED <<opamp, draft, docs, shown, authz, nudge, pushed, quitting>>

(* Without a serving path the snapshot goes to observe and nowhere else.   *)
Observe(t) ==
  /\ ~opamp
  /\ pc[t] = "swap"
  /\ observed' = snap[t]
  /\ GoTo(t, IF t = Main THEN "listen" ELSE "idle")
  /\ Ends(t)
  /\ UNCHANGED <<repo, dir, proc, fetchMu, snapshot, newest, wire, mine>>

(* Failed or not, the documents are recomputed after a fetch.              *)
FetchedAtOnce ==                        \* mutant: the fetch runs in the background
  /\ at = "fetching"
  /\ at' = "auth"
  /\ UNCHANGED <<vars, opamp, draft, docs, shown, authz, nudge, pushed, quitting>>

Fetched ==
  /\ at = "fetching"
  /\ pc[Docs] = "idle"
  /\ at' = "auth"
  /\ UNCHANGED <<vars, opamp, draft, docs, shown, authz, nudge, pushed, quitting>>

(* Nudge, from the refresh endpoint.                                       *)
NudgeUnbuffered ==                      \* mutant: the slot takes nothing while nobody waits at it
  /\ at \notin {"off", "stopped"}
  /\ nudge' = (nudge \/ at = "idle")
  /\ pushed' = remote
  /\ UNCHANGED <<vars, opamp, at, draft, docs, shown, authz, quitting>>

Nudge ==
  /\ at \notin {"off", "stopped"}
  /\ nudge' = TRUE
  /\ pushed' = remote
  /\ UNCHANGED <<vars, opamp, at, draft, docs, shown, authz, quitting>>

-----------------------------------------------------------------------------
(* refresh: refreshAuth, then build.  A failure keeps what was held.       *)

RefreshAuthOnce ==                      \* mutant: who may sign in is read at the start only
  /\ at = "auth"
  /\ at' = "build"
  /\ UNCHANGED <<vars, opamp, draft, docs, shown, authz, nudge, pushed, quitting>>

RefreshAuth ==
  /\ at = "auth"
  /\ authz' = IF work["org"] = Absent THEN authz ELSE work["org"]
  /\ at' = "build"
  /\ UNCHANGED <<vars, opamp, draft, docs, shown, nudge, pushed, quitting>>

(* One read of a build: "here" moves on to "next" where the file is        *)
(* accepted, and the build is given up where it is not.                    *)
Reads(here, accepted, next, read) ==
  /\ at = here
  /\ IF accepted
     THEN at' = next /\ draft' = read
     ELSE at' = "idle" /\ draft' = NothingRead
  /\ UNCHANGED <<vars, opamp, docs, shown, authz, nudge, pushed, quitting>>

(* A part a torn build found away shows nothing: the sources compiled last *)
(* are an estate of no Tier while git has its only one off the disk.       *)
Shows(read, part) ==
  /\ read[part] # Absent
  /\ part = "again" => read.again.unmatched # NoArtefact

Builds(read) ==
  /\ docs' = read
  /\ shown' = [part \in DOMAIN shown |-> IF Shows(read, part) THEN read[part] ELSE shown[part]]
  /\ draft' = NothingRead
  /\ at' = "idle"
  /\ UNCHANGED <<vars, opamp, authz, nudge, pushed, quitting>>

(* Whether the estate is new is decided first, before an input is read.    *)
BuildBegins ==
  IF NoTiersAuthored(work["topology"])
  THEN Reads("build", TRUE, "new", NothingRead)
  ELSE Reads("build", LoadsTopology(work["topology"]), "stamp",
             [NothingRead EXCEPT !.taken = work["topology"]])

NewDocs(org) == [NothingRead EXCEPT !.org = org]

BuildNew ==
  /\ at = "new"
  /\ IF work["org"] = Absent
     THEN Reads("new", FALSE, "idle", NothingRead)
     ELSE Builds(NewDocs(work["org"]))

stampedCommit ==
  Reads("stamp", Servable(Unmatched(work["tree"])), "rows",
        [draft EXCEPT !.commit = IF work["tree"] = Absent THEN Absent ELSE work["tree"].stamp])

ReadsRows ==
  Reads("rows", work["rows"] # Absent, "teams", [draft EXCEPT !.rows = work["rows"]])

ReadsTeams ==
  Reads("teams", work["org"] # Absent, "render", [draft EXCEPT !.org = work["org"]])

Renders ==
  Reads("render", LoadsTopology(work["topology"]), "verify",
        [draft EXCEPT !.topology = work["topology"]])

(* The committed tree must be the fresh render of the sources just loaded, *)
(* at the stamp read from it.                                              *)
FreshRender(topology, commit, tree) ==
  tree # Absent /\ tree.of = topology /\ tree.stamp = commit

verifyNothing == Reads("verify", TRUE, "compile", draft)   \* mutant: the tree is not compared

verifyRendered ==
  Reads("verify", FreshRender(draft.topology, draft.commit, work["tree"]), "compile", draft)

(* LoadSnapshot reads the sources and the tree once more.                  *)
CompilesTopology ==
  Reads("compile", TRUE, "tree", [draft EXCEPT !.again = work["topology"]])

Published(read, tree) ==
  [taken |-> read.taken, commit |-> read.commit, rows |-> read.rows, org |-> read.org,
   topology |-> read.topology, again |-> LoadSnapshot(read.again, tree, read.commit)]

BuildEnds ==
  /\ at = "tree"
  /\ LET bundle == Published(draft, work["tree"])
     IN  IF bundle.again = Refused
         THEN Reads("tree", FALSE, "idle", NothingRead)
         ELSE Builds(bundle)

RefreshStep ==
  \/ RefreshAuth \/ BuildBegins \/ BuildNew \/ stampedCommit \/ ReadsRows \/ ReadsTeams
  \/ Renders \/ verifyRendered \/ CompilesTopology \/ BuildEnds

-----------------------------------------------------------------------------
(* Stop cancels the poll and waits for it, then stops the serving path.    *)

Quit ==
  /\ at \notin {"off", "stopped"}
  /\ ~quitting
  /\ CanExit
  /\ quitting' = TRUE
  /\ UNCHANGED <<vars, opamp, at, draft, docs, shown, authz, nudge, pushed>>

(* The cancelled context kills the git command Refresh runs.               *)
RefreshCancelled ==
  /\ quitting
  /\ GitKilled(Docs)
  /\ UNCHANGED mine

StopServing ==
  /\ opamp
  /\ quitting
  /\ at = "idle"
  /\ Stop
  /\ at' = "stopped"
  /\ UNCHANGED <<opamp, draft, docs, shown, authz, nudge, pushed, quitting>>

StopAlone ==
  /\ ~opamp
  /\ quitting
  /\ at = "idle"
  /\ Dies
  /\ Forgets

-----------------------------------------------------------------------------
(* Serving's steps, by who takes them.  A cancelled Refresh begins no      *)
(* checkout, and one that is not cancelled learns the head's name; with    *)
(* the endpoint closed nobody swaps, polls or connects.                    *)

SnapshotStep(t) ==
  /\ t = Docs /\ quitting => pc[t] # "fetched"
  /\ SourceStep(t) \/ LoadStep(t)
  /\ t = Docs /\ ~quitting /\ pc[t] = "revparse" => label'[t] = head
  /\ UNCHANGED mine

SwapStep(t) ==
  /\ opamp
  /\ Swap(t) \/ Announce(t)
  /\ UNCHANGED mine

LockStep(t) == opamp /\ Lock(t) /\ UNCHANGED mine
PollAsks    == opamp /\ Asks(Poll) /\ UNCHANGED mine
Starts      == (Start \/ Listen) /\ UNCHANGED mine
SidecarStep == (Asks(Sync) \/ SourceStep(Sync)) /\ UNCHANGED mine

Crashes     == Crash /\ Forgets
Halts       == Stopped /\ Forgets
EstateStep  == (Merge \/ Outage) /\ UNCHANGED mine
Killed      == GitKilled(Poll) /\ UNCHANGED mine
Wire(c)     == opamp /\ WireStep(c) /\ UNCHANGED mine

InstanceNext ==
  \/ EstateStep \/ SidecarStep \/ Starts \/ PollAsks \/ Killed
  \/ \E t \in Taker : SnapshotStep(t) \/ SwapStep(t) \/ LockStep(t) \/ Observe(t)
  \/ \E c \in Conn : Wire(c)
  \/ Crashes \/ Halts
  \/ BootAuth \/ BootRefused
  \/ Tick \/ TakesNudge \/ Fetches \/ Fetched \/ Nudge
  \/ RefreshStep
  \/ Quit \/ RefreshCancelled \/ StopServing \/ StopAlone

InstanceSpec == InstanceInit /\ [][InstanceNext]_ivars

(* A goroutine that can take a step takes it, and no step is owed that its *)
(* program counter does not name.  The ticker ticks, and select, which     *)
(* picks at random among what is ready, is fair to a context that is done. *)
TakerRuns(t)  == SnapshotStep(t) \/ SwapStep(t) \/ Observe(t)
InstanceRuns ==
  \/ BootAuth \/ BootRefused \/ Tick \/ TakesNudge \/ Fetches \/ Fetched \/ RefreshStep
  \/ RefreshCancelled

InstanceFairness ==
  /\ \A t \in Taker : WF_ivars(TakerRuns(t))
  /\ \A t \in {Poll, Docs} : SF_ivars(LockStep(t))
  /\ WF_ivars(PollAsks) /\ WF_ivars(Starts) /\ WF_ivars(SidecarStep)
  /\ WF_ivars(InstanceRuns)
  /\ SF_ivars(StopServing \/ StopAlone) /\ WF_ivars(Halts)

FairInstanceSpec == InstanceSpec /\ InstanceFairness

-----------------------------------------------------------------------------
(* What the documents of a commit are, and when it has any.                *)

Sources(h) == Commit[h]["topology"]
Tree(h)    == Commit[h]["tree"]

DocsAt(h) ==
  IF NoTiersAuthored(Sources(h)) THEN NewDocs(Commit[h]["org"])
  ELSE [taken |-> Sources(h), commit |-> Tree(h).stamp, rows |-> Commit[h]["rows"],
        org |-> Commit[h]["org"], topology |-> Sources(h),
        again |-> LoadSnapshot(Sources(h), Tree(h), Tree(h).stamp)]

Buildable(h) ==
  /\ Commit[h]["org"] # Absent
  /\ \/ NoTiersAuthored(Sources(h))
     \/ /\ Accepts(Sources(h), Tree(h))
        /\ Commit[h]["rows"] # Absent
        /\ FreshRender(Sources(h), Tree(h).stamp, Tree(h))

(* "A stale document set describes the commit it names" (refresh,          *)
(* instance.go): whatever is answered was read off one commit, until Stop  *)
(* kills a checkout under the last refresh.                                *)
DocsOfOneCommit ==
  ~opamp /\ docs # NoDocs /\ ~quitting =>
    \E h \in Heads : Buildable(h) /\ docs = DocsAt(h)

(* However a build interleaves with checkouts, the sources it publishes    *)
(* are the ones a committed tree was rendered from, at the stamp it names  *)
(* (verifyRendered, console/build.go).                                     *)
RecomputeInvariant ==
  docs # NoDocs /\ docs.topology # Absent =>
    \E h \in 1 .. remote : FreshRender(docs.topology, docs.commit, Tree(h))

(* An accepted nudge is still in its slot, or about to be acted on, or a   *)
(* fetch has set out since: a burst costs one fetch and never none.        *)
NudgeNeverLost == pushed > asked[Docs] => nudge \/ at = "fetch"

(* What a part of the documents is read off, and the part a file gives.    *)
FileOf ==
  [taken |-> "topology", topology |-> "topology", rows |-> "rows", org |-> "org", commit |-> "tree"]

PartOf(p, file) == IF p = "commit" THEN file.stamp ELSE file

(* While the process lives the documents are never taken away, and no part *)
(* of them goes back to a commit older than the one it was last shown of:  *)
(* not the sources, taken, loaded or compiled, nor the stamp, the rows,    *)
(* the teams, the rendered tree.  A build that meets the checkout without  *)
(* a Tier shows a new estate for a while (NewDocs), and what is shown      *)
(* after it is no older than what was shown before.                        *)
Replaced(p) == shown[p] # Absent /\ shown'[p] # shown[p]

GoesOn(p, x, y) ==
  \E h \in 1 .. remote : \E g \in 1 .. h :
    LET was == Commit[g][FileOf[p]]
        is  == Commit[h][FileOf[p]]
    IN  Absent \notin {was, is} /\ PartOf(p, was) = x /\ PartOf(p, is) = y

(* Compiled from sources that go on and from a tree that goes on.          *)
CompiledGoesOn(x, y) ==
  \E h, j \in 1 .. remote : \E g \in 1 .. h, i \in 1 .. j :
    /\ x = LoadSnapshot(Sources(g), Tree(i), x.commit)
    /\ y = LoadSnapshot(Sources(h), Tree(j), y.commit)

DocsNeverRegress ==
  [][docs # NoDocs /\ at' # "off" =>
       /\ docs' # NoDocs
       /\ \A p \in DOMAIN FileOf : Replaced(p) => GoesOn(p, shown[p], shown'[p])
       /\ Replaced("again") => CompiledGoesOn(shown.again, shown'.again)]_ivars

(* A process asked to stop goes down, whoever holds the fetch mutex and    *)
(* whichever git command runs.                                             *)
StopReturns == quitting ~> at = "off"

(* With the endpoint open the instance is a Serving, so that whatever is   *)
(* proved of Serving holds of the process collectors talk to.              *)
ImplementsServing == Spec

(* A head that stays is what the console shows in the end, and who may     *)
(* sign in is read from it.                                                *)
DocsArrive ==
  <>[](reachable /\ phase = "up" /\ ~quitting) =>
    <>[](Buildable(remote) => docs = DocsAt(remote) /\ authz = Commit[remote]["org"])

=============================================================================
