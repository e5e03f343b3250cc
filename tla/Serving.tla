------------------------------- MODULE Serving -------------------------------
(***************************************************************************)
(* The stateless OpAMP serving path: internal/serving/server.go over the   *)
(* two sources of internal/serving/source.go.                              *)
(*                                                                         *)
(* The goroutines that take snapshots are                                  *)
(*   Main       Start, which takes the first one before the endpoint opens *)
(*   Poll       refreshLoop                                                *)
(*   Refresher  whoever calls Refresh                                      *)
(* They share one checkout (work, head, fetchHead, indexLock), the mutex   *)
(* fetchMu and the atomic pointer "snapshot".  "observed" is what the      *)
(* OnSnapshot reader holds.  Collectors speak over connections, each of    *)
(* which serves one message at a time.                                     *)
(*                                                                         *)
(* A GitSource fetches and checks out itself; a DirSource re-reads a       *)
(* directory that the chart's sidecar (Sync) checks out on its own clock.  *)
(* The checkout replaces the files of the estate one group at a time, as   *)
(* git does, and holds index.lock while it does.                           *)
(***************************************************************************)
EXTENDS Snapshot

CONSTANTS
  MaxHead,     \* bound: how many commits the estate repository ever has
  Files,       \* the groups of files a commit holds, "topology" and "tree" among them
  Commit,      \* [1..MaxHead -> [Files -> contents]]
  GitSourced,  \* TRUE: GitSource; FALSE: DirSource, kept current by the sidecar
  KeepsCache,  \* GitSource.Dir outlives the process (serve -cache)
  CanExit,     \* the process may die or be stopped; FALSE keeps an instance small
  Main, Poll, Sync, Refresher,
  Cancels,     \* those Refresher whose callers may cancel the context they pass
  Conn,        \* connections, each of one collector
  Identity,    \* [Conn -> the attributes the collector reports]
  Free,        \* nobody holds the mutex
  NoSnapshot,  \* a nil *Snapshot
  NoMessage, NoReply,
  NoOffer      \* a ServerToAgent without a RemoteConfig

Heads  == 1 .. MaxHead
Taker  == {Main, Poll} \cup Refresher
Thread == Taker \cup {Sync}

ASSUME ServingAssumption ==
  /\ MaxHead \in Nat \ {0}
  /\ {"topology", "tree"} \subseteq Files
  /\ Commit = [h \in Heads |-> [f \in Files |-> Commit[h][f]]]
  /\ GitSourced \in BOOLEAN
  /\ KeepsCache \in BOOLEAN
  /\ CanExit \in BOOLEAN
  /\ Cancels \subseteq Refresher
  /\ Main # Poll
  /\ Sync \notin Taker
  /\ {Main, Poll} \cap Refresher = {}
  /\ Free \notin Thread
  /\ NoOffer \notin Artefact \cup {NoArtefact, Missing, Empty}

ASSUME CommitAssumption ==
  \A h \in Heads :
    LET topology == Commit[h]["topology"]
        tree     == Commit[h]["tree"]
    IN  WellFormed(topology, tree) /\ LoadSnapshot(topology, tree, h) # NoSnapshot

VARIABLES
  remote,     \* the estate repository's HEAD
  reachable,  \* whether a fetch reaches it
  work,       \* [Files -> contents or Absent], the working tree
  head,       \* the checkout's HEAD, 0 before the clone
  fetchHead,  \* .git/FETCH_HEAD
  indexLock,  \* .git/index.lock exists
  phase,      \* the process: "down", "starting", "up", "stopping"
  fetchMu,    \* the thread holding fetchMu, or Free
  pc,         \* [Thread -> where it stands]
  label,      \* [Thread -> the commit rev-parse named, its local variable]
  topo,       \* [Thread -> the topology LoadSnapshot read, its local variable]
  snap,       \* [Thread -> the snapshot it compiled, its local variable]
  asked,      \* [Thread -> what the repository's HEAD was when the thread set out]
  snapshot,   \* the atomic pointer the serving decision reads
  observed,   \* what the OnSnapshot reader was last handed
  newest,     \* history: the newest commit ever held, across restarts
  open,       \* the live connections
  toServer,   \* [Conn -> the collector's message in flight]
  reply,      \* [Conn -> the server's answer in flight]
  agent,      \* [Conn -> what the collector runs, has been sent, and owes]
  digests     \* [Conn -> the layer-1 digest, NoArtefact when none is held]

repo    == <<remote, reachable>>
dir     == <<work, head, fetchHead, indexLock>>
proc    == <<phase>>
locals  == <<label, topo, snap, asked>>
taking  == <<fetchMu, pc, locals>>
holding == <<snapshot, observed, newest>>
wire    == <<open, toServer, reply, agent, digests>>
vars    == <<repo, dir, proc, taking, holding, wire>>

-----------------------------------------------------------------------------
CommitOf(s)  == IF s = NoSnapshot THEN 0 ELSE s.commit
LoadAt(h)    == LoadSnapshot(Commit[h]["topology"], Commit[h]["tree"], h)
NoTree       == [f \in Files |-> Absent]
NewAgent     == [running |-> NoArtefact, hash |-> NoArtefact, owesFull |-> TRUE]

Init ==
  /\ remote = 1 /\ reachable = TRUE
  /\ work = IF GitSourced THEN NoTree ELSE Commit[1]
  /\ head = IF GitSourced THEN 0 ELSE 1
  /\ fetchHead = 0 /\ indexLock = FALSE
  /\ phase = "down"
  /\ fetchMu = Free
  /\ pc = [t \in Thread |-> "idle"]
  /\ label = [t \in Thread |-> 0]
  /\ topo = [t \in Thread |-> Absent]
  /\ snap = [t \in Thread |-> NoSnapshot]
  /\ asked = [t \in Thread |-> 0]
  /\ snapshot = NoSnapshot /\ observed = NoSnapshot /\ newest = 0
  /\ open = {}
  /\ toServer = [c \in Conn |-> NoMessage]
  /\ reply = [c \in Conn |-> NoReply]
  /\ agent = [c \in Conn |-> NewAgent]
  /\ digests = [c \in Conn |-> NoArtefact]

-----------------------------------------------------------------------------
(* The estate repository: merges land, and the network comes and goes.     *)

Merge ==
  /\ remote < MaxHead
  /\ remote' = remote + 1
  /\ UNCHANGED <<reachable, dir, proc, taking, holding, wire>>

Outage ==
  /\ reachable' = ~reachable
  /\ UNCHANGED <<remote, dir, proc, taking, holding, wire>>

-----------------------------------------------------------------------------
(* Source.Snapshot, one step per git command and per group of files read.  *)

GoTo(t, l) == pc' = [pc EXCEPT ![t] = l]

(* Where Snapshot begins: a DirSource fetches nothing.                     *)
SourceEntry == IF GitSourced THEN "fetch" ELSE "revparse"

(* A call's local variables end with it.                                   *)
Ends(t) ==
  /\ label' = [label EXCEPT ![t] = 0]
  /\ topo' = [topo EXCEPT ![t] = Absent]
  /\ snap' = [snap EXCEPT ![t] = NoSnapshot]
  /\ UNCHANGED asked

(* An error leaves Snapshot: the deferred unlock runs, and what was held   *)
(* before stays held.  Start returns it, so the process does not come up.  *)
LeavesWithError(t) ==
  /\ GoTo(t, "idle")
  /\ phase' = IF t = Main THEN "down" ELSE phase
  /\ Ends(t)

FailLocked(t) == LeavesWithError(t) /\ UNCHANGED fetchMu   \* mutant: the unlock is not deferred

Fail(t) ==
  /\ LeavesWithError(t)
  /\ fetchMu' = IF fetchMu = t THEN Free ELSE fetchMu

(* Stop cancels the context refreshLoop fetches under, which kills the git *)
(* command running under it and refuses the next.                          *)
Cancelled(t) == t = Poll /\ phase = "stopping"

FetchesTo(t, h) ==
  /\ pc[t] = "fetch"
  /\ reachable
  /\ ~Cancelled(t)
  /\ fetchHead' = h
  /\ GoTo(t, "fetched")
  /\ UNCHANGED <<repo, work, head, indexLock, proc, fetchMu, locals, holding, wire>>

GitFetchOnce(t) ==                      \* mutant: what was fetched before is not fetched again
  FetchesTo(t, IF fetchHead = 0 THEN remote ELSE fetchHead)

GitFetchAsked(t) ==                     \* mutant: the head named when the call set out is fetched
  FetchesTo(t, asked[t])

GitFetch(t) == FetchesTo(t, remote)

GitFetchFails(t) ==
  /\ pc[t] = "fetch"
  /\ ~reachable \/ Cancelled(t)
  /\ Fail(t)
  /\ UNCHANGED <<repo, dir, holding, wire>>

(* git checkout takes index.lock before it touches a file, and refuses     *)
(* while one is there.                                                     *)
CheckoutBegins(t) ==
  /\ pc[t] = "fetched"
  /\ ~indexLock
  /\ ~Cancelled(t)
  /\ indexLock' = TRUE
  /\ GoTo(t, "checkout")
  /\ UNCHANGED <<repo, work, head, fetchHead, proc, fetchMu, locals, holding, wire>>

CheckoutRefused(t) ==
  /\ pc[t] = "fetched"
  /\ indexLock \/ Cancelled(t)
  /\ Fail(t)
  /\ UNCHANGED <<repo, dir, holding, wire>>

(* A file that differs is unlinked and written anew.                       *)
CheckoutWrites(t, f) ==
  /\ pc[t] = "checkout"
  /\ work[f] # Commit[fetchHead][f]
  /\ work' = [work EXCEPT ![f] = IF @ = Absent THEN Commit[fetchHead][f] ELSE Absent]
  /\ UNCHANGED <<repo, head, fetchHead, indexLock, proc, taking, holding, wire>>

NamesHead(t) ==
  /\ pc[t] = "checkout"
  /\ head' = fetchHead
  /\ indexLock' = FALSE
  /\ GoTo(t, IF t = Sync THEN "idle" ELSE "revparse")
  /\ UNCHANGED <<repo, work, fetchHead, proc, fetchMu, locals, holding, wire>>

CheckoutEndsEarly(t) == NamesHead(t)    \* mutant: the command is not waited for

CheckoutEnds(t) ==
  /\ NamesHead(t)
  /\ \A f \in Files : work[f] = Commit[fetchHead][f]

(* A killed checkout leaves the files it wrote and its lock behind.        *)
GitKilled(t) ==
  /\ pc[t] \in {"fetch", "fetched", "checkout", "revparse"}
  /\ GitSourced
  /\ Cancelled(t) \/ t \in Cancels
  /\ Fail(t)
  /\ UNCHANGED <<repo, dir, holding, wire>>

(* A DirSource goes on without a name where rev-parse fails, as it does    *)
(* once the caller's context is done; 0 stands for no name.                *)
Names(t) == IF ~GitSourced /\ (Cancelled(t) \/ t \in Cancels) THEN {head, 0} ELSE {head}

RevParse(t) ==
  /\ pc[t] = "revparse"
  /\ \E name \in Names(t) : label' = [label EXCEPT ![t] = name]
  /\ GoTo(t, "topology")
  /\ UNCHANGED <<repo, dir, proc, fetchMu, topo, snap, asked, holding, wire>>

LoadTopology(t) ==
  /\ pc[t] = "topology"
  /\ topo' = [topo EXCEPT ![t] = work["topology"]]
  /\ GoTo(t, "tree")
  /\ UNCHANGED <<repo, dir, proc, fetchMu, label, snap, asked, holding, wire>>

Compiled(t) == LoadSnapshot(topo[t], work["tree"], label[t])

Compiles(t) ==
  /\ pc[t] = "tree"
  /\ Compiled(t) # Refused
  /\ snap' = [snap EXCEPT ![t] = Compiled(t)]
  /\ GoTo(t, "swap")
  /\ UNCHANGED <<repo, dir, proc, label, topo, asked, wire>>

LoadTreeAnnounces(t) ==                 \* mutant: announced before it is swapped in
  /\ Compiles(t)
  /\ observed' = Compiled(t)
  /\ UNCHANGED <<fetchMu, snapshot, newest>>

LoadTree(t) == Compiles(t) /\ UNCHANGED <<fetchMu, holding>>

LoadRefused(t) ==
  /\ pc[t] = "tree"
  /\ Compiled(t) = Refused
  /\ Fail(t)
  /\ UNCHANGED <<repo, dir, holding, wire>>

-----------------------------------------------------------------------------
(* fetch, Refresh, refreshLoop and announce.                               *)

(* The ticker, a caller of Refresh, and the sidecar on its own clock: it   *)
(* takes no lock, outlives the process, and a fetch or a checkout of its   *)
(* that failed waits for its next turn.                                    *)
Asks(t) ==
  /\ t # Main
  /\ IF t = Sync THEN ~GitSourced ELSE phase = "up"
  /\ pc[t] = "idle"
  /\ asked' = IF t = Sync THEN asked ELSE [asked EXCEPT ![t] = remote]
  /\ GoTo(t, IF t = Sync THEN "fetch" ELSE "lock")
  /\ UNCHANGED <<repo, dir, proc, fetchMu, label, topo, snap, holding, wire>>

EntersSource(t) ==
  /\ pc[t] = "lock"
  /\ fetchMu' = t
  /\ GoTo(t, SourceEntry)
  /\ UNCHANGED <<repo, dir, proc, locals, holding, wire>>

LockNothing(t) == EntersSource(t)       \* mutant: no mutex

Lock(t) == fetchMu = Free /\ EntersSource(t)

(* snapshot.Swap and the deferred unlock; in Start, which holds no mutex,  *)
(* snapshot.Store.                                                         *)
Swap(t) ==
  /\ pc[t] = "swap"
  /\ snapshot' = snap[t]
  /\ newest' = IF CommitOf(snap[t]) > newest THEN CommitOf(snap[t]) ELSE newest
  /\ fetchMu' = IF fetchMu = t THEN Free ELSE fetchMu
  /\ GoTo(t, "announce")
  /\ UNCHANGED <<repo, dir, proc, locals, observed, wire>>

(* The callback runs outside the mutex.                                    *)
Announce(t) ==
  /\ pc[t] = "announce"
  /\ observed' = snap[t]
  /\ GoTo(t, IF t = Main THEN "listen" ELSE "idle")
  /\ Ends(t)
  /\ UNCHANGED <<repo, dir, proc, fetchMu, snapshot, newest, wire>>

-----------------------------------------------------------------------------
(* The process.  serve keeps the clone in a fresh temporary directory      *)
(* unless -cache names one.                                                *)

StartsAs(p, keeps) ==
  /\ phase = "down"
  /\ phase' = p
  /\ IF GitSourced /\ ~keeps
     THEN work' = NoTree /\ head' = 0 /\ fetchHead' = 0 /\ indexLock' = FALSE
     ELSE UNCHANGED dir
  /\ asked' = [asked EXCEPT ![Main] = remote]
  /\ GoTo(Main, SourceEntry)
  /\ UNCHANGED <<repo, fetchMu, label, topo, snap, holding, wire>>

StartOverTheOld == StartsAs("starting", TRUE)    \* mutant: the temporary directory is reused

Start == StartsAs("starting", KeepsCache)

(* The endpoint opens only after the first snapshot is held.               *)
Listen ==
  /\ pc[Main] = "listen"
  /\ phase' = "up"
  /\ GoTo(Main, "idle")
  /\ UNCHANGED <<repo, dir, fetchMu, locals, holding, wire>>

(* Everything held dies with the process; the collectors run on, and owe a *)
(* full report over their next connection.                                 *)
Dies ==
  /\ phase' = "down"
  /\ fetchMu' = Free
  /\ pc' = [t \in Thread |-> IF t = Sync THEN pc[t] ELSE "idle"]
  /\ label' = [t \in Thread |-> 0]
  /\ topo' = [t \in Thread |-> Absent]
  /\ snap' = [t \in Thread |-> NoSnapshot]
  /\ asked' = [t \in Thread |-> 0]
  /\ snapshot' = NoSnapshot
  /\ observed' = NoSnapshot
  /\ open' = {}
  /\ toServer' = [c \in Conn |-> NoMessage]
  /\ reply' = [c \in Conn |-> NoReply]
  /\ agent' = [c \in Conn |-> [agent[c] EXCEPT !.owesFull = TRUE]]
  /\ digests' = [c \in Conn |-> NoArtefact]
  /\ UNCHANGED <<repo, dir, newest>>

Crash ==
  /\ phase # "down"
  /\ CanExit
  /\ Dies

Stop ==
  /\ phase = "up"
  /\ CanExit
  /\ phase' = "stopping"
  /\ UNCHANGED <<repo, dir, taking, holding, wire>>

(* Stop waits for refreshLoop, then closes the endpoint.                   *)
Stopped ==
  /\ phase = "stopping"
  /\ pc[Poll] = "idle"
  /\ Dies

-----------------------------------------------------------------------------
(* The collectors, as the Supervisor's OpAMP client behaves on this wire:  *)
(* the first message of a connection carries the description, later ones   *)
(* leave out what has not changed, and a request for full state is         *)
(* answered with everything.  A config that fails to apply is reverted,    *)
(* and its hash stays the last one received.                               *)

Connect(c) ==
  /\ phase \in {"up", "stopping"}
  /\ c \notin open
  /\ open' = open \cup {c}
  /\ agent' = [agent EXCEPT ![c].owesFull = TRUE]
  /\ UNCHANGED <<repo, dir, proc, taking, holding, toServer, reply, digests>>

AgentReports(c) ==
  /\ c \in open
  /\ toServer[c] = NoMessage
  /\ reply[c] = NoReply
  /\ \E carriesConfig \in {agent[c].owesFull, TRUE} :
       toServer' = [toServer EXCEPT ![c] =
         [desc      |-> agent[c].owesFull,
          effective |-> IF carriesConfig THEN agent[c].running ELSE NoArtefact,
          hash      |-> agent[c].hash]]
  /\ agent' = [agent EXCEPT ![c].owesFull = FALSE]
  /\ UNCHANGED <<repo, dir, proc, taking, holding, open, reply, digests>>

AgentApplies(c) ==
  /\ reply[c] # NoReply
  /\ LET config == reply[c].config
     IN  \E runs \in {config, agent[c].running} \ {NoOffer} :
           agent' = [agent EXCEPT ![c] =
             [running  |-> runs,
              hash     |-> IF config = NoOffer THEN @.hash ELSE config,
              owesFull |-> reply[c].full]]
  /\ reply' = [reply EXCEPT ![c] = NoReply]
  /\ UNCHANGED <<repo, dir, proc, taking, holding, open, toServer, digests>>

-----------------------------------------------------------------------------
(* onMessage and onConnectionClose.                                        *)

DecisionForEverybody(c) ==              \* mutant: the cohort is not asked about
  IF Candidates(snapshot, Identity[c]) = {} THEN snapshot.unmatched
  ELSE LET e == Winner(snapshot, Identity[c])
       IN  IF e.next # NoArtefact THEN e.next ELSE e.artefact

Decision(c) == Match(snapshot, Identity[c])

(* A message without the description cannot be matched: ask for full       *)
(* state, and digest nothing that rides on it.                             *)
AnswersUndescribed(c, full) ==
  /\ toServer[c] # NoMessage
  /\ ~toServer[c].desc
  /\ reply' = [reply EXCEPT ![c] = [full |-> full, config |-> NoOffer]]
  /\ toServer' = [toServer EXCEPT ![c] = NoMessage]
  /\ UNCHANGED <<repo, dir, proc, taking, holding, open, agent, digests>>

OnUndescribedSilent(c) == AnswersUndescribed(c, FALSE)   \* mutant: full state is not asked for

OnUndescribed(c) == AnswersUndescribed(c, TRUE)

OnDescribed(c) ==
  /\ toServer[c] # NoMessage
  /\ toServer[c].desc
  /\ digests' = [digests EXCEPT ![c] =
                   IF toServer[c].effective # NoArtefact
                   THEN toServer[c].effective ELSE @]
  /\ reply' = [reply EXCEPT ![c] =
       [full   |-> FALSE,
        config |-> IF Offerable(Decision(c)) /\ toServer[c].hash # Decision(c)
                   THEN Decision(c) ELSE NoOffer]]
  /\ toServer' = [toServer EXCEPT ![c] = NoMessage]
  /\ UNCHANGED <<repo, dir, proc, taking, holding, open, agent>>

(* The connection breaks, with whatever was in flight over it.             *)
OnConnectionClose(c) ==
  /\ c \in open
  /\ open' = open \ {c}
  /\ toServer' = [toServer EXCEPT ![c] = NoMessage]
  /\ reply' = [reply EXCEPT ![c] = NoReply]
  /\ digests' = [digests EXCEPT ![c] = NoArtefact]
  /\ UNCHANGED <<repo, dir, proc, taking, holding, agent>>

-----------------------------------------------------------------------------
SourceStep(t) ==
  \/ GitFetch(t) \/ GitFetchFails(t)
  \/ CheckoutBegins(t) \/ CheckoutRefused(t)
  \/ \E f \in Files : CheckoutWrites(t, f)
  \/ CheckoutEnds(t)

LoadStep(t) ==
  \/ RevParse(t) \/ LoadTopology(t) \/ LoadTree(t) \/ LoadRefused(t)

TakerStep(t) == SourceStep(t) \/ LoadStep(t) \/ Swap(t) \/ Announce(t)

WireStep(c) ==
  \/ Connect(c) \/ OnConnectionClose(c)
  \/ AgentReports(c) \/ AgentApplies(c)
  \/ OnUndescribed(c) \/ OnDescribed(c)

Next ==
  \/ Merge \/ Outage
  \/ \E t \in Taker : TakerStep(t) \/ Asks(t) \/ Lock(t) \/ GitKilled(t)
  \/ Asks(Sync) \/ SourceStep(Sync)
  \/ Start \/ Listen \/ Crash \/ Stop \/ Stopped
  \/ \E c \in Conn : WireStep(c)

Spec == Init /\ [][Next]_vars

(* Every goroutine that can take a step takes it; the ticker ticks; the    *)
(* runtime's mutex starves nobody; a process that went down is started     *)
(* again; a collector reconnects and reports on its heartbeat.  Merges,    *)
(* outages, crashes and closes are never owed.                             *)
Fairness ==
  /\ \A t \in Taker : WF_vars(TakerStep(t)) /\ SF_vars(Lock(t))
  /\ WF_vars(Asks(Poll))
  /\ WF_vars(Asks(Sync)) /\ WF_vars(SourceStep(Sync))
  /\ WF_vars(Start) /\ WF_vars(Listen) /\ WF_vars(Stopped)
  /\ \A c \in Conn :
       /\ WF_vars(Connect(c)) /\ WF_vars(AgentReports(c)) /\ WF_vars(AgentApplies(c))
       /\ WF_vars(OnUndescribed(c)) /\ WF_vars(OnDescribed(c))

FairSpec == Spec /\ Fairness

-----------------------------------------------------------------------------
(* What the serving path promises.                                         *)

Step == {"idle", "lock", "fetch", "fetched", "checkout", "revparse",
         "topology", "tree", "swap", "announce", "listen"}

Body   == File \cup {NoArtefact}
Report == [desc : BOOLEAN, effective : Body, hash : Body]

(* Every variable has its type.                                            *)
TypeOK ==
  /\ remote \in Heads
  /\ reachable \in BOOLEAN
  /\ DOMAIN work = Files
  /\ head \in 0 .. MaxHead
  /\ fetchHead \in 0 .. MaxHead
  /\ indexLock \in BOOLEAN
  /\ phase \in {"down", "starting", "up", "stopping"}
  /\ fetchMu \in Taker \cup {Free}
  /\ pc \in [Thread -> Step]
  /\ label \in [Thread -> 0 .. MaxHead]
  /\ DOMAIN topo = Thread /\ DOMAIN snap = Thread
  /\ asked \in [Thread -> 0 .. MaxHead]
  /\ newest \in 0 .. MaxHead
  /\ open \subseteq Conn
  /\ toServer \in [Conn -> Report \cup {NoMessage}]
  /\ reply \in [Conn -> [full : BOOLEAN, config : Body \cup {NoOffer}] \cup {NoReply}]
  /\ agent \in [Conn -> [running : Body, hash : Body, owesFull : BOOLEAN]]
  /\ digests \in [Conn -> Body]

(* The snapshot the decisions are read from is what one commit compiles    *)
(* to, and it carries that commit's name: no topology of one head beside   *)
(* artefacts of another ("never mis-delivery", serving.go).                *)
SnapshotIsOneCommit ==
  snapshot # NoSnapshot =>
    /\ snapshot.commit \in Heads
    /\ snapshot = LoadAt(snapshot.commit)

(* The endpoint is open only while a snapshot is held: onMessage           *)
(* dereferences the pointer without asking.                                *)
ServesOnlyFromASnapshot ==
  phase \in {"up", "stopping"} => snapshot # NoSnapshot

(* A Refresh (or a poll) that reached the swap holds a head at least as    *)
(* new as the repository's when it was asked for, whoever else was         *)
(* fetching meanwhile: it is the "fetch now" the refresh endpoint means.   *)
RefreshCoversTheAsking ==
  \A t \in {Poll} \cup Refresher :
    pc[t] \in {"swap", "announce"} => snap[t].commit >= asked[t]

(* The OnSnapshot reader is never on a head the server has not served.     *)
ReaderNeverAhead == CommitOf(observed) <= CommitOf(snapshot)

(* Nothing empty is ever offered, whatever the estate holds (REQ-042).     *)
NeverServesEmpty ==
  \A c \in Conn :
    reply[c] # NoReply => reply[c].config \in Artefact \cup {NoOffer}

(* What a collector runs was decided for its own attributes, at a commit   *)
(* that loaded, and not at one the server has yet to reach.                *)
DecidedFor(c) ==
  {Match(LoadAt(h), Identity[c]) :
     h \in {g \in Heads : g <= newest /\ LoadAt(g) # Refused}}

NoMisdelivery ==
  \A c \in Conn : agent[c].running \in DecidedFor(c) \cup {NoArtefact}

(* The head never moves backwards, not even across a restart, however the  *)
(* poll, a Refresh and the first snapshot of a new process interleave.  (A *)
(* DirSource whose context is done may take a snapshot that has no name.)  *)
HeadKept ==
  snapshot' # NoSnapshot =>
    \/ CommitOf(snapshot') >= newest
    \/ CommitOf(snapshot') = 0 /\ ~GitSourced

HeadNeverRegresses == [][HeadKept]_vars

(* Bounded staleness: a head that stays and loads is served in the end,    *)
(* and the second reader ends on the head the server serves.               *)
Quiet == <>[](reachable /\ phase = "up")

HeadArrives ==
  Quiet => <>[](LoadAt(remote) # Refused =>
                  /\ snapshot = LoadAt(remote)
                  /\ observed = snapshot)

(* A collector that stays connected is sent the artefact decided for it at *)
(* the head served, though no message it sends unasked says who it is.     *)
CollectorsConverge ==
  \A c \in Conn :
    <>[](reachable /\ phase = "up" /\ c \in open) =>
      <>[](/\ snapshot # NoSnapshot
           /\ Offerable(Decision(c)) => agent[c].hash = Decision(c))

(* "Restart is a non-event by construction" (serving.go): while the        *)
(* estate's head is reachable and loads, the process comes back.           *)
RestartIsANonEvent ==
  /\ <>[](reachable /\ LoadAt(remote) # Refused)
  /\ <>[][~Crash /\ ~Stop]_vars
  => <>[](phase = "up")

-----------------------------------------------------------------------------
(* The serving path implements its contract: forget the threads, the       *)
(* checkout and the mutex, and what is left is the commit served and the   *)
(* offers in flight.                                                       *)

Offered(c) == IF reply[c] = NoReply THEN NoOffer ELSE reply[c].config

LoadableHeads == {h \in Heads : LoadAt(h) # Refused}

Contract == INSTANCE ServingContract WITH
  Loads     <- LoadableHeads,
  Decided   <- [h \in LoadableHeads |-> [c \in Conn |-> Match(LoadAt(h), Identity[c])]],
  published <- remote,
  served    <- CommitOf(snapshot),
  last      <- newest,
  offer     <- [c \in Conn |-> Offered(c)]

ImplementsContract == Contract!Spec

=============================================================================
