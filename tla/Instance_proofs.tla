---------------------------- MODULE Instance_proofs ----------------------------
(***************************************************************************)
(* What the Instance server keeps for every estate, whoever interleaves    *)
(* with it: with the OpAMP endpoint open it is a Serving, a nudge is never *)
(* lost, and the documents answered satisfy the recompute invariant.       *)
(***************************************************************************)
EXTENDS Instance, Serving_proofs

-----------------------------------------------------------------------------
(* Refinement.  A step of the instance's own leaves Serving's variables    *)
(* alone, or is one of Serving's.                                          *)

LEMMA RefreshStepLeavesServing ==
  ASSUME RefreshStep PROVE UNCHANGED vars
BY DEF RefreshStep, RefreshAuth, BuildBegins, BuildNew, stampedCommit, ReadsRows, ReadsTeams,
       Renders, verifyRendered, CompilesTopology, BuildEnds, Reads, Builds

LEMMA ServingSteps ==
  ASSUME opamp, CanExit, [InstanceNext]_ivars PROVE [Next]_vars
<1>0. Docs \in Taker /\ Poll \in Taker
  BY InstanceAssumption DEF Taker
<1>1. CASE EstateStep \/ SidecarStep \/ Starts
  BY <1>1 DEF EstateStep, SidecarStep, Starts, Next
<1>2. CASE PollAsks \/ Killed
  BY <1>0, <1>2 DEF PollAsks, Killed, Next
<1>3. ASSUME NEW t \in Taker, SnapshotStep(t) \/ SwapStep(t) \/ LockStep(t)
      PROVE  Next
  BY <1>3 DEF SnapshotStep, SwapStep, LockStep, TakerStep, Next
<1>4. ASSUME NEW t \in Taker PROVE ~ Observe(t)
  BY DEF Observe
<1>5. ASSUME NEW c \in Conn, Wire(c) PROVE Next
  BY <1>5 DEF Wire, Next
<1>6. CASE Crashes \/ Halts
  BY <1>6 DEF Crashes, Halts, Next
<1>7. CASE BootRefused
  BY <1>7 DEF BootRefused, Crash, Next
<1>8. CASE BootAuth \/ Tick \/ TakesNudge \/ Fetched \/ Nudge \/ Quit
  BY <1>8 DEF BootAuth, Tick, TakesNudge, Fetched, Nudge, Quit
<1>9. CASE Fetches
  BY <1>0, <1>9 DEF Fetches, Next
<1>10. CASE RefreshStep
  BY <1>10, RefreshStepLeavesServing
<1>11. CASE RefreshCancelled \/ StopServing \/ StopAlone
  BY <1>0, <1>11 DEF RefreshCancelled, StopServing, StopAlone, Next
<1>12. CASE UNCHANGED ivars
  BY <1>12 DEF ivars
<1> QED
  BY <1>1, <1>2, <1>3, <1>4, <1>5, <1>6, <1>7, <1>8, <1>9, <1>10, <1>11, <1>12
     DEF InstanceNext

(* Whether the endpoint is open is settled before the process starts.      *)
LEMMA EndpointStays ==
  ASSUME [InstanceNext]_ivars PROVE opamp' = opamp
<1>1. CASE \/ EstateStep \/ SidecarStep \/ Starts \/ PollAsks \/ Killed
           \/ \E t \in Taker : SnapshotStep(t) \/ SwapStep(t) \/ LockStep(t) \/ Observe(t)
           \/ \E c \in Conn : Wire(c)
  BY <1>1 DEF EstateStep, SidecarStep, Starts, PollAsks, Killed, SnapshotStep, SwapStep, LockStep,
     Observe, Wire, mine
<1>2. CASE Crashes \/ Halts \/ BootRefused \/ StopAlone
  BY <1>2 DEF Crashes, Halts, BootRefused, StopAlone, Forgets
<1>3. CASE BootAuth \/ Tick \/ TakesNudge \/ Fetches \/ Fetched \/ Nudge
  BY <1>3 DEF BootAuth, Tick, TakesNudge, Fetches, Fetched, Nudge
<1>4. CASE RefreshStep
  BY <1>4 DEF RefreshStep, RefreshAuth, BuildBegins, BuildNew, stampedCommit, ReadsRows,
     ReadsTeams, Renders, verifyRendered, CompilesTopology, BuildEnds, Reads, Builds
<1>5. CASE Quit \/ RefreshCancelled \/ StopServing \/ UNCHANGED ivars
  BY <1>5 DEF Quit, RefreshCancelled, StopServing, ivars, mine
<1> QED
  BY <1>1, <1>2, <1>3, <1>4, <1>5 DEF InstanceNext

(* An Instance server with the OpAMP endpoint open is a serving path: its  *)
(* nudges, its cancelled fetches and its failed starts take no step that   *)
(* server.go could not take by itself.                                     *)
THEOREM AnInstanceServes ==
  ASSUME OpAMPOpen = {TRUE}, CanExit PROVE InstanceSpec => ImplementsServing
<1>1. InstanceInit => Init /\ opamp
  BY DEF InstanceInit
<1>2. opamp /\ [InstanceNext]_ivars => opamp' /\ [Next]_vars
  BY EndpointStays, ServingSteps
<1> QED
  BY <1>1, <1>2, PTL DEF InstanceSpec, Spec, ImplementsServing

(* So a collector of the Instance is never decided for off two heads.      *)
THEOREM AnInstanceServesOneCommit ==
  ASSUME OpAMPOpen = {TRUE}, CanExit, GitSourced PROVE InstanceSpec => []SnapshotIsOneCommit
BY AnInstanceServes, ServesOneCommit, PTL DEF ImplementsServing

-----------------------------------------------------------------------------
(* The nudge.  What makes it inductive is that only Docs' own Fetches moves*)
(* asked[Docs], and that it moves it to the head of the moment.            *)

NudgeInv ==
  /\ remote \in Nat
  /\ asked \in [Thread -> Nat]
  /\ pushed \in 0 .. remote
  /\ NudgeNeverLost

LEMMA DocsIsAThread ==
  /\ Docs \in Taker /\ Poll \in Taker /\ Main \in Taker
  /\ Docs \in Thread /\ Docs # Poll /\ Docs # Main /\ Docs # Sync
  /\ Taker \subseteq Thread
BY InstanceAssumption, ServingAssumption DEF Taker, Thread

(* Serving's own steps, the ends of the process apart, ask on behalf of    *)
(* somebody else and never lower the repository's head.                    *)
LEMMA OthersAsk ==
  ASSUME NudgeInv,
         \/ EstateStep \/ SidecarStep \/ Starts \/ PollAsks \/ Killed \/ RefreshCancelled
         \/ StopServing
         \/ \E t \in Taker : SnapshotStep(t) \/ SwapStep(t) \/ LockStep(t) \/ Observe(t)
         \/ \E c \in Conn : Wire(c)
  PROVE  /\ remote' \in Nat /\ remote <= remote'
         /\ asked' \in [Thread -> Nat]
         /\ asked'[Docs] = asked[Docs]
         /\ UNCHANGED <<nudge, pushed>>
         /\ at = "fetch" => at' = "fetch"
<1> USE DocsIsAThread DEF NudgeInv, repo, dir, proc, locals, taking, holding, wire, vars, mine
<1>1. CASE EstateStep
  BY <1>1, ServingAssumption DEF EstateStep, Merge, Outage
<1>2. CASE SidecarStep
  BY <1>2 DEF SidecarStep, Asks, SourceStep, GitFetch, FetchesTo, GitFetchFails, CheckoutBegins,
     CheckoutRefused, CheckoutWrites, CheckoutEnds, NamesHead, Fail, LeavesWithError, Ends
<1>3. CASE Starts \/ PollAsks
  BY <1>3 DEF Starts, Start, StartsAs, Listen, PollAsks, Asks
<1>4. CASE Killed \/ RefreshCancelled
  BY <1>4 DEF Killed, RefreshCancelled, GitKilled, Fail, LeavesWithError, Ends
<1>5. CASE StopServing
  BY <1>5 DEF StopServing, Stop
<1>6. ASSUME NEW t \in Taker, SnapshotStep(t)
      PROVE  UNCHANGED <<remote, asked, mine>>
  BY <1>6 DEF SnapshotStep, SourceStep, GitFetch, FetchesTo, GitFetchFails, CheckoutBegins,
     CheckoutRefused, CheckoutWrites, CheckoutEnds, NamesHead, LoadStep, RevParse, Names, LoadTopology, LoadTree, Compiles,
     LoadRefused, Fail, LeavesWithError, Ends
<1>7. ASSUME NEW t \in Taker, SwapStep(t) \/ LockStep(t) \/ Observe(t)
      PROVE  UNCHANGED <<remote, asked, mine>>
  BY <1>7 DEF SwapStep, Swap, Announce, LockStep, Lock, EntersSource, Observe, Ends
<1>8. ASSUME NEW c \in Conn, Wire(c) PROVE UNCHANGED <<remote, asked, mine>>
  BY <1>8 DEF Wire, WireStep, Connect, OnConnectionClose, AgentReports, AgentApplies,
     OnUndescribed, AnswersUndescribed, OnDescribed
<1> QED
  BY <1>1, <1>2, <1>3, <1>4, <1>5, <1>6, <1>7, <1>8

LEMMA NudgeStep ==
  ASSUME NudgeInv, [InstanceNext]_ivars PROVE NudgeInv'
<1> USE DocsIsAThread DEF NudgeInv, NudgeNeverLost
<1>1. CASE \/ EstateStep \/ SidecarStep \/ Starts \/ PollAsks \/ Killed \/ RefreshCancelled
           \/ StopServing
           \/ \E t \in Taker : SnapshotStep(t) \/ SwapStep(t) \/ LockStep(t) \/ Observe(t)
           \/ \E c \in Conn : Wire(c)
  BY <1>1, OthersAsk
<1>2. CASE Crashes \/ Halts \/ BootRefused \/ StopAlone
  BY <1>2 DEF Crashes, Halts, BootRefused, StopAlone, Crash, Stopped, Dies, Forgets, repo
<1>3. CASE BootAuth \/ Tick \/ Fetched \/ Quit
  BY <1>3 DEF BootAuth, Tick, Fetched, Quit, vars, repo, taking, locals
<1>4. CASE TakesNudge
  BY <1>4 DEF TakesNudge, vars, repo, taking, locals
<1>5. CASE Fetches
  BY <1>5 DEF Fetches, Asks, repo
<1>6. CASE Nudge
  BY <1>6 DEF Nudge, vars, repo, taking, locals
<1>7. CASE RefreshStep
  <2>1. UNCHANGED <<vars, nudge, pushed>> /\ at # "fetch"
    BY <1>7, RefreshStepLeavesServing
       DEF RefreshStep, RefreshAuth, BuildBegins, BuildNew, stampedCommit, ReadsRows,
       ReadsTeams, Renders, verifyRendered, CompilesTopology, BuildEnds, Reads, Builds
  <2> QED
    BY <2>1 DEF vars, repo, taking, locals
<1>8. CASE UNCHANGED ivars
  BY <1>8 DEF ivars, vars, mine, repo, taking, locals
<1> QED
  BY <1>1, <1>2, <1>3, <1>4, <1>5, <1>6, <1>7, <1>8 DEF InstanceNext

(* However many ask and however they interleave with the poll, an accepted *)
(* nudge is waiting, or being acted on, or a fetch has set out since.      *)
THEOREM NudgesAreKept ==
  InstanceSpec => []NudgeNeverLost
<1>1. InstanceInit => NudgeInv
  BY DocsIsAThread DEF InstanceInit, Init, NudgeInv, NudgeNeverLost
<1>2. NudgeInv => NudgeNeverLost
  BY DEF NudgeInv
<1> QED
  BY <1>1, <1>2, NudgeStep, PTL DEF InstanceSpec

-----------------------------------------------------------------------------
(* The recompute invariant.  Beneath it lies what the checkout may hold    *)
(* while anybody rewrites it: each group of files is missing, or is that   *)
(* of a published commit.                                                  *)

Alive ==
  /\ pc \in [Thread -> Step]
  /\ phase \in {"down", "starting"} =>
       at = "off" /\ pc[Poll] = "idle" /\ pc[Docs] = "idle"
  /\ phase # "starting" => pc[Main] = "idle"
  /\ GitSourced => pc[Sync] = "idle"

Checkout ==
  /\ remote \in Heads
  /\ fetchHead \in 0 .. remote
  /\ \A t \in Thread : pc[t] \in {"fetched", "checkout"} => fetchHead # 0
  /\ DOMAIN work = Files
  /\ \A f \in Files : work[f] = Absent \/ \E h \in 1 .. remote : work[f] = Commit[h][f]

Committed(topology, commit) == \E h \in 1 .. remote : FreshRender(topology, commit, Tree(h))

Drafted ==
  /\ DOMAIN draft = DOMAIN NothingRead
  /\ at \in {"compile", "tree"} => Committed(draft.topology, draft.commit)
  /\ RecomputeInvariant

RecomputeInv == Alive /\ Checkout /\ Drafted

LEMMA Threads ==
  /\ Thread = {Main, Poll, Docs, Sync}
  /\ Taker = {Main, Poll, Docs}
  /\ Main # Poll /\ Main # Docs /\ Poll # Docs
  /\ Sync # Main /\ Sync # Poll /\ Sync # Docs
BY InstanceAssumption, ServingAssumption DEF Taker, Thread

(* Serving's steps.                                                        *)
LEMMA SourceKeepsTheCheckout ==
  ASSUME Alive, Checkout, NEW t \in Thread, pc[t] # "idle", SourceStep(t), at' = at
  PROVE  Alive' /\ Checkout' /\ UNCHANGED remote
<1> USE Threads, ServingAssumption DEF Alive, Checkout, Heads, Step, repo, dir, proc, holding, wire
<1>1. CASE GitFetch(t)
  BY <1>1 DEF GitFetch, FetchesTo, GoTo
<1>2. CASE GitFetchFails(t) \/ CheckoutRefused(t)
  <2>1. /\ pc' = [pc EXCEPT ![t] = "idle"]
        /\ phase' = IF t = Main THEN "down" ELSE phase
        /\ UNCHANGED <<remote, work, fetchHead>>
    BY <1>2 DEF GitFetchFails, CheckoutRefused, Fail, LeavesWithError, GoTo
  <2>2. t = Main => phase = "starting"
    OBVIOUS
  <2> QED
    BY <2>1, <2>2
<1>3. CASE CheckoutBegins(t)
  BY <1>3 DEF CheckoutBegins, GoTo
<1>4. ASSUME NEW f \in Files, CheckoutWrites(t, f) PROVE Alive' /\ Checkout' /\ UNCHANGED remote
  <2>1. fetchHead \in 1 .. remote
    BY <1>4 DEF CheckoutWrites
  <2>2. /\ DOMAIN work' = Files
        /\ \A g \in Files : work'[g] \in {work[g], Absent, Commit[fetchHead][g]}
    BY <1>4 DEF CheckoutWrites
  <2> QED
    BY <1>4, <2>1, <2>2 DEF CheckoutWrites, taking
<1>5. CASE CheckoutEnds(t)
  BY <1>5 DEF CheckoutEnds, NamesHead, GoTo
<1> QED
  BY <1>1, <1>2, <1>3, <1>4, <1>5 DEF SourceStep

LEMMA TakerKeepsTheCheckout ==
  ASSUME Alive, Checkout, NEW t \in Taker,
         LoadStep(t) \/ Swap(t) \/ Announce(t) \/ Observe(t) \/ Lock(t) \/ GitKilled(t),
         at' = at
  PROVE  Alive' /\ Checkout' /\ UNCHANGED remote
<1> USE Threads DEF Alive, Checkout, Step, repo, dir, proc, holding, wire
<1>1. CASE LoadStep(t)
  BY <1>1 DEF LoadStep, RevParse, Names, LoadTopology, LoadTree, Compiles, LoadRefused, Fail, LeavesWithError, GoTo, mine
<1>2. CASE Swap(t) \/ Announce(t)
  BY <1>2 DEF Swap, Announce, GoTo
<1>3. CASE Observe(t)
  BY <1>3 DEF Observe, GoTo, mine
<1>4. CASE Lock(t)
  BY <1>4 DEF Lock, EntersSource, GoTo, SourceEntry
<1>5. CASE GitKilled(t)
  BY <1>5 DEF GitKilled, Fail, LeavesWithError, GoTo
<1> QED
  BY <1>1, <1>2, <1>3, <1>4, <1>5

(* A dead process runs nothing; the sidecar is not of it.                  *)
LEMMA DeathKeepsTheCheckout ==
  ASSUME Alive, Checkout, Dies, at' = "off"
  PROVE  Alive' /\ Checkout' /\ UNCHANGED remote
<1>1. /\ pc' = [t \in Thread |-> IF t = Sync THEN pc[t] ELSE "idle"]
      /\ phase' = "down"
      /\ UNCHANGED <<remote, work, fetchHead>>
  BY DEF Dies, repo, dir
<1> QED
  BY <1>1, Threads DEF Alive, Checkout, Step

LEMMA StartKeepsTheCheckout ==
  ASSUME Alive, Checkout, Starts
  PROVE  Alive' /\ Checkout' /\ UNCHANGED remote
<1> USE Threads, ServingAssumption, InstanceAssumption DEF Alive, Checkout, Step, Heads
<1>1. CASE Start
  <2>1. /\ phase = "down" /\ phase' = "starting" /\ at' = at
        /\ pc' = [pc EXCEPT ![Main] = SourceEntry]
        /\ remote' = remote
        /\ \/ work' = NoTree /\ fetchHead' = 0 /\ GitSourced
           \/ UNCHANGED <<work, fetchHead>>
    BY <1>1 DEF Start, StartsAs, Starts, mine, GoTo, repo, dir
  <2>2. SourceEntry \in {"fetch", "revparse"}
    BY DEF SourceEntry
  <2>3. Alive' /\ \A t \in Thread : pc'[t] \notin {"fetched", "checkout"} \/ t = Sync
    BY <2>1, <2>2
  <2>4. CASE work' = NoTree /\ fetchHead' = 0 /\ GitSourced
    BY <2>1, <2>3, <2>4 DEF NoTree
  <2>5. CASE UNCHANGED <<work, fetchHead>>
    BY <2>1, <2>3, <2>5
  <2> QED
    BY <2>1, <2>4, <2>5, <2>3
<1>2. CASE Listen
  BY <1>2 DEF Listen, Starts, mine, GoTo, repo, dir
<1> QED
  BY <1>1, <1>2 DEF Starts

LEMMA CheckoutStep ==
  ASSUME Alive, Checkout, [InstanceNext]_ivars
  PROVE  Alive' /\ Checkout' /\ remote <= remote'
<1>0. remote \in Nat /\ remote <= remote /\ Docs \in Taker /\ Poll \in Taker /\ Sync \in Thread
  BY Threads, ServingAssumption DEF Checkout, Heads
<1>1. CASE EstateStep
  <2>1. /\ remote' \in Heads /\ remote <= remote'
        /\ UNCHANGED <<at, pc, phase, work, fetchHead>>
    <3>1. UNCHANGED <<at, pc, phase, work, fetchHead>>
      <4>1. at' = at
        BY <1>1 DEF EstateStep, mine
      <4>2. CASE Merge
        BY <4>1, <4>2 DEF Merge, dir, proc, taking
      <4>3. CASE Outage
        BY <4>1, <4>3 DEF Outage, dir, proc, taking
      <4> QED
        BY <1>1, <4>2, <4>3 DEF EstateStep
    <3>2. remote' = remote \/ (remote < MaxHead /\ remote' = remote + 1)
      BY <1>1 DEF EstateStep, Merge, Outage
    <3> QED
      BY <1>0, <3>1, <3>2, ServingAssumption DEF Checkout, Heads
  <2>2. 1 .. remote \subseteq 1 .. remote' /\ fetchHead \in 0 .. remote'
    BY <1>0, <2>1, ServingAssumption DEF Checkout, Heads
  <2>3. \A f \in Files : work[f] = Absent \/ \E h \in 1 .. remote' : work[f] = Commit[h][f]
    BY <2>2 DEF Checkout
  <2> QED
    BY <1>0, <2>1, <2>2, <2>3 DEF Alive, Checkout
<1>2. CASE SidecarStep
  <2>1. CASE Asks(Sync)
    BY <1>0, <1>2, <2>1, Threads
       DEF SidecarStep, Asks, Alive, Checkout, Step, GoTo, mine, repo, dir, proc
  <2>2. CASE SourceStep(Sync)
    <3>1. pc[Sync] # "idle" /\ at' = at
      BY <1>2, <2>2 DEF SidecarStep, mine, SourceStep, GitFetch, FetchesTo, GitFetchFails,
         CheckoutBegins, CheckoutRefused, CheckoutWrites, CheckoutEnds, NamesHead
    <3> QED
      BY <1>0, <2>2, <3>1, SourceKeepsTheCheckout
  <2> QED
    BY <1>2, <2>1, <2>2 DEF SidecarStep
<1>3. CASE Starts
  BY <1>0, <1>3, StartKeepsTheCheckout
<1>4. CASE PollAsks
  BY <1>0, <1>4, Threads
     DEF PollAsks, Asks, Alive, Checkout, Step, GoTo, mine, repo, dir, proc
<1>5. CASE Killed \/ RefreshCancelled
  BY <1>0, <1>5, TakerKeepsTheCheckout DEF Killed, RefreshCancelled, mine
<1>6. ASSUME NEW t \in Taker,
             SnapshotStep(t) \/ SwapStep(t) \/ LockStep(t) \/ Observe(t)
      PROVE  Alive' /\ Checkout' /\ remote <= remote'
  <2>1. at' = at
    BY <1>6 DEF SnapshotStep, SwapStep, LockStep, Observe, mine
  <2>2. CASE SourceStep(t)
    <3>1. pc[t] # "idle"
      BY <2>2 DEF SourceStep, GitFetch, FetchesTo, GitFetchFails, CheckoutBegins, CheckoutRefused,
         CheckoutWrites, CheckoutEnds, NamesHead
    <3> QED
      BY <1>0, <2>1, <2>2, <3>1, Threads, SourceKeepsTheCheckout
  <2>3. CASE LoadStep(t) \/ Swap(t) \/ Announce(t) \/ Observe(t) \/ Lock(t)
    BY <1>0, <2>1, <2>3, TakerKeepsTheCheckout
  <2> QED
    BY <1>6, <2>2, <2>3 DEF SnapshotStep, SwapStep, LockStep
<1>7. ASSUME NEW c \in Conn, Wire(c) PROVE Alive' /\ Checkout' /\ remote <= remote'
  <2>1. UNCHANGED <<remote, work, fetchHead, phase, pc, at>>
    BY <1>7 DEF Wire, WireStep, Connect, OnConnectionClose, AgentReports, AgentApplies,
       OnUndescribed, AnswersUndescribed, OnDescribed, mine, repo, dir, proc, taking
  <2> QED
    BY <1>0, <2>1 DEF Alive, Checkout
<1>8. CASE Crashes \/ Halts \/ BootRefused \/ StopAlone
  BY <1>0, <1>8, DeathKeepsTheCheckout
     DEF Crashes, Halts, BootRefused, StopAlone, Crash, Stopped, Forgets
<1>9. CASE BootAuth \/ Tick \/ TakesNudge \/ Fetched \/ Nudge \/ Quit \/ RefreshStep
  <2>1. UNCHANGED vars
    BY <1>9, RefreshStepLeavesServing DEF BootAuth, Tick, TakesNudge, Fetched, Nudge, Quit
  <2>2. at' # "off" => at # "off" \/ phase = "up"
    BY <1>9 DEF BootAuth, Tick, TakesNudge, Fetched, Nudge, Quit, RefreshStep, RefreshAuth,
       BuildBegins, BuildNew, stampedCommit, ReadsRows, ReadsTeams, Renders, verifyRendered,
       CompilesTopology, BuildEnds, Reads, Builds
  <2>3. UNCHANGED <<remote, work, fetchHead, phase, pc>>
    BY <2>1 DEF vars, repo, dir, proc, taking
  <2> QED
    BY <1>0, <2>2, <2>3 DEF Alive, Checkout
<1>10. CASE Fetches
  <2>1. /\ UNCHANGED <<remote, work, fetchHead, phase>>
        /\ at = "fetch"
        /\ \E l \in {"lock", "fetch", "revparse"} : pc' = [pc EXCEPT ![Docs] = l]
    BY <1>10 DEF Fetches, Asks, GoTo, SourceEntry, repo, dir, proc
  <2> QED
    BY <1>0, <2>1, Threads DEF Alive, Checkout, Step
<1>11. CASE StopServing
  BY <1>0, <1>11 DEF StopServing, Stop, Alive, Checkout, repo, dir, taking
<1>12. CASE UNCHANGED ivars
  BY <1>0, <1>12 DEF ivars, vars, mine, Alive, Checkout, repo, dir, proc, taking
<1> QED
  BY <1>1, <1>2, <1>3, <1>4, <1>5, <1>6, <1>7, <1>8, <1>9, <1>10, <1>11, <1>12
     DEF InstanceNext

LEMMA StillCommitted ==
  ASSUME NEW topology, NEW commit, remote \in Nat, remote' \in Nat, remote <= remote',
         Committed(topology, commit)
  PROVE  Committed(topology, commit)'
<1>1. PICK h \in 1 .. remote : FreshRender(topology, commit, Tree(h))
  BY DEF Committed
<1> QED
  BY <1>1 DEF Committed

(* The instance's own steps.                                               *)
LEMMA DraftStep ==
  ASSUME RecomputeInv, Alive', Checkout', remote <= remote', [InstanceNext]_ivars
  PROVE  Drafted'
<1>0. remote \in Nat /\ remote' \in Nat
  BY ServingAssumption DEF RecomputeInv, Checkout, Heads
<1>a. ASSUME UNCHANGED <<draft, docs>>, at' \in {"compile", "tree"} => at \in {"compile", "tree"}
      PROVE  Drafted'
  BY <1>0, <1>a, StillCommitted DEF RecomputeInv, Drafted, RecomputeInvariant, Committed
<1>b. ASSUME draft' = NothingRead, docs' = NoDocs, at' = "off"
      PROVE  Drafted'
  BY <1>b DEF Drafted, RecomputeInvariant
<1>1. CASE \/ EstateStep \/ SidecarStep \/ Starts \/ PollAsks \/ Killed \/ RefreshCancelled
           \/ \E t \in Taker : SnapshotStep(t) \/ SwapStep(t) \/ LockStep(t) \/ Observe(t)
           \/ \E c \in Conn : Wire(c)
  BY <1>1, <1>a DEF EstateStep, SidecarStep, Starts, PollAsks, Killed, RefreshCancelled,
     SnapshotStep, SwapStep, LockStep, Observe, Wire, mine
<1>2. CASE Crashes \/ Halts \/ BootRefused \/ StopAlone
  BY <1>2, <1>b DEF Crashes, Halts, BootRefused, StopAlone, Forgets
<1>3. CASE \/ BootAuth \/ Tick \/ TakesNudge \/ Fetches \/ Fetched \/ Nudge \/ Quit
           \/ StopServing \/ RefreshAuth
  BY <1>3, <1>a DEF BootAuth, Tick, TakesNudge, Fetches, Fetched, Nudge, Quit, StopServing,
     RefreshAuth
<1>4. CASE BuildBegins \/ BuildNew \/ stampedCommit \/ ReadsRows \/ ReadsTeams \/ Renders
  <2>1. /\ DOMAIN draft' = DOMAIN NothingRead
        /\ at' \notin {"compile", "tree"}
        /\ docs' = docs \/ docs'.topology = Absent
    BY <1>4 DEF BuildBegins, BuildNew, stampedCommit, ReadsRows, ReadsTeams, Renders, Reads,
       Builds, NewDocs, NothingRead, RecomputeInv, Drafted
  <2> QED
    BY <1>0, <2>1, StillCommitted DEF RecomputeInv, Drafted, RecomputeInvariant, Committed
<1>5. CASE verifyRendered
  <2>1. CASE FreshRender(draft.topology, draft.commit, work["tree"])
    <3>1. work["tree"] # Absent /\ "tree" \in Files
      BY <2>1, InstanceAssumption DEF FreshRender
    <3>2. PICK h \in 1 .. remote : work["tree"] = Tree(h)
      BY <3>1 DEF RecomputeInv, Checkout, Tree
    <3>3. Committed(draft.topology, draft.commit)
      BY <2>1, <3>2 DEF Committed
    <3> QED
      BY <1>0, <1>5, <2>1, <3>3, StillCommitted
         DEF verifyRendered, Reads, RecomputeInv, Drafted, RecomputeInvariant, Committed
  <2>2. CASE ~ FreshRender(draft.topology, draft.commit, work["tree"])
    BY <1>0, <1>5, <2>2, StillCommitted
       DEF verifyRendered, Reads, RecomputeInv, Drafted, RecomputeInvariant, Committed
  <2> QED
    BY <2>1, <2>2
<1>6. CASE CompilesTopology
  <2>1. /\ DOMAIN draft' = DOMAIN NothingRead
        /\ draft'.topology = draft.topology /\ draft'.commit = draft.commit
        /\ docs' = docs /\ at = "compile"
    BY <1>6 DEF CompilesTopology, Reads, RecomputeInv, Drafted, NothingRead
  <2>2. Committed(draft.topology, draft.commit)'
    BY <1>0, <2>1, StillCommitted DEF RecomputeInv, Drafted, Committed
  <2> QED
    BY <1>0, <2>1, <2>2, StillCommitted DEF RecomputeInv, Drafted, RecomputeInvariant, Committed
<1>7. CASE BuildEnds
  <2>1. /\ draft' = NothingRead /\ at' = "idle" /\ at = "tree"
        /\ \/ docs' = docs
           \/ docs'.topology = draft.topology /\ docs'.commit = draft.commit
    BY <1>7 DEF BuildEnds, Reads, Builds, Published
  <2>2. Committed(draft.topology, draft.commit)
    BY <2>1 DEF RecomputeInv, Drafted
  <2>3. docs' # NoDocs /\ docs'.topology # Absent => Committed(docs'.topology, docs'.commit)
    BY <2>1, <2>2 DEF RecomputeInv, Drafted, RecomputeInvariant, Committed
  <2> QED
    BY <1>0, <2>1, <2>3 DEF Drafted, RecomputeInvariant, Committed
<1>8. CASE UNCHANGED ivars
  BY <1>8, <1>a DEF ivars, mine
<1> QED
  BY <1>1, <1>2, <1>3, <1>4, <1>5, <1>6, <1>7, <1>8 DEF InstanceNext, RefreshStep

LEMMA RecomputeInvHolds ==
  InstanceSpec => []RecomputeInv
<1>1. InstanceInit => RecomputeInv
  <2> SUFFICES ASSUME InstanceInit PROVE RecomputeInv
    OBVIOUS
  <2>1. Alive
    BY Threads DEF InstanceInit, Init, Alive, Step
  <2>2. Checkout
    <3>1. remote = 1 /\ 1 \in Heads /\ fetchHead = 0 /\ DOMAIN Commit[1] = Files
      BY ServingAssumption DEF InstanceInit, Init, Heads
    <3>2. work \in {NoTree, Commit[1]} /\ \A t \in Thread : pc[t] = "idle"
      BY DEF InstanceInit, Init
    <3> QED
      BY <3>1, <3>2 DEF Checkout, NoTree
  <2>3. Drafted
    BY DEF InstanceInit, Drafted, RecomputeInvariant
  <2> QED
    BY <2>1, <2>2, <2>3 DEF RecomputeInv
<1>2. RecomputeInv /\ [InstanceNext]_ivars => RecomputeInv'
  BY CheckoutStep, DraftStep DEF RecomputeInv
<1> QED
  BY <1>1, <1>2, PTL DEF InstanceSpec

(* Whatever estate is served, from whichever source and however a build    *)
(* interleaves with checkouts, kills and restarts, the sources answered are*)
(* those a committed tree was rendered from, at the stamp they name.       *)
THEOREM DocumentsRecompute ==
  InstanceSpec => []RecomputeInvariant
<1>1. RecomputeInv => RecomputeInvariant
  BY DEF RecomputeInv, Drafted
<1> QED
  BY <1>1, RecomputeInvHolds, PTL

-----------------------------------------------------------------------------
(* The documents never go back.  A checkout writes the head last fetched,  *)
(* so each group of files only ever moves on to newer commits: what was    *)
(* read from it once is of a commit no newer than what it holds.           *)

Reached == IF fetchHead = 0 THEN 1 ELSE fetchHead

Holds(f) == work[f] = Absent \/ \E h \in 1 .. Reached : work[f] = Commit[h][f]

ReadFrom(f, x) ==
  \E g \in 1 .. Reached :
    /\ Commit[g][f] = x
    /\ work[f] = Absent \/ \E h \in g .. Reached : work[f] = Commit[h][f]

Drafts ==
  [taken : Contents("topology"), commit : Stamps, rows : Contents("rows"), org : Contents("org"),
   topology : Contents("topology"), again : Contents("topology")]

(* y is of a commit no older than x.                                       *)
Older(f, x, y) ==
  \E h \in 1 .. remote : \E g \in 1 .. h : Commit[g][f] = x /\ Commit[h][f] = y

(* A part drafted is read off its file, a part shown was, and before it.   *)
ReadAs(p, t, x) == t # Absent /\ PartOf(p, t) = x /\ ReadFrom(FileOf[p], t)

PartRead(p) ==
  /\ draft[p] # Absent => \E u : ReadAs(p, u, draft[p])
  /\ shown[p] # Absent => \E t : ReadAs(p, t, shown[p])
  /\ draft[p] # Absent /\ shown[p] # Absent =>
       \E t, u : /\ ReadAs(p, t, shown[p]) /\ ReadAs(p, u, draft[p])
                 /\ Older(FileOf[p], t, u)

(* What was compiled last, of sources t and a tree u.                      *)
CompiledOf(t, u, s) ==
  /\ t # Absent /\ ReadFrom("topology", t)
  /\ u # Absent /\ ReadFrom("tree", u)
  /\ s = LoadSnapshot(t, u, s.commit)

CompiledRead ==
  /\ draft.again # Absent => ReadFrom("topology", draft.again)
  /\ shown.again # Absent =>
       \E t, u : /\ CompiledOf(t, u, shown.again)
                 /\ draft.again # Absent => Older("topology", t, draft.again)

Readings ==
  /\ \A f \in Files : Holds(f)
  /\ draft \in Drafts
  /\ DOMAIN shown = DOMAIN NothingRead
  /\ at = "off" => docs = NoDocs /\ draft = NothingRead /\ shown = NothingRead
  /\ \A p \in DOMAIN FileOf : PartRead(p)
  /\ CompiledRead

ReadInv == RecomputeInv /\ Readings

LEMMA WhoWritesTheCheckout ==
  ASSUME [InstanceNext]_ivars
  PROVE  \/ UNCHANGED <<work, fetchHead>>
         \/ \E t \in Thread : SourceStep(t)
         \/ Start /\ UNCHANGED mine
<1> USE DEF dir
<1>1. CASE EstateStep \/ PollAsks \/ Killed \/ RefreshCancelled \/ StopServing \/ Fetches
  BY <1>1 DEF EstateStep, Merge, Outage, PollAsks, Asks, Killed, RefreshCancelled, GitKilled,
     StopServing, Stop, Fetches
<1>2. CASE SidecarStep
  BY <1>2, Threads DEF SidecarStep, Asks
<1>3. CASE Starts
  BY <1>3 DEF Starts, Listen
<1>4. ASSUME NEW t \in Taker, SnapshotStep(t)
      PROVE  UNCHANGED <<work, fetchHead>> \/ SourceStep(t)
  BY <1>4 DEF SnapshotStep, LoadStep, RevParse, LoadTopology, LoadTree, Compiles, LoadRefused
<1>5. ASSUME NEW t \in Taker, SwapStep(t) \/ LockStep(t) \/ Observe(t)
      PROVE  UNCHANGED <<work, fetchHead>>
  BY <1>5 DEF SwapStep, Swap, Announce, LockStep, Lock, EntersSource, Observe
<1>6. ASSUME NEW c \in Conn, Wire(c) PROVE UNCHANGED <<work, fetchHead>>
  BY <1>6 DEF Wire, WireStep, Connect, OnConnectionClose, AgentReports, AgentApplies,
     OnUndescribed, AnswersUndescribed, OnDescribed
<1>7. CASE Crashes \/ Halts \/ BootRefused \/ StopAlone
  BY <1>7 DEF Crashes, Halts, BootRefused, StopAlone, Crash, Stopped, Dies
<1>8. CASE BootAuth \/ Tick \/ TakesNudge \/ Fetched \/ Nudge \/ Quit \/ RefreshStep
           \/ UNCHANGED ivars
  BY <1>8, RefreshStepLeavesServing
     DEF BootAuth, Tick, TakesNudge, Fetched, Nudge, Quit, ivars, vars
<1> QED
  BY <1>1, <1>2, <1>3, <1>4, <1>5, <1>6, <1>7, <1>8, Threads DEF InstanceNext

(* Either the process starts over an empty checkout, and holds nothing yet,*)
(* or the checkout goes on to what was fetched.                            *)
LEMMA CheckoutMovesOn ==
  ASSUME RecomputeInv, [InstanceNext]_ivars
  PROVE  \/ at = "off" /\ UNCHANGED mine /\ work' = NoTree
         \/ /\ Reached \in Nat /\ Reached' \in Nat /\ Reached <= Reached'
            /\ \A f \in Files : work'[f] \in {work[f], Absent, Commit[Reached'][f]}
<1>0. remote \in Nat /\ remote >= 1 /\ fetchHead \in 0 .. remote /\ DOMAIN work = Files
  BY ServingAssumption DEF RecomputeInv, Checkout, Heads
<1> DEFINE MovesOn == /\ Reached \in Nat /\ Reached' \in Nat /\ Reached <= Reached'
                      /\ \A f \in Files : work'[f] \in {work[f], Absent, Commit[Reached'][f]}
<1>1. ASSUME UNCHANGED <<work, fetchHead>> PROVE MovesOn
  BY <1>0, <1>1 DEF Reached
<1>2. ASSUME NEW t \in Thread, SourceStep(t) PROVE MovesOn
  <2>1. CASE GitFetch(t)
    <3>1. fetchHead' = remote /\ work' = work
      BY <2>1 DEF GitFetch, FetchesTo
    <3>2. Reached \in 1 .. remote /\ Reached' = remote
      BY <1>0, <3>1 DEF Reached
    <3> QED
      BY <1>0, <3>1, <3>2
  <2>2. ASSUME NEW g \in Files, CheckoutWrites(t, g) PROVE MovesOn
    <3>1. /\ fetchHead' = fetchHead /\ fetchHead # 0
          /\ work' = [work EXCEPT ![g] = IF @ = Absent THEN Commit[fetchHead][g] ELSE Absent]
      BY <2>2 DEF CheckoutWrites, RecomputeInv, Checkout
    <3> QED
      BY <1>0, <3>1 DEF Reached
  <2>3. CASE GitFetchFails(t) \/ CheckoutBegins(t) \/ CheckoutRefused(t) \/ CheckoutEnds(t)
    <3>1. UNCHANGED <<work, fetchHead>>
      BY <2>3 DEF GitFetchFails, CheckoutBegins, CheckoutRefused, CheckoutEnds, NamesHead, dir
    <3> QED
      BY <1>1, <3>1
  <2> QED
    BY <1>2, <2>1, <2>2, <2>3 DEF SourceStep
<1>3. CASE Start /\ UNCHANGED mine
  <2>1. at = "off" /\ (work' = NoTree \/ UNCHANGED dir)
    BY <1>3 DEF Start, StartsAs, RecomputeInv, Alive
  <2> QED
    BY <1>1, <1>3, <2>1 DEF dir
<1> QED
  BY <1>1, <1>2, <1>3, WhoWritesTheCheckout

(* So what has been read stays behind what the checkout holds.             *)
LEMMA ReadStays ==
  ASSUME RecomputeInv, [InstanceNext]_ivars, \A f \in Files : Holds(f)
  PROVE  /\ \A f \in Files : Holds(f)'
         /\ \/ at = "off" /\ UNCHANGED mine
            \/ \A f \in Files : \A x : ReadFrom(f, x) => ReadFrom(f, x)'
<1>1. CASE at = "off" /\ UNCHANGED mine /\ work' = NoTree
  BY <1>1 DEF Holds, NoTree
<1>2. CASE /\ Reached \in Nat /\ Reached' \in Nat /\ Reached <= Reached'
           /\ \A f \in Files : work'[f] \in {work[f], Absent, Commit[Reached'][f]}
  <2>1. Reached >= 1 /\ Reached' >= 1
    BY <1>2 DEF Reached
  <2>2. ASSUME NEW f \in Files PROVE Holds(f)'
    BY <1>2, <2>1 DEF Holds
  <2>3. ASSUME NEW f \in Files, NEW x, ReadFrom(f, x) PROVE ReadFrom(f, x)'
    BY <1>2, <2>1, <2>3 DEF ReadFrom
  <2> QED
    BY <2>2, <2>3
<1> QED
  BY <1>1, <1>2, CheckoutMovesOn

(* What a build reads now.                                                 *)
LEMMA ReadsNow ==
  ASSUME RecomputeInv, NEW f \in Files, Holds(f)
  PROVE  /\ work[f] \in Contents(f)
         /\ work[f] # Absent =>
              /\ ReadFrom(f, work[f])
              /\ \A x : ReadFrom(f, x) => Older(f, x, work[f])
         /\ \A x : ReadFrom(f, x) => Older(f, x, x)
<1>1. Reached \in 1 .. remote /\ remote \in Heads
  BY ServingAssumption DEF RecomputeInv, Checkout, Heads, Reached
<1>2. /\ Reached \in Nat /\ remote \in Nat /\ Reached <= remote
      /\ 1 .. Reached \subseteq Heads
  BY <1>1, ServingAssumption DEF Heads
<1>3. work[f] \in Contents(f)
  BY <1>2 DEF Holds, Contents
<1>4. ASSUME work[f] # Absent PROVE ReadFrom(f, work[f])
  BY <1>2, <1>4 DEF Holds, ReadFrom
<1>5. ASSUME NEW x, ReadFrom(f, x) PROVE Older(f, x, x) /\ (work[f] # Absent => Older(f, x, work[f]))
  <2>1. PICK g \in 1 .. Reached :
          /\ Commit[g][f] = x
          /\ work[f] = Absent \/ \E h \in g .. Reached : work[f] = Commit[h][f]
    BY <1>5 DEF ReadFrom
  <2>2. g \in 1 .. remote /\ g \in 1 .. g
    BY <1>2
  <2>3. ASSUME NEW h \in g .. Reached PROVE h \in 1 .. remote /\ g \in 1 .. h
    BY <1>2
  <2> QED
    BY <2>1, <2>2, <2>3 DEF Older
<1> QED
  BY <1>3, <1>4, <1>5

(* A nil document set is none that a build makes.                          *)
LEMMA BuildsSome ==
  /\ \A org \in Contents("org") : NewDocs(org) # NoDocs
  /\ \A d \in Drafts, tree \in Contents("tree") : Published(d, tree) # NoDocs
<1>1. ASSUME NEW org \in Contents("org") PROVE NewDocs(org) \in Bundles
  <2>1. Absent \in Contents("topology") /\ Absent \in Contents("rows") /\ Absent \in Stamps
    BY DEF Contents, Stamps
  <2> QED
    BY <2>1 DEF NewDocs, NothingRead, Bundles
<1>2. ASSUME NEW d \in Drafts, NEW tree \in Contents("tree") PROVE Published(d, tree) \in Bundles
  <2> DEFINE S == {Absent} \cup {LoadSnapshot(s, t, c) : s \in Contents("topology"),
                                                   t \in Contents("tree"), c \in Stamps}
  <2>1. d.again \in Contents("topology") /\ d.commit \in Stamps
    BY DEF Drafts
  <2>2. LoadSnapshot(d.again, tree, d.commit) \in S
    BY <2>1
  <2>3. Bundles = [taken : Contents("topology"), commit : Stamps, rows : Contents("rows"),
                   org : Contents("org"), topology : Contents("topology"), again : S]
    BY DEF Bundles
  <2> HIDE DEF S
  <2> QED
    BY <2>2, <2>3 DEF Published, Drafts
<1> QED
  BY <1>1, <1>2, BundleAssumption

(* What has been read stays read, and in the order it was.                 *)
Onward ==
  /\ \A f \in Files : Holds(f)'
  /\ \A f \in Files : \A x : ReadFrom(f, x) => ReadFrom(f, x)'
  /\ \A f, x, y : Older(f, x, y) => Older(f, x, y)'

LEMMA PartsHaveFiles ==
  /\ DOMAIN FileOf = {"taken", "topology", "rows", "org", "commit"}
  /\ \A p \in DOMAIN FileOf : FileOf[p] \in Files
  /\ {"topology", "tree", "rows", "org"} \subseteq Files
  /\ DOMAIN NothingRead = DOMAIN FileOf \cup {"again"}
  /\ \A p \in DOMAIN FileOf \cup {"again"} : NothingRead[p] = Absent
  /\ NothingRead \in Drafts
BY InstanceAssumption DEF FileOf, NothingRead, Drafts, Contents, Stamps

LEMMA OlderStays ==
  ASSUME RecomputeInv, [InstanceNext]_ivars, NEW f, NEW x, NEW y, Older(f, x, y)
  PROVE  Older(f, x, y)'
<1>1. remote <= remote'
  BY CheckoutStep DEF RecomputeInv
<1>2. Checkout'
  BY CheckoutStep DEF RecomputeInv
<1>3. remote \in Nat /\ remote' \in Nat
  BY <1>2, ServingAssumption DEF RecomputeInv, Checkout, Heads
<1>4. 1 .. remote \subseteq 1 .. remote'
  BY <1>1, <1>3
<1> QED
  BY <1>4 DEF Older

LEMMA StepsOnward ==
  ASSUME ReadInv, [InstanceNext]_ivars
  PROVE  Onward \/ (at = "off" /\ UNCHANGED mine /\ \A f \in Files : Holds(f)')
<1>1. RecomputeInv /\ \A f \in Files : Holds(f)
  BY DEF ReadInv, Readings
<1>2. \A f, x, y : Older(f, x, y) => Older(f, x, y)'
  BY <1>1, OlderStays
<1>3. /\ \A f \in Files : Holds(f)'
      /\ \/ at = "off" /\ UNCHANGED mine
         \/ \A f \in Files : \A x : ReadFrom(f, x) => ReadFrom(f, x)'
  BY <1>1, ReadStays
<1> QED
  BY <1>2, <1>3 DEF Onward

(* A part that is dropped from the draft or kept, and shown as it was.     *)
LEMMA PartStays ==
  ASSUME Onward, NEW p \in DOMAIN FileOf, PartRead(p),
         draft'[p] \in {draft[p], Absent}, shown'[p] = shown[p]
  PROVE  PartRead(p)'
<1>1. \A t, x : ReadAs(p, t, x) => ReadAs(p, t, x)'
  BY PartsHaveFiles DEF ReadAs, Onward
<1>2. \A t, u : Older(FileOf[p], t, u) => Older(FileOf[p], t, u)'
  BY DEF Onward
<1>3. ASSUME draft'[p] # Absent PROVE draft'[p] = draft[p] /\ draft[p] # Absent
  BY <1>3
<1> QED
  BY <1>1, <1>2, <1>3 DEF PartRead

LEMMA CompiledStays ==
  ASSUME Onward, CompiledRead,
         draft'.again \in {draft.again, Absent}, shown'.again = shown.again
  PROVE  CompiledRead'
<1>1. \A t, u, s : CompiledOf(t, u, s) => CompiledOf(t, u, s)'
  BY PartsHaveFiles DEF CompiledOf, Onward
<1>2. \A t, d : Older("topology", t, d) => Older("topology", t, d)'
  BY DEF Onward
<1>3. \A d : ReadFrom("topology", d) => ReadFrom("topology", d)'
  BY PartsHaveFiles DEF Onward
<1>4. ASSUME draft'.again # Absent PROVE draft'.again = draft.again /\ draft.again # Absent
  BY <1>4
<1> QED
  BY <1>1, <1>2, <1>3, <1>4 DEF CompiledRead

(* A step of a build: the checkout is as it was, and what was read before  *)
(* is kept, or is what the file holds now.                                 *)
LEMMA ReadOrKept ==
  ASSUME ReadInv, [InstanceNext]_ivars, UNCHANGED vars, UNCHANGED shown,
         draft' \in Drafts, at' # "off", at # "off",
         \A p \in DOMAIN FileOf :
           \/ draft'[p] \in {draft[p], Absent}
           \/ work[FileOf[p]] # Absent /\ draft'[p] = PartOf(p, work[FileOf[p]]),
         draft'.again \in {draft.again, Absent, work["topology"]}
  PROVE  Readings'
<1> USE DEF ReadInv
<1>1. Onward
  BY StepsOnward
<1>2. ASSUME NEW p \in DOMAIN FileOf PROVE PartRead(p)'
  <2>1. PartRead(p) /\ shown'[p] = shown[p] /\ Holds(FileOf[p]) /\ FileOf[p] \in Files
    BY PartsHaveFiles DEF Readings
  <2>2. CASE draft'[p] \in {draft[p], Absent}
    BY <1>1, <2>1, <2>2, PartStays
  <2>3. CASE work[FileOf[p]] # Absent /\ draft'[p] = PartOf(p, work[FileOf[p]])
    <3>0. PICK u, d : u = work[FileOf[p]] /\ d = draft'[p]
      OBVIOUS
    <3>1. ReadAs(p, u, d) /\ \A t : ReadFrom(FileOf[p], t) => Older(FileOf[p], t, u)
      BY <2>1, <2>3, <3>0, ReadsNow DEF ReadAs
    <3>2. \A t, x : ReadAs(p, t, x) => ReadAs(p, t, x)'
      BY <1>1, PartsHaveFiles DEF ReadAs, Onward
    <3>3. \A t, x : Older(FileOf[p], t, x) => Older(FileOf[p], t, x)'
      BY <1>1 DEF Onward
    <3>4. \A t : ReadAs(p, t, shown[p]) => ReadFrom(FileOf[p], t)
      BY DEF ReadAs
    <3>5. ReadAs(p, u, d)'
      BY <3>1, <3>2
    <3> QED
      BY <2>1, <3>0, <3>1, <3>2, <3>3, <3>4, <3>5 DEF PartRead
  <2> QED
    BY <1>2, <2>2, <2>3
<1>3. CompiledRead'
  <2>1. CompiledRead /\ shown'.again = shown.again /\ Holds("topology") /\ "topology" \in Files
    BY PartsHaveFiles DEF Readings
  <2>2. CASE draft'.again \in {draft.again, Absent}
    BY <1>1, <2>1, <2>2, CompiledStays
  <2>3. CASE draft'.again = work["topology"] /\ work["topology"] # Absent
    <3>0. PICK d : d = work["topology"]
      OBVIOUS
    <3>1. ReadFrom("topology", d) /\ \A t : ReadFrom("topology", t) => Older("topology", t, d)
      BY <2>1, <2>3, <3>0, ReadsNow
    <3>2. \A t, u, s : CompiledOf(t, u, s) => CompiledOf(t, u, s)'
      BY <1>1, PartsHaveFiles DEF CompiledOf, Onward
    <3>3. \A t : Older("topology", t, d) => Older("topology", t, d)'
      BY <1>1 DEF Onward
    <3>4. ReadFrom("topology", d)'
      BY <1>1, <2>1, <3>1 DEF Onward
    <3>5. \A t, u, s : CompiledOf(t, u, s) => ReadFrom("topology", t)
      BY DEF CompiledOf
    <3>6. draft'.again = d
      BY <2>3, <3>0
    <3> QED
      BY <2>1, <3>1, <3>2, <3>3, <3>4, <3>5, <3>6 DEF CompiledRead
  <2> QED
    BY <2>2, <2>3
<1> QED
  BY <1>1, <1>2, <1>3 DEF Readings, Onward

(* The end of one: a part is shown as drafted or as its file holds it now, *)
(* and what is compiled last is shown if it has sources and a tree.        *)
ShownLater(p) ==
  \/ shown'[p] = shown[p]
  \/ draft[p] # Absent /\ shown'[p] = draft[p]
  \/ work[FileOf[p]] # Absent /\ shown'[p] = PartOf(p, work[FileOf[p]])

CompiledLater ==
  \/ shown'.again = shown.again
  \/ /\ draft.again # Absent /\ work["tree"] # Absent
     /\ shown'.again = LoadSnapshot(draft.again, work["tree"], shown'.again.commit)

LEMMA BuildShows ==
  ASSUME ReadInv, BuildNew \/ BuildEnds
  PROVE  \/ UNCHANGED <<vars, docs, shown>> /\ at' = "idle" /\ draft' = NothingRead
         \/ /\ UNCHANGED vars /\ at' = "idle" /\ draft' = NothingRead /\ docs' # NoDocs
            /\ DOMAIN shown' = DOMAIN shown
            /\ \A p \in DOMAIN FileOf : ShownLater(p)
            /\ CompiledLater
<1> USE DEF ReadInv
<1>0. /\ DOMAIN shown = DOMAIN FileOf \cup {"again"} /\ draft \in Drafts
      /\ \A f \in Files : Holds(f)
  BY PartsHaveFiles DEF Readings
<1>1. \A f \in Files : work[f] \in Contents(f)
  BY <1>0, ReadsNow
<1>2. CASE BuildNew /\ work["org"] = Absent
  BY <1>2 DEF BuildNew, Reads
<1>3. CASE BuildNew /\ work["org"] # Absent
  <2> DEFINE read == NewDocs(work["org"])
  <2>1. /\ UNCHANGED vars /\ at' = "idle" /\ draft' = NothingRead /\ docs' = read
        /\ shown' = [part \in DOMAIN shown |-> IF Shows(read, part) THEN read[part] ELSE shown[part]]
    BY <1>3 DEF BuildNew, Builds
  <2>2. read.org = work["org"] /\ \A p \in {"taken", "topology", "rows", "commit", "again"} : read[p] = Absent
    BY DEF NewDocs, NothingRead
  <2>3. docs' # NoDocs
    BY <1>1, <2>1, BuildsSome, PartsHaveFiles
  <2> HIDE DEF read
  <2>4. DOMAIN shown' = DOMAIN shown /\ shown'["again"] = shown["again"]
    BY <1>0, <2>1, <2>2 DEF Shows
  <2>5. ASSUME NEW p \in DOMAIN FileOf PROVE ShownLater(p)
    <3>1. CASE p = "org"
      BY <1>0, <1>3, <2>1, <2>2, <3>1 DEF ShownLater, PartOf, FileOf
    <3>2. CASE p # "org"
      <4>1. read[p] = Absent
        BY <2>2, <3>2, PartsHaveFiles
      <4> QED
        BY <1>0, <2>1, <4>1 DEF ShownLater, Shows
    <3> QED
      BY <3>1, <3>2
  <2> QED
    BY <2>1, <2>3, <2>4, <2>5 DEF CompiledLater
<1>4. CASE BuildEnds /\ Published(draft, work["tree"]).again = Refused
  BY <1>4 DEF BuildEnds, Reads
<1>5. CASE BuildEnds /\ Published(draft, work["tree"]).again # Refused
  <2> DEFINE read == Published(draft, work["tree"])
             compiled == LoadSnapshot(draft.again, work["tree"], draft.commit)
  <2>1. /\ UNCHANGED vars /\ at' = "idle" /\ draft' = NothingRead /\ docs' = read
        /\ shown' = [part \in DOMAIN shown |-> IF Shows(read, part) THEN read[part] ELSE shown[part]]
    BY <1>5 DEF BuildEnds, Builds
  <2>2. read.again = compiled /\ \A p \in DOMAIN FileOf : read[p] = draft[p]
    BY PartsHaveFiles DEF Published
  <2>3. docs' # NoDocs
    BY <1>0, <1>1, <2>1, BuildsSome, PartsHaveFiles
  <2>4. ASSUME compiled # Refused, compiled.unmatched # NoArtefact
        PROVE  draft.again # Absent /\ work["tree"] # Absent /\ compiled.commit = draft.commit
    <3>1. ~ NoTiersAuthored(draft.again)
      BY <2>4 DEF LoadSnapshot
    <3>2. Accepts(draft.again, work["tree"])
      BY <2>4, <3>1 DEF LoadSnapshot
    <3>3. Servable(Unmatched(work["tree"]))
      BY <3>2 DEF Accepts
    <3>4. compiled.commit = draft.commit
      BY <3>1, <3>2 DEF LoadSnapshot
    <3> QED
      BY <3>1, <3>3, <3>4 DEF NoTiersAuthored, Servable, Unmatched
  <2>5. compiled # Refused
    BY <1>5, <2>2
  <2>6. CompiledLater
    <3>1. CASE Shows(read, "again")
      <4>1. shown'.again = compiled /\ compiled.unmatched # NoArtefact
        BY <1>0, <2>1, <2>2, <3>1 DEF Shows
      <4> QED
        BY <2>4, <2>5, <4>1 DEF CompiledLater
    <3>2. CASE ~ Shows(read, "again")
      BY <1>0, <2>1, <3>2 DEF CompiledLater
    <3> QED
      BY <3>1, <3>2
  <2> HIDE DEF read, compiled
  <2>7. ASSUME NEW p \in DOMAIN FileOf PROVE ShownLater(p)
    <3>1. CASE Shows(read, p)
      BY <1>0, <2>1, <2>2, <3>1 DEF ShownLater, Shows
    <3>2. CASE ~ Shows(read, p)
      BY <1>0, <2>1, <3>2 DEF ShownLater
    <3> QED
      BY <3>1, <3>2
  <2> QED
    BY <2>1, <2>3, <2>6, <2>7
<1> QED
  BY <1>2, <1>3, <1>4, <1>5

LEMMA BuildKeeps ==
  ASSUME ReadInv, [InstanceNext]_ivars, BuildNew \/ BuildEnds PROVE Readings'
<1> USE DEF ReadInv
<1>1. Onward /\ at # "off" /\ at' = "idle" /\ draft' = NothingRead
  BY StepsOnward, BuildShows DEF BuildNew, BuildEnds, Reads, Builds
<1>2. CASE UNCHANGED shown
  BY <1>1, <1>2, PartStays, CompiledStays, PartsHaveFiles DEF Readings, Onward
<1>3. CASE /\ DOMAIN shown' = DOMAIN shown
           /\ \A p \in DOMAIN FileOf : ShownLater(p)
           /\ CompiledLater
  <2>1. ASSUME NEW p \in DOMAIN FileOf PROVE PartRead(p)'
    <3>1. /\ PartRead(p) /\ ShownLater(p) /\ draft'[p] = Absent
          /\ FileOf[p] \in Files /\ Holds(FileOf[p])
      BY <1>1, <1>3, PartsHaveFiles DEF Readings
    <3>2. \A t, x : ReadAs(p, t, x) => ReadAs(p, t, x)'
      BY <1>1, PartsHaveFiles DEF ReadAs, Onward
    <3>3. CASE shown'[p] = shown[p]
      BY <1>1, <3>1, <3>3, PartStays
    <3>4. CASE draft[p] # Absent /\ shown'[p] = draft[p]
      BY <3>1, <3>2, <3>4 DEF PartRead
    <3>5. CASE work[FileOf[p]] # Absent /\ shown'[p] = PartOf(p, work[FileOf[p]])
      <4>0. PICK u, x : u = work[FileOf[p]] /\ x = shown'[p]
        OBVIOUS
      <4>1. ReadAs(p, u, x)
        BY <3>1, <3>5, <4>0, ReadsNow DEF ReadAs
      <4>2. ReadAs(p, u, x)'
        BY <3>2, <4>1
      <4> QED
        BY <3>1, <4>0, <4>2 DEF PartRead
    <3> QED
      BY <3>1, <3>3, <3>4, <3>5 DEF ShownLater
  <2>2. CompiledRead'
    <3>1. CompiledRead /\ draft'.again = Absent /\ Holds("tree")
      BY <1>1, PartsHaveFiles DEF Readings
    <3>2. \A t, u, s : CompiledOf(t, u, s) => CompiledOf(t, u, s)'
      BY <1>1, PartsHaveFiles DEF CompiledOf, Onward
    <3>3. CASE shown'.again = shown.again
      BY <1>1, <3>1, <3>3, CompiledStays
    <3>4. CASE /\ draft.again # Absent /\ work["tree"] # Absent
               /\ shown'.again = LoadSnapshot(draft.again, work["tree"], shown'.again.commit)
      <4>0. PICK t, u, s : t = draft.again /\ u = work["tree"] /\ s = shown'.again
        OBVIOUS
      <4>1. CompiledOf(t, u, s)
        BY <3>1, <3>4, <4>0, ReadsNow, PartsHaveFiles DEF CompiledOf, CompiledRead
      <4>2. CompiledOf(t, u, s)'
        BY <3>2, <4>1
      <4> QED
        BY <3>1, <4>0, <4>2 DEF CompiledRead
    <3> QED
      BY <1>3, <3>3, <3>4 DEF CompiledLater
  <2> QED
    BY <1>1, <1>3, <2>1, <2>2, PartsHaveFiles DEF Readings, Onward
<1> QED
  BY <1>2, <1>3, BuildShows

LEMMA ReadingsStep ==
  ASSUME ReadInv, [InstanceNext]_ivars PROVE Readings'
<1> USE DEF ReadInv
<1>w. \A f \in Files : work[f] \in Contents(f)
  BY ReadsNow DEF Readings
<1>a. ASSUME UNCHANGED <<draft, docs, shown>>, at' = "off" => at = "off" PROVE Readings'
  <2>1. CASE at = "off" /\ UNCHANGED mine /\ \A f \in Files : Holds(f)'
    <3>1. draft' = NothingRead /\ docs' = NoDocs /\ shown' = NothingRead
      BY <2>1 DEF Readings, mine
    <3> QED
      BY <2>1, <3>1, PartsHaveFiles DEF Readings, PartRead, CompiledRead
  <2>2. CASE Onward
    BY <1>a, <2>2, PartStays, CompiledStays DEF Readings, Onward
  <2> QED
    BY <2>1, <2>2, StepsOnward
<1>b. ASSUME draft' = NothingRead, docs' = NoDocs, shown' = NothingRead PROVE Readings'
  <2>1. \A f \in Files : Holds(f)'
    BY StepsOnward DEF Onward
  <2> QED
    BY <1>b, <2>1, PartsHaveFiles DEF Readings, PartRead, CompiledRead
<1>c. ASSUME UNCHANGED <<vars, shown>>, at # "off", at' = "idle", draft' = NothingRead PROVE Readings'
  BY <1>c, ReadOrKept, PartsHaveFiles
<1>1. CASE \/ EstateStep \/ SidecarStep \/ Starts \/ PollAsks \/ Killed \/ RefreshCancelled
           \/ \E t \in Taker : SnapshotStep(t) \/ SwapStep(t) \/ LockStep(t) \/ Observe(t)
           \/ \E c \in Conn : Wire(c)
  BY <1>1, <1>a DEF EstateStep, SidecarStep, Starts, PollAsks, Killed, RefreshCancelled,
     SnapshotStep, SwapStep, LockStep, Observe, Wire, mine
<1>2. CASE Crashes \/ Halts \/ BootRefused \/ StopAlone
  BY <1>2, <1>b DEF Crashes, Halts, BootRefused, StopAlone, Forgets
<1>3. CASE \/ BootAuth \/ Tick \/ TakesNudge \/ Fetches \/ Fetched \/ Nudge \/ Quit
           \/ StopServing \/ RefreshAuth
  BY <1>3, <1>a DEF BootAuth, Tick, TakesNudge, Fetches, Fetched, Nudge, Quit, StopServing,
     RefreshAuth
<1>4. CASE BuildBegins
  <2> DEFINE d == [NothingRead EXCEPT !.taken = work["topology"]]
  <2>1. /\ UNCHANGED <<vars, shown>> /\ at # "off" /\ at' \in {"new", "stamp", "idle"}
        /\ draft' = NothingRead \/ (draft' = d /\ LoadsTopology(work["topology"]))
    BY <1>4 DEF BuildBegins, Reads
  <2>2. /\ d \in Drafts /\ d.taken = work["topology"]
        /\ \A p \in {"topology", "rows", "org", "commit", "again"} : d[p] = Absent
    BY <1>w, PartsHaveFiles DEF NothingRead, Drafts
  <2>3. LoadsTopology(work["topology"]) => work["topology"] # Absent
    BY DEF LoadsTopology
  <2> HIDE DEF d
  <2>4. CASE draft' = NothingRead
    BY <2>1, <2>4, ReadOrKept, PartsHaveFiles
  <2>5. CASE draft' = d /\ LoadsTopology(work["topology"])
    <3>1. ASSUME NEW p \in DOMAIN FileOf
          PROVE  \/ draft'[p] \in {draft[p], Absent}
                 \/ work[FileOf[p]] # Absent /\ draft'[p] = PartOf(p, work[FileOf[p]])
      BY <2>2, <2>3, <2>5, <3>1 DEF FileOf, PartOf
    <3> QED
      BY <2>1, <2>2, <2>5, <3>1, ReadOrKept
  <2> QED
    BY <2>1, <2>4, <2>5
<1>5. CASE BuildNew \/ BuildEnds
  BY <1>5, BuildKeeps
<1>6. CASE stampedCommit
  <2> DEFINE stamp == IF work["tree"] = Absent THEN Absent ELSE work["tree"].stamp
             d == [draft EXCEPT !.commit = stamp]
  <2>1. stamp \in Stamps /\ stamp \in {Absent, work["tree"].stamp}
    BY <1>w, PartsHaveFiles DEF Contents, Stamps
  <2>2. /\ UNCHANGED <<vars, shown>> /\ at # "off"
        /\ \/ at' = "rows" /\ draft' = d /\ Servable(Unmatched(work["tree"]))
           \/ at' = "idle" /\ draft' = NothingRead
    BY <1>6 DEF stampedCommit, Reads
  <2>3. Servable(Unmatched(work["tree"])) => work["tree"] # Absent /\ stamp = work["tree"].stamp
    BY DEF Servable, Unmatched
  <2> HIDE DEF stamp
  <2>4. d \in Drafts /\ d.commit = stamp /\ \A p \in {"taken", "topology", "rows", "org", "again"} : d[p] = draft[p]
    BY <2>1 DEF Readings, Drafts
  <2> HIDE DEF d
  <2>5. CASE at' = "rows" /\ draft' = d /\ Servable(Unmatched(work["tree"]))
    <3>1. ASSUME NEW p \in DOMAIN FileOf
          PROVE  \/ draft'[p] \in {draft[p], Absent}
                 \/ work[FileOf[p]] # Absent /\ draft'[p] = PartOf(p, work[FileOf[p]])
      BY <2>3, <2>4, <2>5, <3>1 DEF FileOf, PartOf
    <3> QED
      BY <2>2, <2>4, <2>5, <3>1, ReadOrKept
  <2> QED
    BY <1>c, <2>2, <2>5
<1>7. ASSUME NEW p0 \in {"rows", "org", "topology"},
             UNCHANGED <<vars, shown>>, at # "off", at' # "off", work[FileOf[p0]] # Absent,
             draft' = [draft EXCEPT ![p0] = work[FileOf[p0]]]
      PROVE  Readings'
  <2>1. FileOf[p0] = p0 /\ PartOf(p0, work[FileOf[p0]]) = work[FileOf[p0]]
    BY DEF FileOf, PartOf
  <2>2. /\ draft' \in Drafts /\ draft'[p0] = work[FileOf[p0]]
        /\ \A p \in {"taken", "topology", "rows", "org", "commit", "again"} \ {p0} : draft'[p] = draft[p]
    BY <1>7, <1>w, <2>1, PartsHaveFiles DEF Readings, Drafts
  <2>3. ASSUME NEW p \in DOMAIN FileOf
        PROVE  \/ draft'[p] \in {draft[p], Absent}
               \/ work[FileOf[p]] # Absent /\ draft'[p] = PartOf(p, work[FileOf[p]])
    BY <1>7, <2>1, <2>2, PartsHaveFiles
  <2>4. draft'.again = draft.again
    BY <2>2
  <2> QED
    BY <1>7, <2>2, <2>3, <2>4, ReadOrKept
<1>8. CASE ReadsRows \/ ReadsTeams \/ Renders
  <2>1. LoadsTopology(work["topology"]) => work["topology"] # Absent
    BY DEF LoadsTopology
  <2>2. FileOf["rows"] = "rows" /\ FileOf["org"] = "org" /\ FileOf["topology"] = "topology"
    BY DEF FileOf
  <2>3. CASE ReadsRows
    BY <1>7, <1>c, <2>2, <2>3 DEF ReadsRows, Reads
  <2>4. CASE ReadsTeams
    BY <1>7, <1>c, <2>2, <2>4 DEF ReadsTeams, Reads
  <2>5. CASE Renders
    BY <1>7, <1>c, <2>1, <2>2, <2>5 DEF Renders, Reads
  <2> QED
    BY <1>8, <2>3, <2>4, <2>5
<1>9. CASE verifyRendered \/ CompilesTopology
  <2> DEFINE e == [draft EXCEPT !.again = work["topology"]]
  <2>1. /\ {e, draft} \subseteq Drafts /\ e.again = work["topology"]
        /\ \A p \in {"taken", "topology", "rows", "org", "commit"} : e[p] = draft[p]
    BY <1>w, PartsHaveFiles DEF Readings, Drafts
  <2>2. /\ UNCHANGED <<vars, shown>> /\ at # "off"
        /\ \/ at' \in {"compile", "tree"} /\ draft' \in {e, draft}
           \/ at' = "idle" /\ draft' = NothingRead
    BY <1>9 DEF verifyRendered, CompilesTopology, Reads
  <2> HIDE DEF e
  <2>3. CASE at' \in {"compile", "tree"} /\ draft' \in {e, draft}
    BY <2>1, <2>2, <2>3, ReadOrKept, PartsHaveFiles
  <2> QED
    BY <1>c, <2>2, <2>3
<1>10. CASE UNCHANGED ivars
  BY <1>10, <1>a DEF ivars, mine
<1> QED
  BY <1>1, <1>2, <1>3, <1>4, <1>5, <1>6, <1>8, <1>9, <1>10 DEF InstanceNext, RefreshStep

LEMMA ReadInvHolds ==
  InstanceSpec => []ReadInv
<1>1. InstanceInit => Readings
  <2> SUFFICES ASSUME InstanceInit PROVE Readings
    OBVIOUS
  <2>1. 1 \in Heads /\ fetchHead = 0 /\ work \in {NoTree, Commit[1]}
    BY ServingAssumption DEF InstanceInit, Init, Heads
  <2>2. \A f \in Files : Holds(f)
    BY <2>1 DEF Holds, Reached, NoTree
  <2> QED
    BY <2>2, PartsHaveFiles DEF InstanceInit, Readings, PartRead, CompiledRead
<1>2. ReadInv /\ [InstanceNext]_ivars => Readings'
  BY ReadingsStep
<1>3. InstanceSpec => []RecomputeInv
  BY RecomputeInvHolds
<1> QED
  BY <1>1, <1>2, <1>3, PTL DEF InstanceSpec, ReadInv

(* While the process lives, its documents are never taken away, and no part*)
(* of them, whichever file it was read off, goes back to a commit older    *)
(* than the one it was last shown of: however a build interleaves with the *)
(* poll, the sidecar, kills and other builds' failures.                    *)
THEOREM DocumentsNeverRegress ==
  InstanceSpec => DocsNeverRegress
<1>1. ASSUME ReadInv, [InstanceNext]_ivars, docs # NoDocs, at' # "off"
      PROVE  UNCHANGED <<docs, shown>> \/ BuildNew \/ BuildEnds
  <2>1. CASE \/ EstateStep \/ SidecarStep \/ Starts \/ PollAsks \/ Killed \/ RefreshCancelled
             \/ \E t \in Taker : SnapshotStep(t) \/ SwapStep(t) \/ LockStep(t) \/ Observe(t)
             \/ \E c \in Conn : Wire(c)
    BY <2>1 DEF EstateStep, SidecarStep, Starts, PollAsks, Killed, RefreshCancelled,
       SnapshotStep, SwapStep, LockStep, Observe, Wire, mine
  <2>2. ~ (Crashes \/ Halts \/ BootRefused \/ StopAlone)
    BY <1>1 DEF Crashes, Halts, BootRefused, StopAlone, Forgets
  <2>3. CASE \/ BootAuth \/ Tick \/ TakesNudge \/ Fetches \/ Fetched \/ Nudge \/ Quit
             \/ StopServing
    BY <2>3 DEF BootAuth, Tick, TakesNudge, Fetches, Fetched, Nudge, Quit, StopServing
  <2>4. CASE RefreshStep
    BY <2>4 DEF RefreshStep, RefreshAuth, BuildBegins, stampedCommit, ReadsRows, ReadsTeams,
       Renders, verifyRendered, CompilesTopology, Reads
  <2>5. CASE UNCHANGED ivars
    BY <2>5 DEF ivars, mine
  <2> QED
    BY <1>1, <2>1, <2>2, <2>3, <2>4, <2>5 DEF InstanceNext
<1>2. ASSUME ReadInv, NEW p \in DOMAIN FileOf, ShownLater(p), Replaced(p)
      PROVE  GoesOn(p, shown[p], shown'[p])
  <2> USE <1>2 DEF ReadInv
  <2>1. PartRead(p) /\ FileOf[p] \in Files /\ Holds(FileOf[p])
    BY PartsHaveFiles DEF Readings
  <2>2. PICK t, u : /\ t # Absent /\ PartOf(p, t) = shown[p]
                    /\ u # Absent /\ PartOf(p, u) = shown'[p]
                    /\ Older(FileOf[p], t, u)
    <3>1. CASE draft[p] # Absent /\ shown'[p] = draft[p]
      BY <1>2, <2>1, <3>1 DEF PartRead, ReadAs, Replaced
    <3>2. CASE work[FileOf[p]] # Absent /\ shown'[p] = PartOf(p, work[FileOf[p]])
      <4>1. PICK t : ReadAs(p, t, shown[p])
        BY <1>2, <2>1 DEF PartRead, Replaced
      <4>2. Older(FileOf[p], t, work[FileOf[p]])
        BY <2>1, <3>2, <4>1, ReadsNow DEF ReadAs
      <4> QED
        BY <3>2, <4>1, <4>2 DEF ReadAs
    <3> QED
      BY <1>2, <3>1, <3>2 DEF ShownLater, Replaced
  <2>3. PICK h \in 1 .. remote : \E g \in 1 .. h :
          Commit[g][FileOf[p]] = t /\ Commit[h][FileOf[p]] = u
    BY <2>2 DEF Older
  <2> QED
    BY <2>2, <2>3 DEF GoesOn
<1>3. ASSUME ReadInv, CompiledLater, Replaced("again")
      PROVE  CompiledGoesOn(shown.again, shown'.again)
  <2> USE <1>3 DEF ReadInv
  <2>1. /\ draft.again # Absent /\ work["tree"] # Absent
        /\ shown'.again = LoadSnapshot(draft.again, work["tree"], shown'.again.commit)
    BY <1>3 DEF CompiledLater, Replaced
  <2>2. PICK t, u : CompiledOf(t, u, shown.again) /\ Older("topology", t, draft.again)
    <3>1. CompiledRead /\ shown.again # Absent
      BY DEF Readings, Replaced
    <3> QED
      BY <2>1, <3>1 DEF CompiledRead
  <2>3. Older("tree", u, work["tree"])
    BY <2>1, <2>2, ReadsNow, PartsHaveFiles DEF Readings, CompiledOf
  <2>4. PICK h \in 1 .. remote : \E g \in 1 .. h : Sources(g) = t /\ Sources(h) = draft.again
    BY <2>2 DEF Older, Sources
  <2>5. PICK j \in 1 .. remote : \E i \in 1 .. j : Tree(i) = u /\ Tree(j) = work["tree"]
    BY <2>3 DEF Older, Tree
  <2>6. shown.again = LoadSnapshot(t, u, shown.again.commit)
    BY <2>2 DEF CompiledOf
  <2> QED
    BY <2>1, <2>4, <2>5, <2>6 DEF CompiledGoesOn
<1>4. ReadInv /\ [InstanceNext]_ivars =>
        [docs # NoDocs /\ at' # "off" =>
           /\ docs' # NoDocs
           /\ \A p \in DOMAIN FileOf : Replaced(p) => GoesOn(p, shown[p], shown'[p])
           /\ Replaced("again") => CompiledGoesOn(shown.again, shown'.again)]_ivars
  <2> SUFFICES ASSUME ReadInv, [InstanceNext]_ivars, docs # NoDocs, at' # "off"
               PROVE  /\ docs' # NoDocs
                      /\ \A p \in DOMAIN FileOf : Replaced(p) => GoesOn(p, shown[p], shown'[p])
                      /\ Replaced("again") => CompiledGoesOn(shown.again, shown'.again)
    OBVIOUS
  <2>1. CASE UNCHANGED <<docs, shown>>
    BY <2>1 DEF Replaced
  <2>2. CASE BuildNew \/ BuildEnds
    <3>1. \/ UNCHANGED <<docs, shown>>
          \/ /\ docs' # NoDocs /\ CompiledLater
             /\ \A p \in DOMAIN FileOf : ShownLater(p)
      BY <2>2, BuildShows
    <3> QED
      BY <1>2, <1>3, <2>1, <3>1
  <2> QED
    BY <1>1, <2>1, <2>2
<1> QED
  BY <1>4, ReadInvHolds, PTL DEF InstanceSpec, DocsNeverRegress

-----------------------------------------------------------------------------
(* Documents of one commit.  With the OpAMP endpoint closed the goroutine  *)
(* fetches for itself, and reads a build's files only between its own      *)
(* checkouts: nobody else writes them, until Stop kills one of those.      *)

Settled == head \in Heads /\ \A f \in Files : work[f] = Commit[head][f]

OneGoroutine ==
  ~opamp =>
    /\ phase \in {"down", "starting", "up"}
    /\ pc[Poll] = "idle"
    /\ pc[Docs] # "idle" => at = "fetching"
    /\ pc[Main] \notin {"idle", "lock", "fetch", "fetched", "checkout"} => Settled
    /\ phase = "up" /\ ~quitting /\ pc[Docs] # "checkout" => Settled

(* What a build has read is what the checkout still holds.                 *)
DraftedHere ==
  /\ at = "new" => NoTiersAuthored(work["topology"])
  /\ at \in {"stamp", "rows", "teams", "render", "verify", "compile", "tree"} =>
       /\ draft.taken = work["topology"]
       /\ ~ NoTiersAuthored(work["topology"])
  /\ at \in {"rows", "teams", "render", "verify", "compile", "tree"} =>
       draft.commit = IF work["tree"] = Absent THEN Absent ELSE work["tree"].stamp
  /\ at \in {"teams", "render", "verify", "compile", "tree"} =>
       draft.rows = work["rows"] /\ draft.rows # Absent
  /\ at \in {"render", "verify", "compile", "tree"} =>
       draft.org = work["org"] /\ draft.org # Absent
  /\ at \in {"verify", "compile", "tree"} => draft.topology = work["topology"]
  /\ at \in {"compile", "tree"} => FreshRender(draft.topology, draft.commit, work["tree"])
  /\ at = "tree" => draft.again = work["topology"]

OneCommitInv ==
  /\ RecomputeInv
  /\ OneGoroutine
  /\ ~opamp /\ ~quitting => DraftedHere
  /\ DocsOfOneCommit

(* A source's step of a thread: it fetches, begins, gives up, writes or    *)
(* ends a checkout.                                                        *)
LEMMA SourceMoves ==
  ASSUME GitSourced, RecomputeInv, NEW t \in Thread, SourceStep(t)
  PROVE  /\ pc[t] \in {"fetch", "fetched", "checkout"}
         /\ \/ /\ UNCHANGED <<work, head, phase>>
               /\ pc[t] # "checkout" /\ pc' \in {[pc EXCEPT ![t] = "fetched"], [pc EXCEPT ![t] = "checkout"]}
            \/ /\ UNCHANGED <<work, head>>
               /\ pc[t] # "checkout" /\ pc' = [pc EXCEPT ![t] = "idle"]
               /\ phase' = IF t = Main THEN "down" ELSE phase
            \/ pc[t] = "checkout" /\ UNCHANGED <<pc, head, phase>>
            \/ /\ pc[t] = "checkout" /\ phase' = phase /\ Settled'
               /\ pc' = [pc EXCEPT ![t] = IF t = Sync THEN "idle" ELSE "revparse"]
<1> USE DEF dir, proc, GoTo
<1>1. CASE GitFetch(t)
  BY <1>1 DEF GitFetch, FetchesTo
<1>2. CASE GitFetchFails(t) \/ CheckoutRefused(t)
  BY <1>2 DEF GitFetchFails, CheckoutRefused, Fail, LeavesWithError
<1>3. CASE CheckoutBegins(t)
  BY <1>3 DEF CheckoutBegins
<1>4. ASSUME NEW f \in Files, CheckoutWrites(t, f)
      PROVE  pc[t] = "checkout" /\ UNCHANGED <<pc, head, phase>>
  BY <1>4 DEF CheckoutWrites, taking
<1>5. CASE CheckoutEnds(t)
  <2>1. fetchHead \in Heads
    <3>1. fetchHead \in 1 .. remote /\ remote \in 1 .. MaxHead
      BY <1>5, ServingAssumption DEF CheckoutEnds, NamesHead, RecomputeInv, Checkout, Heads
    <3> QED
      BY <3>1, ServingAssumption DEF Heads
  <2>2. head' = fetchHead /\ work' = work /\ \A f \in Files : work[f] = Commit[fetchHead][f]
    BY <1>5 DEF CheckoutEnds, NamesHead
  <2>3. Settled'
    BY <2>1, <2>2 DEF Settled
  <2> QED
    BY <1>5, <2>3 DEF CheckoutEnds, NamesHead
<1> QED
  BY <1>1, <1>2, <1>3, <1>4, <1>5 DEF SourceStep

LEMMA GoroutineStep ==
  ASSUME GitSourced, RecomputeInv, OneGoroutine, [InstanceNext]_ivars
  PROVE  OneGoroutine'
<1> SUFFICES ASSUME ~opamp, ~opamp' PROVE OneGoroutine'
  BY EndpointStays DEF OneGoroutine
<1>0. /\ phase \in {"down", "starting", "up"}
      /\ pc[Poll] = "idle" /\ pc[Sync] = "idle"
      /\ phase # "starting" => pc[Main] = "idle"
      /\ phase # "up" => at = "off" /\ pc[Docs] = "idle"
      /\ pc[Docs] # "idle" => at = "fetching"
      /\ pc[Main] \notin {"idle", "lock", "fetch", "fetched", "checkout"} => Settled
      /\ phase = "up" /\ ~quitting /\ pc[Docs] # "checkout" => Settled
      /\ pc \in [Thread -> Step]
  BY DEF OneGoroutine, RecomputeInv, Alive
<1>a. ASSUME UNCHANGED <<work, head>> PROVE Settled' <=> Settled
  BY <1>a DEF Settled
<1>b. ASSUME UNCHANGED <<work, head, phase, pc>>,
             quitting' \/ quitting' = quitting, at = "fetching" /\ pc[Docs] # "idle" => at' = at
      PROVE  OneGoroutine'
  BY <1>0, <1>a, <1>b DEF OneGoroutine
<1>1. CASE EstateStep
  BY <1>1, <1>b DEF EstateStep, Merge, Outage, mine, dir, proc, taking
<1>2. ~ (SidecarStep \/ PollAsks \/ StopServing)
  BY <1>0, SourceMoves, Threads DEF SidecarStep, Asks, PollAsks, StopServing
<1>3. CASE Starts
  <2>1. CASE Start
    <3>1. phase' = "starting" /\ pc' = [pc EXCEPT ![Main] = "fetch"] /\ UNCHANGED mine /\ phase = "down"
      BY <1>3, <2>1 DEF Starts, Start, StartsAs, GoTo, SourceEntry
    <3> QED
      BY <1>0, <3>1, Threads DEF OneGoroutine, mine
  <2>2. CASE Listen
    <3>1. /\ phase' = "up" /\ pc' = [pc EXCEPT ![Main] = "idle"] /\ UNCHANGED mine
          /\ UNCHANGED <<work, head>> /\ pc[Main] = "listen"
      BY <1>3, <2>2 DEF Starts, Listen, GoTo, dir
    <3> QED
      BY <1>0, <1>a, <3>1, Threads DEF OneGoroutine, mine
  <2> QED
    BY <1>3, <2>1, <2>2 DEF Starts
<1>4. CASE Killed \/ RefreshCancelled
  <2>1. /\ quitting /\ UNCHANGED <<work, head, phase, mine>> /\ pc' = [pc EXCEPT ![Docs] = "idle"]
    BY <1>0, <1>4, Threads
       DEF Killed, RefreshCancelled, GitKilled, Fail, LeavesWithError, GoTo, dir
  <2> QED
    BY <1>0, <1>a, <2>1, Threads DEF OneGoroutine, mine
<1>5. ASSUME NEW t \in Taker, SnapshotStep(t) PROVE OneGoroutine'
  <2>0. UNCHANGED mine /\ t \in Thread /\ t \in {Main, Poll, Docs}
    BY <1>5, Threads DEF SnapshotStep
  <2>1. CASE SourceStep(t)
    <3>0. t # Poll /\ pc[t] \in {"fetch", "fetched", "checkout"}
      BY <1>0, <2>0, <2>1, SourceMoves
    <3>1. CASE /\ UNCHANGED <<work, head, phase>> /\ pc[t] # "checkout"
               /\ pc' \in {[pc EXCEPT ![t] = "fetched"], [pc EXCEPT ![t] = "checkout"]}
      BY <1>0, <1>a, <2>0, <3>0, <3>1, Threads DEF OneGoroutine, mine
    <3>2. CASE /\ UNCHANGED <<work, head>> /\ pc[t] # "checkout"
               /\ pc' = [pc EXCEPT ![t] = "idle"]
               /\ phase' = IF t = Main THEN "down" ELSE phase
      BY <1>0, <1>a, <2>0, <3>0, <3>2, Threads DEF OneGoroutine, mine
    <3>3. CASE pc[t] = "checkout" /\ UNCHANGED <<pc, head, phase>>
      BY <1>0, <2>0, <3>0, <3>3, Threads DEF OneGoroutine, mine
    <3>4. CASE /\ pc[t] = "checkout" /\ phase' = phase /\ Settled'
               /\ pc' = [pc EXCEPT ![t] = IF t = Sync THEN "idle" ELSE "revparse"]
      BY <1>0, <2>0, <3>0, <3>4, Threads DEF OneGoroutine, mine
    <3> QED
      BY <2>0, <2>1, <3>1, <3>2, <3>3, <3>4, SourceMoves
  <2>2. CASE LoadStep(t)
    <3>1. /\ pc[t] \in {"revparse", "topology", "tree"}
          /\ UNCHANGED <<work, head>>
          /\ \/ phase' = phase /\ \E l \in {"topology", "tree", "swap"} : pc' = [pc EXCEPT ![t] = l]
             \/ /\ phase' = IF t = Main THEN "down" ELSE phase
                /\ pc' = [pc EXCEPT ![t] = "idle"]
      BY <2>2 DEF LoadStep, RevParse, LoadTopology, LoadTree, Compiles, LoadRefused, Fail,
         LeavesWithError, GoTo, dir, proc
    <3> QED
      BY <1>0, <1>a, <2>0, <3>1, Threads DEF OneGoroutine, mine
  <2> QED
    BY <1>5, <2>1, <2>2 DEF SnapshotStep
<1>6. ASSUME NEW t \in Taker, Observe(t) PROVE OneGoroutine'
  <2>1. /\ t \in {Main, Poll, Docs} /\ pc[t] = "swap" /\ UNCHANGED <<work, head, phase, mine>>
        /\ pc' = [pc EXCEPT ![t] = IF t = Main THEN "listen" ELSE "idle"]
    BY <1>6, Threads DEF Observe, GoTo, dir, proc
  <2> QED
    BY <1>0, <1>a, <2>1, Threads DEF OneGoroutine, mine
<1>7. /\ \A t \in Taker : ~ (SwapStep(t) \/ LockStep(t))
      /\ \A c \in Conn : ~ Wire(c)
  BY DEF SwapStep, LockStep, Wire
<1>8. CASE Crashes \/ Halts \/ BootRefused \/ StopAlone
  <2>1. phase' = "down" /\ pc' = [t \in Thread |-> IF t = Sync THEN pc[t] ELSE "idle"]
    BY <1>8 DEF Crashes, Halts, BootRefused, StopAlone, Crash, Stopped, Dies
  <2> QED
    BY <1>0, <2>1, Threads DEF OneGoroutine
<1>9. CASE BootAuth \/ Tick \/ TakesNudge \/ Fetched \/ Nudge \/ Quit \/ RefreshStep
  <2>1. UNCHANGED vars
    BY <1>9, RefreshStepLeavesServing DEF BootAuth, Tick, TakesNudge, Fetched, Nudge, Quit
  <2>2. /\ quitting' \/ quitting' = quitting
        /\ at = "fetching" /\ pc[Docs] # "idle" => at' = at
    BY <1>9 DEF BootAuth, Tick, TakesNudge, Fetched, Nudge, Quit, RefreshStep, RefreshAuth,
       BuildBegins, BuildNew, stampedCommit, ReadsRows, ReadsTeams, Renders, verifyRendered,
       CompilesTopology, BuildEnds, Reads, Builds
  <2>3. UNCHANGED <<work, head, phase, pc>>
    BY <2>1 DEF vars, dir, proc, taking
  <2> QED
    BY <1>b, <2>2, <2>3
<1>10. CASE Fetches
  <2>1. /\ at = "fetch" /\ at' = "fetching" /\ UNCHANGED <<work, head, phase, quitting>>
        /\ pc' = [pc EXCEPT ![Docs] = "fetch"]
    BY <1>10 DEF Fetches, GoTo, SourceEntry, dir, proc
  <2> QED
    BY <1>0, <1>a, <2>1, Threads DEF OneGoroutine
<1>11. CASE UNCHANGED ivars
  BY <1>11, <1>b DEF ivars, vars, mine, dir, proc, taking
<1> QED
  BY <1>1, <1>2, <1>3, <1>4, <1>5, <1>6, <1>7, <1>8, <1>9, <1>10, <1>11 DEF InstanceNext

(* While a build reads, the files stay.                                    *)
Building == {"new", "stamp", "rows", "teams", "render", "verify", "compile", "tree"}

LEMMA BuildsFindTheirFiles ==
  ASSUME GitSourced, RecomputeInv, OneGoroutine, ~opamp, at \in Building, [InstanceNext]_ivars
  PROVE  work' = work
<1>1. /\ \A t \in Thread : pc[t] = "idle"
      /\ phase # "down"
  BY Threads DEF Building, OneGoroutine, RecomputeInv, Alive
<1>2. ~ Start
  BY <1>1 DEF Start, StartsAs
<1>3. \A t \in Thread : ~ SourceStep(t)
  BY <1>1, SourceMoves
<1> QED
  BY <1>2, <1>3, WhoWritesTheCheckout

LEMMA DraftedHereStep ==
  ASSUME GitSourced, OneCommitInv, Checkout', ~opamp, ~quitting', [InstanceNext]_ivars
  PROVE  DraftedHere'
<1> USE DEF OneCommitInv
<1>0. at \in Building => work' = work
  BY BuildsFindTheirFiles
<1>a. ASSUME at' \notin Building PROVE DraftedHere'
  BY <1>a DEF DraftedHere, Building
<1>b. ASSUME ~quitting, at' = at, draft' = draft PROVE DraftedHere'
  <2>1. CASE at \in Building
    BY <1>0, <1>b, <2>1 DEF DraftedHere
  <2>2. CASE at \notin Building
    BY <1>a, <1>b, <2>2
  <2> QED
    BY <2>1, <2>2
<1>1. CASE \/ EstateStep \/ SidecarStep \/ Starts \/ PollAsks \/ Killed \/ RefreshCancelled
           \/ \E t \in Taker : SnapshotStep(t) \/ SwapStep(t) \/ LockStep(t) \/ Observe(t)
           \/ \E c \in Conn : Wire(c)
  BY <1>1, <1>b DEF EstateStep, SidecarStep, Starts, PollAsks, Killed, RefreshCancelled,
     SnapshotStep, SwapStep, LockStep, Observe, Wire, mine
<1>2. CASE Crashes \/ Halts \/ BootRefused \/ StopAlone
  BY <1>2, <1>a DEF Crashes, Halts, BootRefused, StopAlone, Forgets, Building
<1>3. CASE BootAuth \/ Tick \/ TakesNudge \/ Fetches \/ Fetched \/ StopServing \/ RefreshAuth
  BY <1>3, <1>a DEF BootAuth, Tick, TakesNudge, Fetches, Fetched, StopServing, RefreshAuth,
     Building
<1>4. CASE Nudge \/ Quit
  BY <1>4, <1>b DEF Nudge, Quit
<1>5. CASE RefreshStep /\ ~ RefreshAuth
  <2>0. ~quitting /\ UNCHANGED work /\ DOMAIN draft = DOMAIN NothingRead
    <3>1. quitting' = quitting
      BY <1>5 DEF RefreshStep, BuildBegins, BuildNew, stampedCommit, ReadsRows, ReadsTeams,
         Renders, verifyRendered, CompilesTopology, BuildEnds, Reads, Builds
    <3> QED
      BY <1>5, <3>1, RefreshStepLeavesServing DEF RecomputeInv, Drafted, vars, dir
  <2>1. CASE BuildBegins
    <3>1. \/ at' = "new" /\ NoTiersAuthored(work["topology"])
          \/ /\ at' = "stamp" /\ draft' = [NothingRead EXCEPT !.taken = work["topology"]]
             /\ ~ NoTiersAuthored(work["topology"])
          \/ at' = "idle"
      BY <2>1 DEF BuildBegins, Reads
    <3>2. [NothingRead EXCEPT !.taken = work["topology"]].taken = work["topology"]
      BY DEF NothingRead
    <3> QED
      BY <1>a, <2>0, <3>1, <3>2 DEF DraftedHere, Building
  <2>2. CASE BuildNew \/ BuildEnds
    BY <1>a, <2>2 DEF BuildNew, BuildEnds, Reads, Builds, Building
  <2>3. CASE stampedCommit
    BY <1>a, <2>0, <2>3 DEF stampedCommit, Reads, DraftedHere, Building, NothingRead
  <2>4. CASE ReadsRows
    BY <1>a, <2>0, <2>4 DEF ReadsRows, Reads, DraftedHere, Building, NothingRead
  <2>5. CASE ReadsTeams
    BY <1>a, <2>0, <2>5 DEF ReadsTeams, Reads, DraftedHere, Building, NothingRead
  <2>6. CASE Renders
    BY <1>a, <2>0, <2>6 DEF Renders, Reads, DraftedHere, Building, NothingRead
  <2>7. CASE verifyRendered
    BY <1>a, <2>0, <2>7 DEF verifyRendered, Reads, DraftedHere, Building
  <2>8. CASE CompilesTopology
    BY <1>a, <2>0, <2>8 DEF CompilesTopology, Reads, DraftedHere, Building, NothingRead
  <2> QED
    BY <1>5, <2>1, <2>2, <2>3, <2>4, <2>5, <2>6, <2>7, <2>8 DEF RefreshStep
<1>6. CASE UNCHANGED ivars
  BY <1>6, <1>b DEF ivars, mine
<1> QED
  BY <1>1, <1>2, <1>3, <1>4, <1>5, <1>6 DEF InstanceNext

LEMMA OneCommitStep ==
  ASSUME GitSourced, OneCommitInv, ~opamp, ~quitting', docs' # NoDocs, [InstanceNext]_ivars
  PROVE  \E h \in Heads : Buildable(h) /\ docs' = DocsAt(h)
<1> USE DEF OneCommitInv
<1>a. ASSUME docs' = docs, ~quitting PROVE \E h \in Heads : Buildable(h) /\ docs' = DocsAt(h)
  BY <1>a DEF DocsOfOneCommit
<1>1. CASE \/ EstateStep \/ SidecarStep \/ Starts \/ PollAsks \/ Killed \/ RefreshCancelled
           \/ \E t \in Taker : SnapshotStep(t) \/ SwapStep(t) \/ LockStep(t) \/ Observe(t)
           \/ \E c \in Conn : Wire(c)
  BY <1>1, <1>a DEF EstateStep, SidecarStep, Starts, PollAsks, Killed, RefreshCancelled,
     SnapshotStep, SwapStep, LockStep, Observe, Wire, mine
<1>2. ~ (Crashes \/ Halts \/ BootRefused \/ StopAlone)
  BY DEF Crashes, Halts, BootRefused, StopAlone, Forgets
<1>3. CASE \/ BootAuth \/ Tick \/ TakesNudge \/ Fetches \/ Fetched \/ Nudge \/ Quit
           \/ StopServing
  BY <1>3, <1>a DEF BootAuth, Tick, TakesNudge, Fetches, Fetched, Nudge, Quit, StopServing
<1>4. CASE RefreshStep
  <2>0. quitting' = quitting
    BY <1>4 DEF RefreshStep, RefreshAuth, BuildBegins, BuildNew, stampedCommit, ReadsRows,
       ReadsTeams, Renders, verifyRendered, CompilesTopology, BuildEnds, Reads, Builds
  <2>1. CASE docs' = docs
    BY <1>a, <2>0, <2>1
  <2>2. CASE docs' # docs
    <3>1. \/ /\ at = "new" /\ docs' = NewDocs(work["org"]) /\ work["org"] # Absent
          \/ /\ at = "tree" /\ docs' = Published(draft, work["tree"])
             /\ Published(draft, work["tree"]).again # Refused
      BY <1>4, <2>2 DEF RefreshStep, RefreshAuth, BuildBegins, BuildNew, stampedCommit, ReadsRows,
         ReadsTeams, Renders, verifyRendered, CompilesTopology, BuildEnds, Reads, Builds
    <3>2. Settled
      BY <2>0, <3>1 DEF OneGoroutine, RecomputeInv, Alive
    <3>3. /\ work["topology"] = Sources(head) /\ work["tree"] = Tree(head)
          /\ work["rows"] = Commit[head]["rows"] /\ work["org"] = Commit[head]["org"]
          /\ head \in Heads
      BY <3>2, InstanceAssumption DEF Settled, Sources, Tree
    <3>4. DraftedHere
      BY <2>0
    <3>5. CASE at = "new" /\ docs' = NewDocs(work["org"]) /\ work["org"] # Absent
      BY <3>3, <3>4, <3>5 DEF DraftedHere, Buildable, DocsAt
    <3>6. CASE /\ at = "tree" /\ docs' = Published(draft, work["tree"])
               /\ Published(draft, work["tree"]).again # Refused
      <4>1. /\ draft.taken = Sources(head) /\ draft.topology = Sources(head)
            /\ draft.again = Sources(head)
            /\ draft.rows = Commit[head]["rows"] /\ draft.rows # Absent
            /\ draft.org = Commit[head]["org"] /\ draft.org # Absent
            /\ ~ NoTiersAuthored(Sources(head))
            /\ FreshRender(Sources(head), draft.commit, Tree(head))
        BY <3>3, <3>4, <3>6 DEF DraftedHere
      <4>2. draft.commit = Tree(head).stamp
        BY <4>1 DEF FreshRender
      <4>3. docs' = DocsAt(head)
        BY <3>3, <3>6, <4>1, <4>2 DEF Published, DocsAt
      <4>4. LoadSnapshot(Sources(head), Tree(head), Tree(head).stamp) # Refused
        BY <3>3, <3>6, <4>1, <4>2 DEF Published
      <4>5. Accepts(Sources(head), Tree(head))
        BY <4>1, <4>4 DEF LoadSnapshot
      <4> QED
        BY <3>3, <4>1, <4>2, <4>3, <4>5 DEF Buildable
    <3> QED
      BY <3>1, <3>5, <3>6
  <2> QED
    BY <2>1, <2>2
<1>5. CASE UNCHANGED ivars
  BY <1>5, <1>a DEF ivars, mine
<1> QED
  BY <1>1, <1>2, <1>3, <1>4, <1>5 DEF InstanceNext

(* With the endpoint closed, the documents answered are the documents of   *)
(* one commit that has any, whatever fails and however often the process   *)
(* dies and starts over what its clone held, until Stop kills a checkout.  *)
(* A GitSource is what it takes: a sidecar writes the directory under a    *)
(* build.                                                                  *)
THEOREM DocumentsOfOneCommit ==
  ASSUME GitSourced PROVE InstanceSpec => []DocsOfOneCommit
<1>1. InstanceInit => OneGoroutine /\ DraftedHere /\ DocsOfOneCommit
  BY Threads DEF InstanceInit, Init, OneGoroutine, DraftedHere, DocsOfOneCommit
<1>2. ASSUME OneCommitInv, RecomputeInv', [InstanceNext]_ivars
      PROVE  OneGoroutine' /\ (~opamp' /\ ~quitting' => DraftedHere') /\ DocsOfOneCommit'
  <2>1. OneGoroutine' /\ opamp' = opamp
    BY <1>2, GoroutineStep, EndpointStays DEF OneCommitInv
  <2>2. ~opamp' /\ ~quitting' => DraftedHere'
    BY <1>2, <2>1, DraftedHereStep DEF RecomputeInv
  <2>3. DocsOfOneCommit'
    BY <1>2, <2>1, OneCommitStep DEF DocsOfOneCommit, Buildable, DocsAt, Sources, Tree
  <2> QED
    BY <2>1, <2>2, <2>3
<1>3. InstanceSpec => []RecomputeInv
  BY RecomputeInvHolds
<1>4. OneCommitInv /\ RecomputeInv' /\ [InstanceNext]_ivars => OneCommitInv'
  BY <1>2 DEF OneCommitInv
<1>5. RecomputeInv /\ OneGoroutine /\ DraftedHere /\ DocsOfOneCommit => OneCommitInv
  BY DEF OneCommitInv
<1>6. OneCommitInv => DocsOfOneCommit
  BY DEF OneCommitInv
<1> QED
  BY <1>1, <1>3, <1>4, <1>5, <1>6, PTL DEF InstanceSpec

=============================================================================
