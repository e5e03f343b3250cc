---------------------------- MODULE Serving_proofs ----------------------------
(***************************************************************************)
(* Proofs about Serving over a GitSource.  The inductive invariant has     *)
(* three parts: who may hold the checkout (Exclusion), what a thread knows *)
(* at each point of a fetch (Knows), and what is held once it has swapped  *)
(* (Held).                                                                 *)
(***************************************************************************)
EXTENDS Serving, Snapshot_proofs

Critical == {"fetch", "fetched", "checkout", "revparse", "topology", "tree", "swap"}
Callers  == {Poll} \cup Refresher

(* At most one thread is between fetch and swap: the callers by fetchMu,   *)
(* Main because nobody else runs while the process starts.                 *)
Exclusion ==
  /\ pc[Sync] = "idle"
  /\ pc[Main] # "lock"
  /\ pc[Main] # "idle" => phase = "starting"
  /\ phase \in {"down", "starting"} =>
       fetchMu = Free /\ \A t \in Callers : pc[t] = "idle"
  /\ \A t \in Callers : pc[t] # "listen" /\ (pc[t] \in Critical => fetchMu = t)

CheckedOut(h) == \A f \in Files : work[f] = Commit[h][f]

(* A head a thread may act on: published, and no older than what was held  *)
(* or asked for.                                                           *)
Fresh(t, h) == h \in 1 .. remote /\ newest <= h /\ asked[t] <= h

OneCommit(s) ==
  /\ s # NoSnapshot
  /\ s.commit \in Heads
  /\ s = LoadAt(s.commit)
  /\ s # Refused

(* What holds of a thread by where it stands.                              *)
Knows(t) ==
  /\ asked[t] <= remote
  /\ pc[t] \in {"fetched", "checkout"} => Fresh(t, fetchHead)
  /\ pc[t] = "revparse" => Fresh(t, head) /\ CheckedOut(head)
  /\ pc[t] \in {"topology", "tree"} => Fresh(t, label[t]) /\ CheckedOut(label[t])
  /\ pc[t] = "tree" => topo[t] = Commit[label[t]]["topology"]
  /\ pc[t] = "swap" => OneCommit(snap[t]) /\ Fresh(t, snap[t].commit)
  /\ pc[t] = "announce" =>
       /\ OneCommit(snap[t])
       /\ asked[t] <= snap[t].commit
       /\ snap[t].commit <= newest

(* What is held, and that it is there before anybody is answered.          *)
Held ==
  /\ newest <= remote
  /\ snapshot # NoSnapshot => OneCommit(snapshot) /\ snapshot.commit = newest
  /\ CommitOf(observed) \in 0 .. CommitOf(snapshot)
  /\ phase \in {"up", "stopping"} => snapshot # NoSnapshot
  /\ pc[Main] \in {"announce", "listen"} => snapshot # NoSnapshot

(* Only an open connection carries messages, and only a running process    *)
(* has connections.                                                        *)
Wired ==
  /\ open # {} => phase \in {"up", "stopping"}
  /\ \A c \in Conn : toServer[c] # NoMessage => c \in open

IInv ==
  /\ TypeOK
  /\ Exclusion
  /\ \A t \in Taker : Knows(t)
  /\ Held
  /\ Wired

-----------------------------------------------------------------------------
LEMMA LoadedCommit ==
  ASSUME NEW topology, NEW tree, NEW h, LoadSnapshot(topology, tree, h) # Refused
  PROVE  LoadSnapshot(topology, tree, h).commit = h
BY DEF LoadSnapshot

LEMMA LoadAtNotNil ==
  \A h \in Heads : LoadAt(h) # NoSnapshot
BY CommitAssumption DEF LoadAt

(* Two threads are never inside a fetch together.                          *)
LEMMA Alone ==
  ASSUME Exclusion, NEW t \in Taker, NEW u \in Taker,
         pc[t] \in Critical, pc[u] \in Critical
  PROVE  t = u
<1>1. Critical \cap {"idle", "lock", "announce", "listen"} = {}
  BY DEF Critical
<1>2. CASE t = Main \/ u = Main
  BY <1>1, <1>2 DEF Exclusion, Taker, Callers
<1>3. CASE t \in Callers /\ u \in Callers
  BY <1>3 DEF Exclusion
<1> QED
  BY <1>2, <1>3 DEF Taker, Callers

(* What a described collector is decided, while a snapshot is held.        *)
LEMMA DecisionIsABody ==
  ASSUME OneCommit(snapshot), NEW c \in Conn
  PROVE  Decision(c) \in Artefact \cup {NoArtefact}
<1>1. /\ snapshot = LoadSnapshot(Commit[snapshot.commit]["topology"],
                                 Commit[snapshot.commit]["tree"], snapshot.commit)
      /\ snapshot # Refused
      /\ WellFormed(Commit[snapshot.commit]["topology"], Commit[snapshot.commit]["tree"])
  BY CommitAssumption DEF OneCommit, LoadAt
<1>2. ASSUME NEW topology, NEW tree, WellFormed(topology, tree),
             snapshot = LoadSnapshot(topology, tree, snapshot.commit),
             snapshot # Refused
      PROVE  Match(snapshot, Identity[c]) \in Artefact \cup {NoArtefact}
  BY <1>2, EveryCollectorIsDecidedAnArtefact
<1> QED
  BY <1>1, <1>2 DEF Decision

-----------------------------------------------------------------------------
(* The initial states.                                                     *)
LEMMA InitInv ==
  ASSUME GitSourced PROVE Init => IInv
<1> SUFFICES ASSUME Init PROVE IInv
  OBVIOUS
<1> USE DEF Init
<1>1. TypeOK
  <2>1. /\ remote \in Heads
        /\ head \in 0 .. MaxHead /\ fetchHead \in 0 .. MaxHead
        /\ newest \in 0 .. MaxHead
        /\ label \in [Thread -> 0 .. MaxHead] /\ asked \in [Thread -> 0 .. MaxHead]
    BY ServingAssumption DEF Heads
  <2>2. DOMAIN work = Files /\ pc \in [Thread -> Step]
    BY DEF NoTree, Step
  <2>3. /\ toServer \in [Conn -> Report \cup {NoMessage}]
        /\ reply \in [Conn -> [full : BOOLEAN, config : Body \cup {NoOffer}] \cup {NoReply}]
        /\ agent \in [Conn -> [running : Body, hash : Body, owesFull : BOOLEAN]]
        /\ digests \in [Conn -> Body]
    BY DEF NewAgent, Body
  <2> QED
    BY <2>1, <2>2, <2>3 DEF TypeOK
<1>2. Exclusion
  BY ServingAssumption DEF Exclusion, Critical, Callers, Taker, Thread
<1>3. ASSUME NEW t \in Taker PROVE Knows(t)
  BY DEF Knows, Thread
<1>4. Held
  BY DEF Held, CommitOf, Thread, Taker
<1>5. Wired
  BY DEF Wired
<1> QED
  BY <1>1, <1>2, <1>3, <1>4, <1>5 DEF IInv

-----------------------------------------------------------------------------
(* A call that ends takes its own local variables with it and no others.   *)
LEMMA EndsItsOwn ==
  ASSUME TypeOK, NEW t, Ends(t)
  PROVE  /\ label' \in [Thread -> 0 .. MaxHead]
         /\ DOMAIN topo' = Thread /\ DOMAIN snap' = Thread
         /\ asked' = asked
         /\ \A u \in Thread \ {t} :
              label'[u] = label[u] /\ topo'[u] = topo[u] /\ snap'[u] = snap[u]
<1>1. 0 \in 0 .. MaxHead
  BY ServingAssumption
<1> QED
  BY <1>1 DEF Ends, TypeOK

(* The type invariant.                                                     *)
LEMMA TypeStep ==
  ASSUME GitSourced, IInv, [Next]_vars PROVE TypeOK'
<1>0. TypeOK /\ Held /\ Wired /\ Exclusion
  BY DEF IInv
<1> USE <1>0, ServingAssumption DEF TypeOK, repo, dir, proc, locals, taking, holding, wire
<1>1. CASE Merge
  BY <1>1 DEF Merge, Heads
<1>2. CASE Outage
  BY <1>2 DEF Outage
<1>3. ASSUME NEW t \in Thread, SourceStep(t) PROVE TypeOK'
  <2>1. CASE GitFetch(t)
    BY <2>1 DEF GitFetch, FetchesTo, GoTo, Step, Heads
  <2>2. CASE GitFetchFails(t)
    BY <2>2, EndsItsOwn DEF GitFetchFails, Fail, LeavesWithError, GoTo, Step
  <2>3. CASE CheckoutBegins(t)
    BY <2>3 DEF CheckoutBegins, GoTo, Step
  <2>4. CASE CheckoutRefused(t)
    BY <2>4, EndsItsOwn DEF CheckoutRefused, Fail, LeavesWithError, GoTo, Step
  <2>5. ASSUME NEW f \in Files, CheckoutWrites(t, f) PROVE TypeOK'
    BY <2>5 DEF CheckoutWrites
  <2>6. CASE CheckoutEnds(t)
    BY <2>6 DEF CheckoutEnds, NamesHead, GoTo, Step
  <2> QED
    BY <1>3, <2>1, <2>2, <2>3, <2>4, <2>5, <2>6 DEF SourceStep
<1>4. ASSUME NEW t \in Taker, LoadStep(t) PROVE TypeOK'
  <2>1. CASE RevParse(t)
    BY <1>4, <2>1 DEF RevParse, Names, GoTo, Step, Thread
  <2>2. CASE LoadTopology(t)
    BY <1>4, <2>2 DEF LoadTopology, GoTo, Step, Thread
  <2>3. CASE LoadTree(t)
    BY <1>4, <2>3 DEF LoadTree, Compiles, GoTo, Step, Thread
  <2>4. CASE LoadRefused(t)
    BY <1>4, <2>4, EndsItsOwn DEF LoadRefused, Fail, LeavesWithError, GoTo, Step, Thread
  <2> QED
    BY <1>4, <2>1, <2>2, <2>3, <2>4 DEF LoadStep
<1>5. ASSUME NEW t \in Taker, Swap(t) PROVE TypeOK'
  <2>1. CommitOf(snap[t]) \in Heads
    BY <1>5 DEF Swap, IInv, Knows, OneCommit, CommitOf
  <2> QED
    BY <1>5, <2>1 DEF Swap, GoTo, Step, Thread, Heads
<1>6. ASSUME NEW t \in Taker, Announce(t) PROVE TypeOK'
  BY <1>6, EndsItsOwn DEF Announce, GoTo, Step, Thread
<1>7. ASSUME NEW t \in Taker, Asks(t) \/ Lock(t) \/ GitKilled(t) PROVE TypeOK'
  <2>1. CASE Asks(t)
    BY <1>7, <2>1 DEF Asks, GoTo, Step, Thread, Heads
  <2>2. CASE Lock(t)
    BY <1>7, <2>2 DEF Lock, EntersSource, GoTo, Step, SourceEntry, Thread
  <2>3. CASE GitKilled(t)
    BY <1>7, <2>3, EndsItsOwn DEF GitKilled, Fail, LeavesWithError, GoTo, Step, Thread
  <2> QED
    BY <1>7, <2>1, <2>2, <2>3
<1>8. CASE Asks(Sync)
  BY <1>8 DEF Asks
<1>9. CASE Start
  <2>1. /\ DOMAIN work' = Files
        /\ head' \in 0 .. MaxHead /\ fetchHead' \in 0 .. MaxHead
        /\ indexLock' \in BOOLEAN
    <3>1. CASE GitSourced /\ ~KeepsCache
      <4>1. work' = NoTree /\ head' = 0 /\ fetchHead' = 0 /\ indexLock' = FALSE
        BY <1>9, <3>1 DEF Start, StartsAs
      <4>2. DOMAIN NoTree = Files
        BY DEF NoTree
      <4>3. DOMAIN work' = Files
        BY <4>1, <4>2, Zenon
      <4>4. 0 \in 0 .. MaxHead
        OBVIOUS
      <4> QED
        BY <4>1, <4>3, <4>4
    <3>2. CASE ~ (GitSourced /\ ~KeepsCache)
      BY <1>9, <3>2 DEF Start, StartsAs
    <3> QED
      BY <3>1, <3>2
  <2>2. /\ asked' \in [Thread -> 0 .. MaxHead]
        /\ pc' \in [Thread -> Step]
    <3>1. SourceEntry \in Step
      BY DEF SourceEntry, Step
    <3>2. remote \in 0 .. MaxHead
      BY DEF Heads
    <3>3. /\ asked' = [asked EXCEPT ![Main] = remote]
          /\ pc' = [pc EXCEPT ![Main] = SourceEntry]
      BY <1>9 DEF Start, StartsAs, GoTo
    <3> QED
      BY <3>1, <3>2, <3>3
  <2> QED
    BY <1>9, <2>1, <2>2 DEF Start, StartsAs
<1>10. CASE Listen
  BY <1>10 DEF Listen, GoTo, Step, Thread, Taker
<1>11. CASE Crash \/ Stopped
  <2>1. /\ Dies
    BY <1>11 DEF Crash, Stopped
  <2>2. agent' \in [Conn -> [running : Body, hash : Body, owesFull : BOOLEAN]]
    BY <2>1 DEF Dies
  <2> QED
    BY <2>1, <2>2 DEF Dies, Step, Taker, Body
<1>12. CASE Stop
  BY <1>12 DEF Stop
<1>13. ASSUME NEW c \in Conn, WireStep(c) PROVE TypeOK'
  <2>1. CASE Connect(c)
    BY <1>13, <2>1 DEF Connect
  <2>2. CASE OnConnectionClose(c)
    BY <1>13, <2>2 DEF OnConnectionClose, Body
  <2>3. CASE AgentReports(c)
    <3>1. agent' \in [Conn -> [running : Body, hash : Body, owesFull : BOOLEAN]]
      BY <1>13, <2>3 DEF AgentReports
    <3>2. agent[c].running \in Body /\ agent[c].hash \in Body /\ agent[c].owesFull \in BOOLEAN
      BY <1>13
    <3>3. PICK carries \in {agent[c].owesFull, TRUE} :
            toServer' = [toServer EXCEPT ![c] =
              [desc      |-> agent[c].owesFull,
               effective |-> IF carries THEN agent[c].running ELSE NoArtefact,
               hash      |-> agent[c].hash]]
      BY <2>3 DEF AgentReports
    <3>4. toServer' \in [Conn -> Report \cup {NoMessage}]
      BY <1>13, <3>2, <3>3 DEF Report, Body
    <3> QED
      BY <2>3, <3>1, <3>4 DEF AgentReports
  <2>4. CASE AgentApplies(c)
    BY <1>13, <2>4 DEF AgentApplies
  <2>5. CASE OnUndescribed(c)
    BY <1>13, <2>5 DEF OnUndescribed, AnswersUndescribed
  <2>6. CASE OnDescribed(c)
    <3>1. Decision(c) \in Artefact \cup {NoArtefact}
      BY <1>13, <2>6, DecisionIsABody DEF OnDescribed, Wired, Held
    <3>2. toServer[c] \in Report
      BY <1>13, <2>6 DEF OnDescribed
    <3> QED
      BY <1>13, <2>6, <3>1, <3>2 DEF OnDescribed, Report, Body, File
  <2> QED
    BY <1>13, <2>1, <2>2, <2>3, <2>4, <2>5, <2>6 DEF WireStep
<1>14. CASE UNCHANGED vars
  BY <1>14 DEF vars
<1> QED
  BY <1>1, <1>2, <1>3, <1>4, <1>5, <1>6, <1>7, <1>8, <1>9, <1>10, <1>11, <1>12,
     <1>13, <1>14 DEF Next, TakerStep, Thread

-----------------------------------------------------------------------------
(* The actions of a fetch move one thread and let go of the mutex only     *)
(* where they leave the fetch.                                             *)
LEMMA ExclusionStep ==
  ASSUME GitSourced, IInv, [Next]_vars PROVE Exclusion'
<1>0. TypeOK /\ Exclusion
  BY DEF IInv
<1>a. ASSUME NEW t \in Taker, NEW l \in Step \ {"lock", "listen"},
             pc[t] # "idle", l # "idle", pc[t] \in Critical \/ l \notin Critical,
             GoTo(t, l), UNCHANGED <<fetchMu, phase>>
      PROVE  Exclusion'
  BY <1>0, <1>a, ServingAssumption DEF TypeOK, Exclusion, Callers, Taker, Thread, GoTo, Critical, Step
<1>b. ASSUME NEW t \in Taker, Fail(t), pc[t] \in Critical
      PROVE  Exclusion'
  <2>1. CASE t = Main
    BY <1>0, <1>b, <2>1, ServingAssumption
       DEF TypeOK, Exclusion, Callers, Taker, Thread, GoTo, Critical, Fail, LeavesWithError
  <2>2. CASE t \in Callers
    BY <1>0, <1>b, <2>2, ServingAssumption
       DEF TypeOK, Exclusion, Callers, Taker, Thread, GoTo, Critical, Fail, LeavesWithError
  <2> QED
    BY <2>1, <2>2 DEF Taker, Callers
<1>c. ASSUME UNCHANGED <<phase, fetchMu, pc>> PROVE Exclusion'
  BY <1>0, <1>c DEF Exclusion
<1>1. CASE Merge \/ Outage
  BY <1>1, <1>c DEF Merge, Outage, proc, taking
<1>2. ASSUME NEW t \in Taker, SourceStep(t) PROVE Exclusion'
  <2>1. CASE GitFetch(t)
    BY <2>1, <1>a DEF GitFetch, FetchesTo, Critical, Step, proc
  <2>2. CASE GitFetchFails(t)
    BY <2>2, <1>b DEF GitFetchFails, Critical
  <2>3. CASE CheckoutBegins(t)
    BY <2>3, <1>a DEF CheckoutBegins, Critical, Step, proc
  <2>4. CASE CheckoutRefused(t)
    BY <2>4, <1>b DEF CheckoutRefused, Critical
  <2>5. ASSUME NEW f \in Files, CheckoutWrites(t, f) PROVE Exclusion'
    BY <2>5, <1>c DEF CheckoutWrites, proc, taking
  <2>6. CASE CheckoutEnds(t)
    BY <2>6, <1>a, ServingAssumption DEF CheckoutEnds, NamesHead, Critical, Step, proc
  <2> QED
    BY <1>2, <2>1, <2>2, <2>3, <2>4, <2>5, <2>6 DEF SourceStep
<1>3. ASSUME NEW t \in Taker, LoadStep(t) \/ GitKilled(t) PROVE Exclusion'
  <2>1. CASE RevParse(t)
    BY <2>1, <1>a DEF RevParse, Names, Critical, Step, proc
  <2>2. CASE LoadTopology(t)
    BY <2>2, <1>a DEF LoadTopology, Critical, Step, proc
  <2>3. CASE LoadTree(t)
    BY <2>3, <1>a DEF LoadTree, Compiles, Critical, Step, proc
  <2>4. CASE LoadRefused(t) \/ GitKilled(t)
    BY <2>4, <1>b DEF LoadRefused, GitKilled, Critical
  <2> QED
    BY <1>3, <2>1, <2>2, <2>3, <2>4 DEF LoadStep
<1>4. ASSUME NEW t \in Taker, Swap(t) PROVE Exclusion'
  BY <1>0, <1>4, ServingAssumption
     DEF Swap, proc, TypeOK, Exclusion, Callers, Taker, Thread, GoTo, Critical
<1>5. ASSUME NEW t \in Taker, Announce(t) PROVE Exclusion'
  BY <1>0, <1>5, ServingAssumption
     DEF Announce, proc, TypeOK, Exclusion, Callers, Taker, Thread, GoTo, Critical
<1>6. ASSUME NEW t \in Taker, Asks(t) PROVE Exclusion'
  BY <1>0, <1>6, ServingAssumption
     DEF Asks, proc, TypeOK, Exclusion, Callers, Taker, Thread, GoTo, Critical
<1>7. ASSUME NEW t \in Taker, Lock(t) PROVE Exclusion'
  BY <1>0, <1>7, ServingAssumption
     DEF Lock, EntersSource, SourceEntry, proc, TypeOK, Exclusion, Callers, Taker, Thread, GoTo, Critical
<1>8. CASE Asks(Sync) \/ SourceStep(Sync)
  <2>1. ~ Asks(Sync)
    BY DEF Asks
  <2>2. ~ SourceStep(Sync)
    BY <1>0 DEF Exclusion, SourceStep, GitFetch, FetchesTo, GitFetchFails, CheckoutBegins,
       CheckoutRefused, CheckoutWrites, CheckoutEnds, NamesHead
  <2> QED
    BY <1>8, <2>1, <2>2
<1>9. CASE Start
  BY <1>0, <1>9, ServingAssumption
     DEF Start, StartsAs, SourceEntry, TypeOK, Exclusion, Callers, Taker, Thread, GoTo, Critical
<1>10. CASE Listen
  BY <1>0, <1>10, ServingAssumption
     DEF Listen, TypeOK, Exclusion, Callers, Taker, Thread, GoTo, Critical
<1>11. CASE Crash \/ Stopped
  BY <1>0, <1>11, ServingAssumption
     DEF Crash, Stopped, Dies, Exclusion, Callers, Taker, Thread, Critical
<1>12. CASE Stop
  BY <1>0, <1>12 DEF Stop, taking, Exclusion
<1>13. ASSUME NEW c \in Conn, WireStep(c) PROVE Exclusion'
  BY <1>13, <1>c DEF WireStep, Connect, OnConnectionClose, AgentReports, AgentApplies,
     OnUndescribed, AnswersUndescribed, OnDescribed, proc, taking
<1>14. CASE UNCHANGED vars
  BY <1>14, <1>c DEF vars, proc, taking
<1> QED
  BY <1>1, <1>2, <1>3, <1>4, <1>5, <1>6, <1>7, <1>8, <1>9, <1>10, <1>11, <1>12,
     <1>13, <1>14 DEF Next, TakerStep

-----------------------------------------------------------------------------
(* What a thread knows outlives the steps of others: inside a fetch it is  *)
(* alone with the checkout, and outside one newer heads do it no harm.     *)
LEMMA Frame ==
  ASSUME TypeOK, TypeOK', NEW u \in Taker, Knows(u),
         pc'[u] = pc[u], label'[u] = label[u], topo'[u] = topo[u],
         snap'[u] = snap[u], asked'[u] = asked[u],
         remote <= remote', newest <= newest',
         pc[u] \in Critical =>
           /\ newest' = newest /\ fetchHead' = fetchHead /\ head' = head
           /\ work' = work
  PROVE  Knows(u)'
<1>1. u \in Thread
  BY DEF Thread
<1>2. asked[u] \in Nat /\ remote \in Nat /\ newest \in Nat /\ remote' \in Nat /\ newest' \in Nat
  BY <1>1, ServingAssumption DEF TypeOK, Heads
<1>3. asked'[u] <= remote'
  BY <1>2 DEF Knows
<1>4. CASE pc[u] \in {"fetched", "checkout"}
  BY <1>1, <1>2, <1>3, <1>4 DEF Knows, Fresh, Critical
<1>5. CASE pc[u] = "revparse"
  <2>1. Fresh(u, head)'
    BY <1>1, <1>2, <1>5 DEF Knows, Fresh, Critical
  <2>2. CheckedOut(head)'
    BY <1>5 DEF Knows, CheckedOut, Critical
  <2> QED
    BY <1>3, <1>5, <2>1, <2>2 DEF Knows
<1>6. CASE pc[u] \in {"topology", "tree"}
  <2>1. Fresh(u, label[u])'
    BY <1>1, <1>2, <1>6 DEF Knows, Fresh, Critical
  <2>2. CheckedOut(label[u])'
    BY <1>6 DEF Knows, CheckedOut, Critical
  <2> QED
    BY <1>3, <1>6, <2>1, <2>2 DEF Knows
<1>7. CASE pc[u] = "swap"
  BY <1>1, <1>2, <1>3, <1>7 DEF Knows, Fresh, Critical, OneCommit
<1>8. CASE pc[u] = "announce"
  <2>1. snap[u].commit \in Nat
    BY <1>8 DEF Knows, OneCommit, Heads
  <2> QED
    BY <1>2, <1>3, <1>8, <2>1 DEF Knows
<1>9. CASE pc[u] \notin {"fetched", "checkout", "revparse", "topology", "tree", "swap", "announce"}
  BY <1>3, <1>9 DEF Knows
<1> QED
  BY <1>4, <1>5, <1>6, <1>7, <1>8, <1>9

LEMMA KnowsStep ==
  ASSUME GitSourced, IInv, [Next]_vars PROVE \A u \in Taker : Knows(u)'
<1>0. /\ TypeOK /\ TypeOK' /\ Exclusion /\ Held
      /\ \A u \in Taker : Knows(u)
  BY TypeStep DEF IInv
<1>n. /\ remote \in Nat /\ newest \in Nat /\ fetchHead \in Nat /\ head \in Nat
      /\ \A u \in Taker : u \in Thread /\ asked[u] \in Nat /\ label[u] \in Nat
  <2>1. MaxHead \in Nat
    BY ServingAssumption
  <2>2. /\ remote \in Heads /\ newest \in 0 .. MaxHead
        /\ fetchHead \in 0 .. MaxHead /\ head \in 0 .. MaxHead
        /\ asked \in [Thread -> 0 .. MaxHead] /\ label \in [Thread -> 0 .. MaxHead]
    BY <1>0 DEF TypeOK
  <2> QED
    BY <2>1, <2>2 DEF Heads, Thread
<1>a. ASSUME UNCHANGED <<work, head, fetchHead, taking, newest>>, remote <= remote'
      PROVE  \A u \in Taker : Knows(u)'
  <2>1. UNCHANGED <<pc, label, topo, snap, asked, work, head, fetchHead, newest>>
    BY <1>a DEF taking, locals
  <2>2. newest <= newest'
    BY <1>n, <2>1
  <2> QED
    BY <1>0, <1>a, <2>1, <2>2, Frame
<1>b. ASSUME NEW t \in Taker, NEW l \in Step,
             pc[t] \in Critical, GoTo(t, l),
             remote' = remote, newest <= newest',
             \A u \in Taker \ {t} : /\ label'[u] = label[u] /\ topo'[u] = topo[u]
                                    /\ snap'[u] = snap[u] /\ asked'[u] = asked[u]
      PROVE  \A u \in Taker \ {t} : Knows(u)'
  <2> TAKE u \in Taker \ {t}
  <2>1. pc[u] \notin Critical
    BY <1>0, <1>b, Alone
  <2>2. pc'[u] = pc[u]
    BY <1>0, <1>b, <1>n DEF GoTo, TypeOK
  <2> QED
    BY <1>0, <1>b, <1>n, <2>1, <2>2, Frame
<1>c. ASSUME NEW t \in Taker, pc[t] \in Critical, Fail(t), UNCHANGED <<remote, newest>>
      PROVE  \A u \in Taker : Knows(u)'
  <2>1. \A u \in Taker \ {t} : Knows(u)'
    BY <1>0, <1>c, <1>b, <1>n, EndsItsOwn DEF Fail, LeavesWithError, Step, Taker, Thread
  <2>2. pc'[t] = "idle" /\ asked'[t] <= remote'
    BY <1>0, <1>c, <1>n, EndsItsOwn DEF Fail, LeavesWithError, GoTo, TypeOK, Knows
  <2> QED
    BY <2>1, <2>2 DEF Knows
<1>1. CASE Merge \/ Outage
  BY <1>1, <1>n, <1>a DEF Merge, Outage, dir, holding
<1>2. ASSUME NEW t \in Taker, SourceStep(t) PROVE \A u \in Taker : Knows(u)'
  <2>1. CASE GitFetch(t)
    <3>1. \A u \in Taker \ {t} : Knows(u)'
      BY <2>1, <1>b, <1>n DEF GitFetch, FetchesTo, Critical, Step, locals, repo, holding
    <3>2. pc'[t] = "fetched" /\ fetchHead' = remote /\ asked'[t] = asked[t]
      BY <1>0, <2>1, <1>n DEF GitFetch, FetchesTo, GoTo, TypeOK, locals
    <3>3. Fresh(t, fetchHead)' /\ asked'[t] <= remote'
      BY <1>0, <1>n, <2>1, <3>2 DEF GitFetch, FetchesTo, Fresh, Held, Knows, TypeOK, Heads, repo, holding
    <3> QED
      BY <3>1, <3>2, <3>3 DEF Knows
  <2>2. CASE GitFetchFails(t) \/ CheckoutRefused(t)
    BY <2>2, <1>c DEF GitFetchFails, CheckoutRefused, Critical, repo, holding
  <2>3. CASE CheckoutBegins(t)
    <3>1. \A u \in Taker \ {t} : Knows(u)'
      BY <2>3, <1>b, <1>n DEF CheckoutBegins, Critical, Step, locals, repo, holding
    <3>2. pc'[t] = "checkout" /\ UNCHANGED <<fetchHead, remote, newest, asked>>
      BY <1>0, <2>3, <1>n DEF CheckoutBegins, GoTo, TypeOK, locals, repo, holding
    <3>3. Fresh(t, fetchHead) /\ asked[t] <= remote
      BY <1>0, <2>3 DEF CheckoutBegins, Knows
    <3> QED
      BY <3>1, <3>2, <3>3 DEF Knows, Fresh
  <2>4. ASSUME NEW f \in Files, CheckoutWrites(t, f) PROVE \A u \in Taker : Knows(u)'
    <3>1. pc[t] = "checkout" /\ UNCHANGED <<pc, label, topo, snap, asked, newest, remote, fetchHead, head>>
      BY <2>4 DEF CheckoutWrites, taking, locals, repo, holding
    <3>2. \A u \in Taker \ {t} : Knows(u)'
      BY <1>0, <1>n, <3>1, Alone, Frame DEF Critical
    <3>3. Knows(t)'
      BY <1>0, <3>1 DEF Knows, Fresh
    <3> QED
      BY <3>2, <3>3
  <2>5. CASE CheckoutEnds(t)
    <3>1. \A u \in Taker \ {t} : Knows(u)'
      BY <2>5, <1>b, <1>n, ServingAssumption
         DEF CheckoutEnds, NamesHead, Critical, Step, locals, repo, holding
    <3>2. /\ pc'[t] = "revparse" /\ head' = fetchHead
          /\ UNCHANGED <<work, remote, newest, asked>>
      BY <1>0, <2>5, <1>n, ServingAssumption
         DEF CheckoutEnds, NamesHead, GoTo, TypeOK, locals, repo, holding
    <3>3. Fresh(t, fetchHead) /\ asked[t] <= remote /\ CheckedOut(fetchHead)
      BY <1>0, <2>5 DEF CheckoutEnds, NamesHead, Knows, CheckedOut
    <3> QED
      BY <3>1, <3>2, <3>3 DEF Knows, Fresh, CheckedOut
  <2> QED
    BY <1>2, <2>1, <2>2, <2>3, <2>4, <2>5 DEF SourceStep
<1>3. ASSUME NEW t \in Taker, LoadStep(t) \/ GitKilled(t) PROVE \A u \in Taker : Knows(u)'
  <2>1. CASE RevParse(t)
    <3>1. /\ \A u \in Taker \ {t} : label'[u] = label[u]
          /\ label'[t] = head /\ pc'[t] = "topology"
          /\ UNCHANGED <<work, topo, snap, asked, newest, remote>>
      BY <1>0, <1>n, <2>1 DEF RevParse, Names, GoTo, TypeOK, dir, repo, holding
    <3>2. \A u \in Taker \ {t} : Knows(u)'
      BY <2>1, <3>1, <1>b, <1>n DEF RevParse, Names, Critical, Step
    <3>3. Fresh(t, head) /\ asked[t] <= remote /\ CheckedOut(head)
      BY <1>0, <2>1 DEF RevParse, Names, Knows
    <3> QED
      BY <3>1, <3>2, <3>3 DEF Knows, Fresh, CheckedOut
  <2>2. CASE LoadTopology(t)
    <3>1. /\ \A u \in Taker \ {t} : topo'[u] = topo[u]
          /\ pc'[t] = "tree"
          /\ UNCHANGED <<work, label, snap, asked, newest, remote>>
      BY <1>0, <1>n, <2>2 DEF LoadTopology, GoTo, TypeOK, dir, repo, holding
    <3>2. \A u \in Taker \ {t} : Knows(u)'
      BY <2>2, <3>1, <1>b, <1>n DEF LoadTopology, Critical, Step
    <3>3. Fresh(t, label[t]) /\ asked[t] <= remote /\ CheckedOut(label[t])
      BY <1>0, <2>2 DEF LoadTopology, Knows
    <3>4. topo'[t] = Commit[label[t]]["topology"]
      <4>1. t \in DOMAIN topo
        BY <1>0, <1>n DEF TypeOK
      <4> QED
        BY <2>2, <3>3, <4>1, ServingAssumption DEF LoadTopology, CheckedOut
    <3> QED
      BY <3>1, <3>2, <3>3, <3>4 DEF Knows, Fresh, CheckedOut
  <2>3. CASE LoadTree(t)
    <3>1. /\ \A u \in Taker \ {t} : snap'[u] = snap[u]
          /\ pc'[t] = "swap" /\ snap'[t] = Compiled(t)
          /\ UNCHANGED <<label, topo, asked, newest, remote>>
      BY <1>0, <1>n, <2>3 DEF LoadTree, Compiles, GoTo, TypeOK, dir, repo, holding
    <3>2. \A u \in Taker \ {t} : Knows(u)'
      BY <2>3, <3>1, <1>b, <1>n DEF LoadTree, Compiles, Critical, Step
    <3>3. Fresh(t, label[t]) /\ asked[t] <= remote
      BY <1>0, <2>3 DEF LoadTree, Compiles, Knows
    <3>4. label[t] \in Heads /\ Compiled(t) = LoadAt(label[t]) /\ Compiled(t) # Refused
      <4>1. /\ topo[t] = Commit[label[t]]["topology"]
            /\ work["tree"] = Commit[label[t]]["tree"]
        BY <1>0, <2>3, ServingAssumption DEF LoadTree, Compiles, Knows, CheckedOut
      <4>2. label[t] \in Heads
        BY <1>0, <1>n, <3>3, ServingAssumption DEF Fresh, Heads, TypeOK
      <4> QED
        BY <2>3, <4>1, <4>2 DEF LoadTree, Compiles, Compiled, LoadAt
    <3>5. Compiled(t).commit = label[t]
      BY <3>4, LoadedCommit DEF LoadAt
    <3>6. OneCommit(snap'[t]) /\ snap'[t].commit = label[t]
      BY <3>1, <3>4, <3>5, LoadAtNotNil DEF OneCommit
    <3> QED
      BY <3>1, <3>2, <3>3, <3>6 DEF Knows, Fresh
  <2>4. CASE LoadRefused(t) \/ GitKilled(t)
    BY <2>4, <1>c DEF LoadRefused, GitKilled, Critical, repo, holding
  <2> QED
    BY <1>3, <2>1, <2>2, <2>3, <2>4 DEF LoadStep
<1>4. ASSUME NEW t \in Taker, Swap(t) PROVE \A u \in Taker : Knows(u)'
  <2>1. /\ OneCommit(snap[t]) /\ snap[t].commit \in Nat /\ asked[t] <= snap[t].commit
        /\ asked[t] <= remote
    BY <1>0, <1>4 DEF Swap, Knows, Fresh, OneCommit, Heads
  <2>2. newest <= newest' /\ snap[t].commit <= newest'
    BY <1>4, <1>n, <2>1 DEF Swap, CommitOf, OneCommit
  <2>3. \A u \in Taker \ {t} : Knows(u)'
    BY <1>4, <2>2, <1>b DEF Swap, Critical, Step, locals, repo
  <2>4. pc'[t] = "announce" /\ UNCHANGED <<snap, asked, remote>>
    BY <1>0, <1>4, <1>n DEF Swap, GoTo, TypeOK, locals, repo
  <2> QED
    BY <2>1, <2>2, <2>3, <2>4 DEF Knows
<1>5. ASSUME NEW t \in Taker, Announce(t) \/ Asks(t) \/ Lock(t)
      PROVE  \A u \in Taker : Knows(u)'
  <2>1. /\ \A u \in Taker \ {t} :
             /\ pc'[u] = pc[u] /\ asked'[u] = asked[u]
             /\ label'[u] = label[u] /\ topo'[u] = topo[u] /\ snap'[u] = snap[u]
        /\ pc'[t] \in {"idle", "listen", "lock", "fetch"}
        /\ asked'[t] \in {asked[t], remote}
        /\ UNCHANGED <<work, head, fetchHead, newest, remote>>
    BY <1>0, <1>5, <1>n, EndsItsOwn
       DEF Announce, Asks, Lock, EntersSource, SourceEntry, GoTo, TypeOK, locals, repo, dir, holding
  <2>2. \A u \in Taker \ {t} : Knows(u)'
    BY <1>0, <1>n, <2>1, Frame
  <2>3. asked'[t] <= remote'
    BY <1>0, <1>n, <2>1 DEF Knows
  <2> QED
    BY <2>1, <2>2, <2>3 DEF Knows
<1>6. CASE Asks(Sync) \/ SourceStep(Sync)
  <2>1. ~ Asks(Sync)
    BY DEF Asks
  <2>2. ~ SourceStep(Sync)
    BY <1>0 DEF Exclusion, SourceStep, GitFetch, FetchesTo, GitFetchFails, CheckoutBegins,
       CheckoutRefused, CheckoutWrites, CheckoutEnds, NamesHead
  <2> QED
    BY <1>6, <2>1, <2>2
<1>7. CASE Start
  <2>1. /\ \A u \in Callers : pc'[u] = "idle" /\ asked'[u] = asked[u]
        /\ pc'[Main] = "fetch" /\ asked'[Main] = remote /\ remote' = remote
    BY <1>0, <1>7, <1>n, ServingAssumption
       DEF Start, StartsAs, GoTo, SourceEntry, Exclusion, Callers, Taker, TypeOK, repo
  <2> QED
    BY <1>0, <1>n, <2>1 DEF Knows, Taker, Callers
<1>8. CASE Listen
  <2>1. /\ \A u \in Taker \ {Main} : pc'[u] = pc[u]
        /\ pc'[Main] = "idle"
        /\ UNCHANGED <<work, head, fetchHead, label, topo, snap, asked, newest, remote>>
    BY <1>0, <1>8, <1>n DEF Listen, GoTo, TypeOK, Taker, locals, repo, dir, holding
  <2>2. \A u \in Taker \ {Main} : Knows(u)'
    BY <1>0, <1>n, <2>1, Frame
  <2> QED
    BY <1>0, <2>1, <2>2 DEF Knows
<1>9. CASE Crash \/ Stopped
  <2>1. \A u \in Taker : pc'[u] = "idle" /\ asked'[u] = 0
    BY <1>9, ServingAssumption DEF Crash, Stopped, Dies, Thread
  <2> QED
    BY <1>9, <1>n, <2>1 DEF Crash, Stopped, Dies, repo, Knows
<1>10. CASE Stop
  BY <1>10, <1>n, <1>a DEF Stop, repo, dir, holding
<1>11. ASSUME NEW c \in Conn, WireStep(c) PROVE \A u \in Taker : Knows(u)'
  BY <1>11, <1>n, <1>a DEF WireStep, Connect, OnConnectionClose, AgentReports, AgentApplies,
     OnUndescribed, AnswersUndescribed, OnDescribed, repo, dir, holding
<1>12. CASE UNCHANGED vars
  BY <1>12, <1>n, <1>a DEF vars, repo, dir, holding
<1> QED
  BY <1>1, <1>2, <1>3, <1>4, <1>5, <1>6, <1>7, <1>8, <1>9, <1>10, <1>11, <1>12
     DEF Next, TakerStep

-----------------------------------------------------------------------------
LEMMA HeldStep ==
  ASSUME GitSourced, IInv, [Next]_vars PROVE Held'
<1>0. TypeOK /\ Exclusion /\ Held /\ (\A u \in Taker : Knows(u))
  BY DEF IInv
<1>n. /\ remote \in Nat /\ newest \in Nat
      /\ Taker \subseteq Thread /\ Main \in Taker
  BY <1>0, ServingAssumption DEF TypeOK, Heads, Thread, Taker
<1>a. ASSUME UNCHANGED holding, remote <= remote', remote' \in Nat,
             phase' \in {"up", "stopping"} => phase \in {"up", "stopping"},
             pc'[Main] \in {"announce", "listen"} => pc[Main] \in {"announce", "listen"}
      PROVE  Held'
  BY <1>0, <1>n, <1>a DEF Held, holding, CommitOf
<1>b. ASSUME NEW t \in Thread, NEW l \in Step \ {"announce", "listen"}, GoTo(t, l)
      PROVE  pc'[Main] \in {"announce", "listen"} => pc[Main] \in {"announce", "listen"}
  BY <1>0, <1>b, <1>n DEF GoTo, TypeOK
<1>c. ASSUME NEW t \in Taker, Fail(t), UNCHANGED <<repo, holding>> PROVE Held'
  <2>1. pc'[Main] \in {"announce", "listen"} => pc[Main] \in {"announce", "listen"}
    BY <1>b, <1>c, <1>n DEF Fail, LeavesWithError, Step
  <2> QED
    BY <1>a, <1>c, <1>n, <2>1 DEF Fail, LeavesWithError, repo
<1>1. CASE Merge \/ Outage
  BY <1>1, <1>a, <1>n DEF Merge, Outage, proc, taking
<1>2. ASSUME NEW t \in Taker, SourceStep(t) PROVE Held'
  <2>1. CASE GitFetch(t)
    BY <2>1, <1>a, <1>b, <1>n DEF GitFetch, FetchesTo, Step, repo, proc
  <2>2. CASE GitFetchFails(t) \/ CheckoutRefused(t)
    BY <2>2, <1>c DEF GitFetchFails, CheckoutRefused
  <2>3. CASE CheckoutBegins(t)
    BY <2>3, <1>a, <1>b, <1>n DEF CheckoutBegins, Step, repo, proc
  <2>4. ASSUME NEW f \in Files, CheckoutWrites(t, f) PROVE Held'
    BY <2>4, <1>a, <1>n DEF CheckoutWrites, repo, proc, taking
  <2>5. CASE CheckoutEnds(t)
    BY <2>5, <1>a, <1>b, <1>n, ServingAssumption DEF CheckoutEnds, NamesHead, Step, repo, proc
  <2> QED
    BY <1>2, <2>1, <2>2, <2>3, <2>4, <2>5 DEF SourceStep
<1>3. ASSUME NEW t \in Taker, LoadStep(t) \/ GitKilled(t) PROVE Held'
  <2>1. CASE RevParse(t)
    BY <2>1, <1>a, <1>b, <1>n DEF RevParse, Names, Step, repo, proc
  <2>2. CASE LoadTopology(t)
    BY <2>2, <1>a, <1>b, <1>n DEF LoadTopology, Step, repo, proc
  <2>3. CASE LoadTree(t)
    BY <2>3, <1>a, <1>b, <1>n DEF LoadTree, Compiles, Step, repo, proc
  <2>4. CASE LoadRefused(t) \/ GitKilled(t)
    BY <2>4, <1>c DEF LoadRefused, GitKilled
  <2> QED
    BY <1>3, <2>1, <2>2, <2>3, <2>4 DEF LoadStep
<1>4. ASSUME NEW t \in Taker, Swap(t) PROVE Held'
  <2>1. OneCommit(snap[t]) /\ snap[t].commit \in 1 .. remote /\ newest <= snap[t].commit
    BY <1>0, <1>4 DEF Swap, Knows, Fresh
  <2>2. newest' = snap[t].commit /\ snapshot' = snap[t] /\ UNCHANGED <<remote, observed>>
    BY <1>4, <1>n, <2>1 DEF Swap, CommitOf, OneCommit, repo
  <2>3. CommitOf(observed) \in 0 .. snap[t].commit
    BY <1>0, <1>n, <2>1 DEF Held, CommitOf
  <2> QED
    BY <2>1, <2>2, <2>3 DEF Held, CommitOf, OneCommit
<1>5. ASSUME NEW t \in Taker, Announce(t) PROVE Held'
  <2>1. snapshot # NoSnapshot
    <3>1. CASE t = Main
      BY <1>0, <1>5, <3>1 DEF Announce, Held
    <3>2. CASE t \in Callers
      BY <1>0, <1>5, <3>2 DEF Announce, Exclusion, Held, TypeOK
    <3> QED
      BY <3>1, <3>2 DEF Taker, Callers
  <2>2. OneCommit(snap[t]) /\ snap[t].commit \in 0 .. newest
    BY <1>0, <1>5, <1>n DEF Announce, Knows, OneCommit, Heads
  <2>3. CommitOf(observed)' \in 0 .. CommitOf(snapshot)'
    BY <1>0, <1>5, <2>1, <2>2 DEF Announce, Held, CommitOf, OneCommit
  <2> QED
    BY <1>0, <1>5, <2>1, <2>3 DEF Announce, Held, repo, proc
<1>6. ASSUME NEW t \in Taker, Asks(t) \/ Lock(t) PROVE Held'
  <2>1. pc'[Main] \in {"announce", "listen"} => pc[Main] \in {"announce", "listen"}
    BY <1>6, <1>b, <1>n DEF Asks, Lock, EntersSource, SourceEntry, Step
  <2> QED
    BY <1>6, <1>a, <1>n, <2>1 DEF Asks, Lock, EntersSource, repo, proc
<1>7. CASE Asks(Sync) \/ SourceStep(Sync)
  <2>1. ~ Asks(Sync)
    BY DEF Asks
  <2>2. ~ SourceStep(Sync)
    BY <1>0 DEF Exclusion, SourceStep, GitFetch, FetchesTo, GitFetchFails, CheckoutBegins,
       CheckoutRefused, CheckoutWrites, CheckoutEnds, NamesHead
  <2> QED
    BY <1>7, <2>1, <2>2
<1>8. CASE Start
  <2>1. pc'[Main] \in {"announce", "listen"} => pc[Main] \in {"announce", "listen"}
    BY <1>8, <1>b, <1>n DEF Start, StartsAs, SourceEntry, Step
  <2> QED
    BY <1>8, <1>a, <1>n, <2>1 DEF Start, StartsAs, repo
<1>9. CASE Listen
  BY <1>0, <1>9, <1>n DEF Listen, GoTo, Held, TypeOK, holding, repo
<1>10. CASE Crash \/ Stopped
  <2>1. Dies
    BY <1>10 DEF Crash, Stopped
  <2>2. pc'[Main] = "idle"
    BY <2>1, <1>n, ServingAssumption DEF Dies
  <2> QED
    BY <1>0, <2>1, <2>2 DEF Dies, Held, repo, CommitOf
<1>11. CASE Stop
  BY <1>11, <1>a, <1>n DEF Stop, repo, taking
<1>12. ASSUME NEW c \in Conn, WireStep(c) PROVE Held'
  BY <1>12, <1>a, <1>n DEF WireStep, Connect, OnConnectionClose, AgentReports, AgentApplies,
     OnUndescribed, AnswersUndescribed, OnDescribed, repo, proc, taking
<1>13. CASE UNCHANGED vars
  BY <1>13, <1>a, <1>n DEF vars, repo, proc, taking
<1> QED
  BY <1>1, <1>2, <1>3, <1>4, <1>5, <1>6, <1>7, <1>8, <1>9, <1>10, <1>11, <1>12, <1>13
     DEF Next, TakerStep

(* Only a swap moves it.                                                   *)
LEMMA NewestOnlyGrows ==
  ASSUME IInv, [Next]_vars PROVE newest <= newest'
<1>1. newest \in Nat
  BY ServingAssumption DEF IInv, TypeOK
<1>2. ASSUME NEW t \in Taker, Swap(t) PROVE newest <= newest'
  <2>1. CommitOf(snap[t]) \in Nat
    BY <1>2 DEF IInv, Swap, Knows, OneCommit, CommitOf, Heads
  <2> QED
    BY <1>1, <1>2, <2>1 DEF Swap
<1>3. CASE newest' = newest
  BY <1>1, <1>3
<1> QED
  BY <1>2, <1>3 DEF Next, vars, holding, Merge, Outage, TakerStep, SourceStep, LoadStep, Asks,
     Lock, EntersSource, GitKilled, Start, StartsAs, Listen, Crash, Stop, Stopped, Dies,
     GitFetch, FetchesTo, GitFetchFails, CheckoutBegins, CheckoutRefused, CheckoutWrites,
     CheckoutEnds, NamesHead, RevParse, Names, LoadTopology, LoadTree, Compiles, LoadRefused, Announce, WireStep, Connect,
     OnConnectionClose, AgentReports, AgentApplies, OnUndescribed, AnswersUndescribed, OnDescribed

LEMMA WiredStep ==
  ASSUME GitSourced, IInv, [Next]_vars PROVE Wired'
<1>0. TypeOK /\ Exclusion /\ Wired
  BY DEF IInv
<1>a. ASSUME UNCHANGED wire, phase' = phase PROVE Wired'
  BY <1>0, <1>a DEF Wired, wire
<1>b. ASSUME NEW t \in Taker, Fail(t), pc[t] # "idle", UNCHANGED wire PROVE Wired'
  BY <1>0, <1>b DEF Fail, LeavesWithError, Exclusion, Wired, wire
<1>1. ASSUME NEW t \in Taker, TakerStep(t) \/ GitKilled(t) PROVE Wired'
  <2>1. CASE GitFetchFails(t) \/ CheckoutRefused(t) \/ LoadRefused(t) \/ GitKilled(t)
    BY <2>1, <1>b DEF GitFetchFails, CheckoutRefused, LoadRefused, GitKilled
  <2>2. CASE GitFetch(t) \/ CheckoutBegins(t) \/ CheckoutEnds(t) \/ RevParse(t)
             \/ LoadTopology(t) \/ LoadTree(t) \/ Swap(t) \/ Announce(t)
    BY <2>2, <1>a DEF GitFetch, FetchesTo, CheckoutBegins, CheckoutEnds, NamesHead, RevParse, Names, LoadTopology,
       LoadTree, Compiles, Swap, Announce, proc
  <2>3. ASSUME NEW f \in Files, CheckoutWrites(t, f) PROVE Wired'
    BY <2>3, <1>a DEF CheckoutWrites, proc
  <2> QED
    BY <1>1, <2>1, <2>2, <2>3 DEF TakerStep, SourceStep, LoadStep
<1>2. CASE Merge \/ Outage \/ Asks(Sync) \/ (\E t \in Taker : Asks(t) \/ Lock(t)) \/ UNCHANGED vars
  BY <1>2, <1>a DEF Merge, Outage, Asks, Lock, EntersSource, vars, proc
<1>3. CASE SourceStep(Sync)
  BY <1>0, <1>3 DEF Exclusion, SourceStep, GitFetch, FetchesTo, GitFetchFails, CheckoutBegins,
     CheckoutRefused, CheckoutWrites, CheckoutEnds, NamesHead
<1>4. CASE Start \/ Listen \/ Stop
  BY <1>0, <1>4 DEF Start, StartsAs, Listen, Stop, Wired, wire
<1>5. CASE Crash \/ Stopped
  BY <1>5 DEF Crash, Stopped, Dies, Wired
<1>6. ASSUME NEW c \in Conn, WireStep(c) PROVE Wired'
  BY <1>0, <1>6 DEF WireStep, Connect, OnConnectionClose, AgentReports, AgentApplies,
     OnUndescribed, AnswersUndescribed, OnDescribed, proc, TypeOK, Wired
<1> QED
  BY <1>1, <1>2, <1>3, <1>4, <1>5, <1>6 DEF Next

-----------------------------------------------------------------------------
LEMMA Invariance ==
  ASSUME GitSourced PROVE Spec => []IInv
<1>1. Init => IInv
  BY InitInv
<1>2. IInv /\ [Next]_vars => IInv'
  BY TypeStep, ExclusionStep, KnowsStep, HeldStep, WiredStep DEF IInv
<1> QED
  BY <1>1, <1>2, PTL DEF Spec

(* Every variable keeps its type.                                          *)
THEOREM TypeCorrect ==
  ASSUME GitSourced PROVE Spec => []TypeOK
BY Invariance, PTL DEF IInv

(* No topology of one head is served beside artefacts of another, however  *)
(* the poll, the refreshes and the checkout interleave and whatever dies.  *)
THEOREM ServesOneCommit ==
  ASSUME GitSourced PROVE Spec => []SnapshotIsOneCommit
<1>1. IInv => SnapshotIsOneCommit
  BY DEF IInv, Held, OneCommit, SnapshotIsOneCommit
<1> QED
  BY <1>1, Invariance, PTL

(* The endpoint answers nobody without a snapshot.                         *)
THEOREM OpensOnASnapshot ==
  ASSUME GitSourced PROVE Spec => []ServesOnlyFromASnapshot
<1>1. IInv => ServesOnlyFromASnapshot
  BY DEF IInv, Held, ServesOnlyFromASnapshot
<1> QED
  BY <1>1, Invariance, PTL

(* A refresh that reached its swap is as new as the request for it.        *)
THEOREM RefreshIsFresh ==
  ASSUME GitSourced PROVE Spec => []RefreshCoversTheAsking
<1>1. IInv => RefreshCoversTheAsking
  <2> SUFFICES ASSUME IInv, NEW t \in {Poll} \cup Refresher,
                      pc[t] \in {"swap", "announce"}
               PROVE  snap[t].commit >= asked[t]
    BY DEF RefreshCoversTheAsking
  <2>1. Knows(t) /\ t \in Thread /\ asked[t] \in Nat
    BY ServingAssumption DEF IInv, TypeOK, Taker, Thread
  <2> QED
    BY <2>1 DEF Knows, Fresh, OneCommit, Heads
<1> QED
  BY <1>1, Invariance, PTL

(* The second reader is never ahead of what is served.                     *)
THEOREM ReaderFollows ==
  ASSUME GitSourced PROVE Spec => []ReaderNeverAhead
<1>1. IInv => ReaderNeverAhead
  BY DEF IInv, Held, ReaderNeverAhead, CommitOf, OneCommit, Heads
<1> QED
  BY <1>1, Invariance, PTL

(* The head served never moves backwards, not even across a restart.       *)
THEOREM HeadOnlyAdvances ==
  ASSUME GitSourced PROVE Spec => HeadNeverRegresses
<1>1. IInv /\ IInv' /\ [Next]_vars => [HeadKept]_vars
  <2> SUFFICES ASSUME IInv, IInv', [Next]_vars, snapshot' # NoSnapshot
               PROVE  CommitOf(snapshot') >= newest
    BY DEF HeadKept
  <2>1. snapshot'.commit = newest' /\ CommitOf(snapshot') = newest'
    BY DEF IInv, Held, CommitOf
  <2>2. newest \in Nat /\ newest' \in Nat
    BY ServingAssumption DEF IInv, TypeOK
  <2>3. newest <= newest'
    BY <2>2, NewestOnlyGrows
  <2> QED
    BY <2>1, <2>2, <2>3
<1> QED
  BY <1>1, Invariance, PTL DEF Spec, HeadNeverRegresses

(* Nothing but a rendered artefact with a body is ever offered.            *)
THEOREM OffersOnlyArtefacts ==
  ASSUME GitSourced PROVE Spec => []NeverServesEmpty
<1>1. Init => NeverServesEmpty
  BY DEF Init, NeverServesEmpty
<1>2. ASSUME IInv, NeverServesEmpty, [Next]_vars PROVE NeverServesEmpty'
  <2> USE <1>2
  <2>1. ASSUME NEW c \in Conn, OnDescribed(c) PROVE NeverServesEmpty'
    <3>1. Decision(c) \in Artefact \cup {NoArtefact}
      BY <2>1, DecisionIsABody DEF IInv, OnDescribed, Wired, Held
    <3>2. reply'[c].config \in Artefact \cup {NoOffer}
      BY <2>1, <3>1 DEF OnDescribed, Offerable, IInv, TypeOK
    <3> QED
      BY <2>1, <3>2 DEF OnDescribed, NeverServesEmpty, IInv, TypeOK
  <2>2. ASSUME NEW c \in Conn, OnUndescribed(c) PROVE NeverServesEmpty'
    BY <2>2 DEF OnUndescribed, AnswersUndescribed, NeverServesEmpty, IInv, TypeOK
  <2>3. ASSUME NEW c \in Conn, AgentApplies(c) \/ OnConnectionClose(c) PROVE NeverServesEmpty'
    BY <2>3 DEF AgentApplies, OnConnectionClose, NeverServesEmpty, IInv, TypeOK
  <2>4. CASE Dies
    BY <2>4 DEF Dies, NeverServesEmpty
  <2>5. CASE UNCHANGED reply
    BY <2>5 DEF NeverServesEmpty
  <2> QED
    BY <2>1, <2>2, <2>3, <2>4, <2>5
       DEF Next, vars, wire, Merge, Outage, TakerStep, SourceStep, LoadStep, Asks, Lock, EntersSource,
       GitKilled, Start, StartsAs, Listen, Crash, Stop, Stopped, GitFetch, FetchesTo,
       GitFetchFails, CheckoutBegins, CheckoutRefused, CheckoutWrites, CheckoutEnds, NamesHead,
       RevParse, Names, LoadTopology, LoadTree, Compiles, LoadRefused, Swap, Announce, WireStep, Connect,
       AgentReports
<1> QED
  BY <1>1, <1>2, Invariance, PTL DEF Spec

(* Whatever a collector runs or is on its way to it was decided for its    *)
(* attributes by a commit the server has held.                             *)
Delivered ==
  \A c \in Conn :
    /\ agent[c].running \in DecidedFor(c) \cup {NoArtefact}
    /\ reply[c] # NoReply => reply[c].config \in DecidedFor(c) \cup {NoOffer}

(* What was decided once stays decided: the newest commit held only grows. *)
LEMMA DecidedOnlyGrows ==
  ASSUME IInv, IInv', [Next]_vars, NEW c \in Conn PROVE DecidedFor(c) \subseteq DecidedFor(c)'
<1>1. newest <= newest' /\ newest \in Nat /\ newest' \in Nat
  BY NewestOnlyGrows, ServingAssumption DEF IInv, TypeOK
<1>2. \A h \in Heads : h <= newest => h <= newest'
  BY <1>1, ServingAssumption DEF Heads
<1> QED
  BY <1>2 DEF DecidedFor

LEMMA DeliveredStep ==
  ASSUME GitSourced, IInv, IInv', Delivered, [Next]_vars PROVE Delivered'
<1>0. TypeOK
  BY DEF IInv
<1>a. ASSUME NEW c \in Conn PROVE DecidedFor(c) \subseteq DecidedFor(c)'
  BY DecidedOnlyGrows
<1>b. CASE UNCHANGED <<agent, reply>>
  BY <1>a, <1>b DEF Delivered
<1>1. ASSUME NEW c \in Conn, OnDescribed(c) PROVE Delivered'
  <2>1. OneCommit(snapshot) /\ snapshot.commit = newest
    BY <1>1 DEF IInv, OnDescribed, Wired, Held
  <2>2. newest' = newest /\ agent' = agent /\ newest \in Heads
    BY <1>1, <2>1 DEF OnDescribed, holding, OneCommit
  <2>3. Decision(c) \in DecidedFor(c)
    <3>1. newest \in {g \in Heads : g <= newest /\ LoadAt(g) # Refused}
      BY <2>1, <2>2, ServingAssumption DEF OneCommit, Heads
    <3> QED
      BY <2>1, <3>1 DEF OneCommit, Decision, DecidedFor
  <2>4. reply'[c].config \in DecidedFor(c) \cup {NoOffer}
    BY <1>0, <1>1, <2>3 DEF OnDescribed, TypeOK
  <2> QED
    BY <1>0, <1>1, <1>a, <2>2, <2>4 DEF OnDescribed, Delivered, TypeOK
<1>2. ASSUME NEW c \in Conn, OnUndescribed(c) \/ OnConnectionClose(c) PROVE Delivered'
  BY <1>0, <1>2, <1>a DEF OnUndescribed, AnswersUndescribed, OnConnectionClose, Delivered, TypeOK
<1>3. ASSUME NEW c \in Conn, AgentApplies(c) PROVE Delivered'
  <2>1. /\ reply' = [reply EXCEPT ![c] = NoReply]
        /\ \A d \in Conn \ {c} : agent'[d] = agent[d]
    BY <1>0, <1>3 DEF AgentApplies, TypeOK
  <2>2. agent'[c].running \in ({reply[c].config} \ {NoOffer}) \cup {agent[c].running}
    BY <1>0, <1>3 DEF AgentApplies, TypeOK
  <2>3. agent'[c].running \in DecidedFor(c) \cup {NoArtefact}
    BY <1>3, <2>2 DEF Delivered, AgentApplies
  <2> QED
    BY <1>0, <1>a, <2>1, <2>3 DEF Delivered, TypeOK
<1>4. ASSUME NEW c \in Conn, Connect(c) \/ AgentReports(c) PROVE Delivered'
  BY <1>0, <1>4, <1>a DEF Connect, AgentReports, Delivered, TypeOK
<1>5. CASE Dies
  BY <1>0, <1>5, <1>a DEF Dies, Delivered, TypeOK
<1> QED
  BY <1>b, <1>1, <1>2, <1>3, <1>4, <1>5
     DEF Next, vars, wire, Merge, Outage, TakerStep, SourceStep, LoadStep, Asks, Lock, EntersSource,
     GitKilled, Start, StartsAs, Listen, Crash, Stop, Stopped, GitFetch, FetchesTo,
     GitFetchFails, CheckoutBegins, CheckoutRefused, CheckoutWrites, CheckoutEnds, NamesHead,
     RevParse, Names, LoadTopology, LoadTree, Compiles, LoadRefused, Swap, Announce, WireStep

(* What a collector runs was decided for it, whatever was in flight when   *)
(* the head moved or the process died (REQ-042, "never mis-delivery").     *)
THEOREM NobodyRunsAnothers ==
  ASSUME GitSourced PROVE Spec => []NoMisdelivery
<1>1. Init => Delivered
  BY DEF Init, NewAgent, Delivered
<1>2. IInv /\ IInv' /\ Delivered /\ [Next]_vars => Delivered'
  BY DeliveredStep
<1>3. Delivered => NoMisdelivery
  BY DEF Delivered, NoMisdelivery
<1> QED
  BY <1>1, <1>2, <1>3, Invariance, PTL DEF Spec

-----------------------------------------------------------------------------
(* Refinement.  Merges publish, swaps move, deaths forget, answers offer;  *)
(* every other step leaves the contract where it is.                       *)

LEMMA OfferedFrame ==
  ASSUME UNCHANGED reply
  PROVE  [c \in Conn |-> Offered(c)]' = [c \in Conn |-> Offered(c)]
BY DEF Offered

LEMMA InitRefines ==
  ASSUME Init PROVE Contract!Init
BY DEF Init, Contract!Init, CommitOf, Offered

(* One collector's answer changes one entry of the map of offers.          *)
LEMMA OneAnswer ==
  ASSUME IInv, NEW c \in Conn, NEW o, reply' = [reply EXCEPT ![c] = o]
  PROVE  [d \in Conn |-> Offered(d)]' =
           [[d \in Conn |-> Offered(d)] EXCEPT ![c] = IF o = NoReply THEN NoOffer ELSE o.config]
BY DEF Offered, IInv, TypeOK

LEMMA StepRefines ==
  ASSUME GitSourced, IInv, IInv', [Next]_vars PROVE [Contract!Next]_(Contract!vars)
<1> USE DEF Contract!vars
<1>a. ASSUME UNCHANGED <<remote, holding, reply>> PROVE UNCHANGED Contract!vars
  BY <1>a, OfferedFrame DEF holding
<1>1. CASE Merge
  BY <1>1, OfferedFrame DEF Merge, holding, wire, Contract!Next, Contract!Publish, IInv, TypeOK, Heads
<1>2. ASSUME NEW t \in Taker, Swap(t) PROVE Contract!Next
  <2>1. /\ OneCommit(snap[t]) /\ snap[t].commit \in 1 .. remote
        /\ newest <= snap[t].commit /\ newest \in Nat
    BY <1>2, ServingAssumption DEF IInv, Swap, Knows, Fresh, TypeOK
  <2>2. /\ newest' = snap[t].commit /\ CommitOf(snapshot)' = snap[t].commit
        /\ UNCHANGED <<remote, reply>>
    BY <1>2, <2>1 DEF Swap, CommitOf, OneCommit, repo, wire
  <2>3. snap[t].commit \in LoadableHeads
    BY <2>1 DEF OneCommit, LoadableHeads
  <2> QED
    BY <2>1, <2>2, <2>3, OfferedFrame DEF Contract!Next, Contract!Move
<1>3. CASE Dies
  BY <1>3 DEF Dies, repo, CommitOf, Offered, Contract!Next, Contract!Forget
<1>4. ASSUME NEW c \in Conn, OnDescribed(c) PROVE Contract!Next
  <2>1. UNCHANGED <<remote, snapshot, newest>>
    BY <1>4 DEF OnDescribed, repo, holding
  <2>2. OneCommit(snapshot) /\ CommitOf(snapshot) = snapshot.commit
    BY <1>4 DEF IInv, OnDescribed, Wired, Held, CommitOf
  <2>3. /\ CommitOf(snapshot) \in LoadableHeads
        /\ [h \in LoadableHeads |-> [d \in Conn |-> Match(LoadAt(h), Identity[d])]]
              [CommitOf(snapshot)][c] = Decision(c)
    BY <2>2 DEF OneCommit, LoadableHeads, Decision
  <2>4. PICK o \in {Decision(c), NoOffer} :
          reply' = [reply EXCEPT ![c] = [full |-> FALSE, config |-> o]]
    <3>1. reply' = [reply EXCEPT ![c] =
             [full   |-> FALSE,
              config |-> IF Offerable(Decision(c)) /\ toServer[c].hash # Decision(c)
                         THEN Decision(c) ELSE NoOffer]]
      BY <1>4 DEF OnDescribed
    <3>2. CASE Offerable(Decision(c)) /\ toServer[c].hash # Decision(c)
      BY <3>1, <3>2
    <3>3. CASE ~ (Offerable(Decision(c)) /\ toServer[c].hash # Decision(c))
      BY <3>1, <3>3
    <3> QED
      BY <3>2, <3>3
  <2>5. \/ [d \in Conn |-> Offered(d)]' = [[d \in Conn |-> Offered(d)] EXCEPT ![c] = Decision(c)]
        \/ [d \in Conn |-> Offered(d)]' = [[d \in Conn |-> Offered(d)] EXCEPT ![c] = NoOffer]
    <3> DEFINE r == [full |-> FALSE, config |-> o]
    <3>1. [d \in Conn |-> Offered(d)]' =
            [[d \in Conn |-> Offered(d)] EXCEPT ![c] = IF r = NoReply THEN NoOffer ELSE r.config]
      <4> HIDE DEF r
      <4> QED BY <2>4, OneAnswer DEF r
    <3>2. r.config = o
      OBVIOUS
    <3> QED
      BY <2>4, <3>1, <3>2
  <2> QED
    BY <2>1, <2>3, <2>5 DEF Contract!Next, Contract!Offer, Contract!Withdraw
<1>5. ASSUME NEW c \in Conn, OnUndescribed(c) \/ AgentApplies(c) \/ OnConnectionClose(c)
      PROVE  Contract!Next
  <2>1. UNCHANGED <<remote, snapshot, newest>>
    BY <1>5 DEF OnUndescribed, AnswersUndescribed, AgentApplies, OnConnectionClose, repo, holding
  <2> DEFINE r == [full |-> TRUE, config |-> NoOffer]
  <2>2. PICK o \in {NoReply, r} : reply' = [reply EXCEPT ![c] = o]
    BY <1>5 DEF OnUndescribed, AnswersUndescribed, AgentApplies, OnConnectionClose
  <2>3. [d \in Conn |-> Offered(d)]' = [[d \in Conn |-> Offered(d)] EXCEPT ![c] = NoOffer]
    <3>1. [d \in Conn |-> Offered(d)]' =
            [[d \in Conn |-> Offered(d)] EXCEPT ![c] = IF o = NoReply THEN NoOffer ELSE o.config]
      <4> HIDE DEF r
      <4> QED BY <2>2, OneAnswer
    <3>2. (IF o = NoReply THEN NoOffer ELSE o.config) = NoOffer
      OBVIOUS
    <3> QED
      BY <3>1, <3>2
  <2> QED
    BY <2>1, <2>3 DEF Contract!Next, Contract!Withdraw
<1>6. ASSUME NEW t \in Taker, Announce(t) PROVE UNCHANGED Contract!vars
  BY <1>6, OfferedFrame DEF Announce, repo, wire
<1>7. CASE \/ Outage \/ Asks(Sync) \/ SourceStep(Sync) \/ Start \/ Listen \/ Stop
           \/ (\E t \in Taker : SourceStep(t) \/ LoadStep(t) \/ Asks(t) \/ Lock(t) \/ GitKilled(t))
           \/ (\E c \in Conn : Connect(c) \/ AgentReports(c))
           \/ UNCHANGED vars
  BY <1>7, <1>a DEF vars, repo, wire, Outage, SourceStep, LoadStep, Asks, Lock, EntersSource,
     GitKilled, Start, StartsAs, Listen, Stop, GitFetch, FetchesTo, GitFetchFails,
     CheckoutBegins, CheckoutRefused, CheckoutWrites, CheckoutEnds, NamesHead, RevParse, Names,
     LoadTopology, LoadTree, Compiles, LoadRefused, Connect, AgentReports
<1> QED
  BY <1>1, <1>2, <1>3, <1>4, <1>5, <1>6, <1>7 DEF Next, TakerStep, WireStep, Crash, Stopped

(* The serving path is its contract with the threads, the checkout and the *)
(* mutex forgotten.                                                        *)
THEOREM Refinement ==
  ASSUME GitSourced PROVE Spec => ImplementsContract
<1>1. Init => Contract!Init
  BY InitRefines
<1>2. IInv /\ IInv' /\ [Next]_vars => [Contract!Next]_(Contract!vars)
  BY StepRefines
<1> QED
  BY <1>1, <1>2, Invariance, PTL DEF Spec, ImplementsContract, Contract!Spec

=============================================================================
