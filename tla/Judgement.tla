------------------------------ MODULE Judgement -------------------------------
(***************************************************************************)
(* What is judged of a fleet: a Tier's population and its pipeline claims  *)
(* (internal/inventory, internal/expectation) and the active stage of a    *)
(* Rollout (internal/rollout), as internal/console computes them from one  *)
(* reading.                                                                *)
(*                                                                         *)
(* An instant enters these judgements only as the time since, so the model *)
(* keeps spans: ticks, counted no further than the longest span any        *)
(* judgement compares with.  NoSpan is the zero instant.                   *)
(***************************************************************************)
EXTENDS Integers, Sequences, FiniteSets

CONSTANTS
  Collector,   \* collectors, each for its identifying attributes
  NoSpan,      \* the span since the zero instant
  Grace,       \* the ticks a shortfall must have lasted
  Horizon,     \* the ticks after which a reading is stale: cadence times tolerance
  Cohort,      \* the cohorts of the Rollout's stages, as sets of collectors
  Soak,        \* the ticks each stage must soak
  AbortNum, AbortDen   \* the abort fraction

Longest == CHOOSE n \in {Grace, Horizon + 1, Soak} : \A m \in {Grace, Horizon + 1, Soak} : m <= n
Spans   == 0 .. Longest

ASSUME JudgementAssumption ==
  /\ Grace \in Nat \ {0} /\ Horizon \in Nat /\ Soak \in Nat \ {0}
  /\ AbortNum \in Nat \ {0} /\ AbortDen \in Nat \ {0}
  /\ NoSpan \notin Nat
  /\ Cohort \in Seq(SUBSET Collector)

Aged(span)       == IF span \in 0 .. Longest - 1 THEN span + 1 ELSE span
Lasted(span, n)  == span # NoSpan /\ span >= n

-----------------------------------------------------------------------------
(* A Tier's population: its declared floor (0 when it authors none), the   *)
(* collectors seen, whether any ever was, and how long it has been short.  *)

NoFinding == [class |-> "none", toothed |-> FALSE]

Findings(floor, seen, everSeen, short) ==
  LET persisted == floor > 0 /\ Lasted(short, Grace)
  IN  CASE ~everSeen                               -> [class |-> "never_seen", toothed |-> persisted]
        [] everSeen /\ seen < floor /\ persisted -> [class |-> "under_populated", toothed |-> TRUE]
        [] OTHER                                   -> NoFinding

(* One pipeline claim: the Tier's self-telemetry heard its component, read *)
(* silence, or could not be read.  Its shortfall lasts from where the      *)
(* dampening clock was seeded, or from this very reading.                  *)
Gated(seen, self) == seen = 0 \/ self = "unknown"

Claimed(seen, self, seed) ==
  CASE Gated(seen, self)                                        -> "unknown"
    [] ~Gated(seen, self) /\ self = "heard"                     -> "green"
    [] ~Gated(seen, self) /\ self # "heard" /\ Lasted(seed, Grace) -> "red"
    [] OTHER                                                    -> "pending"

(* One data claim, of a signal observed present, silent or not at all.     *)
DataClaimed(signal, since) ==
  CASE signal = "unknown"                          -> "unknown"
    [] signal = "present"                          -> "green"
    [] signal = "silent" /\ Lasted(since, Grace)   -> "red"
    [] OTHER                                       -> "pending"

-----------------------------------------------------------------------------
(* The active stage of a Rollout, from what a readings file declares of a  *)
(* collector: delivery, lastSeen (NoSpan when it never reported), status   *)
(* (a state and the artefact it names, or the stamp of what runs) and      *)
(* applied, the time since the running artefact went APPLIED.              *)

Unread == [known |-> FALSE, state |-> "UNSET", hash |-> "none"]

deliveryStatus(r) ==
  IF r.lastSeen = NoSpan \/ r.delivery # "served" THEN Unread
  ELSE IF r.declares = "status" THEN [known |-> TRUE, state |-> r.status.state, hash |-> r.status.hash]
  ELSE [known |-> TRUE, state |-> "APPLIED", hash |-> r.stamp]

(* Only an APPLIED acknowledgement names what runs, and the reading        *)
(* carries no wiring to fall through to.                                   *)
RunningArtefact(r) ==
  LET d == deliveryStatus(r)
  IN  IF d.known /\ d.state = "APPLIED" THEN d.hash ELSE "unknown"

silent(r) == deliveryStatus(r).known /\ r.lastSeen > Horizon

FailedForTo(r) ==
  LET d == deliveryStatus(r)
  IN  d.known /\ d.state = "FAILED" /\ d.hash = "to"

WentDarkAfterApply(r) == silent(r) /\ RunningArtefact(r) = "to"

HaltsOnFailure(r) == FailedForTo(r)                             \* mutant: a member that went dark is fine
HaltsOnAnyFailure(r) ==                                         \* mutant: whatever failed to apply
  \/ deliveryStatus(r).known /\ deliveryStatus(r).state = "FAILED"
  \/ WentDarkAfterApply(r)

Halts(r) == FailedForTo(r) \/ WentDarkAfterApply(r)

ActiveCohort(stage) == UNION {Cohort[i] : i \in 1 .. stage}

TakenBy(readings, members) == {c \in members : RunningArtefact(readings[c]) = "to"}

(* The soak runs from the earliest instant a member declares having        *)
(* applied the new artefact, and from now when none does.                  *)
Applied(readings, members) == {readings[c].applied : c \in TakenBy(readings, members)} \ {NoSpan}

Earliest(spans) == CHOOSE n \in spans : \A m \in spans : m <= n

SoakedSinceEver(readings, members) ==                           \* mutant: an unknown instant is the zero instant
  IF Applied(readings, members) = {} THEN Longest ELSE Earliest(Applied(readings, members))

Soaked(readings, members) ==
  IF Applied(readings, members) = {} THEN 0 ELSE Earliest(Applied(readings, members))

Evaluate(stage, readings) ==
  LET members == ActiveCohort(stage) \cap DOMAIN readings
      halted  == {c \in members : Halts(readings[c])}
      past    == Cardinality(halted) * AbortDen >= Cardinality(members) * AbortNum
  IN  CASE halted # {} /\ past                                 -> "abort"
        [] halted # {} /\ ~past                                -> "blocked"
        [] halted = {} /\ Soaked(readings, members) < Soak    -> "hold"
        [] halted = {} /\ TakenBy(readings, members) = {}      -> "hold"
        [] OTHER                                               -> "advance"

=============================================================================
