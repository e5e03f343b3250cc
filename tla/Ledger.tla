-------------------------------- MODULE Ledger ---------------------------------
(***************************************************************************)
(* A staged Rollout and the ledger the snapshot command computes of it     *)
(* (internal/console/rollouts.go) from a readings file that says of each   *)
(* collector what is true of it.                                           *)
(*                                                                         *)
(* What the collectors do is external: the serving path offers the new     *)
(* artefact to the active cohort, the estate's own tooling delivers it to  *)
(* the others', and each applies it, refuses it, or falls silent.          *)
(***************************************************************************)
EXTENDS Judgement

CONSTANTS
  Declares,    \* how the file may declare a collector: its delivery and what it says of it
  NoStage      \* the Rollout is over: it was aborted, or its last stage advanced

ASSUME LedgerAssumption == NoStage \notin Nat

VARIABLES
  stage,       \* the active stage, from 1, or NoStage
  standing,    \* how long the stage has been the active one
  declares,    \* how the file declares each collector
  dated,       \* whether the file gives the instants artefacts were applied
  holds,       \* the artefact each collector runs
  status,      \* the remote-config status each last reported
  lastSeen,    \* how long ago each was last seen
  applied,     \* how long ago what it runs was applied
  ledger       \* the decision last computed, of this stage

collectors == <<declares, dated, holds, status, lastSeen, applied>>
lvars == <<stage, standing, collectors, ledger>>

Stages == DOMAIN Cohort

LedgerInit ==
  /\ stage = 1
  /\ standing = 0
  /\ declares \in [Collector -> Declares]
  /\ dated \in BOOLEAN
  /\ holds = [c \in Collector |-> "from"]
  /\ status = [c \in Collector |-> [state |-> "APPLIED", hash |-> "from"]]
  /\ lastSeen = [c \in Collector |-> NoSpan]
  /\ applied = [c \in Collector |-> NoSpan]
  /\ ledger = "none"

Offered(c) == stage \in Stages /\ c \in ActiveCohort(stage) /\ holds[c] = "from"

Applies(c) ==
  /\ Offered(c)
  /\ holds' = [holds EXCEPT ![c] = "to"]
  /\ status' = [status EXCEPT ![c] = [state |-> "APPLIED", hash |-> "to"]]
  /\ applied' = [applied EXCEPT ![c] = 0]
  /\ lastSeen' = [lastSeen EXCEPT ![c] = 0]
  /\ UNCHANGED <<stage, standing, declares, dated, ledger>>

(* The Supervisor reverts by itself, and reports what it refused.          *)
Refuses(c, hash) ==
  /\ hash = "to" => Offered(c)
  /\ status' = [status EXCEPT ![c] = [state |-> "FAILED", hash |-> hash]]
  /\ lastSeen' = [lastSeen EXCEPT ![c] = 0]
  /\ UNCHANGED <<stage, standing, declares, dated, holds, applied, ledger>>

Reports(c) ==
  /\ lastSeen' = [lastSeen EXCEPT ![c] = 0]
  /\ UNCHANGED <<stage, standing, declares, dated, holds, status, applied, ledger>>

Ages ==
  /\ standing' = Aged(standing)
  /\ lastSeen' = [c \in Collector |-> Aged(lastSeen[c])]
  /\ applied' = [c \in Collector |-> Aged(applied[c])]

-----------------------------------------------------------------------------
(* readings.go's CollectorReading, as members() hands it on.               *)
Declared(c) ==
  [delivery |-> declares[c].delivery,
   declares |-> declares[c].says,
   status   |-> status[c],
   stamp    |-> holds[c],
   lastSeen |-> lastSeen[c],
   applied  |-> IF dated THEN applied[c] ELSE NoSpan]

(* rolloutDoc, of the collectors the serving index matches to the Tier.    *)
Snapshots ==
  /\ stage \in Stages
  /\ ledger' = Evaluate(stage, [c \in Collector |-> Declared(c)])
  /\ UNCHANGED <<stage, standing, collectors>>

(* A person merges a proposal, whichever they opened.                      *)
MergesAdvance ==
  /\ stage \in Stages
  /\ stage' = IF stage + 1 \in Stages THEN stage + 1 ELSE NoStage
  /\ standing' = 0
  /\ ledger' = "none"
  /\ UNCHANGED collectors

MergesAbort ==
  /\ stage \in Stages
  /\ stage' = NoStage
  /\ standing' = 0
  /\ ledger' = "none"
  /\ UNCHANGED collectors

LedgerNext ==
  \/ \E c \in Collector : Applies(c) \/ (\E hash \in {"from", "to"} : Refuses(c, hash)) \/ Reports(c)
  \/ Snapshots \/ MergesAdvance \/ MergesAbort

-----------------------------------------------------------------------------
(* A stage's ledger says advance only where a member the platform serves   *)
(* runs the new artefact, and no member whose file declares its status is  *)
(* known to have refused it or was last seen, past the horizon, having     *)
(* applied it: "any halted cohort member blocks the advance"               *)
(* (internal/rollout/evaluate.go:83).  And of the first stage it says so   *)
(* no earlier than its soak after it became active: "the soak this yields  *)
(* is a floor and never over-claims one"                                   *)
(* (internal/console/rollouts.go:286).  Of a later stage that is not true: *)
(* its members include the earlier cohorts', whose instants are from       *)
(* before it began.                                                        *)
Served(c)  == declares[c].delivery = "served"
Tells(c)   == Served(c) /\ declares[c].says = "status" /\ lastSeen[c] # NoSpan

Refused(c)  == Tells(c) /\ status[c] = [state |-> "FAILED", hash |-> "to"]
WentDark(c) == Tells(c) /\ status[c] = [state |-> "APPLIED", hash |-> "to"] /\ lastSeen[c] > Horizon

AdvanceRestsOnEvidence ==
  [][ Snapshots /\ ledger' = "advance" =>
        /\ \E c \in ActiveCohort(stage) : Served(c) /\ holds[c] = "to"
        /\ \A c \in ActiveCohort(stage) : ~Refused(c) /\ ~WentDark(c)
        /\ stage = 1 => standing >= Soak ]_lvars

(* A stage is not halted for a delivery that is none of its own, for a     *)
(* member that lags, or for one the estate's own tooling delivers to: "A   *)
(* FAILED for any other hash is some other delivery's problem, never this  *)
(* rollout's" (evaluate.go:47), "Absence there never reads as failure"     *)
(* (internal/console/rollouts.go:218).  A member declared by the stamp it  *)
(* runs may still be taken to have gone dark with it.                      *)
HaltedByAMember ==
  [][ Snapshots /\ ledger' \in {"blocked", "abort"} =>
        \E c \in ActiveCohort(stage) :
          /\ Served(c) /\ lastSeen[c] # NoSpan
          /\ \/ status[c] = [state |-> "FAILED", hash |-> "to"]
             \/ holds[c] = "to" /\ lastSeen[c] > Horizon ]_lvars

=============================================================================
