--------------------------------- MODULE Fleet ---------------------------------
(***************************************************************************)
(* The documents' readings, composed: a live Instance takes them from the  *)
(* wire and judges a Tier by them and by the clock it keeps between        *)
(* builds, and the snapshot command takes them from a file and judges a    *)
(* Rollout.                                                                *)
(*                                                                         *)
(* A scene says what moves in a behaviour, so that each interleaving is    *)
(* explored on its own:                                                    *)
(*   "wire"      messages and closes, tap by tap, against a build          *)
(*   "time"      the wire between two builds, the estate, time, and what   *)
(*               the Tier says of itself                                   *)
(*   "rows"      the estate, time, and what arrives of a row, on no wire   *)
(*   "recorded"  collectors and a Rollout, read from a file                *)
(***************************************************************************)
EXTENDS Readings, Ledger

CONSTANTS
  Scenes,      \* the scenes of a run
  Floor,       \* the Tier's min_expected; 0 when it authors none
  Telemetry    \* whether the Instance has a telemetry backend

ASSUME FleetAssumption == Floor \in Nat /\ Telemetry \in BOOLEAN

VARIABLES
  scene,
  estate,      \* the checkout: it authors the Tier, no Tier, or does not load
  shortfall,   \* Composer.shortfallSince of the Tier
  silence,     \* Composer.silentSince of one signal of one row
  doc,         \* the documents: the Tier's finding, its one claim, the row's claim
  sinceFloor,  \* history: since a document last showed the Tier at its floor
  sinceHeard   \* history: since a document last did not show the signal silent

clocks == <<shortfall, silence, sinceFloor, sinceHeard>>
ivars == <<estate, doc, clocks>>
vars == <<scene, rvars, lvars, ivars>>

NoDoc == [toothed |-> FALSE, claim |-> "none", signal |-> "none"]

FleetInit ==
  /\ scene \in Scenes
  /\ ReadingsInit
  /\ LedgerInit
  /\ scene # "recorded" => declares = [c \in Collector |-> CHOOSE d \in Declares : TRUE] /\ dated
  /\ estate = "tier"
  /\ shortfall = NoSpan
  /\ silence = NoSpan
  /\ doc = NoDoc
  /\ sinceFloor = 0 /\ sinceHeard = 0

-----------------------------------------------------------------------------
(* Server.build and Composer.ObservePopulations.                           *)

(* Without a telemetry backend Compose returns before it reads the Tiers,  *)
(* and the clock is not handed on.                                         *)
ShortfallSince == IF Telemetry THEN shortfall ELSE NoSpan

(* trackSilence: "an unknown reading is not an observed gap".              *)
SilenceThroughUnknown(signal) ==                          \* mutant: not knowing keeps the clock running
  CASE signal = "present"                       -> NoSpan
    [] signal # "present" /\ silence = NoSpan   -> 0
    [] OTHER                                    -> silence

Silence(signal) ==
  CASE signal # "silent"                        -> NoSpan
    [] signal = "silent" /\ silence = NoSpan    -> 0
    [] OTHER                                    -> silence

(* judgeTiers seeds the claims' clock with the population's; judgeRows     *)
(* seeds its own with the signal's.                                        *)
Judged(self, signal) ==
  LET seen == taken.entries
  IN  [toothed |-> Findings(Floor, seen, seen > 0, ShortfallSince).toothed,
       claim   |-> Claimed(seen, self, ShortfallSince),
       signal  |-> DataClaimed(signal, Silence(signal))]

ClockKept(seen) == IF shortfall = NoSpan /\ seen < Floor THEN 0 ELSE shortfall   \* mutant: a recovery does not stop the clock

Clock(seen) ==
  IF seen >= Floor THEN NoSpan ELSE IF shortfall = NoSpan THEN 0 ELSE shortfall

(* The readings of telemetry: unknown to an Instance without a backend.    *)
Heard(where, readings) == IF Telemetry /\ scene = where THEN readings ELSE {"unknown"}

Builds(self, signal) ==
  /\ Composed
  /\ \/ /\ estate = "tier"
        /\ doc' = Judged(self, signal)
        /\ silence' = Silence(signal)
        /\ shortfall' = Clock(taken.entries)
        /\ sinceFloor' = IF taken.entries >= Floor THEN 0 ELSE sinceFloor
        /\ sinceHeard' = IF signal # "silent" THEN 0 ELSE sinceHeard
     \/ /\ estate = "none"                 \* buildNew: no row and no Tier to read
        /\ doc' = NoDoc
        /\ UNCHANGED clocks
     \/ /\ estate = "broken"               \* read, and refused by console.Build
        /\ silence' = Silence(signal)
        /\ UNCHANGED <<doc, shortfall, sinceFloor, sinceHeard>>
  /\ UNCHANGED estate

Takes == Composes /\ UNCHANGED ivars

PeopleMerge ==
  /\ builder = "idle"
  /\ estate' \in {"tier", "none", "broken"} \ {estate}
  /\ UNCHANGED <<rvars, doc, clocks>>

(* Time that passes during a build moves its instant and the clock alike.  *)
Tick ==
  /\ builder = "idle"
  /\ shortfall' = Aged(shortfall) /\ silence' = Aged(silence)
  /\ sinceFloor' = Aged(sinceFloor) /\ sinceHeard' = Aged(sinceHeard)
  /\ UNCHANGED <<rvars, estate, doc>>

-----------------------------------------------------------------------------
InWire ==
  /\ scene = "wire"
  /\ \/ WireNext(BOOLEAN, BOOLEAN) /\ UNCHANGED ivars
     \/ Takes
     \/ \E who \in due : AsksPath(who) /\ UNCHANGED ivars
     \/ Builds("unknown", "unknown")
  /\ UNCHANGED <<scene, lvars>>

Timed  == scene \in {"time", "rows"}

Taps   == scene = "time" /\ (\E c \in Conn : SecondTap(c)) /\ UNCHANGED <<scene, ivars, lvars>>
Begins == Timed /\ Takes /\ UNCHANGED <<scene, lvars>>
Asks   == scene = "time" /\ (\E who \in due : AsksPath(who)) /\ UNCHANGED <<scene, ivars, lvars>>
Passes == Timed /\ Tick /\ UNCHANGED <<scene, lvars>>

Ends ==
  /\ Timed
  /\ \E self   \in Heard("time", {"heard", "silent", "unknown"}),
        signal \in Heard("rows", {"present", "silent", "unknown"}) : Builds(self, signal)
  /\ UNCHANGED <<scene, lvars>>

InTime ==
  \/ Taps \/ Begins \/ Asks \/ Ends \/ Passes
  \/ /\ \/ scene = "time" /\ builder = "idle" /\ WireNext({TRUE}, {TRUE}) /\ UNCHANGED ivars
        \/ Timed /\ PeopleMerge
     /\ UNCHANGED <<scene, lvars>>

InRecord ==
  /\ scene = "recorded"
  /\ \/ LedgerNext
     \/ Ages /\ UNCHANGED <<stage, declares, dated, holds, status, ledger>>
  /\ UNCHANGED <<scene, rvars, ivars>>

FleetNext == InWire \/ InTime \/ InRecord

(* Every handler goes on, the instance refreshes on a ticker, and time     *)
(* passes whatever the builder does.                                       *)
FleetSpec ==
  /\ FleetInit /\ [][FleetNext]_vars
  /\ WF_vars(Taps) /\ WF_vars(Begins) /\ WF_vars(Asks) /\ WF_vars(Ends)
  /\ SF_vars(Passes)

-----------------------------------------------------------------------------
(* Properties.                                                             *)

(* The delivery path answered for a collector whose connections stood      *)
(* still since the reading began is that of the wire: served when one of   *)
(* them accepts remote config, git when none does.  A collector that is    *)
(* moving meanwhile may read as served though nothing delivers to it: the  *)
(* two taps are asked one after the other, and delivery.go:79 ("It cannot  *)
(* arise from the Composer") holds only of a wire that stands still.       *)
Names(c, who) == records[c] = who
StoodStill(who) ==
  /\ who \notin touched
  /\ \A c \in Conn : Stands(c) /\ link[c].who = who => ~Between(c)

DeliveryPathIsTheWires ==
  [][ answer' # answer /\ answer'.who # Nobody /\ StoodStill(answer'.who) =>
        answer'.path = IF \E c \in Conn : Names(c, answer'.who) /\ link[c].accepts
                         THEN "served" ELSE "git" ]_vars

Publishes == builder = "composing" /\ builder' = "idle" /\ estate = "tier"

(* No finding with teeth is raised before the grace window has passed      *)
(* since a document last showed the Tier at its floor, or since the start: *)
(* "recovery clears it, so a fresh shortfall always serves its full grace  *)
(* window" (internal/inventory/findings.go:220).  A recovery that no       *)
(* document shows, because the Tier had left the estate, clears nothing.   *)
(* And a signal the last documents showed arriving, or could not see, is   *)
(* not judged missing before the window has passed: "no judgement raises a *)
(* finding from one instant" (internal/readings/readings.go:91), and a gap *)
(* is one instant's until a second reading finds it again.                 *)
FindingsNeedASpan ==
  [][ Publishes => /\ doc'.toothed => sinceFloor >= Grace
                   /\ doc'.signal = "red" => sinceHeard >= Grace ]_vars

(* A Tier that stays below its floor is found short in the end and stays   *)
(* so, whatever its collectors' connections do: without the clock "every   *)
(* Tier would read ok however long it had been short"                      *)
(* (internal/readings/readings.go:160).                                    *)
Connected == {link[c].who : c \in {d \in Conn : Stands(d)}}

StaysShort == scene = "time" /\ estate = "tier" /\ Telemetry /\ Cardinality(Connected) < Floor

ShortfallSurfaces == <>[]StaysShort => <>[](doc.toothed)

=============================================================================
