------------------------------ MODULE Activation -------------------------------
(***************************************************************************)
(* The designation record (internal/activation): which imported version of *)
(* a substrate is active, and every activation that has happened, oldest   *)
(* first.  A record here is one substrate's history; the record's active   *)
(* version is a field of its own, as the file's is.                        *)
(*                                                                         *)
(* An activation keeps the version it replaced and the impact report it    *)
(* was decided on.  Of a report it matters here which version it is a      *)
(* change from.                                                            *)
(***************************************************************************)
EXTENDS Integers, Sequences

CONSTANT NoVersion      \* the empty version

NoRecord == [active |-> NoVersion, activations |-> <<>>]

Entry(version, previous, from) == [version |-> version, previous |-> previous, from |-> from]

(* The version that was active before the i-th activation, by the history. *)
PreviousOf(rec, i) == IF i = 1 THEN NoVersion ELSE rec.activations[i - 1].version

(* Designation.problems: the record loads, and is written, when it has     *)
(* none.                                                                   *)
Sound(rec) ==
  \/ rec = NoRecord
  \/ /\ rec.active # NoVersion
     /\ rec.activations # <<>>
     /\ \A i \in DOMAIN rec.activations :
          LET a == rec.activations[i] IN
            /\ a.version # NoVersion
            /\ a.version # PreviousOf(rec, i)
            /\ a.previous = PreviousOf(rec, i)
     /\ rec.activations[Len(rec.activations)].version = rec.active

Designated(rec, version, from) ==
  [active |-> version,
   activations |-> Append(rec.activations, Entry(version, rec.active, from))]

(* mutant: the history starts again                                        *)
DesignatedAfresh(rec, version, from) ==
  [active |-> version, activations |-> <<Entry(version, NoVersion, from)>>]

(* Designate: the record one activation would leave, refused where the     *)
(* record it leaves would not load.                                        *)
Designate(rec, version, from) == Designated(rec, version, from)

NamesVersion(rec, version, from) == version # NoVersion    \* mutant: the outcome is not validated

Designates(rec, version, from) ==
  /\ version # NoVersion
  /\ Sound(Designate(rec, version, from))

(* Apply, the command line's way in: the report must be a change from the  *)
(* version the record holds active.                                        *)
Applies(rec, version, from) ==
  /\ from = rec.active
  /\ version # rec.active
  /\ Designates(rec, version, from)

=============================================================================
