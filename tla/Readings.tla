------------------------------- MODULE Readings --------------------------------
(***************************************************************************)
(* The wire, the two taps that hold what it said, and the Composer that    *)
(* reads them for the documents (internal/provider/estate/opampdirect.go,  *)
(* internal/readings).                                                     *)
(*                                                                         *)
(* A connection's messages are handled one after another in a goroutine of *)
(* its own.  Each message, and the close, is told first to the estate tap  *)
(* (records) and then to the delivery tap (paths), each under a lock of    *)
(* its own, and the goroutine that builds the documents reads one and then *)
(* the other.  No lock covers both.                                        *)
(*                                                                         *)
(* Estate() copies pointers to the records under the lock and compares     *)
(* them outside it; what an entry shows of the record it was read from is  *)
(* its age, which no judgement of a live reading uses, so the copy is one  *)
(* step and an entry is its collector.                                     *)
(***************************************************************************)
EXTENDS Judgement

CONSTANTS
  Conn,        \* the connections that may stand at once
  NoLink,      \* the state of a connection that does not stand
  Nobody       \* the identity of a record whose connection has not named itself

(* Identities, the lack of one and the lack of a connection are apart.     *)
ASSUME ReadingsAssumption ==
  /\ Nobody \notin Collector
  /\ NoLink \notin Collector \cup {Nobody} \cup [who : Collector, accepts : BOOLEAN]

VARIABLES
  link,        \* what stands: [who, accepts], or NoLink
  step,        \* the second tap each connection's goroutine is about to call
  records,     \* OpAMPDirect.records, as identities; NoLink where there is none
  paths,       \* DeliveryPaths.held
  builder,     \* the goroutine that builds: idle, or in Compose
  taken,       \* the collectors of the reading, and its entries counted
  due,         \* the collectors of the reading whose path is still to be asked
  answer,      \* the path last answered: [who, path]
  touched      \* history: the collectors whose connections moved during Compose

wire == <<link, step, records, paths>>
rvars == <<link, step, records, paths, builder, taken, due, answer, touched>>

NoPath   == [who |-> Nobody, accepts |-> FALSE, held |-> FALSE]
NoAnswer == [who |-> Nobody, path |-> "none"]
Nothing  == [who |-> {}, entries |-> 0]

ReadingsInit ==
  /\ link = [c \in Conn |-> NoLink]
  /\ step = [c \in Conn |-> "none"]
  /\ records = [c \in Conn |-> NoLink]
  /\ paths = [c \in Conn |-> NoPath]
  /\ builder = "idle"
  /\ taken = Nothing
  /\ due = {}
  /\ answer = NoAnswer
  /\ touched = {}

Stands(c) == link[c] # NoLink
Between(c) == step[c] # "none"

Touches(who) ==
  /\ touched' = IF builder = "idle" THEN touched ELSE touched \cup {who}
  /\ UNCHANGED <<builder, taken, due, answer>>

-----------------------------------------------------------------------------
(* The server: onMessage and onConnectionClose, through serving.Taps.      *)

Connects(c, accepts) ==
  /\ ~Stands(c)
  /\ \E who \in Collector :
       /\ link' = [link EXCEPT ![c] = [who |-> who, accepts |-> accepts]]
       /\ Touches(who)
  /\ UNCHANGED <<step, records, paths>>

(* OpAMPDirect.Report: a message that omits the description keeps the      *)
(* identity held.                                                          *)
ReportsEstate(c, named) ==
  /\ Stands(c) /\ ~Between(c)
  /\ records' = [records EXCEPT ![c] = IF named THEN link[c].who
                                       ELSE IF @ = NoLink THEN Nobody ELSE @]
  /\ step' = [step EXCEPT ![c] = IF named THEN "named" ELSE "unnamed"]
  /\ Touches(link[c].who)
  /\ UNCHANGED <<link, paths>>

(* DeliveryPaths.Report.                                                   *)
ReportsPath(c) ==
  /\ step[c] \in {"named", "unnamed"}
  /\ paths' = [paths EXCEPT ![c] = [who     |-> IF step[c] = "named" THEN link[c].who ELSE @.who,
                                    accepts |-> link[c].accepts,
                                    held    |-> TRUE]]
  /\ step' = [step EXCEPT ![c] = "none"]
  /\ Touches(link[c].who)
  /\ UNCHANGED <<link, records>>

(* OpAMPDirect.Closed, then DeliveryPaths.Closed.                          *)
ClosesEstate(c) ==
  /\ Stands(c) /\ ~Between(c)
  /\ records' = [records EXCEPT ![c] = NoLink]
  /\ step' = [step EXCEPT ![c] = "closed"]
  /\ Touches(link[c].who)
  /\ UNCHANGED <<link, paths>>

ClosesPathKept(c) ==                                 \* mutant: the path outlives its connection
  /\ step[c] = "closed"
  /\ link' = [link EXCEPT ![c] = NoLink]
  /\ step' = [step EXCEPT ![c] = "none"]
  /\ Touches(link[c].who)
  /\ UNCHANGED <<records, paths>>

ClosesPath(c) ==
  /\ step[c] = "closed"
  /\ paths' = [paths EXCEPT ![c] = NoPath]
  /\ link' = [link EXCEPT ![c] = NoLink]
  /\ step' = [step EXCEPT ![c] = "none"]
  /\ Touches(link[c].who)
  /\ UNCHANGED records

SecondTap(c) == ReportsPath(c) \/ ClosesPath(c)

(* kinds: what connections declare; messages: whether they name themselves *)
WireNext(kinds, messages) == \E c \in Conn :
  \/ \E accepts \in kinds : Connects(c, accepts)
  \/ \E named \in messages : ReportsEstate(c, named)
  \/ ClosesEstate(c)
  \/ SecondTap(c)

-----------------------------------------------------------------------------
(* The Composer.                                                           *)

Named == {c \in Conn : records[c] \in Collector}

EntryPerConnection == [who |-> {records[c] : c \in Named}, entries |-> Cardinality(Named)]   \* mutant: two connections, two entries

(* OpAMPDirect.Estate: one entry per identity, the newer record's.         *)
Estate == [who |-> {records[c] : c \in Named}, entries |-> Cardinality({records[c] : c \in Named})]

Composes ==
  /\ builder = "idle"
  /\ builder' = "composing"
  /\ taken' = Estate
  /\ due' = Estate.who
  /\ touched' = {}
  /\ answer' = NoAnswer
  /\ UNCHANGED wire

(* DeliveryPaths.Path.                                                     *)
Held(who) == {c \in Conn : paths[c].held /\ paths[c].who = who}

Path(who) ==
  IF Held(who) # {} /\ \A c \in Held(who) : ~paths[c].accepts THEN "git" ELSE "served"

AsksPath(who) ==
  /\ builder = "composing"
  /\ who \in due
  /\ answer' = [who |-> who, path |-> Path(who)]
  /\ due' = due \ {who}
  /\ UNCHANGED <<wire, builder, taken, touched>>

(* The reading is complete, and the build that asked for it goes on.       *)
Composed ==
  /\ builder = "composing"
  /\ due = {}
  /\ builder' = "idle"
  /\ taken' = Nothing
  /\ touched' = {}
  /\ answer' = NoAnswer
  /\ UNCHANGED <<wire, due>>

=============================================================================
