----------------------------- MODULE Fleet_proofs ------------------------------
(***************************************************************************)
(* What the readings and the judgements keep for every fleet, whoever      *)
(* connects, speaks and leaves meanwhile: the delivery path of a collector *)
(* that stands still is that of the wire, no finding is raised before its  *)
(* window has passed, a stage advances on evidence alone, and is halted by *)
(* a member of its own.                                                    *)
(***************************************************************************)
EXTENDS Fleet, WellFoundedInduction, TLAPS

-----------------------------------------------------------------------------
(* The wire.  Each connection's two taps say of it what its goroutine has  *)
(* told them: the same, except between the two calls.                      *)

WireTypes ==
  /\ link \in [Conn -> [who : Collector, accepts : BOOLEAN] \cup {NoLink}]
  /\ step \in [Conn -> {"none", "named", "unnamed", "closed"}]
  /\ records \in [Conn -> Collector \cup {Nobody, NoLink}]
  /\ paths \in [Conn -> [who : Collector \cup {Nobody}, accepts : BOOLEAN, held : BOOLEAN]]

BuilderTypes ==
  /\ builder \in {"idle", "composing"}
  /\ due \subseteq Collector
  /\ touched \subseteq Collector

TapsAgree(c) ==
  /\ ~ Stands(c) => records[c] = NoLink /\ paths[c] = NoPath /\ step[c] = "none"
  /\ Stands(c) => /\ records[c] \in {NoLink, Nobody, link[c].who}
                  /\ paths[c].who \in {Nobody, link[c].who}
  /\ ~ paths[c].held => paths[c] = NoPath
  /\ step[c] = "none" /\ records[c] = NoLink => ~ paths[c].held
  /\ step[c] = "none" /\ records[c] # NoLink =>
       paths[c] = [who |-> records[c], accepts |-> link[c].accepts, held |-> TRUE]
  /\ step[c] = "named" => Stands(c) /\ records[c] = link[c].who
  /\ step[c] = "unnamed" => Stands(c) /\ records[c] = paths[c].who
  /\ step[c] = "closed" => Stands(c) /\ records[c] = NoLink

(* A collector still to be asked about was read off a record, which stands *)
(* unless a connection of its own has moved since.                         *)
StillRecorded ==
  builder = "composing" => \A who \in due \ touched : \E c \in Conn : Names(c, who)

WireInv == WireTypes /\ BuilderTypes /\ (\A c \in Conn : TapsAgree(c)) /\ StillRecorded

-----------------------------------------------------------------------------
(* The clocks.  Neither has run longer than the documents have shown the   *)
(* gap it counts.                                                          *)

ClockTypes ==
  /\ {shortfall, silence} \subseteq Spans \cup {NoSpan}
  /\ {sinceFloor, sinceHeard} \subseteq Spans

ClocksInv ==
  /\ ClockTypes
  /\ shortfall # NoSpan => shortfall <= sinceFloor
  /\ silence # NoSpan => silence <= sinceHeard

-----------------------------------------------------------------------------
(* The Rollout.  A collector that reports an artefact applied runs it, and *)
(* while the first stage is active nothing was applied before it began.    *)

LedgerTypes ==
  /\ stage \in {NoStage} \cup (Nat \ {0})
  /\ standing \in Spans
  /\ declares \in [Collector -> Declares]
  /\ dated \in BOOLEAN
  /\ holds \in [Collector -> {"from", "to"}]
  /\ status \in [Collector -> [state : {"APPLIED", "FAILED"}, hash : {"from", "to"}]]
  /\ lastSeen \in [Collector -> Spans \cup {NoSpan}]
  /\ applied \in [Collector -> Spans \cup {NoSpan}]

RunsWhatItApplied ==
  \A c \in Collector : status[c].state = "APPLIED" => status[c].hash = holds[c]

AppliedInTheStage ==
  stage = 1 => \A c \in Collector : applied[c] # NoSpan => applied[c] <= standing

LedgerInv == LedgerTypes /\ RunsWhatItApplied /\ AppliedInTheStage

FleetInv == WireInv /\ ClocksInv /\ LedgerInv

-----------------------------------------------------------------------------
(* Spans.                                                                  *)

LEMMA LongestIsASpan ==
  /\ Longest \in Nat
  /\ Longest >= Grace /\ Longest >= Horizon + 1 /\ Longest >= Soak
<1> DEFINE S == {Grace, Horizon + 1, Soak}
<1>1. \E n \in S : \A m \in S : m <= n
  <2>1. Grace \in Nat /\ Horizon + 1 \in Nat /\ Soak \in Nat
    BY JudgementAssumption
  <2>2. CASE Grace >= Horizon + 1 /\ Grace >= Soak
    BY <2>1, <2>2
  <2>3. CASE Horizon + 1 >= Grace /\ Horizon + 1 >= Soak
    BY <2>1, <2>3
  <2>4. CASE Soak >= Grace /\ Soak >= Horizon + 1
    BY <2>1, <2>4
  <2> QED
    BY <2>1, <2>2, <2>3, <2>4
<1>2. Longest \in S /\ \A m \in S : m <= Longest
  BY <1>1 DEF Longest
<1> QED
  BY <1>2, JudgementAssumption

LEMMA AgedIsASpan ==
  ASSUME NEW span \in Spans PROVE Aged(span) \in Spans
BY LongestIsASpan DEF Aged, Spans

LEMMA AgedKeepsOrder ==
  ASSUME NEW x \in Spans, NEW y \in Spans, x <= y PROVE Aged(x) <= Aged(y)
BY LongestIsASpan DEF Aged, Spans

LEMMA NoSpanStays == NoSpan \notin Spans /\ Aged(NoSpan) = NoSpan
BY LongestIsASpan, JudgementAssumption DEF Aged, Spans

LEMMA ZeroIsASpan == 0 \in Spans /\ 0 # NoSpan
BY LongestIsASpan, JudgementAssumption DEF Spans

(* The earliest instant is the one that lies the longest span back.        *)
LEMMA EarliestExists ==
  ASSUME NEW S, S \subseteq Spans, S # {} PROVE Earliest(S) \in S
<1> DEFINE T == {Longest - n : n \in S}
<1>1. T \subseteq Nat /\ T # {}
  <2>1. \A n \in S : Longest - n \in Nat
    BY LongestIsASpan DEF Spans
  <2>2. PICK n : n \in S
    OBVIOUS
  <2>3. Longest - n \in T
    BY <2>2
  <2> QED
    BY <2>1, <2>3
<1>2. PICK t \in T : \A u \in T : ~ (<<u, t>> \in OpToRel(<, Nat))
  <2> HIDE DEF T
  <2> QED
    BY <1>1, WFMin, NatLessThanWellFounded
<1>3. \A u \in T : ~ (u < t)
  BY <1>1, <1>2 DEF OpToRel
<1>4. PICK n \in S : t = Longest - n
  BY <1>2
<1>5. ASSUME NEW m \in S PROVE m <= n
  <2>1. ~ (Longest - m < Longest - n)
    BY <1>3, <1>4
  <2> QED
    BY <2>1, LongestIsASpan DEF Spans
<1>6. \E k \in S : \A m \in S : m <= k
  BY <1>5
<1> HIDE DEF T
<1> QED
  BY <1>6 DEF Earliest

-----------------------------------------------------------------------------
(* The wire.                                                               *)

LEMMA WireStarts == ReadingsInit => WireInv
BY DEF ReadingsInit, WireInv, WireTypes, BuilderTypes, TapsAgree, StillRecorded, Stands, NoPath

(* A connection that does not take the step keeps what its taps say.       *)
LEMMA OthersAgree ==
  ASSUME NEW c \in Conn, TapsAgree(c), link'[c] = link[c], step'[c] = step[c],
         records'[c] = records[c], paths'[c] = paths[c]
  PROVE  TapsAgree(c)'
BY DEF TapsAgree, Stands, NoPath

LEMMA TouchesBuilder ==
  ASSUME BuilderTypes, NEW who \in Collector, Touches(who)
  PROVE  BuilderTypes' /\ builder' = builder /\ due' = due /\ touched \subseteq touched'
         /\ (builder # "idle" => who \in touched')
BY DEF BuilderTypes, Touches

(* What a record loses is the identity of the connection that moved.       *)
LEMMA TouchedOrRecorded ==
  ASSUME WireInv, NEW who \in Collector, Touches(who),
         \A c \in Conn : records[c] \in Collector \ {who} => records'[c] = records[c]
  PROVE  StillRecorded'
<1>1. BuilderTypes /\ StillRecorded
  BY DEF WireInv
<1>2. /\ builder' = builder /\ due' = due /\ touched \subseteq touched'
      /\ builder # "idle" => who \in touched'
  BY <1>1, TouchesBuilder
<1> SUFFICES ASSUME builder' = "composing", NEW x \in (due \ touched)'
             PROVE  \E c \in Conn : Names(c, x)'
  BY DEF StillRecorded
<1>3. x \in due \ touched /\ x # who /\ x \in Collector
  BY <1>1, <1>2 DEF BuilderTypes
<1>4. PICK c \in Conn : Names(c, x)
  BY <1>1, <1>2, <1>3 DEF StillRecorded
<1> QED
  BY <1>3, <1>4 DEF Names

LEMMA ConnectsKeepsWire ==
  ASSUME WireInv, NEW c \in Conn, NEW accepts \in BOOLEAN, Connects(c, accepts)
  PROVE  WireInv'
<1>1. PICK who \in Collector :
        /\ link' = [link EXCEPT ![c] = [who |-> who, accepts |-> accepts]]
        /\ Touches(who)
  BY DEF Connects
<1>2. ~ Stands(c) /\ UNCHANGED <<step, records, paths>>
  BY DEF Connects
<1>3. WireTypes /\ BuilderTypes /\ \A d \in Conn : TapsAgree(d)
  BY DEF WireInv
<1>4. WireTypes'
  BY <1>1, <1>2, <1>3 DEF WireTypes
<1>5. BuilderTypes'
  BY <1>1, <1>3, TouchesBuilder
<1>6. ASSUME NEW d \in Conn PROVE TapsAgree(d)'
  <2>1. CASE d = c
    <3>1. records[c] = NoLink /\ paths[c] = NoPath /\ step[c] = "none"
      BY <1>2, <1>3 DEF TapsAgree
    <3>2. link'[c] = [who |-> who, accepts |-> accepts]
      BY <1>1, <1>3 DEF WireTypes
    <3>3. link'[c] # NoLink
      BY <3>2, <1>1, ReadingsAssumption
    <3> QED
      BY <2>1, <3>1, <3>2, <3>3, <1>2 DEF TapsAgree, Stands, NoPath
  <2>2. CASE d # c
    BY <2>2, <1>1, <1>2, <1>3, OthersAgree DEF WireTypes
  <2> QED
    BY <2>1, <2>2
<1>7. StillRecorded'
  BY <1>1, <1>2, TouchedOrRecorded
<1> QED
  BY <1>4, <1>5, <1>6, <1>7 DEF WireInv

LEMMA ReportsEstateKeepsWire ==
  ASSUME WireInv, NEW c \in Conn, NEW named \in BOOLEAN, ReportsEstate(c, named)
  PROVE  WireInv'
<1>1. WireTypes /\ BuilderTypes /\ \A d \in Conn : TapsAgree(d)
  BY DEF WireInv
<1>2. Stands(c) /\ step[c] = "none" /\ UNCHANGED <<link, paths>> /\ Touches(link[c].who)
  BY DEF ReportsEstate, Between
<1>3. link[c] \in [who : Collector, accepts : BOOLEAN] /\ link[c].who \in Collector
  BY <1>1, <1>2 DEF WireTypes, Stands
<1>4. /\ records' = [records EXCEPT ![c] = IF named THEN link[c].who
                                           ELSE IF records[c] = NoLink THEN Nobody ELSE records[c]]
      /\ step' = [step EXCEPT ![c] = IF named THEN "named" ELSE "unnamed"]
  BY DEF ReportsEstate
<1>5. WireTypes'
  BY <1>1, <1>2, <1>3, <1>4 DEF WireTypes
<1>6. BuilderTypes'
  BY <1>1, <1>2, <1>3, TouchesBuilder
<1>7. ASSUME NEW d \in Conn PROVE TapsAgree(d)'
  <2>1. CASE d = c
    <3>1. /\ records'[c] = IF named THEN link[c].who
                           ELSE IF records[c] = NoLink THEN Nobody ELSE records[c]
          /\ step'[c] = IF named THEN "named" ELSE "unnamed"
          /\ link'[c] = link[c] /\ paths'[c] = paths[c]
      BY <1>1, <1>2, <1>4 DEF WireTypes
    <3>2. records[c] = NoLink => paths[c] = NoPath
      BY <1>1, <1>2 DEF TapsAgree
    <3>3. ASSUME records[c] # NoLink PROVE paths[c].who = records[c]
      <4>1. paths[c] = [who |-> records[c], accepts |-> link[c].accepts, held |-> TRUE]
        BY <3>3, <1>1, <1>2 DEF TapsAgree
      <4> QED
        BY <4>1
    <3>4. /\ Stands(c)'
          /\ records[c] \in {NoLink, Nobody, link[c].who}
          /\ paths[c].who \in {Nobody, link[c].who}
          /\ ~ paths[c].held => paths[c] = NoPath
      BY <1>1, <1>2, <3>1 DEF TapsAgree, Stands
    <3>5. CASE named
      BY <2>1, <3>1, <3>4, <3>5 DEF TapsAgree, NoPath
    <3>6. CASE ~ named
      BY <2>1, <3>1, <3>2, <3>3, <3>4, <3>6 DEF TapsAgree, NoPath
    <3> QED
      BY <3>5, <3>6
  <2>2. CASE d # c
    BY <2>2, <1>1, <1>2, <1>4, OthersAgree DEF WireTypes
  <2> QED
    BY <2>1, <2>2
<1>8. ASSUME NEW d \in Conn, records[d] \in Collector \ {link[c].who}
      PROVE  records'[d] = records[d]
  <2>1. records[c] \in {NoLink, Nobody, link[c].who}
    BY <1>1, <1>2 DEF TapsAgree
  <2>2. d # c
    BY <2>1, <1>8, ReadingsAssumption
  <2> QED
    BY <2>2, <1>1, <1>4 DEF WireTypes
<1>9. StillRecorded'
  BY <1>2, <1>3, <1>8, TouchedOrRecorded
<1> QED
  BY <1>5, <1>6, <1>7, <1>9 DEF WireInv

LEMMA ReportsPathKeepsWire ==
  ASSUME WireInv, NEW c \in Conn, ReportsPath(c)
  PROVE  WireInv'
<1>1. WireTypes /\ BuilderTypes /\ \A d \in Conn : TapsAgree(d)
  BY DEF WireInv
<1>2. step[c] \in {"named", "unnamed"} /\ UNCHANGED <<link, records>> /\ Touches(link[c].who)
  BY DEF ReportsPath
<1>3. Stands(c) /\ link[c] \in [who : Collector, accepts : BOOLEAN] /\ link[c].who \in Collector
  BY <1>1, <1>2 DEF WireTypes, Stands, TapsAgree
<1>4. /\ paths' = [paths EXCEPT ![c] =
                     [who     |-> IF step[c] = "named" THEN link[c].who ELSE paths[c].who,
                      accepts |-> link[c].accepts,
                      held    |-> TRUE]]
      /\ step' = [step EXCEPT ![c] = "none"]
  BY DEF ReportsPath
<1>5. WireTypes'
  BY <1>1, <1>2, <1>3, <1>4 DEF WireTypes
<1>6. BuilderTypes'
  BY <1>1, <1>2, <1>3, TouchesBuilder
<1>7. ASSUME NEW d \in Conn PROVE TapsAgree(d)'
  <2>1. CASE d = c
    <3>1. /\ paths'[c] = [who     |-> IF step[c] = "named" THEN link[c].who ELSE paths[c].who,
                          accepts |-> link[c].accepts,
                          held    |-> TRUE]
          /\ step'[c] = "none" /\ link'[c] = link[c] /\ records'[c] = records[c]
      BY <1>1, <1>2, <1>4 DEF WireTypes
    <3>2. records[c] = IF step[c] = "named" THEN link[c].who ELSE paths[c].who
      BY <1>1, <1>2 DEF TapsAgree
    <3>3. paths[c].who \in {Nobody, link[c].who}
      BY <1>1, <1>3 DEF TapsAgree
    <3>4. records[c] # NoLink
      BY <3>2, <3>3, <1>3, ReadingsAssumption
    <3>5. Stands(c)'
      BY <1>3, <3>1 DEF Stands
    <3> QED
      BY <2>1, <3>1, <3>2, <3>3, <3>4, <3>5 DEF TapsAgree
  <2>2. CASE d # c
    BY <2>2, <1>1, <1>2, <1>4, OthersAgree DEF WireTypes
  <2> QED
    BY <2>1, <2>2
<1>8. StillRecorded'
  BY <1>2, <1>3, TouchedOrRecorded
<1> QED
  BY <1>5, <1>6, <1>7, <1>8 DEF WireInv

LEMMA ClosesEstateKeepsWire ==
  ASSUME WireInv, NEW c \in Conn, ClosesEstate(c)
  PROVE  WireInv'
<1>1. WireTypes /\ BuilderTypes /\ \A d \in Conn : TapsAgree(d)
  BY DEF WireInv
<1>2. Stands(c) /\ step[c] = "none" /\ UNCHANGED <<link, paths>> /\ Touches(link[c].who)
  BY DEF ClosesEstate, Between
<1>3. link[c] \in [who : Collector, accepts : BOOLEAN] /\ link[c].who \in Collector
  BY <1>1, <1>2 DEF WireTypes, Stands
<1>4. /\ records' = [records EXCEPT ![c] = NoLink]
      /\ step' = [step EXCEPT ![c] = "closed"]
  BY DEF ClosesEstate
<1>5. WireTypes'
  BY <1>1, <1>2, <1>4 DEF WireTypes
<1>6. BuilderTypes'
  BY <1>1, <1>2, <1>3, TouchesBuilder
<1>7. ASSUME NEW d \in Conn PROVE TapsAgree(d)'
  <2>1. CASE d = c
    <3>1. /\ records'[c] = NoLink /\ step'[c] = "closed"
          /\ link'[c] = link[c] /\ paths'[c] = paths[c]
      BY <1>1, <1>2, <1>4 DEF WireTypes
    <3>2. /\ Stands(c)' /\ paths[c].who \in {Nobody, link[c].who}
          /\ ~ paths[c].held => paths[c] = NoPath
      BY <1>1, <1>2, <3>1 DEF TapsAgree, Stands
    <3> QED
      BY <2>1, <3>1, <3>2 DEF TapsAgree, NoPath
  <2>2. CASE d # c
    BY <2>2, <1>1, <1>2, <1>4, OthersAgree DEF WireTypes
  <2> QED
    BY <2>1, <2>2
<1>8. ASSUME NEW d \in Conn, records[d] \in Collector \ {link[c].who}
      PROVE  records'[d] = records[d]
  <2>1. records[c] \in {NoLink, Nobody, link[c].who}
    BY <1>1, <1>2 DEF TapsAgree
  <2>2. d # c
    BY <2>1, <1>8, ReadingsAssumption
  <2> QED
    BY <2>2, <1>1, <1>4 DEF WireTypes
<1>9. StillRecorded'
  BY <1>2, <1>3, <1>8, TouchedOrRecorded
<1> QED
  BY <1>5, <1>6, <1>7, <1>9 DEF WireInv

LEMMA ClosesPathKeepsWire ==
  ASSUME WireInv, NEW c \in Conn, ClosesPath(c)
  PROVE  WireInv'
<1>1. WireTypes /\ BuilderTypes /\ \A d \in Conn : TapsAgree(d)
  BY DEF WireInv
<1>2. step[c] = "closed" /\ UNCHANGED records /\ Touches(link[c].who)
  BY DEF ClosesPath
<1>3. Stands(c) /\ records[c] = NoLink /\ link[c].who \in Collector
  BY <1>1, <1>2 DEF WireTypes, Stands, TapsAgree
<1>4. /\ paths' = [paths EXCEPT ![c] = NoPath]
      /\ link' = [link EXCEPT ![c] = NoLink]
      /\ step' = [step EXCEPT ![c] = "none"]
  BY DEF ClosesPath
<1>5. WireTypes'
  BY <1>1, <1>2, <1>4 DEF WireTypes, NoPath
<1>6. BuilderTypes'
  BY <1>1, <1>2, <1>3, TouchesBuilder
<1>7. ASSUME NEW d \in Conn PROVE TapsAgree(d)'
  <2>1. CASE d = c
    <3>1. /\ paths'[c] = NoPath /\ link'[c] = NoLink /\ step'[c] = "none" /\ records'[c] = NoLink
      BY <1>1, <1>2, <1>3, <1>4 DEF WireTypes
    <3> QED
      BY <2>1, <3>1 DEF TapsAgree, Stands, NoPath
  <2>2. CASE d # c
    BY <2>2, <1>1, <1>2, <1>4, OthersAgree DEF WireTypes
  <2> QED
    BY <2>1, <2>2
<1>8. StillRecorded'
  BY <1>2, <1>3, TouchedOrRecorded
<1> QED
  BY <1>5, <1>6, <1>7, <1>8 DEF WireInv

LEMMA ComposesKeepsWire ==
  ASSUME WireInv, Composes
  PROVE  WireInv'
<1>1. WireTypes /\ BuilderTypes /\ \A c \in Conn : TapsAgree(c)
  BY DEF WireInv
<1>2. UNCHANGED <<link, step, records, paths>>
  BY DEF Composes, wire
<1>3. builder' = "composing" /\ touched' = {} /\ due' = {records[c] : c \in Named}
  BY DEF Composes, Estate
<1>4. WireTypes'
  BY <1>1, <1>2 DEF WireTypes
<1>5. BuilderTypes'
  BY <1>3 DEF BuilderTypes, Named
<1>6. \A c \in Conn : TapsAgree(c)'
  BY <1>1, <1>2, OthersAgree
<1>7. StillRecorded'
  BY <1>2, <1>3 DEF StillRecorded, Names, Named
<1> QED
  BY <1>4, <1>5, <1>6, <1>7 DEF WireInv

LEMMA AsksPathKeepsWire ==
  ASSUME WireInv, NEW who \in due, AsksPath(who)
  PROVE  WireInv'
<1>1. WireTypes /\ BuilderTypes /\ (\A c \in Conn : TapsAgree(c)) /\ StillRecorded
  BY DEF WireInv
<1>2. UNCHANGED <<link, step, records, paths, builder, touched>> /\ due' = due \ {who}
  BY DEF AsksPath, wire
<1>3. WireTypes' /\ BuilderTypes'
  BY <1>1, <1>2 DEF WireTypes, BuilderTypes
<1>4. \A c \in Conn : TapsAgree(c)'
  BY <1>1, <1>2, OthersAgree
<1>5. StillRecorded'
  BY <1>1, <1>2 DEF StillRecorded, Names
<1> QED
  BY <1>3, <1>4, <1>5 DEF WireInv

LEMMA ComposedKeepsWire ==
  ASSUME WireInv, Composed
  PROVE  WireInv'
<1>1. WireTypes /\ BuilderTypes /\ \A c \in Conn : TapsAgree(c)
  BY DEF WireInv
<1>2. UNCHANGED <<link, step, records, paths, due>> /\ builder' = "idle" /\ touched' = {}
  BY DEF Composed, wire
<1>3. WireTypes' /\ BuilderTypes'
  BY <1>1, <1>2 DEF WireTypes, BuilderTypes
<1>4. \A c \in Conn : TapsAgree(c)'
  BY <1>1, <1>2, OthersAgree
<1>5. StillRecorded'
  BY <1>2 DEF StillRecorded
<1> QED
  BY <1>3, <1>4, <1>5 DEF WireInv

LEMMA WireStandsStill ==
  ASSUME WireInv, UNCHANGED rvars
  PROVE  WireInv'
<1>1. WireTypes /\ BuilderTypes /\ (\A c \in Conn : TapsAgree(c)) /\ StillRecorded
  BY DEF WireInv
<1>2. UNCHANGED <<link, step, records, paths, builder, due, touched>>
  BY DEF rvars
<1>3. WireTypes' /\ BuilderTypes' /\ StillRecorded'
  BY <1>1, <1>2 DEF WireTypes, BuilderTypes, StillRecorded, Names
<1>4. \A c \in Conn : TapsAgree(c)'
  BY <1>1, <1>2, OthersAgree
<1> QED
  BY <1>3, <1>4 DEF WireInv

-----------------------------------------------------------------------------
(* What a step of the fleet is to each part of it.                         *)

LEMMA WireOnly ==
  ASSUME NEW kinds \in SUBSET BOOLEAN, NEW messages \in SUBSET BOOLEAN, WireNext(kinds, messages)
  PROVE  WireNext(BOOLEAN, BOOLEAN)
BY DEF WireNext

LEMMA StepOfTheReadings ==
  ASSUME [FleetNext]_vars
  PROVE  \/ WireNext(BOOLEAN, BOOLEAN)
         \/ Composes
         \/ \E who \in due : AsksPath(who)
         \/ \E self, signal : Builds(self, signal)
         \/ UNCHANGED rvars
<1>1. CASE InWire
  BY <1>1 DEF InWire, Takes
<1>2. CASE InTime
  <2>1. CASE Taps
    BY <2>1 DEF Taps, WireNext
  <2>2. CASE Begins \/ Asks \/ Ends \/ Passes
    BY <2>2 DEF Begins, Asks, Ends, Passes, Takes, Tick
  <2>3. CASE WireNext({TRUE}, {TRUE})
    BY <2>3, WireOnly
  <2>4. CASE PeopleMerge
    BY <2>4 DEF PeopleMerge
  <2> QED
    BY <1>2, <2>1, <2>2, <2>3, <2>4 DEF InTime
<1>3. CASE InRecord \/ UNCHANGED vars
  BY <1>3 DEF InRecord, vars
<1> QED
  BY <1>1, <1>2, <1>3 DEF FleetNext

LEMMA StepOfTheClocks ==
  ASSUME [FleetNext]_vars
  PROVE  \/ \E self, signal : Builds(self, signal)
         \/ Tick
         \/ UNCHANGED clocks
<1>1. CASE InWire
  BY <1>1 DEF InWire, Takes, ivars
<1>2. CASE InTime
  BY <1>2 DEF InTime, Taps, Begins, Asks, Ends, Passes, Takes, PeopleMerge, ivars
<1>3. CASE InRecord \/ UNCHANGED vars
  BY <1>3 DEF InRecord, vars, ivars
<1> QED
  BY <1>1, <1>2, <1>3 DEF FleetNext

LEMMA StepOfTheLedger ==
  ASSUME [FleetNext]_vars
  PROVE  \/ LedgerNext
         \/ Ages /\ UNCHANGED <<stage, declares, dated, holds, status, ledger>>
         \/ UNCHANGED lvars
<1>1. CASE InWire
  BY <1>1 DEF InWire
<1>2. CASE InTime
  BY <1>2 DEF InTime, Taps, Begins, Asks, Ends, Passes
<1>3. CASE InRecord \/ UNCHANGED vars
  BY <1>3 DEF InRecord, vars
<1> QED
  BY <1>1, <1>2, <1>3 DEF FleetNext

LEMMA WireKept ==
  ASSUME WireInv, [FleetNext]_vars
  PROVE  WireInv'
<1>1. CASE WireNext(BOOLEAN, BOOLEAN)
  BY <1>1, ConnectsKeepsWire, ReportsEstateKeepsWire, ReportsPathKeepsWire, ClosesEstateKeepsWire,
     ClosesPathKeepsWire DEF WireNext, SecondTap
<1>2. CASE \E who \in due : AsksPath(who)
  BY <1>2, AsksPathKeepsWire
<1>3. CASE \E self, signal : Builds(self, signal)
  BY <1>3, ComposedKeepsWire DEF Builds
<1> QED
  BY <1>1, <1>2, <1>3, StepOfTheReadings, ComposesKeepsWire, WireStandsStill

-----------------------------------------------------------------------------
(* The delivery path.                                                      *)

(* Of a collector that stands still, the tap holds the connections that    *)
(* the record names it on, and what each of them accepts.                  *)
LEMMA HeldWhereNamed ==
  ASSUME WireInv, NEW who \in Collector, StoodStill(who)
  PROVE  /\ Held(who) = {c \in Conn : Names(c, who)}
         /\ \A c \in Held(who) : paths[c].accepts = link[c].accepts
<1>1. WireTypes /\ \A c \in Conn : TapsAgree(c)
  BY DEF WireInv
<1>2. who # Nobody /\ who # NoLink
  BY ReadingsAssumption
<1>3. ASSUME NEW c \in Conn, c \in Held(who)
      PROVE  Names(c, who) /\ paths[c].accepts = link[c].accepts
  <2>1. paths[c].held /\ paths[c].who = who
    BY <1>3 DEF Held
  <2>2. Stands(c)
    BY <1>1, <1>2, <2>1 DEF TapsAgree, NoPath
  <2>3. link[c].who = who
    BY <1>1, <1>2, <2>1, <2>2 DEF TapsAgree
  <2>4. step[c] = "none"
    BY <2>2, <2>3 DEF StoodStill, Between
  <2>5. records[c] # NoLink
    BY <1>1, <2>1, <2>4 DEF TapsAgree
  <2>6. paths[c] = [who |-> records[c], accepts |-> link[c].accepts, held |-> TRUE]
    BY <1>1, <2>4, <2>5 DEF TapsAgree
  <2> QED
    BY <2>1, <2>6 DEF Names
<1>4. ASSUME NEW c \in Conn, Names(c, who)
      PROVE  c \in Held(who)
  <2>1. records[c] = who
    BY <1>4 DEF Names
  <2>2. Stands(c)
    BY <1>1, <1>2, <2>1 DEF TapsAgree
  <2>3. link[c].who = who
    BY <1>1, <1>2, <2>1, <2>2 DEF TapsAgree
  <2>4. step[c] = "none"
    BY <2>2, <2>3 DEF StoodStill, Between
  <2>5. paths[c] = [who |-> records[c], accepts |-> link[c].accepts, held |-> TRUE]
    BY <1>1, <1>2, <2>1, <2>4 DEF TapsAgree
  <2> QED
    BY <2>1, <2>5 DEF Held
<1>5. Held(who) \subseteq Conn
  BY DEF Held
<1> QED
  BY <1>3, <1>4, <1>5

LEMMA StillPathIsTheWires ==
  ASSUME WireInv, NEW who \in due, AsksPath(who), StoodStill(who)
  PROVE  answer'.path = IF \E c \in Conn : Names(c, who) /\ link[c].accepts
                          THEN "served" ELSE "git"
<1>1. who \in Collector
  BY DEF WireInv, BuilderTypes
<1>2. \E c \in Conn : Names(c, who)
  BY DEF WireInv, StillRecorded, StoodStill, AsksPath
<1>3. /\ Held(who) = {c \in Conn : Names(c, who)}
      /\ \A c \in Held(who) : paths[c].accepts = link[c].accepts
  BY <1>1, HeldWhereNamed
<1>4. answer'.path = Path(who)
  BY DEF AsksPath
<1>5. Held(who) # {}
  BY <1>2, <1>3
<1>6. (\A c \in Held(who) : ~ paths[c].accepts) <=> ~ \E c \in Conn : Names(c, who) /\ link[c].accepts
  BY <1>3
<1> QED
  BY <1>4, <1>5, <1>6 DEF Path

LEMMA AnAnswerIsAsked ==
  ASSUME [FleetNext]_vars, answer' # answer, answer'.who # Nobody
  PROVE  \E who \in due : AsksPath(who) /\ answer'.who = who
<1>1. CASE WireNext(BOOLEAN, BOOLEAN)
  BY <1>1 DEF WireNext, Connects, ReportsEstate, SecondTap, ReportsPath, ClosesEstate, ClosesPath,
     Touches
<1>2. CASE Composes
  BY <1>2 DEF Composes, NoAnswer
<1>3. CASE \E self, signal : Builds(self, signal)
  BY <1>3 DEF Builds, Composed, NoAnswer
<1>4. CASE \E who \in due : AsksPath(who)
  BY <1>4 DEF AsksPath
<1>5. CASE UNCHANGED rvars
  BY <1>5 DEF rvars
<1> QED
  BY <1>1, <1>2, <1>3, <1>4, <1>5, StepOfTheReadings

-----------------------------------------------------------------------------
(* The clocks.                                                             *)

LEMMA SilenceIsHonest ==
  ASSUME ClocksInv, NEW signal
  PROVE  /\ Silence(signal) \in Spans \cup {NoSpan}
         /\ signal # "silent" => Silence(signal) = NoSpan
         /\ Silence(signal) # NoSpan => Silence(signal) = 0 \/ Silence(signal) <= sinceHeard
<1>1. CASE signal # "silent"
  BY <1>1 DEF Silence
<1>2. CASE signal = "silent" /\ silence = NoSpan
  BY <1>2, ZeroIsASpan DEF Silence
<1>3. CASE signal = "silent" /\ silence # NoSpan
  <2>1. Silence(signal) = silence
    BY <1>3 DEF Silence
  <2> QED
    BY <1>3, <2>1 DEF ClocksInv, ClockTypes
<1> QED
  BY <1>1, <1>2, <1>3

LEMMA ClockIsHonest ==
  ASSUME ClocksInv, NEW seen
  PROVE  /\ Clock(seen) \in Spans \cup {NoSpan}
         /\ seen >= Floor => Clock(seen) = NoSpan
         /\ Clock(seen) # NoSpan => Clock(seen) = 0 \/ Clock(seen) <= sinceFloor
<1>1. CASE seen >= Floor
  BY <1>1 DEF Clock
<1>2. CASE ~ (seen >= Floor) /\ shortfall = NoSpan
  <2>1. Clock(seen) = 0
    BY <1>2 DEF Clock
  <2> QED
    BY <1>2, <2>1, ZeroIsASpan
<1>3. CASE ~ (seen >= Floor) /\ shortfall # NoSpan
  <2>1. Clock(seen) = shortfall
    BY <1>3 DEF Clock
  <2> QED
    BY <1>3, <2>1 DEF ClocksInv, ClockTypes
<1> QED
  BY <1>1, <1>2, <1>3

LEMMA BuildsKeepsClocks ==
  ASSUME ClocksInv, NEW self, NEW signal, Builds(self, signal)
  PROVE  ClocksInv'
<1>1. /\ {shortfall, silence} \subseteq Spans \cup {NoSpan} /\ {sinceFloor, sinceHeard} \subseteq Spans
      /\ shortfall # NoSpan => shortfall <= sinceFloor
      /\ silence # NoSpan => silence <= sinceHeard
  BY DEF ClocksInv, ClockTypes
<1>2. sinceFloor >= 0 /\ sinceHeard >= 0 /\ sinceFloor \in Nat /\ sinceHeard \in Nat
  BY <1>1, LongestIsASpan DEF Spans
<1>3. CASE estate = "tier" /\ shortfall' = Clock(taken.entries) /\ silence' = Silence(signal)
           /\ sinceFloor' = (IF taken.entries >= Floor THEN 0 ELSE sinceFloor)
           /\ sinceHeard' = (IF signal # "silent" THEN 0 ELSE sinceHeard)
  <2>1. shortfall' # NoSpan => shortfall' <= sinceFloor'
    BY <1>2, <1>3, ClockIsHonest
  <2>2. silence' # NoSpan => silence' <= sinceHeard'
    BY <1>2, <1>3, SilenceIsHonest
  <2>3. {shortfall', silence'} \subseteq Spans \cup {NoSpan}
    BY <1>3, ClockIsHonest, SilenceIsHonest
  <2>4. {sinceFloor', sinceHeard'} \subseteq Spans
    BY <1>1, <1>3, ZeroIsASpan
  <2> QED
    BY <2>1, <2>2, <2>3, <2>4 DEF ClocksInv, ClockTypes
<1>4. CASE UNCHANGED clocks
  BY <1>1, <1>4 DEF ClocksInv, ClockTypes, clocks
<1>5. CASE silence' = Silence(signal) /\ UNCHANGED <<shortfall, sinceFloor, sinceHeard>>
  <2>1. silence' # NoSpan => silence' <= sinceHeard'
    BY <1>2, <1>5, SilenceIsHonest
  <2>2. silence' \in Spans \cup {NoSpan}
    BY <1>5, SilenceIsHonest
  <2> QED
    BY <1>1, <1>5, <2>1, <2>2 DEF ClocksInv, ClockTypes
<1> QED
  BY <1>3, <1>4, <1>5 DEF Builds

LEMMA TickKeepsClocks ==
  ASSUME ClocksInv, Tick
  PROVE  ClocksInv'
<1>1. /\ {shortfall, silence} \subseteq Spans \cup {NoSpan} /\ {sinceFloor, sinceHeard} \subseteq Spans
      /\ shortfall # NoSpan => shortfall <= sinceFloor
      /\ silence # NoSpan => silence <= sinceHeard
  BY DEF ClocksInv, ClockTypes
<1>2. /\ shortfall' = Aged(shortfall) /\ silence' = Aged(silence)
      /\ sinceFloor' = Aged(sinceFloor) /\ sinceHeard' = Aged(sinceHeard)
  BY DEF Tick
<1>3. {sinceFloor', sinceHeard'} \subseteq Spans
  BY <1>1, <1>2, AgedIsASpan
<1>4. shortfall' \in Spans \cup {NoSpan} /\ (shortfall' # NoSpan => shortfall' <= sinceFloor')
  <2>1. CASE shortfall = NoSpan
    BY <2>1, <1>2, NoSpanStays
  <2>2. CASE shortfall # NoSpan
    BY <2>2, <1>1, <1>2, AgedIsASpan, AgedKeepsOrder
  <2> QED
    BY <2>1, <2>2
<1>5. silence' \in Spans \cup {NoSpan} /\ (silence' # NoSpan => silence' <= sinceHeard')
  <2>1. CASE silence = NoSpan
    BY <2>1, <1>2, NoSpanStays
  <2>2. CASE silence # NoSpan
    BY <2>2, <1>1, <1>2, AgedIsASpan, AgedKeepsOrder
  <2> QED
    BY <2>1, <2>2
<1> QED
  BY <1>3, <1>4, <1>5 DEF ClocksInv, ClockTypes

LEMMA ClocksKept ==
  ASSUME ClocksInv, [FleetNext]_vars
  PROVE  ClocksInv'
<1>1. CASE UNCHANGED clocks
  BY <1>1 DEF ClocksInv, ClockTypes, clocks
<1> QED
  BY <1>1, StepOfTheClocks, BuildsKeepsClocks, TickKeepsClocks

LEMMA PublishedFindings ==
  ASSUME ClocksInv, [FleetNext]_vars, Publishes
  PROVE  /\ doc'.toothed => sinceFloor >= Grace
         /\ doc'.signal = "red" => sinceHeard >= Grace
<1>1. PICK self, signal : Builds(self, signal)
  <2>1. CASE WireNext(BOOLEAN, BOOLEAN)
    BY <2>1 DEF WireNext, Connects, ReportsEstate, SecondTap, ReportsPath, ClosesEstate, ClosesPath,
       Touches, Publishes
  <2>2. CASE Composes \/ (\E who \in due : AsksPath(who)) \/ UNCHANGED rvars
    BY <2>2 DEF Composes, AsksPath, rvars, Publishes
  <2> QED
    BY <2>1, <2>2, StepOfTheReadings
<1>2. doc' = Judged(self, signal)
  BY <1>1 DEF Builds, Publishes
<1>3. Grace \in Nat /\ Grace > 0 /\ sinceFloor \in Nat /\ sinceHeard \in Nat
  BY JudgementAssumption, LongestIsASpan DEF ClocksInv, ClockTypes, Spans
<1>4. ASSUME doc'.toothed PROVE sinceFloor >= Grace
  <2>1. doc'.toothed = Findings(Floor, taken.entries, taken.entries > 0, ShortfallSince).toothed
    BY <1>2 DEF Judged
  <2>2. Lasted(ShortfallSince, Grace)
    BY <1>4, <2>1 DEF Findings, NoFinding
  <2>3. shortfall # NoSpan /\ shortfall >= Grace
    BY <2>2 DEF Lasted, ShortfallSince
  <2>4. shortfall \in Nat /\ shortfall <= sinceFloor
    BY <2>3, LongestIsASpan DEF ClocksInv, ClockTypes, Spans
  <2> QED
    BY <1>3, <2>3, <2>4
<1>5. ASSUME doc'.signal = "red" PROVE sinceHeard >= Grace
  <2>1. DataClaimed(signal, Silence(signal)) = "red"
    BY <1>2, <1>5 DEF Judged
  <2>2. Lasted(Silence(signal), Grace)
    BY <2>1 DEF DataClaimed
  <2>3. Silence(signal) # NoSpan /\ Silence(signal) >= Grace
    BY <2>2 DEF Lasted
  <2>4. Silence(signal) \in Nat /\ (Silence(signal) = 0 \/ Silence(signal) <= sinceHeard)
    BY <2>3, SilenceIsHonest, LongestIsASpan DEF Spans
  <2> QED
    BY <1>3, <2>3, <2>4
<1> QED
  BY <1>4, <1>5

-----------------------------------------------------------------------------
(* The Rollout.                                                            *)

LEMMA AppliesKeepsLedger ==
  ASSUME LedgerInv, NEW c \in Collector, Applies(c)
  PROVE  LedgerInv'
<1>1. LedgerTypes /\ RunsWhatItApplied /\ AppliedInTheStage
  BY DEF LedgerInv
<1>2. /\ holds' = [holds EXCEPT ![c] = "to"]
      /\ status' = [status EXCEPT ![c] = [state |-> "APPLIED", hash |-> "to"]]
      /\ applied' = [applied EXCEPT ![c] = 0]
      /\ lastSeen' = [lastSeen EXCEPT ![c] = 0]
      /\ UNCHANGED <<stage, standing, declares, dated>>
  BY DEF Applies
<1>3. LedgerTypes'
  BY <1>1, <1>2, ZeroIsASpan DEF LedgerTypes
<1>4. RunsWhatItApplied'
  BY <1>1, <1>2 DEF RunsWhatItApplied, LedgerTypes
<1>5. AppliedInTheStage'
  <2>1. standing \in Nat
    BY <1>1, LongestIsASpan DEF LedgerTypes, Spans
  <2> QED
    BY <1>1, <1>2, <2>1 DEF AppliedInTheStage, LedgerTypes
<1> QED
  BY <1>3, <1>4, <1>5 DEF LedgerInv

LEMMA RefusesKeepsLedger ==
  ASSUME LedgerInv, NEW c \in Collector, NEW hash \in {"from", "to"}, Refuses(c, hash)
  PROVE  LedgerInv'
<1>1. LedgerTypes /\ RunsWhatItApplied /\ AppliedInTheStage
  BY DEF LedgerInv
<1>2. /\ status' = [status EXCEPT ![c] = [state |-> "FAILED", hash |-> hash]]
      /\ lastSeen' = [lastSeen EXCEPT ![c] = 0]
      /\ UNCHANGED <<stage, standing, declares, dated, holds, applied>>
  BY DEF Refuses
<1>3. LedgerTypes'
  BY <1>1, <1>2, ZeroIsASpan DEF LedgerTypes
<1>4. RunsWhatItApplied'
  BY <1>1, <1>2 DEF RunsWhatItApplied, LedgerTypes
<1>5. AppliedInTheStage'
  BY <1>1, <1>2 DEF AppliedInTheStage
<1> QED
  BY <1>3, <1>4, <1>5 DEF LedgerInv

LEMMA ReportsKeepsLedger ==
  ASSUME LedgerInv, NEW c \in Collector, Reports(c)
  PROVE  LedgerInv'
BY ZeroIsASpan DEF LedgerInv, LedgerTypes, RunsWhatItApplied, AppliedInTheStage, Reports

LEMMA AgesKeepsLedger ==
  ASSUME LedgerInv, Ages, UNCHANGED <<stage, declares, dated, holds, status, ledger>>
  PROVE  LedgerInv'
<1>1. LedgerTypes /\ RunsWhatItApplied /\ AppliedInTheStage
  BY DEF LedgerInv
<1>2. /\ standing' = Aged(standing)
      /\ lastSeen' = [c \in Collector |-> Aged(lastSeen[c])]
      /\ applied' = [c \in Collector |-> Aged(applied[c])]
  BY DEF Ages
<1>3. \A c \in Collector : {lastSeen'[c], applied'[c]} \subseteq Spans \cup {NoSpan}
  BY <1>1, <1>2, AgedIsASpan, NoSpanStays DEF LedgerTypes
<1>4. LedgerTypes'
  <2>1. standing' \in Spans
    BY <1>1, <1>2, AgedIsASpan DEF LedgerTypes
  <2>2. lastSeen' \in [Collector -> Spans \cup {NoSpan}] /\ applied' \in [Collector -> Spans \cup {NoSpan}]
    BY <1>2, <1>3
  <2> QED
    BY <1>1, <2>1, <2>2 DEF LedgerTypes
<1>5. RunsWhatItApplied'
  BY <1>1 DEF RunsWhatItApplied
<1>6. AppliedInTheStage'
  <2> SUFFICES ASSUME stage = 1, NEW c \in Collector, applied'[c] # NoSpan
               PROVE  applied'[c] <= standing'
    BY DEF AppliedInTheStage
  <2>1. applied[c] # NoSpan
    BY <1>2, NoSpanStays
  <2>2. applied[c] \in Spans /\ standing \in Spans /\ applied[c] <= standing
    BY <1>1, <2>1 DEF LedgerTypes, AppliedInTheStage
  <2> QED
    BY <1>2, <2>2, AgedKeepsOrder
<1> QED
  BY <1>4, <1>5, <1>6 DEF LedgerInv

LEMMA MergesKeepLedger ==
  ASSUME LedgerInv, MergesAdvance \/ MergesAbort
  PROVE  LedgerInv'
<1>1. LedgerTypes /\ RunsWhatItApplied /\ AppliedInTheStage
  BY DEF LedgerInv
<1>2. standing' = 0 /\ UNCHANGED <<declares, dated, holds, status, lastSeen, applied>>
  BY DEF MergesAdvance, MergesAbort, collectors
<1>3. stage' = NoStage \/ (stage \in Stages /\ stage' = stage + 1)
  BY DEF MergesAdvance, MergesAbort
<1>4. NoStage \notin Nat
  BY LedgerAssumption
<1>5. stage' \in {NoStage} \cup (Nat \ {0}) /\ stage' # 1
  <2>1. CASE stage' = NoStage
    BY <1>4, <2>1
  <2>2. CASE stage \in Stages /\ stage' = stage + 1
    <3>1. stage \in Nat \ {0}
      <4>1. Stages \subseteq Nat
        BY JudgementAssumption DEF Stages
      <4> QED
        BY <1>1, <1>4, <2>2, <4>1 DEF LedgerTypes
    <3> QED
      BY <2>2, <3>1
  <2> QED
    BY <1>3, <2>1, <2>2
<1>6. LedgerTypes'
  BY <1>1, <1>2, <1>5, ZeroIsASpan DEF LedgerTypes
<1> QED
  BY <1>1, <1>2, <1>5, <1>6 DEF LedgerInv, RunsWhatItApplied, AppliedInTheStage

LEMMA LedgerStandsStill ==
  ASSUME LedgerInv, UNCHANGED <<stage, standing, collectors>>
  PROVE  LedgerInv'
BY DEF LedgerInv, LedgerTypes, RunsWhatItApplied, AppliedInTheStage, collectors

LEMMA LedgerKept ==
  ASSUME LedgerInv, [FleetNext]_vars
  PROVE  LedgerInv'
<1>1. CASE LedgerNext
  <2>1. CASE Snapshots
    BY <2>1, LedgerStandsStill DEF Snapshots
  <2> QED
    BY <1>1, <2>1, AppliesKeepsLedger, RefusesKeepsLedger, ReportsKeepsLedger, MergesKeepLedger
       DEF LedgerNext
<1>2. CASE UNCHANGED lvars
  BY <1>2, LedgerStandsStill DEF lvars
<1> QED
  BY <1>1, <1>2, StepOfTheLedger, AgesKeepsLedger

(* What the ledger is computed of: the members of the active cohort, each  *)
(* as the file declares it.                                                *)

LEMMA MembersAreTheCohort ==
  ASSUME LedgerInv, stage \in Stages
  PROVE  ActiveCohort(stage) \subseteq Collector
<1>1. Stages = 1 .. Len(Cohort) /\ Len(Cohort) \in Nat /\ \A i \in Stages : Cohort[i] \subseteq Collector
  BY JudgementAssumption DEF Stages
<1>2. \A i \in 1 .. stage : i \in Stages
  BY <1>1
<1> QED
  BY <1>1, <1>2 DEF ActiveCohort

LEMMA WhatRuns ==
  ASSUME LedgerInv, NEW c \in Collector, RunningArtefact(Declared(c)) = "to"
  PROVE  /\ Served(c) /\ holds[c] = "to" /\ lastSeen[c] # NoSpan
         /\ deliveryStatus(Declared(c)).known
<1> DEFINE d == deliveryStatus(Declared(c))
<1>1. d.known /\ d.state = "APPLIED" /\ d.hash = "to"
  BY DEF RunningArtefact
<1>2. lastSeen[c] # NoSpan /\ Served(c)
  <2>1. CASE Declared(c).lastSeen = NoSpan \/ Declared(c).delivery # "served"
    BY <1>1, <2>1 DEF deliveryStatus, Unread
  <2>2. CASE ~ (Declared(c).lastSeen = NoSpan \/ Declared(c).delivery # "served")
    BY <2>2 DEF Declared, Served
  <2> QED
    BY <2>1, <2>2
<1>3. CASE declares[c].says = "status"
  <2>1. status[c].state = "APPLIED" /\ status[c].hash = "to"
    BY <1>1, <1>2, <1>3 DEF deliveryStatus, Declared, Served
  <2> QED
    BY <1>1, <1>2, <2>1 DEF LedgerInv, RunsWhatItApplied
<1>4. CASE declares[c].says # "status"
  <2>1. holds[c] = "to"
    BY <1>1, <1>2, <1>4 DEF deliveryStatus, Declared, Served
  <2> QED
    BY <1>1, <1>2, <2>1
<1> QED
  BY <1>3, <1>4

LEMMA WhatHalts ==
  ASSUME LedgerInv, NEW c \in Collector
  PROVE  /\ Halts(Declared(c)) =>
              /\ Served(c) /\ lastSeen[c] # NoSpan
              /\ \/ status[c] = [state |-> "FAILED", hash |-> "to"]
                 \/ holds[c] = "to" /\ lastSeen[c] > Horizon
         /\ Refused(c) \/ WentDark(c) => Halts(Declared(c))
<1> DEFINE d == deliveryStatus(Declared(c))
<1>1. status[c] = [state |-> status[c].state, hash |-> status[c].hash]
  BY DEF LedgerInv, LedgerTypes
<1>2. Declared(c).lastSeen = lastSeen[c]
  BY DEF Declared
<1>3. ASSUME FailedForTo(Declared(c))
      PROVE  Served(c) /\ lastSeen[c] # NoSpan /\ status[c] = [state |-> "FAILED", hash |-> "to"]
  <2>1. d.known /\ d.state = "FAILED" /\ d.hash = "to"
    BY <1>3 DEF FailedForTo
  <2>2. lastSeen[c] # NoSpan /\ Served(c)
    <3>1. CASE Declared(c).lastSeen = NoSpan \/ Declared(c).delivery # "served"
      BY <2>1, <3>1 DEF deliveryStatus, Unread
    <3>2. CASE ~ (Declared(c).lastSeen = NoSpan \/ Declared(c).delivery # "served")
      BY <3>2 DEF Declared, Served
    <3> QED
      BY <3>1, <3>2
  <2>3. declares[c].says = "status"
    <3> SUFFICES ASSUME declares[c].says # "status" PROVE FALSE
      OBVIOUS
    <3>1. d.state = "APPLIED"
      BY <2>2 DEF deliveryStatus, Declared, Served
    <3> QED
      BY <2>1, <3>1
  <2>4. d.state = status[c].state /\ d.hash = status[c].hash
    BY <2>2, <2>3 DEF deliveryStatus, Declared, Served
  <2> QED
    BY <1>1, <2>1, <2>2, <2>4
<1>4. ASSUME WentDarkAfterApply(Declared(c))
      PROVE  Served(c) /\ lastSeen[c] # NoSpan /\ holds[c] = "to" /\ lastSeen[c] > Horizon
  <2>1. RunningArtefact(Declared(c)) = "to" /\ Declared(c).lastSeen > Horizon
    BY <1>4 DEF WentDarkAfterApply, silent
  <2> QED
    BY <1>2, <2>1, WhatRuns
<1>5. ASSUME Tells(c)
      PROVE  d.known /\ d.state = status[c].state /\ d.hash = status[c].hash
  BY <1>5 DEF Tells, Served, deliveryStatus, Declared
<1>6. ASSUME Refused(c) PROVE FailedForTo(Declared(c))
  BY <1>5, <1>6 DEF Refused, FailedForTo
<1>7. ASSUME WentDark(c) PROVE WentDarkAfterApply(Declared(c))
  <2>1. d.known /\ d.state = "APPLIED" /\ d.hash = "to"
    BY <1>5, <1>7 DEF WentDark
  <2>2. Declared(c).lastSeen > Horizon
    BY <1>2, <1>7 DEF WentDark
  <2> QED
    BY <2>1, <2>2 DEF WentDarkAfterApply, silent, RunningArtefact
<1> QED
  BY <1>3, <1>4, <1>6, <1>7 DEF Halts

LEMMA SnapshotsOfTheCohort ==
  ASSUME LedgerInv, Snapshots
  PROVE  LET readings == [c \in Collector |-> Declared(c)]
             members  == ActiveCohort(stage)
         IN  /\ members \subseteq Collector
             /\ ledger' \in {"blocked", "abort"} => \E c \in members : Halts(Declared(c))
             /\ ledger' = "advance" => /\ \A c \in members : ~ Halts(Declared(c))
                                       /\ TakenBy(readings, members) # {}
                                       /\ ~ (Soaked(readings, members) < Soak)
<1> DEFINE readings == [c \in Collector |-> Declared(c)]
           members  == ActiveCohort(stage)
           halted   == {c \in members : Halts(readings[c])}
           past     == Cardinality(halted) * AbortDen >= Cardinality(members) * AbortNum
<1>1. members \subseteq Collector
  BY MembersAreTheCohort DEF Snapshots
<1>2. members \cap DOMAIN readings = members
  BY <1>1
<1>3. ledger' = CASE halted # {} /\ past                           -> "abort"
                  [] halted # {} /\ ~ past                         -> "blocked"
                  [] halted = {} /\ Soaked(readings, members) < Soak    -> "hold"
                  [] halted = {} /\ TakenBy(readings, members) = {}     -> "hold"
                  [] OTHER                                         -> "advance"
  <2>1. ledger' = Evaluate(stage, readings)
    BY DEF Snapshots
  <2> HIDE DEF readings
  <2> QED
    BY <1>2, <2>1 DEF Evaluate
<1>4. halted = {c \in members : Halts(Declared(c))}
  BY <1>1
<1>5. ledger' \in {"blocked", "abort"} => halted # {}
  <2> HIDE DEF readings, members, halted, past
  <2> QED
    BY <1>3
<1>6. ledger' = "advance" => /\ halted = {} /\ TakenBy(readings, members) # {}
                             /\ ~ (Soaked(readings, members) < Soak)
  <2> HIDE DEF readings, members, halted, past
  <2> QED
    BY <1>3
<1> HIDE DEF readings
<1> QED
  BY <1>1, <1>4, <1>5, <1>6 DEF readings

(* What has soaked was applied by a member, in the stage if it is the      *)
(* first.                                                                  *)
LEMMA SoakIsServed ==
  ASSUME LedgerInv, stage = 1, NEW members \in SUBSET Collector,
         ~ (Soaked([c \in Collector |-> Declared(c)], members) < Soak)
  PROVE  standing >= Soak
<1> DEFINE readings == [c \in Collector |-> Declared(c)]
           instants == Applied(readings, members)
<1>1. LedgerTypes /\ AppliedInTheStage
  BY DEF LedgerInv
<1>2. Soak \in Nat /\ Soak > 0
  BY JudgementAssumption
<1>3. instants # {}
  <2> SUFFICES ASSUME instants = {} PROVE FALSE
    OBVIOUS
  <2>1. Soaked(readings, members) = 0
    BY DEF Soaked
  <2> QED
    BY <1>2, <2>1
<1>4. \A n \in instants : n \in Spans /\ n <= standing
  <2> SUFFICES ASSUME NEW n \in instants PROVE n \in Spans /\ n <= standing
    OBVIOUS
  <2>1. PICK c \in members : n = readings[c].applied /\ n # NoSpan
    BY DEF Applied, TakenBy
  <2>2. n = applied[c]
    BY <2>1 DEF Declared
  <2>3. c \in Collector
    BY <2>1
  <2> QED
    BY <1>1, <2>1, <2>2, <2>3 DEF LedgerTypes, AppliedInTheStage
<1>5. Earliest(instants) \in instants
  <2>1. instants \subseteq Spans
    BY <1>4
  <2> HIDE DEF instants
  <2> QED
    BY <1>3, <2>1, EarliestExists
<1>6. ~ (Earliest(instants) < Soak)
  BY <1>3 DEF Soaked
<1>7. Earliest(instants) \in Nat /\ standing \in Nat
  BY <1>1, <1>4, <1>5, LongestIsASpan DEF LedgerTypes, Spans
<1> HIDE DEF instants
<1> QED
  BY <1>2, <1>4, <1>5, <1>6, <1>7

-----------------------------------------------------------------------------
(* The invariant, and what it shows.                                       *)

LEMMA FleetInvStarts == FleetInit => FleetInv
<1> SUFFICES ASSUME FleetInit PROVE FleetInv
  OBVIOUS
<1>1. WireInv
  BY WireStarts DEF FleetInit
<1>2. ClocksInv
  BY ZeroIsASpan DEF FleetInit, ClocksInv, ClockTypes
<1>3. LedgerInv
  BY ZeroIsASpan DEF FleetInit, LedgerInit, LedgerInv, LedgerTypes, RunsWhatItApplied,
     AppliedInTheStage
<1> QED
  BY <1>1, <1>2, <1>3 DEF FleetInv

LEMMA FleetInvKept == FleetInv /\ [FleetNext]_vars => FleetInv'
BY WireKept, ClocksKept, LedgerKept DEF FleetInv

(* The wires, the clocks and the ledger, over any scene (FleetNext).       *)
THEOREM FleetInvHolds == FleetSpec => []FleetInv
BY FleetInvStarts, FleetInvKept, PTL DEF FleetSpec

(* Whatever connections say and however they come and go, the path the     *)
(* Composer is answered for a collector that stands still is the one the   *)
(* wire gives it.                                                          *)
THEOREM PathIsTheWires == FleetSpec => DeliveryPathIsTheWires
<1>1. ASSUME FleetInv, [FleetNext]_vars
      PROVE  [answer' # answer /\ answer'.who # Nobody /\ StoodStill(answer'.who) =>
                answer'.path = IF \E c \in Conn : Names(c, answer'.who) /\ link[c].accepts
                                 THEN "served" ELSE "git"]_vars
  BY <1>1, AnAnswerIsAsked, StillPathIsTheWires DEF FleetInv
<1> QED
  BY <1>1, FleetInvHolds, PTL DEF FleetSpec, DeliveryPathIsTheWires

(* No finding with teeth and no red claim is published before the grace    *)
(* window has passed since the documents last showed otherwise, in any     *)
(* estate, for any floor and any window.                                   *)
THEOREM FindingsServeTheirWindow == FleetSpec => FindingsNeedASpan
<1>1. ASSUME FleetInv, [FleetNext]_vars
      PROVE  [Publishes => /\ doc'.toothed => sinceFloor >= Grace
                           /\ doc'.signal = "red" => sinceHeard >= Grace]_vars
  BY <1>1, PublishedFindings DEF FleetInv
<1> QED
  BY <1>1, FleetInvHolds, PTL DEF FleetSpec, FindingsNeedASpan

(* A ledger that says advance has a served member that runs the artefact,  *)
(* none that refused it or went dark with it, and a first stage that has   *)
(* soaked since it became active.                                          *)
THEOREM AdvancesRestOnEvidence == FleetSpec => AdvanceRestsOnEvidence
<1>1. ASSUME FleetInv, Snapshots, ledger' = "advance"
      PROVE  /\ \E c \in ActiveCohort(stage) : Served(c) /\ holds[c] = "to"
             /\ \A c \in ActiveCohort(stage) : ~ Refused(c) /\ ~ WentDark(c)
             /\ stage = 1 => standing >= Soak
  <2> DEFINE readings == [c \in Collector |-> Declared(c)]
             members  == ActiveCohort(stage)
  <2>1. LedgerInv
    BY <1>1 DEF FleetInv
  <2>2. /\ members \subseteq Collector
        /\ \A c \in members : ~ Halts(Declared(c))
        /\ TakenBy(readings, members) # {}
        /\ ~ (Soaked(readings, members) < Soak)
    BY <1>1, <2>1, SnapshotsOfTheCohort
  <2>3. PICK c \in members : RunningArtefact(readings[c]) = "to"
    BY <2>2 DEF TakenBy
  <2>4. c \in Collector /\ RunningArtefact(Declared(c)) = "to"
    BY <2>2, <2>3
  <2>5. Served(c) /\ holds[c] = "to"
    BY <2>1, <2>4, WhatRuns
  <2>6. \A d \in members : ~ Refused(d) /\ ~ WentDark(d)
    BY <2>1, <2>2, WhatHalts
  <2>7. stage = 1 => standing >= Soak
    BY <2>1, <2>2, SoakIsServed
  <2> QED
    BY <2>3, <2>5, <2>6, <2>7
<1> QED
  BY <1>1, FleetInvHolds, PTL DEF FleetSpec, AdvanceRestsOnEvidence

(* A ledger that says blocked or abort has a served member of the active   *)
(* cohort that refused the artefact or is past the horizon with it.        *)
THEOREM AHaltHasAMember == FleetSpec => HaltedByAMember
<1>1. ASSUME FleetInv, Snapshots, ledger' \in {"blocked", "abort"}
      PROVE  \E c \in ActiveCohort(stage) :
               /\ Served(c) /\ lastSeen[c] # NoSpan
               /\ \/ status[c] = [state |-> "FAILED", hash |-> "to"]
                  \/ holds[c] = "to" /\ lastSeen[c] > Horizon
  <2>1. LedgerInv
    BY <1>1 DEF FleetInv
  <2>2. ActiveCohort(stage) \subseteq Collector
    BY <1>1, <2>1, SnapshotsOfTheCohort
  <2>3. PICK c \in ActiveCohort(stage) : Halts(Declared(c))
    BY <1>1, <2>1, SnapshotsOfTheCohort
  <2> QED
    BY <2>1, <2>2, <2>3, WhatHalts
<1> QED
  BY <1>1, FleetInvHolds, PTL DEF FleetSpec, HaltedByAMember

=============================================================================
