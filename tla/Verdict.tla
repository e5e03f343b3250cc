-------------------------------- MODULE Verdict --------------------------------
(***************************************************************************)
(* The verdict on one row, one Service in one Environment                  *)
(* (internal/conformance): every requirement that applies, judged against  *)
(* the evidence gathered for that row.                                     *)
(*                                                                         *)
(* A requirement asserts config, signal or both, or a schema alone; an     *)
(* assertion it does not make is NoAssertion.  Evidence is                 *)
(*   effective   the collector's reported pipelines, or not known          *)
(*   observed    per window and signal, what arrived                       *)
(*   versions    the resolved registries by ref, "head" among them         *)
(*   active      the active version's ref, or NoVersion                    *)
(*   names, groups, values, live   the schema readings taken, each known   *)
(*               or not, and whole or truncated                            *)
(* A reading nobody took is outside its function's domain.  A signal's     *)
(* volume and coverage floors are one flag, "enough".                      *)
(***************************************************************************)
EXTENDS SchemaRegistry

CONSTANTS
  NoAssertion,   \* a nil assertion
  NoVersion      \* the empty version

Signals   == {"logs", "metrics", "traces"}
TrackHead == "head"

Severity ==
  [broken_pipeline |-> 7, not_configured |-> 6, not_delivered |-> 5, misconfigured |-> 4,
   library_drift |-> 3, unknown |-> 2, ungoverned |-> 1, compliant |-> 0]

Outcome == DOMAIN Severity

Passing(o) == o \in {"compliant", "ungoverned"}

(* The worst of a set of outcomes, in whatever order they were found.      *)
worst(outcomes) == CHOOSE o \in outcomes : \A p \in outcomes : Severity[p] <= Severity[o]

GradeOf(level) ==
  CASE level = "required" -> "violation"
    [] level \in {"conditionally_required", "recommended"} -> "advisory"
    [] level = "opt_in" -> "neutral"

Scored(f)  == f.grade = "violation"

AppliesTo(req, environment) == req.environments = {} \/ environment \in req.environments

-----------------------------------------------------------------------------
(* The cross.                                                              *)

ComponentsOf(pipelines, slot) == UNION {p[slot] : p \in pipelines}

(* Satisfied, violated or not evaluable.                                   *)
checkConfig(a, effective) ==
  IF a = NoAssertion \/ ~effective.known THEN "none"
  ELSE IF \A slot \in {"receivers", "processors", "exporters"} :
            a[slot] # {} => a[slot] \cap ComponentsOf(effective.pipelines, slot) # {}
       THEN "yes" ELSE "no"

SignalKnown(a, ev) == a.window \in DOMAIN ev.observed /\ ev.observed[a.window][a.kind].known

checkSignal(a, ev) ==
  IF a = NoAssertion THEN "none"
  ELSE IF ~SignalKnown(a, ev) THEN "none"
  ELSE LET seen == ev.observed[a.window][a.kind] IN
       IF (a.present => seen.present) /\ (a.floors => seen.enough) THEN "yes" ELSE "no"

CrossOf(config, signal) ==
  CASE config = "none" /\ signal = "none" -> "unknown"
    [] config = "yes"  /\ signal = "yes"  -> "compliant"
    [] config = "yes"  /\ signal = "no"   -> "broken_pipeline"
    [] config = "no"   /\ signal = "yes"  -> "ungoverned"
    [] config = "no"   /\ signal = "no"   -> "not_configured"
    [] config = "none" /\ signal = "yes"  -> "compliant"
    [] config = "none" /\ signal = "no"   -> "not_delivered"
    [] config = "yes"  /\ signal = "none" -> "compliant"
    [] config = "no"   /\ signal = "none" -> "misconfigured"

JudgeCross(req, ev) ==
  {[requirement |-> req.id, level |-> NoLevel, grade |-> "violation", missing |-> {},
    outcome |-> CrossOf(checkConfig(req.config, ev.effective), checkSignal(req.signal, ev))]}

-----------------------------------------------------------------------------
(* What the readings say of a scope, before any demand is checked.         *)

Key(kind, window) == <<kind, window>>

TakenAndKnown(readings, key) == key \in DOMAIN readings /\ readings[key].known

(* The presence reading says whether a signal arrived, and where there is  *)
(* none a signal that carries no attribute name did not.                   *)
arrived(kind, window, ev) ==
  IF window \in DOMAIN ev.observed /\ ev.observed[window][kind].known
  THEN ev.observed[window][kind].present
  ELSE ev.names[Key(kind, window)].of # {}

Unread(a, ev) == {s \in a.signals : ~TakenAndKnown(ev.names, Key(s, a.window))}
Silent(a, ev) == {s \in a.signals \ Unread(a, ev) : ~arrived(s, a.window, ev)}
Heard(a, ev)  == a.signals \ (Unread(a, ev) \cup Silent(a, ev))

SilenceOnly(a, ev) == IF Silent(a, ev) # {} THEN {"not_delivered"} ELSE {"compliant"}

readScopeSeen(a, ev) ==                  \* mutant: a signal nobody could read is passed over
  [present   |-> UNION {ev.names[Key(s, a.window)].of : s \in Heard(a, ev)},
   judgeable |-> Heard(a, ev) # {},
   truncated |-> \E s \in Heard(a, ev) : ev.names[Key(s, a.window)].truncated,
   outcomes  |-> SilenceOnly(a, ev)]

readScope(a, ev) ==
  [present   |-> UNION {ev.names[Key(s, a.window)].of : s \in Heard(a, ev)},
   judgeable |-> Heard(a, ev) # {},
   truncated |-> \E s \in Heard(a, ev) : ev.names[Key(s, a.window)].truncated,
   outcomes  |-> {"compliant"}
                   \cup (IF Unread(a, ev) # {} THEN {"unknown"} ELSE {})
                   \cup (IF Silent(a, ev) # {} THEN {"not_delivered"} ELSE {})]

(* Which groups of the scope arrived.  A group no reading can locate stays *)
(* in play; one that was not named is absent only off a whole reading.     *)
Located(s, a)      == LocatedOn(s.group, a.signals)
GroupRead(a, ev)   == TakenAndKnown(ev.groups, Key("metrics", a.window))
Named(s, a, ev)    == GroupRead(a, ev)
                        /\ groupKeyValue(s.group) \in ev.groups[Key("metrics", a.window)].of
Absent(s, a, ev)   == Located(s, a) /\ GroupRead(a, ev) /\ ~Named(s, a, ev)
                        /\ ~ev.groups[Key("metrics", a.window)].truncated
InPlay(s, a, ev)   == Located(s, a) => Named(s, a, ev)

readGroups(a, groups, ev) ==
  [inPlay   |-> {s \in groups : InPlay(s, a, ev)},
   outcomes |-> (IF \E s \in groups : Absent(s, a, ev) THEN {"not_delivered"} ELSE {})
                  \cup (IF \E s \in groups : ~InPlay(s, a, ev) /\ ~Absent(s, a, ev)
                        THEN {"unknown"} ELSE {})]

InUse(kind, window, attribute, ev) ==
  TakenAndKnown(ev.names, Key(kind, window)) /\ attribute \in ev.names[Key(kind, window)].of

(* One enum-declared attribute in use: a value the registry does not       *)
(* declare is proof however the reading was cut, and no such value is      *)
(* proof only off whole readings of every signal that carries it.          *)
ValueKey(kind, window, attribute) == <<kind, window, attribute>>

enumVerdictTrusting(d, a, ev) ==         \* mutant: a clipped value set that names nothing wrong is clean
  LET on   == {s \in a.signals : InUse(s, a.window, d.attribute, ev)}
      read == {s \in on : TakenAndKnown(ev.values, ValueKey(s, a.window, d.attribute))}
      seen == UNION {ev.values[ValueKey(s, a.window, d.attribute)].of : s \in read}
  IN  CASE d.members = {} \/ on = {} -> "clean"
        [] OTHER -> IF seen \ d.members # {} THEN "breached"
                    ELSE IF on # read THEN "unsure" ELSE "clean"

enumVerdict(d, a, ev) ==
  LET on   == {s \in a.signals : InUse(s, a.window, d.attribute, ev)}
      read == {s \in on : TakenAndKnown(ev.values, ValueKey(s, a.window, d.attribute))}
      seen == UNION {ev.values[ValueKey(s, a.window, d.attribute)].of : s \in read}
  IN  CASE d.members = {} \/ on = {} -> "clean"
        [] OTHER -> IF seen \ d.members # {} THEN "breached"
                    ELSE IF on # read \/ \E s \in read :
                              ev.values[ValueKey(s, a.window, d.attribute)].truncated
                         THEN "unsure" ELSE "clean"

-----------------------------------------------------------------------------
(* One level's finding: what the reading supports, and at the required     *)
(* level what the checks add to it.                                        *)

MissingOf(at, reading) == {d.attribute : d \in {e \in at : e.attribute \notin reading.present}}

Checks(level, at, reading, enums) ==
  IF level # "required" THEN {}
  ELSE (IF MissingOf(at, reading) = {} THEN {}
        ELSE IF reading.truncated THEN {"unknown"} ELSE {"misconfigured"})
       \cup (IF "breached" \in enums THEN {"misconfigured"} ELSE {})
       \cup (IF "unsure" \in enums THEN {"unknown"} ELSE {})

schemaFinding(req, level, at, reading, ev) ==
  LET enums == {enumVerdict(d, req.schema, ev) : d \in at} IN
  [requirement |-> req.id, level |-> level, grade |-> GradeOf(level),
   missing |-> IF reading.judgeable THEN MissingOf(at, reading) ELSE {},
   outcome |-> worst(IF reading.judgeable
                     THEN reading.outcomes \cup Checks(level, at, reading, enums)
                     ELSE reading.outcomes)]

schemaUnknown(req) ==
  [requirement |-> req.id, level |-> "required", grade |-> "violation", missing |-> {},
   outcome |-> "unknown"]

(* The required level always has its finding: it is the verdict.           *)
judgeSchemaAgainst(req, reg, ev) ==
  LET a       == req.schema
      groups  == readGroups(a, scopedGroups(reg, a.scope), ev)
      scope   == readScope(a, ev)
      reading == [scope EXCEPT !.outcomes = @ \cup groups.outcomes]
      demands == demandsIn(groups.inPlay)
      At(l)   == {d \in demands : d.level = l}
  IN  {schemaFinding(req, l, At(l), reading, ev) :
         l \in {k \in Level : k = "required" \/ At(k) # {}}}

VerdictIn(findings) == CHOOSE f \in findings : Scored(f)

(* The registry facet of library_drift: the scope passes its pin and       *)
(* provably fails the active version.                                      *)

Drifts(req, pinned, ev) ==
  /\ req.schema.pin # TrackHead
  /\ ev.active # NoVersion /\ ev.active \in DOMAIN ev.versions
  /\ ev.active # req.schema.pin
  /\ VerdictIn(pinned).outcome = "compliant"
  /\ VerdictIn(judgeSchemaAgainst(req, ev.versions[ev.active], ev)).outcome
       \in {"misconfigured", "not_delivered"}

schemaDrift(req, pinned, ev) ==
  IF ~Drifts(req, pinned, ev) THEN pinned
  ELSE LET current == VerdictIn(judgeSchemaAgainst(req, ev.versions[ev.active], ev))
       IN  {IF Scored(f) THEN [f EXCEPT !.outcome = "library_drift", !.missing = current.missing]
            ELSE f : f \in pinned}

-----------------------------------------------------------------------------
(* The live arm: the tap has judged the stream, and what its silence is    *)
(* worth depends on whether anything fed it.                               *)

liveBaseFed(liveness) ==                 \* mutant: what failed to send is not asked
  IF liveness.known /\ liveness.sent THEN "compliant" ELSE "unknown"

liveBase(liveness) ==
  IF liveness.known /\ liveness.sent /\ ~liveness.sendFailed THEN "compliant" ELSE "unknown"

(* A *_not_present record names its level; any other is placed by its      *)
(* severity, and one that has neither is required.                         *)
liveLevelOf(record) ==
  CASE record.names # NoLevel              -> record.names
    [] record.names = NoLevel /\ record.severity = "improvement" -> "recommended"
    [] record.names = NoLevel /\ record.severity = "information" -> "opt_in"
    [] OTHER                               -> "required"

(* A record whose signal cannot be placed belongs to every requirement.    *)
CoveredBy(record, a) == record.signal \in Signals => record.signal \in a.signals

liveFinding(req, level, at, base, truncated) ==
  [requirement |-> req.id, level |-> level, grade |-> GradeOf(level), missing |-> {},
   outcome |-> worst({base}
                 \cup (IF at # {} /\ level = "required" THEN {"misconfigured"} ELSE {})
                 \cup (IF at = {} /\ truncated THEN {"unknown"} ELSE {}))]

judgeSchemaLive(req, ev) ==
  LET a == req.schema IN
  IF ~(a.window \in DOMAIN ev.live /\ ev.live[a.window].known) THEN {schemaUnknown(req)}
  ELSE LET reading == ev.live[a.window]
           At(l)   == {r \in reading.of : CoveredBy(r, a) /\ liveLevelOf(r) = l}
       IN  {liveFinding(req, l, At(l), liveBase(reading.liveness), reading.truncated) :
              l \in {k \in Level : k = "required" \/ At(k) # {}}}

-----------------------------------------------------------------------------

judgeSchema(req, ev) ==
  IF req.placement = "live" THEN judgeSchemaLive(req, ev)
  ELSE IF req.schema.pin \notin DOMAIN ev.versions THEN {schemaUnknown(req)}
  ELSE schemaDrift(req, judgeSchemaAgainst(req, ev.versions[req.schema.pin], ev), ev)

judge(req, ev) == IF req.schema # NoAssertion THEN judgeSchema(req, ev) ELSE JudgeCross(req, ev)

Evaluate(environment, requirements, ev) ==
  UNION {judge(req, ev) : req \in {r \in requirements : AppliesTo(r, environment)}}

=============================================================================
