-------------------------- MODULE Conformance_proofs ---------------------------
(***************************************************************************)
(* What the documents say of a row is so, and what the report of a version *)
(* says of it comes true, for every library, registry, topology, world and *)
(* outage.  The argument is about the five outcomes of one landed verdict, *)
(* over readings that may be blind or cut, and about two such readings of  *)
(* which the one is the fuller; it lifts to the documents because a        *)
(* build's evidence is those readings.                                     *)
(***************************************************************************)
EXTENDS Conformance, TLAPS

-----------------------------------------------------------------------------
(* A verdict, whatever the registry, the scope and the evidence: an        *)
(* outcome is as bad as the worst thing found, and a covered signal that   *)
(* nobody could read is never passed over.                                 *)

(* The worst outcome of a set is in it, and no other one is worse.         *)
LEMMA WorstIsWorst ==
  ASSUME NEW S \in SUBSET Outcome, S # {}
  PROVE  worst(S) \in S /\ \A p \in S : Severity[p] <= Severity[worst(S)]
<1>1. \E o \in S : \A p \in S : Severity[p] <= Severity[o]
  BY DEF Outcome, Severity
<1> QED
  BY <1>1 DEF worst

(* So a set with a failing outcome in it never comes out passing.          *)
LEMMA WorstKeepsAFailure ==
  ASSUME NEW S \in SUBSET Outcome, NEW o \in S, ~Passing(o)
  PROVE  ~Passing(worst(S))
<1>1. Severity[o] <= Severity[worst(S)] /\ worst(S) \in Outcome
  BY WorstIsWorst
<1>2. o \in Outcome \ {"compliant", "ungoverned"}
  BY DEF Passing
<1> QED
  BY <1>1, <1>2 DEF Passing, Outcome, Severity

(* Every outcome a landed finding is the worst of is one of the eight.     *)
LEMMA ReadingsAreOutcomes ==
  ASSUME NEW req, NEW reg, NEW ev
  PROVE  /\ readScope(req.schema, ev).outcomes \in SUBSET Outcome
         /\ readGroups(req.schema, scopedGroups(reg, req.schema.scope), ev).outcomes
              \in SUBSET Outcome
BY DEF readScope, readGroups, Outcome, Severity

(* A reading's failures are kept by every finding made of it, the verdict  *)
(* among them, whatever the level's own checks found.                      *)
LEMMA FindingKeepsAFailure ==
  ASSUME NEW req, NEW level, NEW at, NEW reading, NEW ev,
         reading.outcomes \in SUBSET Outcome,
         NEW o \in reading.outcomes, ~Passing(o)
  PROVE  ~Passing(schemaFinding(req, level, at, reading, ev).outcome)
<1> DEFINE enums == {enumVerdict(d, req.schema, ev) : d \in at}
           S     == IF reading.judgeable
                    THEN reading.outcomes \cup Checks(level, at, reading, enums)
                    ELSE reading.outcomes
<1>1. S \in SUBSET Outcome
  BY DEF Checks, Outcome, Severity
<1>2. ~Passing(worst(S))
  BY <1>1, WorstKeepsAFailure
<1>3. schemaFinding(req, level, at, reading, ev).outcome = worst(S)
  BY DEF schemaFinding
<1> QED
  BY <1>2, <1>3

(* readScope (schema.go): "being blind on one leg of a scope is not a pass *)
(* on that scope".  Over any registry and any evidence, a requirement one  *)
(* of whose covered signals could not be read has no passing finding.      *)
THEOREM BlindIsNoPass ==
  ASSUME NEW req, NEW reg, NEW ev, Unread(req.schema, ev) # {}
  PROVE  \A f \in judgeSchemaAgainst(req, reg, ev) : ~Passing(f.outcome)
<1> DEFINE groups  == readGroups(req.schema, scopedGroups(reg, req.schema.scope), ev)
           scope   == readScope(req.schema, ev)
           reading == [scope EXCEPT !.outcomes = @ \cup groups.outcomes]
<1>1. "unknown" \in scope.outcomes
  BY DEF readScope
<1>2. reading.outcomes = scope.outcomes \cup groups.outcomes
  BY DEF readScope
<1>3. reading.outcomes \in SUBSET Outcome /\ "unknown" \in reading.outcomes
  BY <1>1, <1>2, ReadingsAreOutcomes
<1>4. ~Passing("unknown")
  BY DEF Passing
<1> HIDE DEF reading
<1>5. \A level, at : ~Passing(schemaFinding(req, level, at, reading, ev).outcome)
  BY <1>3, <1>4, FindingKeepsAFailure
<1> QED
  BY <1>5 DEF judgeSchemaAgainst, reading

-----------------------------------------------------------------------------
(* The finding that is the verdict: the required level's.                  *)

InPlayOf(a, reg, ev) == {s \in scopedGroups(reg, a.scope) : InPlay(s, a, ev)}

RequiredIn(a, reg, ev) == {d \in demandsIn(InPlayOf(a, reg, ev)) : d.level = "required"}

ReadingOf(a, reg, ev) ==
  [readScope(a, ev) EXCEPT
     !.outcomes = @ \cup readGroups(a, scopedGroups(reg, a.scope), ev).outcomes]

VerdictOn(req, reg, ev) ==
  schemaFinding(req, "required", RequiredIn(req.schema, reg, ev), ReadingOf(req.schema, reg, ev), ev)

(* What its outcome is the worst of.                                       *)
FoundOn(a, reg, ev) ==
  LET reading == ReadingOf(a, reg, ev)
      at      == RequiredIn(a, reg, ev)
  IN  reading.outcomes \cup (IF reading.judgeable
                             THEN Checks("required", at, reading, {enumVerdict(d, a, ev) : d \in at})
                             ELSE {})

LEMMA VerdictIsTheWorst ==
  ASSUME NEW req, NEW reg, NEW ev
  PROVE  /\ VerdictOn(req, reg, ev).requirement = req.id
         /\ Scored(VerdictOn(req, reg, ev))
         /\ VerdictOn(req, reg, ev).outcome = worst(FoundOn(req.schema, reg, ev))
<1> DEFINE a       == req.schema
           at      == RequiredIn(a, reg, ev)
           reading == ReadingOf(a, reg, ev)
           enums   == {enumVerdict(d, a, ev) : d \in at}
<1>1. GradeOf("required") = "violation"
  BY DEF GradeOf
<1>2. VerdictOn(req, reg, ev) =
        [requirement |-> req.id, level |-> "required", grade |-> GradeOf("required"),
         missing |-> IF reading.judgeable THEN MissingOf(at, reading) ELSE {},
         outcome |-> worst(IF reading.judgeable
                           THEN reading.outcomes \cup Checks("required", at, reading, enums)
                           ELSE reading.outcomes)]
  BY DEF VerdictOn, schemaFinding
<1>3. FoundOn(a, reg, ev) = IF reading.judgeable
                            THEN reading.outcomes \cup Checks("required", at, reading, enums)
                            ELSE reading.outcomes
  BY DEF FoundOn
<1> HIDE DEF a, at, reading, enums
<1>4. VerdictOn(req, reg, ev).outcome = worst(FoundOn(a, reg, ev))
  BY <1>2, <1>3
<1> QED
  BY <1>1, <1>2, <1>4 DEF Scored, a

(* It is the one scored finding of the requirement.                        *)
LEMMA OneVerdict ==
  ASSUME NEW req, NEW reg, NEW ev
  PROVE  /\ VerdictOn(req, reg, ev) \in judgeSchemaAgainst(req, reg, ev)
         /\ \A f \in judgeSchemaAgainst(req, reg, ev) :
              f.requirement = req.id /\ (Scored(f) => f = VerdictOn(req, reg, ev))
         /\ VerdictIn(judgeSchemaAgainst(req, reg, ev)) = VerdictOn(req, reg, ev)
<1> DEFINE a       == req.schema
           demands == demandsIn(InPlayOf(a, reg, ev))
           At(l)   == {d \in demands : d.level = l}
           reading == ReadingOf(a, reg, ev)
           F(l)    == schemaFinding(req, l, At(l), reading, ev)
<1>1. judgeSchemaAgainst(req, reg, ev) = {F(l) : l \in {k \in Level : k = "required" \/ At(k) # {}}}
  BY DEF judgeSchemaAgainst, readGroups, InPlayOf, ReadingOf
<1>2. F("required") = VerdictOn(req, reg, ev)
  BY DEF VerdictOn, RequiredIn
<1>3. "required" \in Level
  BY DEF Level, Levels
<1>4. \A l \in Level : F(l).requirement = req.id /\ (Scored(F(l)) => l = "required")
  <2>1. \A l \in Level : l \in {"required", "conditionally_required", "recommended", "opt_in"}
    BY DEF Level, Levels
  <2>2. \A l : F(l).requirement = req.id /\ F(l).grade = GradeOf(l)
    BY DEF schemaFinding
  <2>3. \A l \in Level : GradeOf(l) = "violation" => l = "required"
    BY <2>1 DEF GradeOf
  <2> QED
    BY <2>2, <2>3 DEF Scored
<1> HIDE DEF F, At
<1>5. VerdictOn(req, reg, ev) \in judgeSchemaAgainst(req, reg, ev)
  BY <1>1, <1>2, <1>3
<1>6. \A f \in judgeSchemaAgainst(req, reg, ev) :
        f.requirement = req.id /\ (Scored(f) => f = VerdictOn(req, reg, ev))
  BY <1>1, <1>2, <1>4
<1>7. VerdictIn(judgeSchemaAgainst(req, reg, ev)) = VerdictOn(req, reg, ev)
  BY <1>5, <1>6, VerdictIsTheWorst DEF VerdictIn
<1> QED
  BY <1>5, <1>6, <1>7

LEMMA FoundAreOutcomes ==
  ASSUME NEW a, NEW reg, NEW ev
  PROVE  /\ FoundOn(a, reg, ev) \subseteq {"compliant", "unknown", "not_delivered", "misconfigured"}
         /\ FoundOn(a, reg, ev) \in SUBSET Outcome
         /\ "compliant" \in FoundOn(a, reg, ev)
<1> DEFINE at      == RequiredIn(a, reg, ev)
           reading == ReadingOf(a, reg, ev)
           enums   == {enumVerdict(d, a, ev) : d \in at}
           checked == Checks("required", at, reading, enums)
<1>1. checked \subseteq {"unknown", "misconfigured"}
  <2> HIDE DEF at, reading, enums
  <2> QED
    BY DEF Checks
<1>2. reading.outcomes = readScope(a, ev).outcomes
                           \cup readGroups(a, scopedGroups(reg, a.scope), ev).outcomes
  BY DEF ReadingOf, readScope
<1>3. /\ readScope(a, ev).outcomes \subseteq {"compliant", "unknown", "not_delivered"}
      /\ "compliant" \in readScope(a, ev).outcomes
  BY DEF readScope
<1>4. readGroups(a, scopedGroups(reg, a.scope), ev).outcomes \subseteq {"unknown", "not_delivered"}
  BY DEF readGroups
<1>5. FoundOn(a, reg, ev) = reading.outcomes \cup (IF reading.judgeable THEN checked ELSE {})
  BY DEF FoundOn
<1>6. {"compliant", "unknown", "not_delivered", "misconfigured"} \subseteq Outcome
  BY DEF Outcome, Severity
<1> HIDE DEF at, reading, enums, checked
<1> QED
  BY <1>1, <1>2, <1>3, <1>4, <1>5, <1>6

(* What the worst of them says of the others.                              *)
LEMMA WhatTheWorstSays ==
  ASSUME NEW a, NEW reg, NEW ev
  PROVE  LET S == FoundOn(a, reg, ev) IN
         /\ worst(S) \in S
         /\ worst(S) = "compliant" => S = {"compliant"}
         /\ worst(S) = "misconfigured" => "not_delivered" \notin S
<1> DEFINE S == FoundOn(a, reg, ev)
<1>1. S \in SUBSET Outcome /\ S # {}
      /\ S \subseteq {"compliant", "unknown", "not_delivered", "misconfigured"}
  BY FoundAreOutcomes
<1> HIDE DEF S
<1>2. worst(S) \in S /\ \A p \in S : Severity[p] <= Severity[worst(S)]
  BY <1>1, WorstIsWorst
<1>3. /\ Severity["compliant"] = 0 /\ Severity["unknown"] = 2
      /\ Severity["not_delivered"] = 5 /\ Severity["misconfigured"] = 4
  BY DEF Severity
<1>4. worst(S) = "compliant" => S = {"compliant"}
  <2> SUFFICES ASSUME worst(S) = "compliant", NEW p \in S PROVE p = "compliant"
    BY <1>1
  <2>1. Severity[p] <= 0
    BY <1>2, <1>3
  <2>2. p \in {"compliant", "unknown", "not_delivered", "misconfigured"}
    BY <1>1
  <2> QED
    BY <1>3, <2>1, <2>2
<1>5. worst(S) = "misconfigured" => "not_delivered" \notin S
  BY <1>2, <1>3
<1> QED
  BY <1>2, <1>4, <1>5 DEF S

(* Which readings put which outcome among them.                            *)

PresentIn(a, ev) == UNION {ev.names[Key(s, a.window)].of : s \in Heard(a, ev)}
CutIn(a, ev)     == \E s \in Heard(a, ev) : ev.names[Key(s, a.window)].truncated

LacksIn(a, reg, ev) == \E d \in RequiredIn(a, reg, ev) : d.attribute \notin PresentIn(a, ev)

EnumIn(a, reg, ev, v) == \E d \in RequiredIn(a, reg, ev) : enumVerdict(d, a, ev) = v

LEMMA WhatIsFound ==
  ASSUME NEW a, NEW reg, NEW ev
  PROVE  LET S == FoundOn(a, reg, ev)  groups == scopedGroups(reg, a.scope) IN
         /\ "not_delivered" \in S <=> Silent(a, ev) # {} \/ \E s \in groups : Absent(s, a, ev)
         /\ "unknown" \in S <=>
              \/ Unread(a, ev) # {}
              \/ \E s \in groups : ~ InPlay(s, a, ev) /\ ~ Absent(s, a, ev)
              \/ /\ Heard(a, ev) # {}
                 /\ (LacksIn(a, reg, ev) /\ CutIn(a, ev)) \/ EnumIn(a, reg, ev, "unsure")
         /\ "misconfigured" \in S <=>
              /\ Heard(a, ev) # {}
              /\ (LacksIn(a, reg, ev) /\ ~ CutIn(a, ev)) \/ EnumIn(a, reg, ev, "breached")
<1> DEFINE groups  == scopedGroups(reg, a.scope)
           at      == RequiredIn(a, reg, ev)
           reading == ReadingOf(a, reg, ev)
           enums   == {enumVerdict(d, a, ev) : d \in at}
           checked == Checks("required", at, reading, enums)
           scope   == readScope(a, ev).outcomes
           told    == readGroups(a, groups, ev).outcomes
<1>1. /\ reading.present = PresentIn(a, ev) /\ (reading.judgeable <=> Heard(a, ev) # {})
      /\ (reading.truncated <=> CutIn(a, ev)) /\ reading.outcomes = scope \cup told
  BY DEF ReadingOf, readScope, PresentIn, CutIn
<1>2. MissingOf(at, reading) # {} <=> LacksIn(a, reg, ev)
  <2> HIDE DEF at, reading
  <2>1. MissingOf(at, reading) # {} <=> \E d \in at : d.attribute \notin PresentIn(a, ev)
    BY <1>1 DEF MissingOf
  <2> QED
    BY <2>1 DEF LacksIn, at
<1>3. \A v : v \in enums <=> EnumIn(a, reg, ev, v)
  BY DEF EnumIn
<1>4. checked = (IF MissingOf(at, reading) = {} THEN {}
                 ELSE IF reading.truncated THEN {"unknown"} ELSE {"misconfigured"})
                \cup (IF "breached" \in enums THEN {"misconfigured"} ELSE {})
                \cup (IF "unsure" \in enums THEN {"unknown"} ELSE {})
  <2> HIDE DEF at, reading, enums
  <2> QED
    BY DEF Checks
<1>5. scope = {"compliant"} \cup (IF Unread(a, ev) # {} THEN {"unknown"} ELSE {})
                            \cup (IF Silent(a, ev) # {} THEN {"not_delivered"} ELSE {})
  BY DEF readScope
<1>6. told = (IF \E s \in groups : Absent(s, a, ev) THEN {"not_delivered"} ELSE {})
               \cup (IF \E s \in groups : ~InPlay(s, a, ev) /\ ~Absent(s, a, ev)
                     THEN {"unknown"} ELSE {})
  <2> HIDE DEF groups
  <2> QED
    BY DEF readGroups
<1>7. FoundOn(a, reg, ev) = reading.outcomes \cup (IF reading.judgeable THEN checked ELSE {})
  BY DEF FoundOn
<1> HIDE DEF groups, at, reading, enums, checked, scope, told
<1>8. "not_delivered" \in FoundOn(a, reg, ev) <=> "not_delivered" \in scope \cup told
  BY <1>1, <1>4, <1>7
<1>9. "unknown" \in FoundOn(a, reg, ev) <=>
        "unknown" \in scope \cup told \/ (Heard(a, ev) # {} /\ "unknown" \in checked)
  BY <1>1, <1>7
<1>10. "misconfigured" \in FoundOn(a, reg, ev) <=> Heard(a, ev) # {} /\ "misconfigured" \in checked
  BY <1>1, <1>5, <1>6, <1>7
<1>11. "unknown" \in checked <=> (LacksIn(a, reg, ev) /\ CutIn(a, ev)) \/ EnumIn(a, reg, ev, "unsure")
  BY <1>1, <1>2, <1>3, <1>4
<1>12. "misconfigured" \in checked <=>
         (LacksIn(a, reg, ev) /\ ~ CutIn(a, ev)) \/ EnumIn(a, reg, ev, "breached")
  BY <1>1, <1>2, <1>3, <1>4
<1> QED
  BY <1>5, <1>6, <1>8, <1>9, <1>10, <1>11, <1>12 DEF groups

-----------------------------------------------------------------------------
(* What a registry demands.                                                *)

(* A registry as the loader leaves it.                                     *)
Loaded(reg) == Valid(reg) /\ \A x \in Entries(reg) : ~ x.defines => x.members = {}

LEMMA TheLevels == Level = {"required", "conditionally_required", "recommended", "opt_in"}
<1>1. DOMAIN Levels = 1 .. 4
  BY DEF Levels
<1>2. 1 .. 4 = {1, 2, 3, 4}
  OBVIOUS
<1>3. /\ Levels[1] = "required" /\ Levels[2] = "conditionally_required"
      /\ Levels[3] = "recommended" /\ Levels[4] = "opt_in"
  BY DEF Levels
<1> QED
  BY <1>1, <1>2, <1>3 DEF Level

LEMMA LevelsOfEntries ==
  ASSUME NEW reg, Loaded(reg), NEW x \in Entries(reg)
  PROVE  /\ levelOf(x) \in Level
         /\ levelOf(x) = "required" <=> x.level = "required"
<1>1. x.level \in Level \cup {NoLevel}
  BY DEF Loaded, Valid, Entries
<1>2. Level = {"required", "conditionally_required", "recommended", "opt_in"}
  BY TheLevels
<1>3. CASE x.level = NoLevel
  BY <1>2, <1>3 DEF levelOf, NoLevel
<1>4. CASE x.level # NoLevel
  <2>1. levelOf(x) = x.level
    BY <1>4 DEF levelOf
  <2> QED
    BY <1>1, <1>4, <2>1
<1> QED
  BY <1>3, <1>4

LEMMA RequiredIsStrictest ==
  ASSUME NEW l \in Level
  PROVE  ~ Stricter(l, "required")
<1>1. rank("required") = 1
  BY DEF rank, Levels
<1>2. l \in {"required", "conditionally_required", "recommended", "opt_in"}
  BY DEF Level, Levels
<1>3. \E i \in DOMAIN Levels : Levels[i] = l
  BY <1>2 DEF Levels
<1>4. rank(l) \in DOMAIN Levels
  BY <1>3 DEF rank
<1>5. rank(l) \in 1 .. 4
  BY <1>4 DEF Levels
<1> QED
  BY <1>1, <1>5 DEF Stricter

(* An attribute means by its members what the registry declares of it,     *)
(* wherever the entry stands.                                              *)
LEMMA MembersAreDeclared ==
  ASSUME NEW reg, Loaded(reg), NEW x \in Entries(reg)
  PROVE  demandOf(reg, x).members = MembersOf(reg, x.key)
<1> DEFINE D == {e \in definitions(reg) : e.key = x.key}
<1>1. \A d, e \in D : d = e
  <2> SUFFICES ASSUME NEW d \in D, NEW e \in D PROVE d = e
    OBVIOUS
  <2>1. PICK g \in reg.groups : d \in g.attributes
    BY DEF definitions, Entries
  <2>2. PICK h \in reg.groups : e \in h.attributes
    BY DEF definitions, Entries
  <2>3. d.defines /\ e.defines /\ d.key = e.key
    BY DEF definitions
  <2>4. g = h
    BY <2>1, <2>2, <2>3 DEF Loaded, Valid
  <2> QED
    BY <2>1, <2>2, <2>3, <2>4 DEF Loaded, Valid
<1>2. MembersOf(reg, x.key) = UNION {d.members : d \in D}
  BY DEF MembersOf
<1>3. demandOf(reg, x).members = definitionOf(reg, x).members
  BY DEF demandOf
<1>4. D = {d \in Entries(reg) : d.defines /\ d.key = x.key}
  BY DEF definitions
<1>5. CASE x.defines
  <2>1. x \in D /\ D = {x}
    BY <1>1, <1>4, <1>5
  <2>2. definitionOf(reg, x) = x
    BY <1>5 DEF definitionOf
  <2> HIDE DEF D
  <2> QED
    BY <1>2, <1>3, <2>1, <2>2
<1>6. CASE ~ x.defines /\ D # {}
  <2>1. definitionOf(reg, x) = CHOOSE d \in Entries(reg) : d.defines /\ d.key = x.key
    BY <1>4, <1>6 DEF definitionOf
  <2>2. definitionOf(reg, x) \in D
    BY <1>4, <1>6, <2>1
  <2>3. D = {definitionOf(reg, x)}
    BY <1>1, <2>2
  <2> HIDE DEF D
  <2> QED
    BY <1>2, <1>3, <2>3
<1>7. CASE ~ x.defines /\ D = {}
  <2>1. definitionOf(reg, x) = x
    BY <1>4, <1>7 DEF definitionOf
  <2>2. x.members = {}
    BY <1>7 DEF Loaded
  <2> HIDE DEF D
  <2> QED
    BY <1>2, <1>3, <1>7, <2>1, <2>2
<1> QED
  BY <1>5, <1>6, <1>7

(* The groups of a scope, and what they demand.                            *)
LEMMA ScopedGroup ==
  ASSUME NEW reg, NEW a
  PROVE  /\ \A s \in scopedGroups(reg, a.scope) :
              /\ s.group \in reg.groups /\ ScopeReaches(s.group, a)
              /\ s.demands = {demandOf(reg, x) : x \in Taken(s.group, a.scope)}
         /\ \A g \in reg.groups : ScopeReaches(g, a) =>
              \E s \in scopedGroups(reg, a.scope) : s.group = g
<1> DEFINE reached == {h \in reg.groups : h.id \in a.scope.groups \/ Taken(h, a.scope) # {}}
           F(g)    == [group |-> g, demands |-> {demandOf(reg, x) : x \in Taken(g, a.scope)}]
<1>1. scopedGroups(reg, a.scope) = {F(g) : g \in reached}
  BY DEF scopedGroups
<1>2. \A g : F(g).group = g /\ F(g).demands = {demandOf(reg, x) : x \in Taken(g, a.scope)}
  OBVIOUS
<1>3. \A g : g \in reached <=> g \in reg.groups /\ ScopeReaches(g, a)
  BY DEF ScopeReaches
<1> HIDE DEF F, reached
<1> QED
  BY <1>1, <1>2, <1>3

LEMMA TakenAreEntries ==
  ASSUME NEW reg, NEW g \in reg.groups, NEW scope
  PROVE  Taken(g, scope) \subseteq g.attributes /\ Taken(g, scope) \subseteq Entries(reg)
BY DEF Taken, Entries

(* Of any of those groups, the required demands are the entries' own that  *)
(* are required: none is stricter.                                         *)
LEMMA RequiredDemands ==
  ASSUME NEW reg, Loaded(reg), NEW a, NEW G \in SUBSET scopedGroups(reg, a.scope), NEW d
  PROVE  d \in demandsIn(G) /\ d.level = "required" <=>
           \E s \in G : \E x \in Taken(s.group, a.scope) :
             x.level = "required" /\ d = demandOf(reg, x)
<1> DEFINE all == UNION {s.demands : s \in G}
<1>1. \A e : e \in all <=> \E s \in G : \E x \in Taken(s.group, a.scope) : e = demandOf(reg, x)
  <2>1. \A s \in G : s.demands = {demandOf(reg, x) : x \in Taken(s.group, a.scope)}
    BY ScopedGroup
  <2> QED
    BY <2>1
<1>2. \A s \in G : \A x \in Taken(s.group, a.scope) :
        /\ demandOf(reg, x).level \in Level
        /\ demandOf(reg, x).level = "required" <=> x.level = "required"
  <2> SUFFICES ASSUME NEW s \in G, NEW x \in Taken(s.group, a.scope)
               PROVE  /\ demandOf(reg, x).level \in Level
                      /\ demandOf(reg, x).level = "required" <=> x.level = "required"
    OBVIOUS
  <2>1. s.group \in reg.groups
    BY ScopedGroup
  <2>2. x \in Entries(reg)
    BY <2>1, TakenAreEntries
  <2>3. demandOf(reg, x).level = levelOf(x)
    BY DEF demandOf
  <2> QED
    BY <2>2, <2>3, LevelsOfEntries
<1>3. \A e \in all : e.level \in Level
  BY <1>1, <1>2
<1>4. d \in demandsIn(G) /\ d.level = "required" <=> d \in all /\ d.level = "required"
  <2>1. demandsIn(G) = {e \in all : ~\E o \in all : o.attribute = e.attribute /\ Stricter(o.level, e.level)}
    BY DEF demandsIn
  <2> HIDE DEF all
  <2> QED
    BY <1>3, <2>1, RequiredIsStrictest
<1> HIDE DEF all
<1> QED
  BY <1>1, <1>2, <1>4

-----------------------------------------------------------------------------
(* Readings of the world: what one knows is so, and all of it when it was  *)
(* not cut; and no cut of the names leaves nothing of something.           *)

Faithful(n, truth) == n.known => n.of \subseteq truth /\ (~ n.truncated => n.of = truth)

NamesRead(a, ev) ==
  \A s \in a.signals :
    LET n == ev.names[Key(s, a.window)] IN
    /\ Key(s, a.window) \in DOMAIN ev.names
    /\ Faithful(n, namesIn(world, s, a.window))
    /\ n.known /\ namesIn(world, s, a.window) # {} => n.of # {}

PresenceRead(a, ev) ==
  \A s \in a.signals :
    a.window \in DOMAIN ev.observed /\ ev.observed[a.window][s].known =>
      (ev.observed[a.window][s].present <=> s \in arrivedIn(world, a.window))

GroupsRead(a, ev) ==
  GroupRead(a, ev) => Faithful(ev.groups[Key("metrics", a.window)], metricsIn(world, a.window))

ValuesRead(ev) ==
  \A k \in DOMAIN ev.values : Faithful(ev.values[k], valuesIn(world, k[1], k[2], k[3]))

ReadsTheWorld(a, ev) == NamesRead(a, ev) /\ PresenceRead(a, ev) /\ GroupsRead(a, ev) /\ ValuesRead(ev)

(* Whatever arrives carries an attribute.                                  *)
Carries == \A k \in world.arrived : \E c \in world.carries : c[1] = k

Whole(a, ev) ==
  \A s \in a.signals : ev.names[Key(s, a.window)].known /\ ~ ev.names[Key(s, a.window)].truncated

LEMMA ArrivedCarries ==
  ASSUME Carries, NEW s, NEW w
  PROVE  s \in arrivedIn(world, w) <=> namesIn(world, s, w) # {}
<1>1. ASSUME s \in arrivedIn(world, w) PROVE namesIn(world, s, w) # {}
  <2>1. s \in world.arrived
    BY <1>1 DEF arrivedIn
  <2>2. PICK c \in world.carries : c[1] = s
    BY <2>1 DEF Carries
  <2>3. c[2] \in namesIn(world, s, w)
    BY <1>1, <2>2 DEF namesIn
  <2> QED
    BY <2>3
<1> QED
  BY <1>1 DEF namesIn

LEMMA SignalsRead ==
  ASSUME NEW a, NEW ev, ReadsTheWorld(a, ev), Carries
  PROVE  /\ \A s \in Silent(a, ev) : s \notin arrivedIn(world, a.window)
         /\ \A s \in Heard(a, ev) : s \in arrivedIn(world, a.window)
         /\ \A s \in Heard(a, ev) \cup Silent(a, ev) : s \in a.signals /\ s \notin Unread(a, ev)
         /\ a.signals = Heard(a, ev) \cup Silent(a, ev) \cup Unread(a, ev)
<1>1. \A s \in Silent(a, ev) : s \in a.signals \ Unread(a, ev) /\ ~ arrived(s, a.window, ev)
  BY DEF Silent
<1>2. \A s \in Heard(a, ev) : s \in a.signals \ Unread(a, ev) /\ arrived(s, a.window, ev)
  BY DEF Heard, Silent
<1>3. ASSUME NEW s \in a.signals \ Unread(a, ev)
      PROVE  arrived(s, a.window, ev) <=> s \in arrivedIn(world, a.window)
  <2> DEFINE n == ev.names[Key(s, a.window)]
  <2>1. n.known
    BY DEF Unread, TakenAndKnown
  <2>2. n.of \subseteq namesIn(world, s, a.window) /\ (namesIn(world, s, a.window) # {} => n.of # {})
    BY <2>1 DEF ReadsTheWorld, NamesRead, Faithful
  <2>3. CASE a.window \in DOMAIN ev.observed /\ ev.observed[a.window][s].known
    <3>1. arrived(s, a.window, ev) = ev.observed[a.window][s].present
      BY <2>3 DEF arrived
    <3> QED
      BY <2>3, <3>1 DEF ReadsTheWorld, PresenceRead
  <2>4. CASE ~ (a.window \in DOMAIN ev.observed /\ ev.observed[a.window][s].known)
    <3>1. arrived(s, a.window, ev) = (n.of # {})
      BY <2>4 DEF arrived
    <3> QED
      BY <2>2, <3>1, ArrivedCarries
  <2> QED
    BY <2>3, <2>4
<1>4. Unread(a, ev) \subseteq a.signals
  BY DEF Unread
<1> QED
  BY <1>1, <1>2, <1>3, <1>4 DEF Heard

LEMMA GroupsLocated ==
  ASSUME NEW a, NEW ev, ReadsTheWorld(a, ev), NEW s
  PROVE  /\ InPlay(s, a, ev) => GroupArrived(s.group, a)
         /\ Absent(s, a, ev) => ~ GroupArrived(s.group, a)
<1> DEFINE n == ev.groups[Key("metrics", a.window)]
<1>1. GroupRead(a, ev) => n.known /\ Faithful(n, metricsIn(world, a.window))
  BY DEF GroupRead, TakenAndKnown, ReadsTheWorld, GroupsRead
<1>2. LocatedOn(s.group, a.signals) => groupKeyValue(s.group) = s.group.metricName
  BY DEF LocatedOn, groupKeyValue
<1>3. InPlay(s, a, ev) => GroupArrived(s.group, a)
  BY <1>1, <1>2 DEF InPlay, Named, Located, GroupArrived, Faithful
<1>4. Absent(s, a, ev) => ~ GroupArrived(s.group, a)
  BY <1>1, <1>2 DEF Absent, Named, Located, GroupArrived, Faithful
<1> QED
  BY <1>3, <1>4

(* The attributes required of what arrived, with every group in play.      *)
LEMMA RequiredKeys ==
  ASSUME NEW reg, Loaded(reg), NEW a, NEW ev, ReadsTheWorld(a, ev)
  PROVE  /\ \A d \in RequiredIn(a, reg, ev) :
              d.attribute \in RequiredOf(reg, a) /\ d.members = MembersOf(reg, d.attribute)
         /\ (\A s \in scopedGroups(reg, a.scope) : InPlay(s, a, ev)) =>
              \A key \in RequiredOf(reg, a) :
                \E d \in RequiredIn(a, reg, ev) : d.attribute = key /\ d.members = MembersOf(reg, key)
<1> DEFINE G == InPlayOf(a, reg, ev)
<1>1. G \in SUBSET scopedGroups(reg, a.scope)
  BY DEF InPlayOf
<1>2. \A d : d \in RequiredIn(a, reg, ev) <=>
               \E s \in G : \E x \in Taken(s.group, a.scope) :
                 x.level = "required" /\ d = demandOf(reg, x)
  <2> HIDE DEF G
  <2>1. \A d : d \in demandsIn(G) /\ d.level = "required" <=>
                 \E s \in G : \E x \in Taken(s.group, a.scope) :
                   x.level = "required" /\ d = demandOf(reg, x)
    BY <1>1, RequiredDemands
  <2> QED
    BY <2>1 DEF RequiredIn, G
<1>3. \A s \in scopedGroups(reg, a.scope) : \A x \in Taken(s.group, a.scope) :
        /\ demandOf(reg, x).attribute = x.key
        /\ demandOf(reg, x).members = MembersOf(reg, x.key)
  <2> SUFFICES ASSUME NEW s \in scopedGroups(reg, a.scope), NEW x \in Taken(s.group, a.scope)
               PROVE  /\ demandOf(reg, x).attribute = x.key
                      /\ demandOf(reg, x).members = MembersOf(reg, x.key)
    OBVIOUS
  <2>1. x \in Entries(reg)
    BY ScopedGroup, TakenAreEntries
  <2> QED
    BY <2>1, MembersAreDeclared DEF demandOf
<1>4. \A key : key \in RequiredOf(reg, a) <=>
                 \E g \in reg.groups : /\ GroupArrived(g, a)
                                       /\ \E x \in Taken(g, a.scope) : x.level = "required" /\ x.key = key
  BY DEF RequiredOf
<1>5. ASSUME NEW d \in RequiredIn(a, reg, ev)
      PROVE  d.attribute \in RequiredOf(reg, a) /\ d.members = MembersOf(reg, d.attribute)
  <2>0. PICK s \in G : \E x \in Taken(s.group, a.scope) : x.level = "required" /\ d = demandOf(reg, x)
    BY <1>2
  <2>1. PICK x \in Taken(s.group, a.scope) : x.level = "required" /\ d = demandOf(reg, x)
    BY <2>0
  <2>2. s \in scopedGroups(reg, a.scope) /\ InPlay(s, a, ev)
    BY DEF InPlayOf
  <2>3. GroupArrived(s.group, a) /\ s.group \in reg.groups
    BY <2>2, GroupsLocated, ScopedGroup
  <2>4. d.attribute = x.key /\ d.members = MembersOf(reg, x.key)
    BY <1>3, <2>1, <2>2
  <2> QED
    BY <1>4, <2>1, <2>3, <2>4
<1>6. ASSUME \A s \in scopedGroups(reg, a.scope) : InPlay(s, a, ev), NEW key \in RequiredOf(reg, a)
      PROVE  \E d \in RequiredIn(a, reg, ev) : d.attribute = key /\ d.members = MembersOf(reg, key)
  <2>1. PICK g \in reg.groups : /\ GroupArrived(g, a)
                                /\ \E x \in Taken(g, a.scope) : x.level = "required" /\ x.key = key
    BY <1>4, <1>6
  <2>2. PICK x \in Taken(g, a.scope) : x.level = "required" /\ x.key = key
    BY <2>1
  <2>3. ScopeReaches(g, a)
    BY <2>2 DEF ScopeReaches
  <2>4. PICK s \in scopedGroups(reg, a.scope) : s.group = g
    BY <2>3, ScopedGroup
  <2>5. s \in G
    BY <1>6 DEF InPlayOf
  <2>6. demandOf(reg, x) \in RequiredIn(a, reg, ev)
    BY <1>2, <2>2, <2>4, <2>5
  <2> QED
    BY <1>3, <2>2, <2>4, <2>6
<1> QED
  BY <1>5, <1>6

-----------------------------------------------------------------------------
(* What each outcome proves of the world.                                  *)

(* A value no declaration holds was seen, or every carrier's values were   *)
(* read whole and are declared.                                            *)
LEMMA EnumsRead ==
  ASSUME NEW a, NEW ev, ReadsTheWorld(a, ev), NEW d
  PROVE  /\ enumVerdict(d, a, ev) = "breached" =>
              /\ d.members # {}
              /\ \E s \in a.signals : ~ (valuesIn(world, s, a.window, d.attribute) \subseteq d.members)
         /\ enumVerdict(d, a, ev) = "clean" /\ d.members # {} =>
              \A s \in a.signals : InUse(s, a.window, d.attribute, ev) =>
                valuesIn(world, s, a.window, d.attribute) \subseteq d.members
         /\ enumVerdict(d, a, ev) \in {"breached", "unsure", "clean"}
<1> DEFINE V(s) == ev.values[ValueKey(s, a.window, d.attribute)]
           on   == {s \in a.signals : InUse(s, a.window, d.attribute, ev)}
           read == {s \in on : TakenAndKnown(ev.values, ValueKey(s, a.window, d.attribute))}
           seen == UNION {V(s).of : s \in read}
           torn == on # read \/ \E s \in read : V(s).truncated
<1>1. enumVerdict(d, a, ev) = CASE d.members = {} \/ on = {} -> "clean"
                                [] OTHER -> IF seen \ d.members # {} THEN "breached"
                                            ELSE IF torn THEN "unsure" ELSE "clean"
  BY DEF enumVerdict
<1>2. \A s \in read : /\ V(s).of \subseteq valuesIn(world, s, a.window, d.attribute)
                      /\ ~ V(s).truncated => V(s).of = valuesIn(world, s, a.window, d.attribute)
  <2> SUFFICES ASSUME NEW s \in read
               PROVE  /\ V(s).of \subseteq valuesIn(world, s, a.window, d.attribute)
                      /\ ~ V(s).truncated => V(s).of = valuesIn(world, s, a.window, d.attribute)
    OBVIOUS
  <2> DEFINE k == ValueKey(s, a.window, d.attribute)
  <2>1. k \in DOMAIN ev.values /\ V(s).known
    BY DEF TakenAndKnown
  <2>2. Faithful(ev.values[k], valuesIn(world, k[1], k[2], k[3]))
    BY <2>1 DEF ReadsTheWorld, ValuesRead
  <2>3. k[1] = s /\ k[2] = a.window /\ k[3] = d.attribute
    BY DEF ValueKey
  <2> QED
    BY <2>1, <2>2, <2>3 DEF Faithful
<1>3. read \subseteq a.signals /\ on \subseteq a.signals
  OBVIOUS
<1>4. seen \ d.members # {} => \E s \in read : ~ (V(s).of \subseteq d.members)
  OBVIOUS
<1>5. seen \ d.members = {} => \A s \in read : V(s).of \subseteq d.members
  OBVIOUS
<1>6. \A s \in a.signals : InUse(s, a.window, d.attribute, ev) <=> s \in on
  OBVIOUS
<1> HIDE DEF V, on, read, seen
<1>7. enumVerdict(d, a, ev) = "breached" => d.members # {} /\ seen \ d.members # {}
  BY <1>1
<1>8. enumVerdict(d, a, ev) = "clean" /\ d.members # {} =>
        on = {} \/ (seen \ d.members = {} /\ ~ torn)
  BY <1>1
<1>9. enumVerdict(d, a, ev) \in {"breached", "unsure", "clean"}
  BY <1>1
<1> QED
  BY <1>2, <1>3, <1>4, <1>5, <1>6, <1>7, <1>8, <1>9

LEMMA CompliantConforms ==
  ASSUME NEW reg, Loaded(reg), NEW a, a.signals # {}, NEW ev, ReadsTheWorld(a, ev), Carries,
         Whole(a, ev), worst(FoundOn(a, reg, ev)) = "compliant"
  PROVE  Conforms(reg, a)
<1>1. /\ "not_delivered" \notin FoundOn(a, reg, ev)
      /\ "unknown" \notin FoundOn(a, reg, ev)
      /\ "misconfigured" \notin FoundOn(a, reg, ev)
  BY WhatTheWorstSays
<1>2. /\ Unread(a, ev) = {} /\ Silent(a, ev) = {}
      /\ \A s \in scopedGroups(reg, a.scope) : InPlay(s, a, ev)
  BY <1>1, WhatIsFound
<1>3. Heard(a, ev) = a.signals
  BY <1>2 DEF Heard
<1>4. ~ CutIn(a, ev)
  BY <1>3 DEF CutIn, Whole
<1>5. ~ LacksIn(a, reg, ev) /\ ~ EnumIn(a, reg, ev, "breached") /\ ~ EnumIn(a, reg, ev, "unsure")
  BY <1>1, <1>3, <1>4, WhatIsFound
<1>6. EverythingArrived(reg, a)
  <2>1. a.signals \subseteq arrivedIn(world, a.window)
    BY <1>3, SignalsRead
  <2>2. ASSUME NEW g \in reg.groups, ScopeReaches(g, a) PROVE GroupArrived(g, a)
    <3>1. PICK s \in scopedGroups(reg, a.scope) : s.group = g
      BY <2>2, ScopedGroup
    <3> QED
      BY <1>2, <3>1, GroupsLocated
  <2> QED
    BY <2>1, <2>2 DEF EverythingArrived
<1>7. \A s \in a.signals : ev.names[Key(s, a.window)].of = namesIn(world, s, a.window)
  BY DEF Whole, ReadsTheWorld, NamesRead, Faithful
<1>8. ASSUME NEW key \in RequiredOf(reg, a)
      PROVE  /\ \E s \in a.signals : key \in namesIn(world, s, a.window)
             /\ MembersOf(reg, key) # {} =>
                  \A s \in a.signals : valuesIn(world, s, a.window, key) \subseteq MembersOf(reg, key)
  <2>1. PICK d \in RequiredIn(a, reg, ev) : d.attribute = key /\ d.members = MembersOf(reg, key)
    BY <1>2, RequiredKeys
  <2>2. key \in PresentIn(a, ev)
    BY <1>5, <2>1 DEF LacksIn
  <2>3. \E s \in a.signals : key \in namesIn(world, s, a.window)
    BY <1>3, <1>7, <2>2 DEF PresentIn
  <2>4. enumVerdict(d, a, ev) = "clean"
    BY <1>5, EnumsRead DEF EnumIn
  <2>5. ASSUME MembersOf(reg, key) # {}, NEW s \in a.signals
        PROVE  valuesIn(world, s, a.window, key) \subseteq MembersOf(reg, key)
    <3>1. CASE InUse(s, a.window, key, ev)
      BY <2>1, <2>4, <2>5, <3>1, EnumsRead
    <3>2. CASE ~ InUse(s, a.window, key, ev)
      <4>1. key \notin namesIn(world, s, a.window)
        BY <1>7, <3>2 DEF InUse, TakenAndKnown, Whole, ReadsTheWorld, NamesRead
      <4>2. valuesIn(world, s, a.window, key) = {}
        BY <4>1 DEF valuesIn, namesIn
      <4> QED
        BY <4>2
    <3> QED
      BY <3>1, <3>2
  <2> QED
    BY <2>3, <2>5
<1>9. WellShaped(reg, a)
  BY <1>8 DEF WellShaped
<1> QED
  BY <1>6, <1>9 DEF Conforms

LEMMA MisconfiguredIsNot ==
  ASSUME NEW reg, Loaded(reg), NEW a, NEW ev, ReadsTheWorld(a, ev), Carries, Unread(a, ev) = {},
         worst(FoundOn(a, reg, ev)) = "misconfigured"
  PROVE  ~ WellShaped(reg, a)
<1>1. "misconfigured" \in FoundOn(a, reg, ev) /\ "not_delivered" \notin FoundOn(a, reg, ev)
  BY WhatTheWorstSays
<1>2. Silent(a, ev) = {}
  BY <1>1, WhatIsFound
<1>3. Heard(a, ev) = a.signals
  BY <1>2 DEF Heard
<1>4. CASE LacksIn(a, reg, ev) /\ ~ CutIn(a, ev)
  <2>1. PICK d \in RequiredIn(a, reg, ev) : d.attribute \notin PresentIn(a, ev)
    BY <1>4 DEF LacksIn
  <2>2. \A s \in a.signals : d.attribute \notin namesIn(world, s, a.window)
    <3> SUFFICES ASSUME NEW s \in a.signals PROVE d.attribute \notin namesIn(world, s, a.window)
      OBVIOUS
    <3>1. ev.names[Key(s, a.window)].known
      BY DEF Unread, TakenAndKnown
    <3>2. ~ ev.names[Key(s, a.window)].truncated
      BY <1>3, <1>4 DEF CutIn
    <3>3. ev.names[Key(s, a.window)].of = namesIn(world, s, a.window)
      BY <3>1, <3>2 DEF ReadsTheWorld, NamesRead, Faithful
    <3> QED
      BY <1>3, <2>1, <3>3 DEF PresentIn
  <2>3. d.attribute \in RequiredOf(reg, a)
    BY RequiredKeys
  <2> QED
    BY <2>2, <2>3 DEF WellShaped
<1>5. CASE EnumIn(a, reg, ev, "breached")
  <2>1. PICK d \in RequiredIn(a, reg, ev) : enumVerdict(d, a, ev) = "breached"
    BY <1>5 DEF EnumIn
  <2>2. d.attribute \in RequiredOf(reg, a) /\ d.members = MembersOf(reg, d.attribute)
    BY RequiredKeys
  <2>3. /\ d.members # {}
        /\ \E s \in a.signals : ~ (valuesIn(world, s, a.window, d.attribute) \subseteq d.members)
    BY <2>1, EnumsRead
  <2> QED
    BY <2>2, <2>3 DEF WellShaped
<1> QED
  BY <1>1, <1>4, <1>5, WhatIsFound

LEMMA NotDeliveredDidNotArrive ==
  ASSUME NEW reg, NEW a, NEW ev, ReadsTheWorld(a, ev), Carries,
         worst(FoundOn(a, reg, ev)) = "not_delivered"
  PROVE  ~ EverythingArrived(reg, a)
<1>1. Silent(a, ev) # {} \/ \E s \in scopedGroups(reg, a.scope) : Absent(s, a, ev)
  BY WhatTheWorstSays, WhatIsFound
<1>2. CASE Silent(a, ev) # {}
  BY <1>2, SignalsRead DEF EverythingArrived
<1>3. CASE \E s \in scopedGroups(reg, a.scope) : Absent(s, a, ev)
  BY <1>3, GroupsLocated, ScopedGroup DEF EverythingArrived
<1> QED
  BY <1>1, <1>2, <1>3

(* Every reading the registry's scope calls for was taken, and whole.      *)
TakenWhole(readings, k) == TakenAndKnown(readings, k) /\ ~ readings[k].truncated

AllRead(a, reg, ev) ==
  /\ Whole(a, ev)
  /\ \A s \in scopedGroups(reg, a.scope) : Located(s, a) =>
       TakenWhole(ev.groups, Key("metrics", a.window))
  /\ \A d \in RequiredIn(a, reg, ev) : d.members # {} =>
       \A s \in a.signals : InUse(s, a.window, d.attribute, ev) =>
         TakenWhole(ev.values, ValueKey(s, a.window, d.attribute))

LEMMA SeenIsNotUnknown ==
  ASSUME NEW reg, NEW a, NEW ev, ReadsTheWorld(a, ev), AllRead(a, reg, ev)
  PROVE  "unknown" \notin FoundOn(a, reg, ev)
<1>1. Unread(a, ev) = {}
  BY DEF Unread, AllRead, Whole, TakenAndKnown, ReadsTheWorld, NamesRead
<1>2. \A s \in scopedGroups(reg, a.scope) : InPlay(s, a, ev) \/ Absent(s, a, ev)
  BY DEF InPlay, Absent, AllRead, TakenWhole, GroupRead
<1>3. ~ CutIn(a, ev)
  <2>1. Heard(a, ev) \subseteq a.signals
    BY DEF Heard
  <2> QED
    BY <2>1 DEF CutIn, AllRead, Whole
<1>4. ASSUME NEW d \in RequiredIn(a, reg, ev) PROVE enumVerdict(d, a, ev) # "unsure"
  <2> DEFINE V(s) == ev.values[ValueKey(s, a.window, d.attribute)]
             on   == {s \in a.signals : InUse(s, a.window, d.attribute, ev)}
             read == {s \in on : TakenAndKnown(ev.values, ValueKey(s, a.window, d.attribute))}
             seen == UNION {V(s).of : s \in read}
             torn == on # read \/ (\E s \in read : V(s).truncated)
  <2>1. enumVerdict(d, a, ev) = CASE d.members = {} \/ on = {} -> "clean"
                                  [] OTHER -> IF seen \ d.members # {} THEN "breached"
                                              ELSE IF torn THEN "unsure" ELSE "clean"
    BY DEF enumVerdict
  <2>2. d.members # {} => ~ torn
    BY DEF AllRead, TakenWhole
  <2> HIDE DEF V, on, read, seen, torn
  <2> QED
    BY <2>1, <2>2
<1> QED
  BY <1>1, <1>2, <1>3, <1>4, WhatIsFound DEF EnumIn

LEMMA BlindDoesNotPass ==
  ASSUME NEW reg, NEW a, NEW ev, Unread(a, ev) # {}
  PROVE  ~ Passing(worst(FoundOn(a, reg, ev)))
<1>1. "unknown" \in FoundOn(a, reg, ev)
  BY WhatIsFound
<1> QED
  BY <1>1, FoundAreOutcomes, WorstKeepsAFailure DEF Passing

-----------------------------------------------------------------------------
(* The evidence of a build reads the world.                                *)

(* What comes back short of a presence is nothing, and of the names leaves *)
(* a name.                                                                 *)
Allowed(k, answer) ==
  /\ k[1] = "observed" => answer.blind
  /\ k[1] = "names" /\ ~ answer.blind => namesIn(world, k[2], k[3]) \ answer.drops # {}

ShortInv == \A k \in DOMAIN lost : Allowed(k, lost[k])

SceneInv == scene \in Scene /\ world \in World[scene]

LEMMA AnswersAreFaithful ==
  ASSUME NEW short, NEW key, NEW truth
  PROVE  /\ Faithful(Answer(short, key, truth), truth)
         /\ Answer(short, key, truth).known <=> ~ (key \in DOMAIN short /\ short[key].blind)
         /\ Answer(short, key, truth).truncated <=> (key \in DOMAIN short /\ ~ short[key].blind)
         /\ key \in DOMAIN short /\ ~ short[key].blind =>
              Answer(short, key, truth).of = truth \ short[key].drops
         /\ key \notin DOMAIN short => Answer(short, key, truth).of = truth
<1>1. CASE key \notin DOMAIN short
  <2>1. Answer(short, key, truth) = [known |-> TRUE, of |-> truth, truncated |-> FALSE]
    BY <1>1 DEF Answer
  <2> QED
    BY <1>1, <2>1 DEF Faithful
<1>2. CASE key \in DOMAIN short /\ short[key].blind
  <2>1. Answer(short, key, truth) = [known |-> FALSE, of |-> {}, truncated |-> FALSE]
    BY <1>2 DEF Answer
  <2> QED
    BY <1>2, <2>1 DEF Faithful
<1>3. CASE key \in DOMAIN short /\ ~ short[key].blind
  <2>1. Answer(short, key, truth) = [known |-> TRUE, of |-> truth \ short[key].drops, truncated |-> TRUE]
    BY <1>3 DEF Answer
  <2> QED
    BY <1>3, <2>1 DEF Faithful
<1> QED
  BY <1>1, <1>2, <1>3

LEMMA WorldCarries == SceneInv => Carries
BY ConformanceAssumption DEF SceneInv, Carries

(* A landed requirement that applies, in a build under some version.       *)
LandedAt(r, at) == r \in Library[scene] /\ r \in landedSchema(LibAt(at), Environment)

LEMMA LandedCovers ==
  ASSUME SceneInv, NEW at, NEW r, LandedAt(r, at)
  PROVE  /\ r.schema # NoAssertion /\ r.placement # "live" /\ AppliesTo(r, Environment)
         /\ r \in Library[scene] /\ r \in SchemaRequirements(Library[scene])
         /\ r.schema.signals \subseteq Signals /\ r.schema.signals # {}
<1>1. LibAt(at).requirements = Library[scene]
  BY DEF LibAt
<1>2. /\ r.schema # NoAssertion /\ r.placement # "live" /\ AppliesTo(r, Environment)
      /\ r \in Library[scene]
  BY <1>1 DEF LandedAt, landedSchema, SchemaRequirements, Applying
<1> QED
  BY <1>2, ConformanceAssumption DEF SceneInv, SchemaRequirements

GroupsOf(lib, short) ==
  [k \in groupPlan(lib, Environment) |->
     Answer(short, <<"groups", k[2]>>, metricsIn(world, k[2]))]

ValuesOf(lib, names, short) ==
  [k \in valuePlan(lib, Environment, [names |-> names]) |->
     Answer(short, <<"values", k[1], k[2], k[3]>>, valuesIn(world, k[1], k[2], k[3]))]

LEMMA GatheredForLanded ==
  ASSUME SceneInv, NEW at, NEW r, LandedAt(r, at), NEW short
  PROVE  LET ev == EvidenceUnder(at, short)  lib == LibAt(at) IN
         /\ ev.observed = ObservedOf(lib, Environment, world, short)
         /\ ev.names = NamesOf(lib, Environment, world, short)
         /\ ev.versions = withActive(lib) /\ ev.active = lib.active
         /\ ev.groups = GroupsOf(lib, short) /\ ev.values = ValuesOf(lib, ev.names, short)
<1> DEFINE lib == LibAt(at)
<1>1. r.schema.signals # {} /\ r \in landedSchema(lib, Environment)
  BY LandedCovers DEF LandedAt
<1>2. PICK s : s \in r.schema.signals
  BY <1>1
<1>3. Key(s, r.schema.window) \in SchemaReadings(lib, Environment)
  BY <1>1, <1>2 DEF SchemaReadings
<1>4. SchemaReadings(lib, Environment) # {}
  BY <1>3
<1> DEFINE g == GatherSchema(lib, Environment, world, short)
<1>5. /\ g.versions = withActive(lib) /\ g.active = lib.active
      /\ g.names = NamesOf(lib, Environment, world, short)
      /\ g.groups = GroupsOf(lib, short)
      /\ g.values = ValuesOf(lib, NamesOf(lib, Environment, world, short), short)
  <2> HIDE DEF lib
  <2> QED
    BY <1>4 DEF GatherSchema, GroupsOf, ValuesOf
<1>6. EvidenceUnder(at, short) = Gathered(lib, Topology[scene], Environment, world, short)
  BY DEF EvidenceUnder
<1> HIDE DEF lib
<1>7. LET ev == Gathered(lib, Topology[scene], Environment, world, short) IN
      /\ ev.observed = ObservedOf(lib, Environment, world, short)
      /\ ev.names = g.names /\ ev.versions = g.versions /\ ev.active = g.active
      /\ ev.groups = g.groups /\ ev.values = g.values
  <2> HIDE DEF g
  <2> QED
    BY DEF Gathered, g
<1> HIDE DEF g
<1> QED
  BY <1>5, <1>6, <1>7 DEF lib

LEMMA NamesOfLanded ==
  ASSUME SceneInv, NEW at, NEW r, LandedAt(r, at), NEW short, NEW s \in r.schema.signals
  PROVE  LET ev == EvidenceUnder(at, short)  k == Key(s, r.schema.window) IN
         /\ k \in DOMAIN ev.names
         /\ ev.names[k] = Answer(short, <<"names", s, r.schema.window>>,
                                 namesIn(world, s, r.schema.window))
<1> DEFINE lib == LibAt(at)
           k   == Key(s, r.schema.window)
<1>1. k \in SchemaReadings(lib, Environment)
  BY DEF LandedAt, SchemaReadings
<1>2. k[1] = s /\ k[2] = r.schema.window
  BY DEF Key
<1>3. EvidenceUnder(at, short).names = NamesOf(lib, Environment, world, short)
  BY GatheredForLanded
<1> HIDE DEF lib, k
<1> QED
  BY <1>1, <1>2, <1>3 DEF NamesOf, k

LEMMA BuildReadsTheWorld ==
  ASSUME SceneInv, ShortInv, NEW at, NEW r, LandedAt(r, at)
  PROVE  ReadsTheWorld(r.schema, EvidenceUnder(at, lost))
<1> DEFINE lib == LibAt(at)
           a   == r.schema
           ev  == EvidenceUnder(at, lost)
<1>1. a.signals \subseteq Signals
  BY LandedCovers
<1>2. NamesRead(a, ev)
  <2> SUFFICES ASSUME NEW s \in a.signals
               PROVE  LET n == ev.names[Key(s, a.window)] IN
                      /\ Key(s, a.window) \in DOMAIN ev.names
                      /\ Faithful(n, namesIn(world, s, a.window))
                      /\ n.known /\ namesIn(world, s, a.window) # {} => n.of # {}
    BY DEF NamesRead
  <2> DEFINE k     == <<"names", s, a.window>>
             truth == namesIn(world, s, a.window)
             n     == ev.names[Key(s, a.window)]
  <2>1. Key(s, a.window) \in DOMAIN ev.names /\ n = Answer(lost, k, truth)
    BY NamesOfLanded
  <2>2. k[1] = "names" /\ k[2] = s /\ k[3] = a.window
    OBVIOUS
  <2>3. k \in DOMAIN lost /\ ~ lost[k].blind => truth \ lost[k].drops # {}
    BY <2>2 DEF ShortInv, Allowed
  <2> HIDE DEF k, truth, n, ev, a
  <2>4. Faithful(n, truth) /\ (n.known /\ truth # {} => n.of # {})
    BY <2>1, <2>3, AnswersAreFaithful
  <2> QED
    BY <2>1, <2>4 DEF n, truth
<1>3. PresenceRead(a, ev)
  <2> SUFFICES ASSUME NEW s \in a.signals, a.window \in DOMAIN ev.observed,
                      ev.observed[a.window][s].known
               PROVE  ev.observed[a.window][s].present <=> s \in arrivedIn(world, a.window)
    BY DEF PresenceRead
  <2> DEFINE k == <<"observed", a.window>>
             n == Answer(lost, k, arrivedIn(world, a.window))
  <2>1. ev.observed = ObservedOf(lib, Environment, world, lost)
    BY GatheredForLanded
  <2>2. ev.observed[a.window][s] = [known |-> n.known, present |-> s \in n.of,
                                    enough |-> s \in n.of \cap world.enough]
    BY <1>1, <2>1 DEF ObservedOf
  <2>3. k[1] = "observed"
    OBVIOUS
  <2>4. k \in DOMAIN lost => lost[k].blind
    BY <2>3 DEF ShortInv, Allowed
  <2>5. n.known /\ (ev.observed[a.window][s].present <=> s \in n.of)
    <3> DEFINE o == ev.observed[a.window][s]
    <3>1. o.known /\ o = [known |-> n.known, present |-> s \in n.of,
                          enough |-> s \in n.of \cap world.enough]
      BY <2>2
    <3> HIDE DEF n, o
    <3>2. o.known = n.known /\ o.present = (s \in n.of)
      BY <3>1
    <3>3. n.known /\ (o.present <=> s \in n.of)
      BY <3>1, <3>2
    <3> QED
      BY <3>3 DEF o
  <2>6. n.of = arrivedIn(world, a.window)
    <3> HIDE DEF k
    <3> QED
      BY <2>4, <2>5, AnswersAreFaithful
  <2> QED
    BY <2>5, <2>6
<1>4. GroupsRead(a, ev)
  <2> SUFFICES ASSUME GroupRead(a, ev)
               PROVE  Faithful(ev.groups[Key("metrics", a.window)], metricsIn(world, a.window))
    BY DEF GroupsRead
  <2> DEFINE k == Key("metrics", a.window)
  <2>1. k \in DOMAIN ev.groups
    BY DEF GroupRead, TakenAndKnown
  <2>2. ev.groups = GroupsOf(lib, lost)
    BY GatheredForLanded
  <2>3. k[2] = a.window
    BY DEF Key
  <2> HIDE DEF k, ev, lib
  <2>4. ev.groups[k] = Answer(lost, <<"groups", a.window>>, metricsIn(world, a.window))
    BY <2>1, <2>2, <2>3 DEF GroupsOf
  <2> QED
    BY <2>4, AnswersAreFaithful DEF k
<1>5. ValuesRead(ev)
  <2>1. ev.values = ValuesOf(lib, ev.names, lost)
    BY GatheredForLanded
  <2> HIDE DEF ev, lib
  <2> QED
    BY <2>1, AnswersAreFaithful DEF ValuesRead, ValuesOf
<1> QED
  BY <1>2, <1>3, <1>4, <1>5 DEF ReadsTheWorld

(* What the properties call blind and cut is what the evidence shows.      *)
LEMMA BlindAndCut ==
  ASSUME SceneInv, NEW at, NEW r, LandedAt(r, at)
  PROVE  LET ev == EvidenceUnder(at, lost) IN
         /\ Unread(r.schema, ev) # {} <=> BlindOn(r.schema)
         /\ ~ BlindOn(r.schema) /\ ~ CutOn(r.schema) => Whole(r.schema, ev)
<1> DEFINE a    == r.schema
           ev   == EvidenceUnder(at, lost)
           K(s) == <<"names", s, a.window>>
           n(s) == ev.names[Key(s, a.window)]
<1>1. \A s \in a.signals : /\ Key(s, a.window) \in DOMAIN ev.names
                           /\ n(s).known <=> ~ (K(s) \in DOMAIN lost /\ lost[K(s)].blind)
                           /\ n(s).truncated <=> (K(s) \in DOMAIN lost /\ ~ lost[K(s)].blind)
  <2> SUFFICES ASSUME NEW s \in a.signals
               PROVE  /\ Key(s, a.window) \in DOMAIN ev.names
                      /\ n(s).known <=> ~ (K(s) \in DOMAIN lost /\ lost[K(s)].blind)
                      /\ n(s).truncated <=> (K(s) \in DOMAIN lost /\ ~ lost[K(s)].blind)
    OBVIOUS
  <2>1. Key(s, a.window) \in DOMAIN ev.names /\ n(s) = Answer(lost, K(s), namesIn(world, s, a.window))
    BY NamesOfLanded
  <2> QED
    BY <2>1, AnswersAreFaithful
<1>2. BlindOn(a) <=> \E s \in a.signals : K(s) \in DOMAIN lost /\ lost[K(s)].blind
  BY DEF BlindOn, NamesKeys
<1>3. CutOn(a) <=> \E s \in a.signals : K(s) \in DOMAIN lost /\ ~ lost[K(s)].blind
  BY DEF CutOn, NamesKeys
<1>4. Unread(a, ev) # {} <=> \E s \in a.signals : ~ n(s).known
  BY <1>1 DEF Unread, TakenAndKnown
<1>5. Whole(a, ev) <=> \A s \in a.signals : n(s).known /\ ~ n(s).truncated
  BY DEF Whole
<1> HIDE DEF n, K, ev
<1> QED
  BY <1>1, <1>2, <1>3, <1>4, <1>5 DEF ev

(* With no answer short, whatever a version the requirement is judged      *)
(* under calls for was planned, taken and whole.                           *)
LEMMA PlannedAndRead ==
  ASSUME SceneInv, lost = << >>, NEW at, NEW r, LandedAt(r, at),
         NEW reg \in JudgedUnder(LibAt(at), r), Loaded(reg)
  PROVE  AllRead(r.schema, reg, EvidenceUnder(at, lost))
<1> DEFINE lib == LibAt(at)
           a   == r.schema
           ev  == EvidenceUnder(at, lost)
<1>1. DOMAIN lost = {}
  OBVIOUS
<1>2. Whole(a, ev)
  BY <1>1, BlindAndCut DEF BlindOn, CutOn
<1>3. r \in landedSchema(lib, Environment)
  BY DEF LandedAt
<1>4. \A key, truth : Answer(lost, key, truth).known /\ ~ Answer(lost, key, truth).truncated
  BY <1>1, AnswersAreFaithful
<1>5. ASSUME NEW s \in scopedGroups(reg, a.scope), Located(s, a)
      PROVE  TakenWhole(ev.groups, Key("metrics", a.window))
  <2> DEFINE k == Key("metrics", a.window)
  <2>1. k \in groupReadings(a, reg)
    BY <1>5 DEF groupReadings, Located
  <2>2. k \in groupPlan(lib, Environment)
    BY <1>3, <2>1 DEF groupPlan
  <2>3. ev.groups = GroupsOf(lib, lost)
    BY GatheredForLanded
  <2> HIDE DEF k, ev, lib
  <2> QED
    BY <1>4, <2>2, <2>3 DEF TakenWhole, TakenAndKnown, GroupsOf, k
<1>6. ASSUME NEW d \in RequiredIn(a, reg, ev), d.members # {},
             NEW s \in a.signals, InUse(s, a.window, d.attribute, ev)
      PROVE  TakenWhole(ev.values, ValueKey(s, a.window, d.attribute))
  <2> DEFINE k     == ValueKey(s, a.window, d.attribute)
             G     == InPlayOf(a, reg, ev)
             every == scopedGroups(reg, a.scope)
             named == [names |-> ev.names]
  <2>1. d \in demandsIn(G) /\ d.level = "required"
    BY DEF RequiredIn
  <2>2. G \subseteq every
    BY DEF InPlayOf
  <2>3. \E g \in G : \E x \in Taken(g.group, a.scope) : x.level = "required" /\ d = demandOf(reg, x)
    <3> HIDE DEF G
    <3> QED
      BY <2>1, <2>2, RequiredDemands
  <2>4. \E g \in every : \E x \in Taken(g.group, a.scope) : x.level = "required" /\ d = demandOf(reg, x)
    <3> HIDE DEF G, every
    <3> QED
      BY <2>2, <2>3
  <2>5. d \in demandsOf(reg, a.scope)
    BY <2>4, RequiredDemands DEF demandsOf
  <2>6. InUse(s, a.window, d.attribute, named)
    BY <1>6 DEF InUse
  <2>7. k \in valueReadings(a, reg, named)
    <3> HIDE DEF named
    <3> QED
      BY <1>6, <2>5, <2>6 DEF valueReadings
  <2>8. k \in valuePlan(lib, Environment, named)
    <3> HIDE DEF named, k
    <3> QED
      BY <1>3, <2>7 DEF valuePlan
  <2>9. ev.values = ValuesOf(lib, ev.names, lost)
    BY GatheredForLanded
  <2>10. k \in valuePlan(lib, Environment, [names |-> ev.names])
    BY <2>8
  <2> HIDE DEF k, ev, lib, named
  <2> QED
    BY <1>4, <2>9, <2>10 DEF TakenWhole, TakenAndKnown, ValuesOf, k
<1> QED
  BY <1>2, <1>5, <1>6 DEF AllRead

-----------------------------------------------------------------------------
(* Every build's outage is one the invariant allows.                       *)

LEMMA CutsLeaveSomething ==
  ASSUME NEW truth, NEW h \in {Blind} \cup Cuts(truth)
  PROVE  h.blind \/ truth \ h.drops # {}
<1>1. CASE h = Blind
  BY <1>1 DEF Blind
<1>2. CASE h \in Cuts(truth)
  <2>0. \E d \in {e \in {{}} \cup {{x} : x \in truth} : truth \ e # {}} : h = Cut(d)
    BY <1>2 DEF Cuts
  <2>1. PICK d \in {e \in {{}} \cup {{x} : x \in truth} : truth \ e # {}} : h = Cut(d)
    BY <2>0
  <2>2. h.drops = d /\ truth \ d # {}
    BY <2>1 DEF Cut
  <2> QED
    BY <2>2
<1> QED
  BY <1>1, <1>2

LEMMA ShortAnswersAllowed ==
  ASSUME NEW p \in ShortAnswers
  PROVE  Allowed(p[1], p[2])
<1> DEFINE lib   == LibAt(active)
           ev    == EvidenceUnder(active, << >>)
           names == ev.names
           of    == UNION {t.satisfying : t \in Range(Topology[scene].tiers)}
           seen  == ShortPresence(Windows(lib, Environment))
<1>0. p \in seen \cup ShortNames(names) \cup ShortGroups(ev.groups) \cup ShortValues(ev.values)
              \cup ShortTap(ev.live) \cup UNION {Unreported(c) : c \in of}
  BY DEF ShortAnswers
<1>1. CASE p \in seen
  <2> HIDE DEF lib
  <2>1. p[1][1] = "observed" /\ p[2] = Blind
    BY <1>1 DEF ShortPresence
  <2> QED
    BY <2>1 DEF Allowed, Blind
<1>2. CASE p \in ShortNames(names)
  <2>1. PICK k \in DOMAIN names : p \in Shorts(<<"names", k[1], k[2]>>, names[k].of)
    <3> HIDE DEF names
    <3> QED
      BY <1>2 DEF ShortNames
  <2> HIDE DEF names
  <2>2. PICK h \in {Blind} \cup Cuts(names[k].of) : p = <<<<"names", k[1], k[2]>>, h>>
    BY <2>1 DEF Shorts
  <2>3. p[1][1] = "names" /\ p[1][2] = k[1] /\ p[1][3] = k[2] /\ p[2] = h
    BY <2>2
  <2>4. names[k].of = namesIn(world, k[1], k[2])
    <3>1. names = GatherSchema(lib, Environment, world, << >>).names
      BY DEF EvidenceUnder, Gathered, names
    <3>2. CASE SchemaReadings(lib, Environment) = {} /\ SchemaLiveReadings(lib, Environment) = {}
      <4>1. names = << >>
        <5> HIDE DEF lib
        <5> QED
          BY <3>1, <3>2 DEF GatherSchema, NothingGathered
      <4> QED
        BY <4>1
    <3>3. CASE ~ (SchemaReadings(lib, Environment) = {} /\ SchemaLiveReadings(lib, Environment) = {})
      <4>1. names = NamesOf(lib, Environment, world, << >>)
        <5> HIDE DEF lib
        <5> QED
          BY <3>1, <3>3 DEF GatherSchema
      <4> HIDE DEF lib
      <4>2. names[k] = Answer(<< >>, <<"names", k[1], k[2]>>, namesIn(world, k[1], k[2]))
        BY <4>1 DEF NamesOf
      <4>3. <<"names", k[1], k[2]>> \notin DOMAIN << >>
        OBVIOUS
      <4> QED
        BY <4>2, <4>3, AnswersAreFaithful
    <3> QED
      BY <3>2, <3>3
  <2>5. h.blind \/ namesIn(world, k[1], k[2]) \ h.drops # {}
    BY <2>4, CutsLeaveSomething
  <2> QED
    BY <2>3, <2>5 DEF Allowed
<1> DEFINE Other == {"groups", "values", "live", "fed", "collector"}
<1>3. CASE p \in ShortGroups(ev.groups)
  <2> HIDE DEF ev
  <2>1. p[1][1] \in Other
    BY <1>3 DEF ShortGroups, Shorts
  <2> QED
    BY <2>1 DEF Allowed
<1>4. CASE p \in ShortValues(ev.values)
  <2> HIDE DEF ev
  <2>1. p[1][1] \in Other
    BY <1>4 DEF ShortValues, Shorts
  <2> QED
    BY <2>1 DEF Allowed
<1>5. CASE p \in ShortTap(ev.live)
  <2> HIDE DEF ev
  <2>1. p[1][1] \in Other
    BY <1>5 DEF ShortTap, Shorts
  <2> QED
    BY <2>1 DEF Allowed
<1>6. CASE p \in UNION {Unreported(c) : c \in of}
  <2>1. PICK c \in of : p \in Unreported(c)
    <3> HIDE DEF of
    <3> QED
      BY <1>6
  <2>2. p[1][1] \in Other
    BY <2>1 DEF Unreported
  <2> QED
    BY <2>2 DEF Allowed
<1> HIDE DEF seen, names, ev, of
<1> QED
  BY <1>0, <1>1, <1>2, <1>3, <1>4, <1>5, <1>6

LEMMA OutagesAllowed ==
  ASSUME NEW short \in Outages
  PROVE  \A k \in DOMAIN short : Allowed(k, short[k])
<1>1. ASSUME NEW answers \in SUBSET ShortAnswers, NEW k \in DOMAIN Lost(answers)
      PROVE  Allowed(k, Lost(answers)[k])
  <2>1. \E p \in answers : p[1] = k
    BY DEF Lost
  <2> DEFINE p == CHOOSE q \in answers : q[1] = k
  <2>2. p \in answers /\ p[1] = k
    BY <2>1
  <2>3. Lost(answers)[k] = p[2]
    BY DEF Lost
  <2> HIDE DEF p
  <2> QED
    BY <2>2, <2>3, ShortAnswersAllowed
<1>2. \E answers \in SUBSET ShortAnswers : short = Lost(answers)
  <2> DEFINE S   == ShortAnswers
             one == {Lost({p}) : p \in S}
             two == {Lost({p, q}) : p, q \in S}
  <2>0. Outages \subseteq {Lost({})} \cup one \cup two
    <3>1. Outages = {Lost({})} \cup one \cup (IF MaxLost < 2 THEN {} ELSE two)
      BY DEF Outages
    <3> HIDE DEF one, two
    <3> QED
      BY <3>1
  <2>1. \/ short = Lost({})
        \/ \E p \in ShortAnswers : short = Lost({p})
        \/ \E p, q \in ShortAnswers : short = Lost({p, q})
    <3>1. short \in one => \E p \in ShortAnswers : short = Lost({p})
      OBVIOUS
    <3>2. short \in two => \E p, q \in S : short = Lost({p, q})
      <4> HIDE DEF S
      <4> QED
        OBVIOUS
    <3> HIDE DEF one, two
    <3> QED
      BY <2>0, <3>1, <3>2
  <2>2. CASE short = Lost({})
    BY <2>2
  <2>3. CASE \E p \in ShortAnswers : short = Lost({p})
    <3>1. PICK p \in ShortAnswers : short = Lost({p})
      BY <2>3
    <3>2. {p} \in SUBSET ShortAnswers
      OBVIOUS
    <3> QED
      BY <3>1, <3>2
  <2>4. CASE \E p, q \in ShortAnswers : short = Lost({p, q})
    <3>1. PICK p \in ShortAnswers, q \in ShortAnswers : short = Lost({p, q})
      BY <2>4
    <3>2. {p, q} \in SUBSET ShortAnswers
      OBVIOUS
    <3> QED
      BY <3>1, <3>2
  <2> QED
    BY <2>1, <2>2, <2>3, <2>4
<1> QED
  BY <1>1, <1>2

-----------------------------------------------------------------------------
(* The invariant: the documents hold what the evidence of the world said,  *)
(* under a version the library loaded against.                             *)

ReportsOf(at, ev) ==
  [v \in DOMAIN Installed[scene] \ {at} |->
     registryReport(LibAt(at), Environment, ev, Installed[scene], at, v)]

DocInv ==
  Built =>
    /\ doc.findings = Evaluate(Environment, Library[scene], EvidenceUnder(doc.active, lost))
    /\ LibraryLoads(Library[scene], Installed[scene], doc.active)
    /\ ActiveReads(doc.active, Installed[scene], versionsAt(doc.active))
    /\ doc.reports = ReportsOf(doc.active, EvidenceUnder(doc.active, lost))

ConformanceInv == SceneInv /\ ShortInv /\ DocInv

LEMMA InitConformance == Init => ConformanceInv
<1> SUFFICES ASSUME Init PROVE ConformanceInv
  OBVIOUS
<1>1. SceneInv /\ doc = NoDoc /\ lost = << >>
  BY DEF Init, SceneInv
<1>2. DOMAIN lost = {}
  BY <1>1
<1> QED
  BY <1>1, <1>2 DEF ConformanceInv, ShortInv, DocInv, Built

LEMMA NextConformance == ConformanceInv /\ [Next]_vars => ConformanceInv'
<1> SUFFICES ASSUME ConformanceInv, [Next]_vars PROVE ConformanceInv'
  OBVIOUS
<1>1. CASE Builds
  <2>1. scene' = scene /\ world' = world /\ active' = active /\ Loads
    BY <1>1 DEF Builds
  <2>2. PICK short \in (IF doc = NoDoc THEN Outages ELSE {lost}) :
          lost' = short /\ doc' = Documents(EvidenceUnder(active, short))
    BY <1>1 DEF Builds
  <2>3. SceneInv'
    BY <2>1 DEF ConformanceInv, SceneInv
  <2>4. ShortInv'
    <3>1. \A k \in DOMAIN lost' : Allowed(k, lost'[k])
      <4>1. CASE doc = NoDoc
        BY <2>2, <4>1, OutagesAllowed
      <4>2. CASE doc # NoDoc
        BY <2>2, <4>2 DEF ConformanceInv, ShortInv, Allowed
      <4> QED
        BY <4>1, <4>2
    <3> QED
      BY <2>1, <3>1 DEF ShortInv, Allowed
  <2>5. doc'.active = active
        /\ doc'.findings = Evaluate(Environment, Library[scene], EvidenceUnder(active, lost'))
        /\ doc'.reports = ReportsOf(active, EvidenceUnder(active, lost'))
    BY <2>2 DEF Documents, candidates, ReportsOf
  <2>6. DocInv'
    <3>1. EvidenceUnder(doc.active, lost)' = EvidenceUnder(active, lost')
      BY <2>1, <2>5 DEF EvidenceUnder, LibAt, versionsAt
    <3>2. versionsAt(doc.active)' = versionsAt(active)
      BY <2>1, <2>5 DEF versionsAt
    <3>3. /\ LibraryLoads(Library[scene], Installed[scene], active)
          /\ ActiveReads(active, Installed[scene], versionsAt(active))
      BY <2>1 DEF Loads
    <3>4. ReportsOf(doc.active, EvidenceUnder(doc.active, lost))'
            = ReportsOf(active, EvidenceUnder(active, lost'))
      BY <2>1, <2>5, <3>1 DEF ReportsOf, LibAt, versionsAt
    <3> QED
      BY <2>1, <2>5, <3>1, <3>2, <3>3, <3>4 DEF DocInv
  <2> QED
    BY <2>3, <2>4, <2>6 DEF ConformanceInv
<1>2. CASE (\E v \in Designation[scene] : Activates(v)) \/ UNCHANGED vars
  <2>1. scene' = scene /\ world' = world /\ lost' = lost /\ doc' = doc
    BY <1>2 DEF Activates, vars
  <2>2. SceneInv' /\ ShortInv'
    BY <2>1 DEF ConformanceInv, SceneInv, ShortInv, Allowed
  <2>3. DocInv'
    BY <2>1 DEF ConformanceInv, DocInv, Built, EvidenceUnder, LibAt, versionsAt, ReportsOf
  <2> QED
    BY <2>2, <2>3 DEF ConformanceInv
<1> QED
  BY <1>1, <1>2 DEF Next

(* The documents and the outage they were built through stay together:     *)
(* an activation moves neither (Builds, Activates).                        *)
THEOREM ConformanceInvHolds == Spec => []ConformanceInv
BY InitConformance, NextConformance, PTL DEF Spec

-----------------------------------------------------------------------------
(* From the findings of a document to the evidence.                        *)

(* A landed requirement is judged once: unknown where its version does not *)
(* resolve, library drift where it drifts, and otherwise as its own        *)
(* version finds it.                                                       *)
OutcomeOn(r, ev) ==
  IF r.schema.pin \notin DOMAIN ev.versions THEN "unknown"
  ELSE IF Drifts(r, judgeSchemaAgainst(r, ev.versions[r.schema.pin], ev), ev) THEN "library_drift"
  ELSE worst(FoundOn(r.schema, ev.versions[r.schema.pin], ev))

LEMMA FindingsAreRecords ==
  ASSUME NEW req, NEW reg, NEW ev, NEW f \in judgeSchemaAgainst(req, reg, ev)
  PROVE  f = [requirement |-> f.requirement, level |-> f.level, grade |-> f.grade,
              missing |-> f.missing, outcome |-> f.outcome]
<1> DEFINE a       == req.schema
           groups  == readGroups(a, scopedGroups(reg, a.scope), ev)
           scope   == readScope(a, ev)
           reading == [scope EXCEPT !.outcomes = @ \cup groups.outcomes]
           demands == demandsIn(groups.inPlay)
           At(l)   == {d \in demands : d.level = l}
           F(l)    == schemaFinding(req, l, At(l), reading, ev)
<1>1. judgeSchemaAgainst(req, reg, ev) = {F(l) : l \in {k \in Level : k = "required" \/ At(k) # {}}}
  BY DEF judgeSchemaAgainst
<1>2. \A l : F(l) = [requirement |-> F(l).requirement, level |-> F(l).level, grade |-> F(l).grade,
                     missing |-> F(l).missing, outcome |-> F(l).outcome]
  <2> HIDE DEF At, reading
  <2> QED
    BY DEF schemaFinding
<1> HIDE DEF F, At
<1> QED
  BY <1>1, <1>2

LEMMA LandedJudged ==
  ASSUME NEW r, r.schema # NoAssertion, r.placement # "live", NEW ev
  PROVE  /\ \E f \in judge(r, ev) : Scored(f)
         /\ \A f \in judge(r, ev) :
              f.requirement = r.id /\ (Scored(f) => f.outcome = OutcomeOn(r, ev))
<1>1. CASE r.schema.pin \notin DOMAIN ev.versions
  <2>1. judge(r, ev) = {schemaUnknown(r)} /\ OutcomeOn(r, ev) = "unknown"
    BY <1>1 DEF judge, judgeSchema, OutcomeOn
  <2> QED
    BY <2>1 DEF schemaUnknown, Scored
<1>2. CASE r.schema.pin \in DOMAIN ev.versions
  <2> DEFINE reg     == ev.versions[r.schema.pin]
             pinned  == judgeSchemaAgainst(r, reg, ev)
             verdict == VerdictOn(r, reg, ev)
             drifts  == Drifts(r, pinned, ev)
  <2>1. judge(r, ev) = schemaDrift(r, pinned, ev)
    BY <1>2 DEF judge, judgeSchema
  <2>2. OutcomeOn(r, ev) = IF drifts THEN "library_drift" ELSE worst(FoundOn(r.schema, reg, ev))
    BY <1>2 DEF OutcomeOn
  <2>3. /\ verdict \in pinned /\ Scored(verdict)
        /\ verdict.outcome = worst(FoundOn(r.schema, reg, ev))
        /\ \A f \in pinned : f.requirement = r.id /\ (Scored(f) => f = verdict)
    BY OneVerdict, VerdictIsTheWorst
  <2>4. CASE ~ drifts
    <3>1. judge(r, ev) = pinned
      BY <2>1, <2>4 DEF schemaDrift
    <3> HIDE DEF pinned, verdict, drifts, reg
    <3> QED
      BY <2>2, <2>3, <2>4, <3>1
  <2>5. CASE drifts
    <3> DEFINE now  == VerdictIn(judgeSchemaAgainst(r, ev.versions[ev.active], ev)).missing
               D(f) == IF Scored(f) THEN [f EXCEPT !.outcome = "library_drift", !.missing = now] ELSE f
    <3>1. judge(r, ev) = {D(f) : f \in pinned}
      BY <2>1, <2>5 DEF schemaDrift
    <3>2. ASSUME NEW f \in pinned
          PROVE  /\ D(f).requirement = f.requirement /\ (Scored(D(f)) <=> Scored(f))
                 /\ Scored(f) => D(f).outcome = "library_drift"
      <4>1. f = [requirement |-> f.requirement, level |-> f.level, grade |-> f.grade,
                 missing |-> f.missing, outcome |-> f.outcome]
        BY FindingsAreRecords
      <4>2. CASE ~ Scored(f)
        BY <4>2
      <4>3. CASE Scored(f)
        <5>1. D(f) = [requirement |-> f.requirement, level |-> f.level, grade |-> f.grade,
                      missing |-> now, outcome |-> "library_drift"]
          <6>1. D(f) = [f EXCEPT !.outcome = "library_drift", !.missing = now]
            BY <4>3
          <6> HIDE DEF now, D, pinned
          <6> QED
            BY <4>1, <6>1
        <5> HIDE DEF now, D, pinned
        <5> QED
          BY <4>3, <5>1 DEF Scored
      <4> QED
        BY <4>2, <4>3
    <3> HIDE DEF pinned, verdict, drifts, reg, D
    <3> QED
      BY <2>2, <2>3, <2>5, <3>1, <3>2
  <2> QED
    BY <2>4, <2>5
<1> QED
  BY <1>1, <1>2

(* The documents' verdict is one of the requirement's own.                 *)
LEMMA VerdictIsTheRequirements ==
  ASSUME SceneInv, DocInv, Built, NEW r \in Library[scene], AppliesTo(r, Environment),
         NEW ev, ev = EvidenceUnder(doc.active, lost),
         \A q \in Library[scene] : \A f \in judge(q, ev) : f.requirement = q.id,
         \E f \in judge(r, ev) : Scored(f)
  PROVE  VerdictOf(r) \in judge(r, ev) /\ Scored(VerdictOf(r))
<1> DEFINE Of(f) == f.requirement = r.id /\ Scored(f)
<1>1. doc.findings = UNION {judge(q, ev) : q \in {p \in Library[scene] : AppliesTo(p, Environment)}}
  BY DEF DocInv, Evaluate
<1>2. \E f \in doc.findings : Of(f)
  BY <1>1
<1>3. VerdictOf(r) = CHOOSE f \in doc.findings : Of(f)
  BY DEF VerdictOf
<1>4. VerdictOf(r) \in doc.findings /\ Of(VerdictOf(r))
  BY <1>2, <1>3
<1>5. PICK q \in {p \in Library[scene] : AppliesTo(p, Environment)} : VerdictOf(r) \in judge(q, ev)
  BY <1>1, <1>4
<1>6. q.id = r.id
  BY <1>4, <1>5
<1>7. q = r
  BY <1>5, <1>6, ConformanceAssumption DEF SceneInv
<1> QED
  BY <1>4, <1>5, <1>7

-----------------------------------------------------------------------------
(* The versions a landed requirement is judged under.                      *)

Loading(at) ==
  /\ LibraryLoads(Library[scene], Installed[scene], at)
  /\ ActiveReads(at, Installed[scene], versionsAt(at))

Standing(r, at) == Installed[scene][IF Tracking(r) THEN at ELSE r.schema.pin]

LEMMA VersionsAt ==
  ASSUME SceneInv, NEW at, Loading(at), NEW r, LandedAt(r, at),
         NEW short, NEW ev, ev = EvidenceUnder(at, short)
  PROVE  /\ ~ Tracking(r) \/ at # NoVersion <=> r.schema.pin \in DOMAIN ev.versions
         /\ ~ Tracking(r) \/ at # NoVersion =>
              /\ ev.versions[r.schema.pin] = Standing(r, at) /\ Loaded(Standing(r, at))
              /\ Standing(r, at) \in JudgedUnder(LibAt(at), r)
         /\ ~ Tracking(r) =>
              /\ ev.active = at
              /\ at # NoVersion =>
                   /\ ev.active \in DOMAIN ev.versions
                   /\ ev.versions[ev.active] = Installed[scene][at]
                   /\ Loaded(Installed[scene][at])
                   /\ r.schema.pin # at => Installed[scene][at] \in JudgedUnder(LibAt(at), r)
<1> DEFINE lib       == LibAt(at)
           installed == Installed[scene]
           reqs      == Library[scene]
           pin       == r.schema.pin
           tracks    == at # NoVersion /\ \E q \in SchemaRequirements(reqs) : Tracking(q)
           refs      == Pins(reqs) \cup (IF tracks THEN {at, TrackHead} ELSE {})
           vs        == versionsAt(at)
<1>1. r \in SchemaRequirements(reqs)
  BY LandedCovers
<1>2. vs = [ref \in refs |-> installed[IF ref = TrackHead THEN at ELSE ref]]
  BY DEF versionsAt, resolved
<1>3. /\ lib.versions = vs /\ lib.active = (IF vs = << >> THEN NoVersion ELSE at)
      /\ lib.activeRegistry = (IF lib.active = NoVersion THEN NoVersion ELSE installed[lib.active])
  BY DEF LibAt, ActiveSchemaRegistry
<1>4. ev.versions = withActive(lib) /\ ev.active = lib.active
  BY GatheredForLanded
<1>5. \A v \in DOMAIN installed : v # NoVersion /\ Loaded(installed[v])
  BY ConformanceAssumption DEF SceneInv, Loaded
<1>6. IF Tracking(r) THEN DOMAIN installed # {} /\ (at # NoVersion => at \in DOMAIN installed)
                     ELSE pin \in DOMAIN installed
  BY <1>1 DEF Loading, LibraryLoads
<1>7. pin = TrackHead <=> Tracking(r)
  BY DEF Tracking
<1>8. TrackHead \notin Pins(reqs)
  BY DEF Pins, Tracking
<1>9. ev.versions = IF lib.active = NoVersion THEN vs
                    ELSE [ref \in DOMAIN vs \cup {lib.active} |->
                            IF ref \in DOMAIN vs THEN vs[ref] ELSE lib.activeRegistry]
  BY <1>3, <1>4 DEF withActive
<1>10. JudgedUnder(lib, r) =
         (IF pin \in DOMAIN vs THEN {vs[pin]} ELSE {})
           \cup (IF lib.active # NoVersion /\ ~ Tracking(r) /\ pin # lib.active
                 THEN {lib.activeRegistry} ELSE {})
  BY <1>3 DEF JudgedUnder
<1>11. ActiveSchemaRegistry(at, vs) = lib.active
       /\ (lib.active # NoVersion => at \in DOMAIN installed)
  BY <1>3 DEF ActiveSchemaRegistry, Loading, ActiveReads
<1>12. tracks => at \in refs
  OBVIOUS
<1>13. ~ Tracking(r) => pin \in Pins(reqs)
  BY <1>1 DEF Pins
<1>14. Tracking(r) /\ at # NoVersion => tracks
  BY <1>1
<1>15. Standing(r, at) = installed[IF Tracking(r) THEN at ELSE pin]
  BY DEF Standing
<1>16. DOMAIN vs = refs /\ \A ref \in refs : vs[ref] = installed[IF ref = TrackHead THEN at ELSE ref]
  BY <1>2
<1>17. refs # {} => vs # << >>
  BY <1>16
<1>18. refs = Pins(reqs) \cup (IF tracks THEN {at, TrackHead} ELSE {})
  OBVIOUS
<1> HIDE DEF lib, installed, reqs, pin, tracks, refs, vs
<1>19. CASE ~ Tracking(r)
  <2>1. pin \in refs /\ vs # << >> /\ pin # TrackHead
    BY <1>7, <1>13, <1>17, <1>18, <1>19
  <2>2. lib.active = at /\ vs[pin] = installed[pin] /\ Standing(r, at) = installed[pin]
    BY <1>3, <1>15, <1>16, <1>19, <2>1
  <2>3. pin \in DOMAIN ev.versions /\ ev.versions[pin] = installed[pin]
    BY <1>9, <1>16, <2>1, <2>2
  <2>4. installed[pin] \in JudgedUnder(lib, r) /\ Loaded(installed[pin])
    BY <1>5, <1>6, <1>10, <1>16, <1>19, <2>1, <2>2
  <2>5. ASSUME at # NoVersion
        PROVE  /\ at \in DOMAIN ev.versions /\ ev.versions[at] = installed[at]
               /\ Loaded(installed[at])
               /\ pin # at => installed[at] \in JudgedUnder(lib, r)
    <3>1. at \in DOMAIN installed /\ lib.activeRegistry = installed[at]
      BY <1>3, <1>11, <2>2, <2>5
    <3>2. at \in DOMAIN vs => vs[at] = installed[at]
      BY <1>16
    <3>3. /\ DOMAIN ev.versions = DOMAIN vs \cup {at}
          /\ ev.versions[at] = IF at \in DOMAIN vs THEN vs[at] ELSE installed[at]
      BY <1>9, <2>2, <2>5, <3>1
    <3> QED
      BY <1>5, <1>10, <1>19, <2>2, <2>5, <3>1, <3>2, <3>3
  <2> QED
    BY <1>1, <1>4, <1>15, <1>19, <2>2, <2>3, <2>4, <2>5 DEF lib, pin, installed
<1>20. CASE Tracking(r) /\ at # NoVersion
  <2>1. TrackHead \in refs /\ vs # << >> /\ pin = TrackHead
    BY <1>7, <1>14, <1>17, <1>18, <1>20
  <2>2. lib.active = at /\ vs[pin] = installed[at] /\ Standing(r, at) = installed[at]
    BY <1>3, <1>15, <1>16, <1>20, <2>1
  <2>3. pin \in DOMAIN ev.versions /\ ev.versions[pin] = installed[at]
    BY <1>9, <1>16, <2>1, <2>2
  <2>4. installed[at] \in JudgedUnder(lib, r) /\ Loaded(installed[at])
    BY <1>5, <1>6, <1>10, <1>16, <1>20, <2>1, <2>2
  <2> QED
    BY <1>1, <1>15, <1>20, <2>2, <2>3, <2>4 DEF lib, pin, installed
<1>21. CASE Tracking(r) /\ at = NoVersion
  <2>1. ~ tracks
    BY <1>21 DEF tracks
  <2>2. pin \notin refs /\ lib.active = NoVersion
    BY <1>3, <1>7, <1>8, <1>18, <1>21, <2>1
  <2>3. pin \notin DOMAIN ev.versions
    BY <1>9, <1>16, <2>2
  <2> QED
    BY <1>1, <1>15, <1>21, <2>3 DEF pin
<1> QED
  BY <1>19, <1>20, <1>21

LEMMA VersionsOfLanded ==
  ASSUME SceneInv, DocInv, Built, NEW r \in Landed, NEW ev, ev = EvidenceUnder(doc.active, lost)
  PROVE  /\ LandedAt(r, doc.active)
         /\ Resolves(r) <=> r.schema.pin \in DOMAIN ev.versions
         /\ Resolves(r) => /\ ev.versions[r.schema.pin] = Registry(r) /\ Loaded(Registry(r))
                           /\ Registry(r) \in JudgedUnder(LibAt(doc.active), r)
         /\ ~ Tracking(r) =>
              /\ ev.active = doc.active
              /\ doc.active # NoVersion =>
                   /\ ev.active \in DOMAIN ev.versions
                   /\ ev.versions[ev.active] = Installed[scene][doc.active]
                   /\ Loaded(Installed[scene][doc.active])
                   /\ r.schema.pin # doc.active =>
                        Installed[scene][doc.active] \in JudgedUnder(LibAt(doc.active), r)
<1>1. LandedAt(r, doc.active) /\ Loading(doc.active)
  BY DEF Landed, LandedAt, Loading, DocInv
<1>2. Registry(r) = Standing(r, doc.active) /\ (Resolves(r) <=> ~ Tracking(r) \/ doc.active # NoVersion)
  BY DEF Registry, Resolves, Standing
<1> QED
  BY <1>1, <1>2, VersionsAt

-----------------------------------------------------------------------------
(* The live arm and the cross.                                             *)

RecordsAt(a, reading) == {x \in reading.of : CoveredBy(x, a) /\ liveLevelOf(x) = "required"}

LiveOutcome(r, ev) ==
  IF ~ (r.schema.window \in DOMAIN ev.live /\ ev.live[r.schema.window].known) THEN "unknown"
  ELSE liveFinding(r, "required", RecordsAt(r.schema, ev.live[r.schema.window]),
                   liveBase(ev.live[r.schema.window].liveness),
                   ev.live[r.schema.window].truncated).outcome

LEMMA LiveJudged ==
  ASSUME NEW r, r.schema # NoAssertion, r.placement = "live", NEW ev
  PROVE  /\ \E f \in judge(r, ev) : Scored(f)
         /\ \A f \in judge(r, ev) :
              f.requirement = r.id /\ (Scored(f) => f.outcome = LiveOutcome(r, ev))
<1> DEFINE a       == r.schema
           reading == ev.live[a.window]
<1>1. judge(r, ev) = judgeSchemaLive(r, ev)
  BY DEF judge, judgeSchema
<1>2. CASE ~ (a.window \in DOMAIN ev.live /\ reading.known)
  <2>1. judge(r, ev) = {schemaUnknown(r)} /\ LiveOutcome(r, ev) = "unknown"
    BY <1>1, <1>2 DEF judgeSchemaLive, LiveOutcome
  <2> QED
    BY <2>1 DEF schemaUnknown, Scored
<1>3. CASE a.window \in DOMAIN ev.live /\ reading.known
  <2> DEFINE At(l) == {x \in reading.of : CoveredBy(x, a) /\ liveLevelOf(x) = l}
             F(l)  == liveFinding(r, l, At(l), liveBase(reading.liveness), reading.truncated)
  <2>1. judge(r, ev) = {F(l) : l \in {k \in Level : k = "required" \/ At(k) # {}}}
    BY <1>1, <1>3 DEF judgeSchemaLive
  <2>2. LiveOutcome(r, ev) = F("required").outcome
    BY <1>3 DEF LiveOutcome, RecordsAt
  <2>3. \A l : F(l).requirement = r.id /\ F(l).grade = GradeOf(l)
    BY DEF liveFinding
  <2>4. \A l \in Level : GradeOf(l) = "violation" <=> l = "required"
    BY TheLevels DEF GradeOf
  <2>5. "required" \in Level
    BY TheLevels
  <2> HIDE DEF F, At
  <2> QED
    BY <2>1, <2>2, <2>3, <2>4, <2>5 DEF Scored
<1> QED
  BY <1>2, <1>3

LEMMA CrossJudged ==
  ASSUME NEW r, r.schema = NoAssertion, NEW ev
  PROVE  /\ \E f \in judge(r, ev) : Scored(f)
         /\ \A f \in judge(r, ev) :
              /\ f.requirement = r.id
              /\ f.outcome = CrossOf(checkConfig(r.config, ev.effective), checkSignal(r.signal, ev))
BY DEF judge, JudgeCross, Scored

LEMMA FindingsBelong ==
  ASSUME NEW r, NEW ev, NEW f \in judge(r, ev)
  PROVE  f.requirement = r.id
<1>1. CASE r.schema = NoAssertion
  BY <1>1, CrossJudged
<1>2. CASE r.schema # NoAssertion /\ r.placement = "live"
  BY <1>2, LiveJudged
<1>3. CASE r.schema # NoAssertion /\ r.placement # "live"
  BY <1>3, LandedJudged
<1> QED
  BY <1>1, <1>2, <1>3

LEMMA LandedVerdict ==
  ASSUME SceneInv, DocInv, Built, NEW r \in Landed, NEW ev, ev = EvidenceUnder(doc.active, lost)
  PROVE  VerdictOf(r).outcome = OutcomeOn(r, ev)
<1>1. LandedAt(r, doc.active)
  BY VersionsOfLanded
<1>2. r.schema # NoAssertion /\ r.placement # "live" /\ AppliesTo(r, Environment) /\ r \in Library[scene]
  BY <1>1, LandedCovers
<1>3. VerdictOf(r) \in judge(r, ev) /\ Scored(VerdictOf(r))
  BY <1>2, LandedJudged, FindingsBelong, VerdictIsTheRequirements
<1> QED
  BY <1>2, <1>3, LandedJudged

LEMMA LiveVerdict ==
  ASSUME SceneInv, DocInv, Built, NEW r \in SchemaRequirements(Applying(LibAt(doc.active), Environment)),
         r.placement = "live", NEW ev, ev = EvidenceUnder(doc.active, lost)
  PROVE  VerdictOf(r).outcome = LiveOutcome(r, ev)
<1>1. r.schema # NoAssertion /\ AppliesTo(r, Environment) /\ r \in Library[scene]
  BY DEF SchemaRequirements, Applying, LibAt
<1>2. VerdictOf(r) \in judge(r, ev) /\ Scored(VerdictOf(r))
  BY <1>1, LiveJudged, FindingsBelong, VerdictIsTheRequirements
<1> QED
  BY <1>1, <1>2, LiveJudged

LEMMA CrossVerdict ==
  ASSUME SceneInv, DocInv, Built,
         NEW r \in Applying(LibAt(doc.active), Environment) \ SchemaRequirements(Library[scene]),
         NEW ev, ev = EvidenceUnder(doc.active, lost)
  PROVE  /\ r \in Library[scene]
         /\ VerdictOf(r).outcome = CrossOf(checkConfig(r.config, ev.effective), checkSignal(r.signal, ev))
<1>1. r.schema = NoAssertion /\ AppliesTo(r, Environment) /\ r \in Library[scene]
  BY DEF SchemaRequirements, Applying, LibAt
<1>2. VerdictOf(r) \in judge(r, ev) /\ Scored(VerdictOf(r))
  BY <1>1, CrossJudged, FindingsBelong, VerdictIsTheRequirements
<1> QED
  BY <1>1, <1>2, CrossJudged

-----------------------------------------------------------------------------
(* The properties.                                                         *)

(* What one landed verdict rests on, in the documents of any build.        *)
LEMMA LandedFacts ==
  ASSUME ConformanceInv, Built, NEW r \in Landed, Resolves(r),
         NEW ev, ev = EvidenceUnder(doc.active, lost)
  PROVE  /\ LandedAt(r, doc.active) /\ Loaded(Registry(r)) /\ Carries
         /\ ReadsTheWorld(r.schema, ev) /\ r.schema.signals # {}
         /\ VerdictOf(r).outcome = IF Drifts(r, judgeSchemaAgainst(r, Registry(r), ev), ev)
                                   THEN "library_drift"
                                   ELSE worst(FoundOn(r.schema, Registry(r), ev))
         /\ (lost = << >> => AllRead(r.schema, Registry(r), ev))
<1>1. SceneInv /\ ShortInv /\ DocInv
  BY DEF ConformanceInv
<1>2. /\ LandedAt(r, doc.active)
      /\ r.schema.pin \in DOMAIN ev.versions /\ ev.versions[r.schema.pin] = Registry(r)
      /\ Loaded(Registry(r)) /\ Registry(r) \in JudgedUnder(LibAt(doc.active), r)
  BY <1>1, VersionsOfLanded
<1>3. ReadsTheWorld(r.schema, ev) /\ r.schema.signals # {}
  BY <1>1, <1>2, BuildReadsTheWorld, LandedCovers
<1>4. VerdictOf(r).outcome = OutcomeOn(r, ev)
  BY <1>1, LandedVerdict
<1>5. lost = << >> => AllRead(r.schema, Registry(r), ev)
  BY <1>1, <1>2, PlannedAndRead
<1> QED
  BY <1>1, <1>2, <1>3, <1>4, <1>5, WorldCarries DEF OutcomeOn

LEMMA LandedVerdictIsTrue == ConformanceInv /\ Built => LandedIsTrue
<1> SUFFICES ASSUME ConformanceInv, Built, NEW r \in Landed, Resolves(r)
             PROVE  LET a == r.schema  o == VerdictOf(r).outcome IN
                    /\ o = "compliant" /\ ~CutOn(a) => Conforms(Registry(r), a)
                    /\ o = "misconfigured" /\ ~BlindOn(a) => ~WellShaped(Registry(r), a)
                    /\ o = "not_delivered" => ~EverythingArrived(Registry(r), a)
  BY DEF LandedIsTrue
<1> DEFINE a   == r.schema
           o   == VerdictOf(r).outcome
           ev  == EvidenceUnder(doc.active, lost)
           reg == Registry(r)
<1>1. /\ LandedAt(r, doc.active) /\ Loaded(reg) /\ Carries /\ ReadsTheWorld(a, ev) /\ a.signals # {}
      /\ o = "library_drift" \/ o = worst(FoundOn(a, reg, ev))
  BY LandedFacts
<1>2. /\ Unread(a, ev) # {} <=> BlindOn(a)
      /\ ~ BlindOn(a) /\ ~ CutOn(a) => Whole(a, ev)
  BY <1>1, BlindAndCut DEF ConformanceInv
<1> HIDE DEF a, o, ev, reg
<1>3. ASSUME o = "compliant", ~ CutOn(a) PROVE Conforms(reg, a)
  <2>1. worst(FoundOn(a, reg, ev)) = "compliant"
    BY <1>1, <1>3
  <2>2. ~ BlindOn(a)
    BY <1>2, <2>1, BlindDoesNotPass DEF Passing
  <2> QED
    BY <1>1, <1>2, <1>3, <2>1, <2>2, CompliantConforms
<1>4. ASSUME o = "misconfigured", ~ BlindOn(a) PROVE ~ WellShaped(reg, a)
  BY <1>1, <1>2, <1>4, MisconfiguredIsNot
<1>5. ASSUME o = "not_delivered" PROVE ~ EverythingArrived(reg, a)
  BY <1>1, <1>5, NotDeliveredDidNotArrive
<1> QED
  BY <1>3, <1>4, <1>5 DEF a, o, reg

LEMMA UnknownIsCaused == ConformanceInv => UnknownHasACause
<1> SUFFICES ASSUME ConformanceInv, Built, NEW r \in Landed
             PROVE  /\ lost = << >> /\ Resolves(r) => VerdictOf(r).outcome # "unknown"
                    /\ ~Resolves(r) \/ BlindOn(r.schema) => ~Passing(VerdictOf(r).outcome)
  BY DEF UnknownHasACause
<1> DEFINE a   == r.schema
           o   == VerdictOf(r).outcome
           ev  == EvidenceUnder(doc.active, lost)
           reg == Registry(r)
<1>1. SceneInv /\ DocInv
  BY DEF ConformanceInv
<1>2. CASE ~ Resolves(r)
  <2>1. o = "unknown"
    BY <1>1, <1>2, LandedVerdict, VersionsOfLanded DEF OutcomeOn
  <2> QED
    BY <1>2, <2>1 DEF Passing
<1>3. CASE Resolves(r)
  <2>1. /\ LandedAt(r, doc.active) /\ ReadsTheWorld(a, ev)
        /\ o = "library_drift" \/ o = worst(FoundOn(a, reg, ev))
        /\ lost = << >> => AllRead(a, reg, ev)
    BY <1>3, LandedFacts
  <2>2. Unread(a, ev) # {} <=> BlindOn(a)
    BY <1>1, <2>1, BlindAndCut
  <2> HIDE DEF a, o, ev, reg
  <2>3. lost = << >> => o # "unknown"
    BY <2>1, SeenIsNotUnknown, WhatTheWorstSays
  <2>4. BlindOn(a) => ~ Passing(o)
    BY <2>1, <2>2, BlindDoesNotPass DEF Passing
  <2> QED
    BY <1>3, <2>3, <2>4 DEF a, o
<1> QED
  BY <1>2, <1>3

LEMMA DriftIsTold == ConformanceInv => DriftIsProved
<1> SUFFICES ASSUME ConformanceInv, Built, NEW r \in Landed, ~ Tracking(r)
             PROVE  LET a == r.schema
                        told  == VerdictOf(r).outcome = "library_drift"
                        moved == /\ doc.active # NoVersion
                                 /\ Conforms(Registry(r), a)
                                 /\ ~Conforms(Installed[scene][doc.active], a)
                    IN  /\ told /\ ~BlindOn(a) /\ ~CutOn(a) => moved
                        /\ moved /\ lost = << >> => told
  BY DEF DriftIsProved
<1> DEFINE a      == r.schema
           ev     == EvidenceUnder(doc.active, lost)
           pinned == Registry(r)
           now    == Installed[scene][doc.active]
           told   == VerdictOf(r).outcome = "library_drift"
           drifts == Drifts(r, judgeSchemaAgainst(r, pinned, ev), ev)
           O(reg) == worst(FoundOn(a, reg, ev))
<1>1. Resolves(r) /\ r.schema.pin # TrackHead /\ pinned = Installed[scene][r.schema.pin]
  BY DEF Resolves, Tracking, Registry
<1>2. /\ LandedAt(r, doc.active) /\ Loaded(pinned) /\ Carries
      /\ ReadsTheWorld(a, ev) /\ a.signals # {}
      /\ VerdictOf(r).outcome = IF drifts THEN "library_drift" ELSE O(pinned)
      /\ (lost = << >> => AllRead(a, pinned, ev))
  BY <1>1, LandedFacts
<1>3. /\ ev.active = doc.active
      /\ doc.active # NoVersion => /\ ev.active \in DOMAIN ev.versions
                                   /\ ev.versions[ev.active] = now /\ Loaded(now)
                                   /\ r.schema.pin # doc.active => now \in JudgedUnder(LibAt(doc.active), r)
  BY VersionsOfLanded DEF ConformanceInv
<1>4. \A reg : VerdictIn(judgeSchemaAgainst(r, reg, ev)).outcome = O(reg)
  BY OneVerdict, VerdictIsTheWorst
<1>5. drifts <=> /\ doc.active # NoVersion /\ doc.active # r.schema.pin
                 /\ O(pinned) = "compliant" /\ O(now) \in {"misconfigured", "not_delivered"}
  BY <1>1, <1>3, <1>4 DEF Drifts
<1>6. \A reg : O(reg) \in {"compliant", "unknown", "not_delivered", "misconfigured"}
               /\ O(reg) \in FoundOn(a, reg, ev)
  BY FoundAreOutcomes, WhatTheWorstSays
<1>7. told <=> drifts
  BY <1>2, <1>6
<1>8. /\ Unread(a, ev) # {} <=> BlindOn(a)
      /\ ~ BlindOn(a) /\ ~ CutOn(a) => Whole(a, ev)
  BY <1>2, BlindAndCut DEF ConformanceInv
<1>9. doc.active # NoVersion /\ r.schema.pin # doc.active /\ lost = << >> => AllRead(a, now, ev)
  BY <1>2, <1>3, PlannedAndRead DEF ConformanceInv
<1>10. lost = << >> => ~ BlindOn(a) /\ ~ CutOn(a)
  <2>1. lost = << >> => DOMAIN lost = {}
    OBVIOUS
  <2> QED
    BY <2>1 DEF BlindOn, CutOn
<1>11. \A reg : O(reg) = worst(FoundOn(a, reg, ev))
  OBVIOUS
<1> HIDE DEF a, ev, pinned, now, drifts, O, told
<1>12. ASSUME told, ~ BlindOn(a), ~ CutOn(a)
       PROVE  doc.active # NoVersion /\ Conforms(pinned, a) /\ ~ Conforms(now, a)
  <2>1. /\ doc.active # NoVersion /\ Loaded(now)
        /\ O(pinned) = "compliant" /\ O(now) \in {"misconfigured", "not_delivered"}
    BY <1>3, <1>5, <1>7, <1>12
  <2>2. Conforms(pinned, a)
    BY <1>2, <1>8, <1>11, <1>12, <2>1, CompliantConforms
  <2>3. ~ Conforms(now, a)
    <3>1. CASE O(now) = "misconfigured"
      BY <1>2, <1>8, <1>11, <1>12, <2>1, <3>1, MisconfiguredIsNot DEF Conforms
    <3>2. CASE O(now) = "not_delivered"
      BY <1>2, <1>11, <3>2, NotDeliveredDidNotArrive DEF Conforms
    <3> QED
      BY <2>1, <3>1, <3>2
  <2> QED
    BY <2>1, <2>2, <2>3
<1>13. ASSUME doc.active # NoVersion, Conforms(pinned, a), ~ Conforms(now, a), lost = << >>
       PROVE  told
  <2>1. doc.active # r.schema.pin
    BY <1>1, <1>13 DEF now, pinned
  <2>2. Loaded(now) /\ AllRead(a, now, ev) /\ AllRead(a, pinned, ev) /\ Unread(a, ev) = {} /\ Whole(a, ev)
    BY <1>2, <1>3, <1>8, <1>9, <1>10, <1>13, <2>1
  <2>3. O(pinned) = "compliant"
    <3>1. O(pinned) # "unknown"
      BY <1>2, <1>6, <2>2, SeenIsNotUnknown
    <3>2. O(pinned) # "misconfigured"
      BY <1>2, <1>11, <1>13, <2>2, MisconfiguredIsNot DEF Conforms
    <3>3. O(pinned) # "not_delivered"
      BY <1>2, <1>11, <1>13, NotDeliveredDidNotArrive DEF Conforms
    <3> QED
      BY <1>6, <3>1, <3>2, <3>3
  <2>4. O(now) \in {"misconfigured", "not_delivered"}
    <3>1. O(now) # "unknown"
      BY <1>2, <1>6, <2>2, SeenIsNotUnknown
    <3>2. O(now) # "compliant"
      BY <1>2, <1>11, <1>13, <2>2, CompliantConforms
    <3> QED
      BY <1>6, <3>1, <3>2
  <2> QED
    BY <1>5, <1>7, <1>13, <2>1, <2>3, <2>4
<1> QED
  BY <1>12, <1>13 DEF a, pinned, now, told

LEMMA TapIsRead ==
  ASSUME SceneInv, NEW at, NEW r \in SchemaRequirements(Applying(LibAt(at), Environment)),
         r.placement = "live", NEW short, NEW ev, ev = EvidenceUnder(at, short)
  PROVE  /\ r.schema.window \in DOMAIN ev.live
         /\ ev.live[r.schema.window] = LiveAnswer(world, short, r.schema.window)
<1> DEFINE lib  == LibAt(at)
           w    == r.schema.window
           gets == [v \in SchemaLiveReadings(lib, Environment) |-> LiveAnswer(world, short, v)]
<1>1. w \in SchemaLiveReadings(lib, Environment)
  BY DEF SchemaLiveReadings
<1>2. ev.live = GatherSchema(lib, Environment, world, short).live
  BY DEF EvidenceUnder, Gathered
<1>3. GatherSchema(lib, Environment, world, short).live = gets
  <2> HIDE DEF lib, w
  <2> QED
    BY <1>1 DEF GatherSchema
<1>4. DOMAIN gets = SchemaLiveReadings(lib, Environment)
      /\ \A v \in SchemaLiveReadings(lib, Environment) : gets[v] = LiveAnswer(world, short, v)
  <2> HIDE DEF lib
  <2> QED
    OBVIOUS
<1> HIDE DEF gets, lib, w
<1> QED
  BY <1>1, <1>2, <1>3, <1>4 DEF w

LEMMA WorstOfLive ==
  ASSUME NEW req, NEW records, NEW base \in {"compliant", "unknown"}, NEW truncated \in BOOLEAN
  PROVE  LET o == liveFinding(req, "required", records, base, truncated).outcome IN
         /\ o = "compliant" <=> base = "compliant" /\ records = {} /\ ~ truncated
         /\ o = "misconfigured" <=> records # {}
<1> DEFINE S == {base} \cup (IF records # {} THEN {"misconfigured"} ELSE {})
                       \cup (IF records = {} /\ truncated THEN {"unknown"} ELSE {})
           o == liveFinding(req, "required", records, base, truncated).outcome
<1>1. o = worst(S)
  BY DEF liveFinding
<1>2. /\ base \in S /\ S \subseteq {"compliant", "unknown", "misconfigured"} /\ S \in SUBSET Outcome
      /\ "misconfigured" \in S <=> records # {}
      /\ S = {"compliant"} <=> base = "compliant" /\ records = {} /\ ~ truncated
  BY DEF Outcome, Severity
<1> HIDE DEF S, o
<1>3. worst(S) \in S /\ \A p \in S : Severity[p] <= Severity[worst(S)]
  BY <1>2, WorstIsWorst
<1>4. Severity["compliant"] = 0 /\ Severity["unknown"] = 2 /\ Severity["misconfigured"] = 4
  BY DEF Severity
<1>5. worst(S) = "compliant" <=> S = {"compliant"}
  <2>1. ASSUME worst(S) = "compliant", NEW p \in S PROVE p = "compliant"
    <3>1. Severity[p] <= 0
      BY <1>3, <1>4, <2>1
    <3>2. p \in {"compliant", "unknown", "misconfigured"}
      BY <1>2
    <3> QED
      BY <1>4, <3>1, <3>2
  <2> QED
    BY <1>2, <1>3, <2>1
<1>6. worst(S) = "misconfigured" <=> "misconfigured" \in S
  <2>1. ASSUME "misconfigured" \in S PROVE worst(S) = "misconfigured"
    <3>1. 4 <= Severity[worst(S)]
      BY <1>3, <1>4, <2>1
    <3>2. worst(S) \in {"compliant", "unknown", "misconfigured"}
      BY <1>2, <1>3
    <3> QED
      BY <1>4, <3>1, <3>2
  <2> QED
    BY <1>3, <2>1
<1> QED
  BY <1>1, <1>2, <1>5, <1>6 DEF o

LEMMA LiveVerdictIsTrue == ConformanceInv /\ Built => LiveIsTrue
<1> SUFFICES ASSUME ConformanceInv, Built,
                    NEW r \in SchemaRequirements(Applying(LibAt(doc.active), Environment)),
                    r.placement = "live"
             PROVE  LET o == VerdictOf(r).outcome IN
                    /\ o = "compliant" => world.tap.sent /\ ~world.tap.sendFailed /\ Breaches(r.schema) = {}
                    /\ o = "misconfigured" => Breaches(r.schema) # {}
                    /\ o # "compliant" /\ lost = << >> =>
                         ~world.tap.sent \/ world.tap.sendFailed \/ Breaches(r.schema) # {}
  BY DEF LiveIsTrue
<1> DEFINE a        == r.schema
           w        == a.window
           o        == VerdictOf(r).outcome
           ev       == EvidenceUnder(doc.active, lost)
           reading  == ev.live[w]
           answer   == Answer(lost, <<"live", w>>, world.tap.records)
           liveness == reading.liveness
           base     == liveBase(liveness)
           records  == RecordsAt(a, reading)
<1>1. o = LiveOutcome(r, ev)
  BY LiveVerdict DEF ConformanceInv
<1>2. w \in DOMAIN ev.live /\ reading = LiveAnswer(world, lost, w)
  BY TapIsRead DEF ConformanceInv
<1>3. /\ reading.known = answer.known /\ reading.of = answer.of /\ reading.truncated = answer.truncated
      /\ liveness = [known |-> <<"fed", w>> \notin DOMAIN lost,
                     sent |-> world.tap.sent, sendFailed |-> world.tap.sendFailed]
  BY <1>2 DEF LiveAnswer
<1>4. LiveOutcome(r, ev) = IF ~ reading.known THEN "unknown"
                           ELSE liveFinding(r, "required", records, base, reading.truncated).outcome
  BY <1>2 DEF LiveOutcome
<1>5. base \in {"compliant", "unknown"}
      /\ (base = "compliant" <=> <<"fed", w>> \notin DOMAIN lost /\ world.tap.sent /\ ~ world.tap.sendFailed)
  <2> HIDE DEF liveness
  <2> QED
    BY <1>3 DEF liveBase
<1>6. /\ answer.known => answer.of \subseteq world.tap.records
                           /\ (~ answer.truncated => answer.of = world.tap.records)
      /\ answer.truncated \in BOOLEAN
      /\ lost = << >> => answer.known /\ ~ answer.truncated
  <2>1. lost = << >> => DOMAIN lost = {}
    OBVIOUS
  <2>2. answer.truncated \in BOOLEAN
    BY DEF Answer
  <2> QED
    BY <2>1, <2>2, AnswersAreFaithful DEF Faithful
<1>7. lost = << >> => <<"fed", w>> \notin DOMAIN lost
  OBVIOUS
<1>8. Breaches(a) = {x \in world.tap.records : CoveredBy(x, a) /\ liveLevelOf(x) = "required"}
      /\ records = {x \in reading.of : CoveredBy(x, a) /\ liveLevelOf(x) = "required"}
  BY DEF Breaches, RecordsAt
<1> HIDE DEF a, w, o, ev, reading, answer, liveness, base, records
<1>9. answer.known => (records # {} => Breaches(a) # {})
                      /\ (~ answer.truncated => records = Breaches(a))
  BY <1>3, <1>6, <1>8
<1>10. ASSUME reading.known
       PROVE  /\ o = "compliant" <=> base = "compliant" /\ records = {} /\ ~ answer.truncated
              /\ o = "misconfigured" <=> records # {}
  <2>1. o = liveFinding(r, "required", records, base, reading.truncated).outcome
    BY <1>1, <1>4, <1>10
  <2>2. reading.truncated \in BOOLEAN /\ reading.truncated = answer.truncated
    BY <1>3, <1>6
  <2>3. LET v == liveFinding(r, "required", records, base, reading.truncated).outcome IN
        /\ v = "compliant" <=> base = "compliant" /\ records = {} /\ ~ reading.truncated
        /\ v = "misconfigured" <=> records # {}
    BY <1>5, <2>2, WorstOfLive
  <2> QED
    BY <2>1, <2>2, <2>3
<1>11. ~ reading.known => o = "unknown"
  BY <1>1, <1>4
<1>12. /\ o = "compliant" => world.tap.sent /\ ~world.tap.sendFailed /\ Breaches(a) = {}
       /\ o = "misconfigured" => Breaches(a) # {}
       /\ o # "compliant" /\ lost = << >> =>
            ~world.tap.sent \/ world.tap.sendFailed \/ Breaches(a) # {}
  <2>1. CASE ~ reading.known
    BY <1>3, <1>6, <1>11, <2>1
  <2>2. CASE reading.known
    BY <1>3, <1>5, <1>6, <1>7, <1>9, <1>10, <2>2
  <2> QED
    BY <2>1, <2>2
<1> QED
  BY <1>12 DEF a, o

LEMMA CrossIsOf ==
  ASSUME NEW c \in {"none", "yes", "no"}, NEW s \in {"none", "yes", "no"}
  PROVE  LET o == CrossOf(c, s) IN
         /\ o \in {"broken_pipeline", "not_configured", "not_delivered"} => s = "no"
         /\ o = "ungoverned" => s = "yes"
         /\ o = "broken_pipeline" => c = "yes"
         /\ o \in {"not_configured", "misconfigured", "ungoverned"} => c = "no"
BY DEF CrossOf

LEMMA CrossVerdictIsTrue == ConformanceInv => CrossIsTrue
<1> SUFFICES ASSUME ConformanceInv, Built,
                    NEW r \in Applying(LibAt(doc.active), Environment) \ SchemaRequirements(Library[scene])
             PROVE  LET o == VerdictOf(r).outcome IN
                    /\ o \in {"broken_pipeline", "not_configured", "not_delivered"} => ~Delivered(r.signal)
                    /\ o = "ungoverned" => Delivered(r.signal)
                    /\ world.override = NoOverride =>
                         /\ o = "broken_pipeline" =>
                              Answering # {} /\ \A c \in Answering : Configured(r.config, c)
                         /\ o \in {"not_configured", "misconfigured", "ungoverned"} =>
                              Answering # {} /\ \A c \in Answering : ~Configured(r.config, c)
  BY DEF CrossIsTrue
<1> DEFINE lib == LibAt(doc.active)
           ev  == EvidenceUnder(doc.active, lost)
           a   == r.signal
           eff == ev.effective
           cfg == checkConfig(r.config, eff)
           sig == checkSignal(a, ev)
           o   == VerdictOf(r).outcome
<1>1. SceneInv /\ ShortInv /\ DocInv
  BY DEF ConformanceInv
<1>2. r \in Library[scene] /\ o = CrossOf(cfg, sig)
  BY <1>1, CrossVerdict
<1>3. /\ eff = Derive(Topology[scene], Environment, world, lost)
      /\ ev.observed = ObservedOf(lib, Environment, world, lost)
  BY DEF EvidenceUnder, Gathered
<1>4. cfg \in {"none", "yes", "no"} /\ sig \in {"none", "yes", "no"}
  BY DEF checkConfig, checkSignal
<1>5. /\ o \in {"broken_pipeline", "not_configured", "not_delivered"} => sig = "no"
      /\ o = "ungoverned" => sig = "yes"
      /\ o = "broken_pipeline" => cfg = "yes"
      /\ o \in {"not_configured", "misconfigured", "ungoverned"} => cfg = "no"
  <2> HIDE DEF cfg, sig, o
  <2> QED
    BY <1>2, <1>4, CrossIsOf
<1>6. sig # "none" => (sig = "yes" <=> Delivered(a))
  <2> SUFFICES ASSUME sig # "none" PROVE sig = "yes" <=> Delivered(a)
    OBVIOUS
  <2> DEFINE seen == ev.observed[a.window][a.kind]
             n    == Answer(lost, <<"observed", a.window>>, arrivedIn(world, a.window))
  <2>1. /\ a # NoAssertion /\ a.window \in DOMAIN ev.observed /\ seen.known
        /\ sig = IF (a.present => seen.present) /\ (a.floors => seen.enough) THEN "yes" ELSE "no"
    BY DEF checkSignal, SignalKnown
  <2>2. a.kind \in Signals
    BY <1>1, <1>2, <2>1, ConformanceAssumption DEF SceneInv
  <2>3. seen = [known |-> n.known, present |-> a.kind \in n.of,
                enough |-> a.kind \in n.of \cap world.enough]
    <3>1. a.window \in Windows(lib, Environment)
      BY <1>3, <2>1 DEF ObservedOf
    <3> HIDE DEF lib, ev
    <3> QED
      BY <1>3, <2>2, <3>1 DEF ObservedOf
  <2>4. n.known => n.of = arrivedIn(world, a.window)
    <3> DEFINE k == <<"observed", a.window>>
    <3>1. k \in DOMAIN lost => lost[k].blind
      BY <1>1 DEF ShortInv, Allowed
    <3> HIDE DEF k
    <3>2. LET m == Answer(lost, k, arrivedIn(world, a.window)) IN m.known => m.of = arrivedIn(world, a.window)
      BY <3>1, AnswersAreFaithful
    <3> QED
      BY <3>2 DEF k
  <2> HIDE DEF n, seen, sig, ev
  <2>5. /\ n.known
        /\ seen.present <=> a.kind \in n.of
        /\ seen.enough <=> a.kind \in n.of \cap world.enough
    <3>1. seen.known = n.known /\ seen.present = (a.kind \in n.of)
          /\ seen.enough = (a.kind \in n.of \cap world.enough)
      BY <2>3
    <3> QED
      BY <2>1, <3>1
  <2> QED
    BY <2>1, <2>4, <2>5 DEF Delivered
<1>7. ASSUME world.override = NoOverride, cfg # "none"
      PROVE  /\ Answering # {}
             /\ \A c \in Answering : Configured(r.config, c) <=> cfg = "yes"
  <2> DEFINE of    == matched(Topology[scene], Environment, world, lost)
             first == CHOOSE c \in of : TRUE
             K(c)  == [known |-> TRUE, pipelines |-> world.configs[c]]
  <2>1. eff.known /\ eff = effectiveFor(Topology[scene], Environment, world, lost)
    <3>1. eff.known
      BY <1>7 DEF checkConfig
    <3> QED
      BY <1>3, <1>7, <3>1 DEF Derive
  <2>2. /\ of # {} /\ (\A c, d \in of : world.configs[c] = world.configs[d])
        /\ (\A c \in of : reported(world, lost, c).known)
        /\ eff = K(first)
    <3> DEFINE torn == of = {} \/ ~ (\A c, d \in of : world.configs[c] = world.configs[d])
                               \/ (\E c \in of : ~ reported(world, lost, c).known)
    <3>1. eff = IF torn THEN NotKnown ELSE K(first)
      BY <2>1 DEF effectiveFor
    <3>2. ~ torn
      <4> HIDE DEF torn
      <4> QED
        BY <2>1, <3>1 DEF NotKnown
    <3> HIDE DEF of, eff
    <3> QED
      BY <3>1, <3>2
  <2>3. first \in of
    <3> HIDE DEF of
    <3> QED
      BY <2>2
  <2>4. Answering = of
    <3>1. Answering = {c \in of : reported(world, lost, c).known}
      BY DEF Answering
    <3> HIDE DEF of
    <3> QED
      BY <2>2, <3>1
  <2>5. \A c \in of : K(c) = eff
    <3> HIDE DEF of, eff
    <3> QED
      BY <2>2, <2>3
  <2>6. \A c \in of : Configured(r.config, c) <=> cfg = "yes"
    <3>1. \A c : Configured(r.config, c) <=> checkConfig(r.config, K(c)) = "yes"
      BY DEF Configured
    <3> HIDE DEF of, eff, K, first
    <3> QED
      BY <2>5, <3>1
  <2> QED
    BY <2>2, <2>4, <2>6
<1> HIDE DEF cfg, sig, o, a
<1>8. /\ o \in {"broken_pipeline", "not_configured", "not_delivered"} => ~Delivered(a)
      /\ o = "ungoverned" => Delivered(a)
  BY <1>5, <1>6
<1>9. world.override = NoOverride =>
        /\ o = "broken_pipeline" => Answering # {} /\ \A c \in Answering : Configured(r.config, c)
        /\ o \in {"not_configured", "misconfigured", "ungoverned"} =>
             Answering # {} /\ \A c \in Answering : ~Configured(r.config, c)
  BY <1>5, <1>7
<1> QED
  BY <1>8, <1>9 DEF o, a

-----------------------------------------------------------------------------
(* What a verdict names as missing.                                        *)

LacksOf(a, reg, ev) ==
  IF Heard(a, ev) = {} THEN {}
  ELSE {d.attribute : d \in {e \in RequiredIn(a, reg, ev) : e.attribute \notin PresentIn(a, ev)}}

MissingOn(r, ev) ==
  IF r.schema.pin \notin DOMAIN ev.versions THEN {}
  ELSE IF Drifts(r, judgeSchemaAgainst(r, ev.versions[r.schema.pin], ev), ev)
       THEN LacksOf(r.schema, ev.versions[ev.active], ev)
       ELSE LacksOf(r.schema, ev.versions[r.schema.pin], ev)

LEMMA VerdictMisses ==
  ASSUME NEW req, NEW reg, NEW ev
  PROVE  VerdictOn(req, reg, ev).missing = LacksOf(req.schema, reg, ev)
<1> DEFINE a       == req.schema
           at      == RequiredIn(a, reg, ev)
           reading == ReadingOf(a, reg, ev)
<1>1. reading.present = PresentIn(a, ev) /\ (reading.judgeable <=> Heard(a, ev) # {})
  BY DEF ReadingOf, readScope, PresentIn
<1>2. VerdictOn(req, reg, ev).missing = IF reading.judgeable THEN MissingOf(at, reading) ELSE {}
  <2> HIDE DEF at, reading
  <2> QED
    BY DEF VerdictOn, schemaFinding, at, reading
<1>3. MissingOf(at, reading) = {d.attribute : d \in {e \in at : e.attribute \notin PresentIn(a, ev)}}
  <2> HIDE DEF at, reading
  <2> QED
    BY <1>1 DEF MissingOf
<1> HIDE DEF reading
<1> QED
  BY <1>1, <1>2, <1>3 DEF LacksOf

LEMMA LandedMisses ==
  ASSUME NEW r, r.schema # NoAssertion, r.placement # "live", NEW ev
  PROVE  \A f \in judge(r, ev) : Scored(f) => f.missing = MissingOn(r, ev)
<1>1. CASE r.schema.pin \notin DOMAIN ev.versions
  <2>1. judge(r, ev) = {schemaUnknown(r)} /\ MissingOn(r, ev) = {}
    BY <1>1 DEF judge, judgeSchema, MissingOn
  <2> QED
    BY <2>1 DEF schemaUnknown
<1>2. CASE r.schema.pin \in DOMAIN ev.versions
  <2> DEFINE reg     == ev.versions[r.schema.pin]
             pinned  == judgeSchemaAgainst(r, reg, ev)
             verdict == VerdictOn(r, reg, ev)
             drifts  == Drifts(r, pinned, ev)
             now     == VerdictIn(judgeSchemaAgainst(r, ev.versions[ev.active], ev)).missing
  <2>1. judge(r, ev) = schemaDrift(r, pinned, ev)
    BY <1>2 DEF judge, judgeSchema
  <2>2. MissingOn(r, ev) = IF drifts THEN LacksOf(r.schema, ev.versions[ev.active], ev)
                                     ELSE LacksOf(r.schema, reg, ev)
    BY <1>2 DEF MissingOn
  <2>3. /\ verdict.missing = LacksOf(r.schema, reg, ev)
        /\ now = LacksOf(r.schema, ev.versions[ev.active], ev)
        /\ \A f \in pinned : Scored(f) => f = verdict
    BY OneVerdict, VerdictMisses
  <2>4. CASE ~ drifts
    <3>1. judge(r, ev) = pinned
      BY <2>1, <2>4 DEF schemaDrift
    <3> HIDE DEF pinned, verdict, drifts, reg
    <3> QED
      BY <2>2, <2>3, <2>4, <3>1
  <2>5. CASE drifts
    <3> DEFINE D(f) == IF Scored(f) THEN [f EXCEPT !.outcome = "library_drift", !.missing = now] ELSE f
    <3>1. judge(r, ev) = {D(f) : f \in pinned}
      BY <2>1, <2>5 DEF schemaDrift
    <3>2. ASSUME NEW f \in pinned, Scored(D(f))
          PROVE  D(f).missing = now
      <4>1. f = [requirement |-> f.requirement, level |-> f.level, grade |-> f.grade,
                 missing |-> f.missing, outcome |-> f.outcome]
        BY FindingsAreRecords
      <4>2. Scored(f)
        <5> HIDE DEF pinned, now
        <5> QED
          BY <3>2
      <4>3. D(f) = [f EXCEPT !.outcome = "library_drift", !.missing = now]
        BY <4>2
      <4> HIDE DEF now, D, pinned
      <4> QED
        BY <4>1, <4>3
    <3> HIDE DEF pinned, verdict, drifts, reg, D, now
    <3> QED
      BY <2>2, <2>3, <2>5, <3>1, <3>2
  <2> QED
    BY <2>4, <2>5
<1> QED
  BY <1>1, <1>2

(* So much for every finding on a landed requirement among those of a row. *)
LEMMA FindingsOfLanded ==
  ASSUME SceneInv, NEW at, NEW r, LandedAt(r, at), NEW ev,
         NEW findings, findings = Evaluate(Environment, Library[scene], ev)
  PROVE  /\ \E f \in findings : f.requirement = r.id /\ Scored(f)
         /\ \A f \in findings : f.requirement = r.id /\ Scored(f) =>
              f.outcome = OutcomeOn(r, ev) /\ f.missing = MissingOn(r, ev)
<1>1. r.schema # NoAssertion /\ r.placement # "live" /\ AppliesTo(r, Environment) /\ r \in Library[scene]
  BY LandedCovers
<1>2. findings = UNION {judge(q, ev) : q \in {p \in Library[scene] : AppliesTo(p, Environment)}}
  BY DEF Evaluate
<1>3. ASSUME NEW f \in findings, f.requirement = r.id PROVE f \in judge(r, ev)
  <2>1. PICK q \in Library[scene] : f \in judge(q, ev)
    BY <1>2
  <2>2. q.id = r.id
    BY <1>3, <2>1, FindingsBelong
  <2>3. q = r
    BY <1>1, <2>2, ConformanceAssumption DEF SceneInv
  <2> QED
    BY <2>1, <2>3
<1>4. /\ \E f \in judge(r, ev) : Scored(f) /\ f.requirement = r.id
      /\ \A f \in judge(r, ev) :
           Scored(f) => f.outcome = OutcomeOn(r, ev) /\ f.missing = MissingOn(r, ev)
  BY <1>1, LandedJudged, LandedMisses
<1> QED
  BY <1>1, <1>2, <1>3, <1>4

-----------------------------------------------------------------------------
(* A fuller evidence: what the one has read the other has read alike, of   *)
(* all that judging a scope under a registry asks for.                     *)

SameSignals(ev, fuller) == fuller.names = ev.names /\ fuller.observed = ev.observed

MoreOf(asked, some, more) ==
  \A k \in asked \cap DOMAIN some : k \in DOMAIN more /\ more[k] = some[k]

Fuller(a, reg, ev, fuller) ==
  /\ SameSignals(ev, fuller)
  /\ MoreOf(groupReadings(a, reg), ev.groups, fuller.groups)
  /\ MoreOf(valueReadings(a, reg, ev), ev.values, fuller.values)

LEMMA SignalsAlike ==
  ASSUME NEW a, NEW ev, NEW fuller, SameSignals(ev, fuller)
  PROVE  /\ Unread(a, fuller) = Unread(a, ev) /\ Silent(a, fuller) = Silent(a, ev)
         /\ Heard(a, fuller) = Heard(a, ev)
         /\ PresentIn(a, fuller) = PresentIn(a, ev) /\ (CutIn(a, fuller) <=> CutIn(a, ev))
         /\ \A kind, window, key : InUse(kind, window, key, fuller) <=> InUse(kind, window, key, ev)
<1>1. Unread(a, fuller) = Unread(a, ev)
  BY DEF SameSignals, Unread
<1>2. \A kind, window : arrived(kind, window, fuller) <=> arrived(kind, window, ev)
  BY DEF SameSignals, arrived
<1>3. Silent(a, fuller) = Silent(a, ev)
  BY <1>1, <1>2 DEF Silent
<1>4. Heard(a, fuller) = Heard(a, ev)
  BY <1>1, <1>3 DEF Heard
<1> QED
  BY <1>1, <1>3, <1>4 DEF SameSignals, PresentIn, CutIn, InUse

LEMMA GroupsFuller ==
  ASSUME NEW a, NEW reg, NEW ev, NEW fuller, MoreOf(groupReadings(a, reg), ev.groups, fuller.groups),
         NEW s \in scopedGroups(reg, a.scope)
  PROVE  /\ InPlay(s, a, ev) => InPlay(s, a, fuller)
         /\ Absent(s, a, ev) => Absent(s, a, fuller)
<1> DEFINE k == Key("metrics", a.window)
<1>1. Located(s, a) => k \in groupReadings(a, reg)
  BY DEF Located, groupReadings
<1>2. Located(s, a) /\ GroupRead(a, ev) => GroupRead(a, fuller) /\ fuller.groups[k] = ev.groups[k]
  BY <1>1 DEF MoreOf, GroupRead, TakenAndKnown
<1> QED
  BY <1>2 DEF InPlay, Absent, Named, Located

LEMMA RequiredFuller ==
  ASSUME NEW reg, Loaded(reg), NEW a, NEW ev, NEW fuller,
         MoreOf(groupReadings(a, reg), ev.groups, fuller.groups)
  PROVE  /\ RequiredIn(a, reg, ev) \subseteq RequiredIn(a, reg, fuller)
         /\ RequiredIn(a, reg, ev) \subseteq demandsOf(reg, a.scope)
<1> DEFINE every == scopedGroups(reg, a.scope)
           some  == InPlayOf(a, reg, ev)
           more  == InPlayOf(a, reg, fuller)
<1>1. some \subseteq more /\ more \subseteq every
  BY GroupsFuller DEF InPlayOf
<1>2. ASSUME NEW d \in RequiredIn(a, reg, ev)
      PROVE  d \in RequiredIn(a, reg, fuller) /\ d \in demandsOf(reg, a.scope)
  <2>1. d \in demandsIn(some) /\ d.level = "required"
    BY DEF RequiredIn
  <2> HIDE DEF some, more, every
  <2>2. PICK s \in some : \E x \in Taken(s.group, a.scope) : x.level = "required" /\ d = demandOf(reg, x)
    BY <1>1, <2>1, RequiredDemands DEF every
  <2>3. d \in demandsIn(more)
    BY <1>1, <2>2, RequiredDemands DEF every
  <2>4. d \in demandsIn(every)
    BY <1>1, <2>2, RequiredDemands DEF every
  <2> QED
    BY <2>1, <2>3, <2>4 DEF RequiredIn, demandsOf, more, every
<1> QED
  BY <1>2

LEMMA EnumsFuller ==
  ASSUME NEW reg, NEW a, NEW ev, NEW fuller, Fuller(a, reg, ev, fuller),
         NEW d \in demandsOf(reg, a.scope)
  PROVE  /\ enumVerdict(d, a, ev) = "breached" => enumVerdict(d, a, fuller) = "breached"
         /\ enumVerdict(d, a, ev) = "clean" => enumVerdict(d, a, fuller) = "clean"
<1> DEFINE K(s)   == ValueKey(s, a.window, d.attribute)
           On(e)   == {s \in a.signals : InUse(s, a.window, d.attribute, e)}
           Read(e) == {s \in On(e) : TakenAndKnown(e.values, K(s))}
           Seen(e) == UNION {e.values[K(s)].of : s \in Read(e)}
           CutOf(e) == \E s \in Read(e) : e.values[K(s)].truncated
<1>1. \A e : enumVerdict(d, a, e) =
               CASE d.members = {} \/ On(e) = {} -> "clean"
                 [] OTHER -> IF Seen(e) \ d.members # {} THEN "breached"
                             ELSE IF On(e) # Read(e) \/ CutOf(e) THEN "unsure" ELSE "clean"
  BY DEF enumVerdict
<1>2. On(fuller) = On(ev)
  BY SignalsAlike DEF Fuller
<1>3. ASSUME d.members # {}, NEW s \in Read(ev)
      PROVE  s \in Read(fuller) /\ fuller.values[K(s)] = ev.values[K(s)]
  <2>1. K(s) \in valueReadings(a, reg, ev)
    BY <1>3 DEF valueReadings
  <2>2. K(s) \in DOMAIN ev.values /\ ev.values[K(s)].known
    BY <1>3 DEF TakenAndKnown
  <2>3. K(s) \in DOMAIN fuller.values /\ fuller.values[K(s)] = ev.values[K(s)]
    BY <2>1, <2>2 DEF Fuller, MoreOf
  <2> QED
    BY <1>2, <1>3, <2>2, <2>3 DEF TakenAndKnown
<1>4. ASSUME d.members # {}
      PROVE  /\ Read(ev) \subseteq Read(fuller) /\ Seen(ev) \subseteq Seen(fuller)
             /\ Read(ev) = On(ev) => /\ Read(fuller) = On(fuller) /\ Seen(fuller) = Seen(ev)
                                     /\ CutOf(fuller) <=> CutOf(ev)
  <2>1. Read(ev) \subseteq Read(fuller) /\ Read(fuller) \subseteq On(fuller)
    BY <1>3, <1>4
  <2> HIDE DEF On, Read, K
  <2> QED
    BY <1>2, <1>3, <1>4, <2>1
<1> HIDE DEF On, Read, Seen, CutOf
<1>5. CASE d.members = {} \/ On(ev) = {}
  BY <1>1, <1>2, <1>5
<1>6. CASE d.members # {} /\ On(ev) # {}
  BY <1>1, <1>2, <1>4, <1>6
<1> QED
  BY <1>5, <1>6

(* A fuller reading names no less, clears up no red and spoils no pass.    *)
LEMMA LacksFuller ==
  ASSUME NEW reg, Loaded(reg), NEW a, NEW ev, NEW fuller, SameSignals(ev, fuller),
         MoreOf(groupReadings(a, reg), ev.groups, fuller.groups)
  PROVE  LacksOf(a, reg, ev) \subseteq LacksOf(a, reg, fuller)
<1>1. Heard(a, fuller) = Heard(a, ev) /\ PresentIn(a, fuller) = PresentIn(a, ev)
  BY SignalsAlike
<1>2. RequiredIn(a, reg, ev) \subseteq RequiredIn(a, reg, fuller)
  BY RequiredFuller
<1> QED
  BY <1>1, <1>2 DEF LacksOf

LEMMA WhatLacksIsNoPass ==
  ASSUME NEW reg, NEW a, NEW ev, LacksOf(a, reg, ev) # {}
  PROVE  ~ Passing(worst(FoundOn(a, reg, ev)))
<1>1. Heard(a, ev) # {} /\ LacksIn(a, reg, ev)
  BY DEF LacksOf, LacksIn
<1>2. "unknown" \in FoundOn(a, reg, ev) \/ "misconfigured" \in FoundOn(a, reg, ev)
  BY <1>1, WhatIsFound
<1>3. FoundOn(a, reg, ev) \in SUBSET Outcome
  BY FoundAreOutcomes
<1>4. ~ Passing("unknown") /\ ~ Passing("misconfigured")
  BY DEF Passing
<1> QED
  BY <1>2, <1>3, <1>4, WorstKeepsAFailure

Reds == {"misconfigured", "not_delivered"}

LEMMA RedIsWorst ==
  ASSUME NEW reg, NEW a, NEW ev
  PROVE  worst(FoundOn(a, reg, ev)) \in Reds <=> FoundOn(a, reg, ev) \cap Reds # {}
<1> DEFINE S == FoundOn(a, reg, ev)
<1>1. S \in SUBSET Outcome /\ S # {}
      /\ S \subseteq {"compliant", "unknown", "not_delivered", "misconfigured"}
  BY FoundAreOutcomes
<1> HIDE DEF S
<1>2. worst(S) \in S /\ \A p \in S : Severity[p] <= Severity[worst(S)]
  BY <1>1, WorstIsWorst
<1>3. /\ Severity["compliant"] = 0 /\ Severity["unknown"] = 2
      /\ Severity["not_delivered"] = 5 /\ Severity["misconfigured"] = 4
  BY DEF Severity
<1>4. worst(S) \in {"compliant", "unknown", "not_delivered", "misconfigured"}
  BY <1>1, <1>2
<1>5. ASSUME NEW p \in S \cap Reds PROVE worst(S) \in Reds
  <2>1. Severity[p] >= 4 /\ Severity[p] <= Severity[worst(S)]
    BY <1>2, <1>3 DEF Reds
  <2> QED
    BY <1>3, <1>4, <2>1 DEF Reds
<1> QED
  BY <1>2, <1>5 DEF S

LEMMA RedStays ==
  ASSUME NEW reg, Loaded(reg), NEW a, NEW ev, NEW fuller, Fuller(a, reg, ev, fuller),
         worst(FoundOn(a, reg, ev)) \in Reds
  PROVE  worst(FoundOn(a, reg, fuller)) \in Reds
<1> DEFINE S == FoundOn(a, reg, ev)
           F == FoundOn(a, reg, fuller)
<1>1. /\ Heard(a, fuller) = Heard(a, ev) /\ Silent(a, fuller) = Silent(a, ev)
      /\ PresentIn(a, fuller) = PresentIn(a, ev) /\ (CutIn(a, fuller) <=> CutIn(a, ev))
  BY SignalsAlike DEF Fuller
<1>2. /\ RequiredIn(a, reg, ev) \subseteq RequiredIn(a, reg, fuller)
      /\ RequiredIn(a, reg, ev) \subseteq demandsOf(reg, a.scope)
  BY RequiredFuller DEF Fuller
<1>3. "not_delivered" \in S => "not_delivered" \in F
  BY <1>1, GroupsFuller, WhatIsFound DEF Fuller
<1>4. LacksIn(a, reg, ev) => LacksIn(a, reg, fuller)
  BY <1>1, <1>2 DEF LacksIn
<1>5. EnumIn(a, reg, ev, "breached") => EnumIn(a, reg, fuller, "breached")
  BY <1>2, EnumsFuller DEF EnumIn
<1>6. "misconfigured" \in S => "misconfigured" \in F
  BY <1>1, <1>4, <1>5, WhatIsFound
<1> QED
  BY <1>3, <1>6, RedIsWorst DEF Reds

LEMMA PassStays ==
  ASSUME NEW reg, Loaded(reg), NEW a, NEW ev, NEW fuller, Fuller(a, reg, ev, fuller),
         worst(FoundOn(a, reg, ev)) = "compliant"
  PROVE  worst(FoundOn(a, reg, fuller)) = "compliant"
<1> DEFINE groups == scopedGroups(reg, a.scope)
           F      == FoundOn(a, reg, fuller)
<1>1. /\ Unread(a, fuller) = Unread(a, ev) /\ Silent(a, fuller) = Silent(a, ev)
      /\ Heard(a, fuller) = Heard(a, ev) /\ PresentIn(a, fuller) = PresentIn(a, ev)
  BY SignalsAlike DEF Fuller
<1>2. FoundOn(a, reg, ev) = {"compliant"}
  BY WhatTheWorstSays
<1>3. /\ Silent(a, ev) = {} /\ Unread(a, ev) = {}
      /\ \A s \in groups : InPlay(s, a, ev)
      /\ Heard(a, ev) # {} =>
           ~ LacksIn(a, reg, ev) /\ ~ EnumIn(a, reg, ev, "unsure") /\ ~ EnumIn(a, reg, ev, "breached")
  BY <1>2, WhatIsFound
<1>4. \A s \in groups : InPlay(s, a, fuller) /\ ~ Absent(s, a, fuller)
  <2>1. \A s \in groups : InPlay(s, a, fuller)
    BY <1>3, GroupsFuller DEF Fuller
  <2> QED
    BY <2>1 DEF InPlay, Absent
<1>5. RequiredIn(a, reg, fuller) = RequiredIn(a, reg, ev)
  <2>1. InPlayOf(a, reg, fuller) = InPlayOf(a, reg, ev)
    BY <1>3, <1>4 DEF InPlayOf
  <2> QED
    BY <2>1 DEF RequiredIn
<1>6. ASSUME Heard(a, ev) # {}, NEW d \in RequiredIn(a, reg, ev)
      PROVE  enumVerdict(d, a, fuller) = "clean"
  <2>1. enumVerdict(d, a, ev) = "clean"
    <3>1. enumVerdict(d, a, ev) \in {"breached", "unsure", "clean"}
      BY DEF enumVerdict
    <3> QED
      BY <1>3, <1>6, <3>1 DEF EnumIn
  <2>2. d \in demandsOf(reg, a.scope)
    BY RequiredFuller DEF Fuller
  <2> QED
    BY <2>1, <2>2, EnumsFuller
<1>7. Heard(a, fuller) # {} =>
        ~ LacksIn(a, reg, fuller) /\ ~ EnumIn(a, reg, fuller, "unsure")
                                  /\ ~ EnumIn(a, reg, fuller, "breached")
  BY <1>1, <1>3, <1>5, <1>6 DEF LacksIn, EnumIn
<1>8. "unknown" \notin F /\ "misconfigured" \notin F /\ "not_delivered" \notin F
  BY <1>1, <1>3, <1>4, <1>7, WhatIsFound
<1>9. worst(F) \in F /\ F \subseteq {"compliant", "unknown", "not_delivered", "misconfigured"}
  BY FoundAreOutcomes, WhatTheWorstSays
<1> QED
  BY <1>8, <1>9

-----------------------------------------------------------------------------
(* What the report of a version is computed over: the evidence of a build  *)
(* with another version answering for head and for the active designation. *)

Refiled(ev, v) ==
  LET refs == (DOMAIN ev.versions \ {TrackHead}) \cup (IF v = NoVersion THEN {} ELSE {TrackHead, v})
  IN  [ev EXCEPT !.active = v,
                 !.versions = [ref \in refs |-> IF ref \in {TrackHead, v} THEN Installed[scene][v]
                                                ELSE ev.versions[ref]]]

(* What files a landed requirement's versions under v: its pin stands for  *)
(* itself, and head and the active designation for v.                      *)
Files(r, v, ev) ==
  /\ ~ Tracking(r) \/ v # NoVersion <=> r.schema.pin \in DOMAIN ev.versions
  /\ ~ Tracking(r) \/ v # NoVersion => ev.versions[r.schema.pin] = Standing(r, v)
  /\ ~ Tracking(r) =>
       /\ ev.active = v
       /\ v # NoVersion => v \in DOMAIN ev.versions /\ ev.versions[v] = Installed[scene][v]

Moves(r, v, ev) ==
  /\ ~ Tracking(r) /\ v # NoVersion /\ v # r.schema.pin
  /\ worst(FoundOn(r.schema, Standing(r, v), ev)) = "compliant"
  /\ worst(FoundOn(r.schema, Installed[scene][v], ev)) \in Reds

LEMMA UnderKeepsTheReadings ==
  ASSUME NEW at, NEW short, NEW ev, ev = EvidenceUnder(at, short), NEW v
  PROVE  /\ SameSignals(ev, Refiled(ev, v))
         /\ Refiled(ev, v).groups = ev.groups /\ Refiled(ev, v).values = ev.values
         /\ Refiled(ev, v).active = v
         /\ LET refs  == (DOMAIN ev.versions \ {TrackHead})
                           \cup (IF v = NoVersion THEN {} ELSE {TrackHead, v})
                filed == Refiled(ev, v).versions
            IN  /\ DOMAIN filed = refs
                /\ \A ref \in refs : filed[ref] = IF ref \in {TrackHead, v} THEN Installed[scene][v]
                                                  ELSE ev.versions[ref]
<1> DEFINE schema == GatherSchema(LibAt(at), Environment, world, short)
           refs   == (DOMAIN ev.versions \ {TrackHead})
                       \cup (IF v = NoVersion THEN {} ELSE {TrackHead, v})
           filed  == [ref \in refs |-> IF ref \in {TrackHead, v} THEN Installed[scene][v]
                                       ELSE ev.versions[ref]]
<1>1. ev = [effective |-> Derive(Topology[scene], Environment, world, short),
            observed  |-> ObservedOf(LibAt(at), Environment, world, short),
            versions  |-> schema.versions, active |-> schema.active, names |-> schema.names,
            groups    |-> schema.groups, values |-> schema.values, live |-> schema.live]
  BY DEF EvidenceUnder, Gathered
<1>2. Refiled(ev, v) = [ev EXCEPT !.active = v, !.versions = filed]
  BY DEF Refiled
<1> HIDE DEF schema, filed
<1>3. Refiled(ev, v) = [effective |-> ev.effective, observed |-> ev.observed,
                      versions |-> filed, active |-> v, names |-> ev.names,
                      groups |-> ev.groups, values |-> ev.values, live |-> ev.live]
  BY <1>1, <1>2
<1>4. /\ Refiled(ev, v).names = ev.names /\ Refiled(ev, v).observed = ev.observed
      /\ Refiled(ev, v).groups = ev.groups /\ Refiled(ev, v).values = ev.values
      /\ Refiled(ev, v).active = v /\ Refiled(ev, v).versions = filed
  BY <1>3
<1> QED
  BY <1>4 DEF SameSignals, filed

LEMMA BuildFiles ==
  ASSUME SceneInv, NEW at, Loading(at), NEW r, LandedAt(r, at), NEW short
  PROVE  Files(r, at, EvidenceUnder(at, short))
BY VersionsAt DEF Files

LEMMA UnderFiles ==
  ASSUME SceneInv, NEW at, Loading(at), NEW r, LandedAt(r, at), NEW short,
         NEW ev, ev = EvidenceUnder(at, short),
         NEW v \in DOMAIN Installed[scene] \cup {NoVersion}
  PROVE  Files(r, v, Refiled(ev, v))
<1> DEFINE pin       == r.schema.pin
           installed == Installed[scene]
           refs      == (DOMAIN ev.versions \ {TrackHead})
                          \cup (IF v = NoVersion THEN {} ELSE {TrackHead, v})
           filed     == Refiled(ev, v).versions
<1>1. /\ Refiled(ev, v).active = v /\ DOMAIN filed = refs
      /\ \A ref \in refs : filed[ref] = IF ref \in {TrackHead, v} THEN installed[v]
                                        ELSE ev.versions[ref]
  BY UnderKeepsTheReadings
<1>2. pin = TrackHead <=> Tracking(r)
  BY DEF Tracking
<1>3. Files(r, at, ev)
  BY BuildFiles
<1>4. Standing(r, v) = installed[IF Tracking(r) THEN v ELSE pin]
  BY DEF Standing
<1>5. ~ Tracking(r) => pin \in DOMAIN ev.versions /\ ev.versions[pin] = installed[pin]
  BY <1>3 DEF Files, Standing
<1>6. ~ Tracking(r) => pin # NoVersion
  <2>1. r \in SchemaRequirements(Library[scene])
    BY LandedCovers
  <2>2. ~ Tracking(r) => pin \in DOMAIN installed
    BY <2>1 DEF Loading, LibraryLoads
  <2> QED
    BY <2>2, ConformanceAssumption DEF SceneInv
<1>7. refs = (DOMAIN ev.versions \ {TrackHead}) \cup (IF v = NoVersion THEN {} ELSE {TrackHead, v})
  OBVIOUS
<1> HIDE DEF pin, installed, refs, filed
<1>8. v # NoVersion => v \in refs /\ filed[v] = installed[v]
  BY <1>1, <1>7
<1>9. ~ Tracking(r) => pin \in refs /\ filed[pin] = installed[pin]
  BY <1>1, <1>2, <1>5, <1>6, <1>7
<1>10. Tracking(r) => (v # NoVersion <=> pin \in refs) /\ (v # NoVersion => filed[pin] = installed[v])
  <2>1. ASSUME Tracking(r), v = NoVersion PROVE pin \notin refs
    BY <1>2, <1>7, <2>1
  <2>2. ASSUME Tracking(r), v # NoVersion PROVE pin \in refs /\ filed[pin] = installed[v]
    BY <1>1, <1>2, <1>7, <2>2
  <2> QED
    BY <2>1, <2>2
<1> QED
  BY <1>1, <1>4, <1>8, <1>9, <1>10 DEF Files, pin, installed, filed

(* A landed verdict by the version its references are filed under.         *)
LEMMA OutcomeFiled ==
  ASSUME NEW r, NEW v, NEW ev, Files(r, v, ev)
  PROVE  /\ Tracking(r) /\ v = NoVersion => OutcomeOn(r, ev) = "unknown" /\ MissingOn(r, ev) = {}
         /\ ~ Tracking(r) \/ v # NoVersion =>
              /\ OutcomeOn(r, ev) = IF Moves(r, v, ev) THEN "library_drift"
                                    ELSE worst(FoundOn(r.schema, Standing(r, v), ev))
              /\ MissingOn(r, ev) = IF Moves(r, v, ev)
                                    THEN LacksOf(r.schema, Installed[scene][v], ev)
                                    ELSE LacksOf(r.schema, Standing(r, v), ev)
<1> DEFINE pinned == judgeSchemaAgainst(r, Standing(r, v), ev)
           head   == judgeSchemaAgainst(r, Installed[scene][v], ev)
<1>1. CASE Tracking(r) /\ v = NoVersion
  BY <1>1 DEF Files, OutcomeOn, MissingOn
<1>2. CASE ~ Tracking(r) \/ v # NoVersion
  <2>1. /\ VerdictIn(pinned).outcome = worst(FoundOn(r.schema, Standing(r, v), ev))
        /\ VerdictIn(head).outcome = worst(FoundOn(r.schema, Installed[scene][v], ev))
    BY OneVerdict, VerdictIsTheWorst
  <2>2. /\ r.schema.pin \in DOMAIN ev.versions /\ ev.versions[r.schema.pin] = Standing(r, v)
        /\ ~ Tracking(r) => /\ ev.active = v
                            /\ v # NoVersion => v \in DOMAIN ev.versions
                                                /\ ev.versions[v] = Installed[scene][v]
    BY <1>2 DEF Files
  <2> HIDE DEF pinned
  <2>3. Drifts(r, pinned, ev) <=> Moves(r, v, ev)
    <3>1. CASE Tracking(r)
      BY <3>1 DEF Drifts, Moves, Tracking
    <3>2. CASE ~ Tracking(r)
      <4>1. r.schema.pin # TrackHead /\ ev.active = v
        BY <2>2, <3>2 DEF Tracking
      <4> QED
        BY <2>1, <2>2, <3>2, <4>1 DEF Drifts, Moves, Reds
    <3> QED
      BY <3>1, <3>2
  <2>4. Moves(r, v, ev) => ev.versions[ev.active] = Installed[scene][v]
    BY <2>2 DEF Moves
  <2> QED
    BY <1>2, <2>2, <2>3, <2>4 DEF OutcomeOn, MissingOn, pinned
<1> QED
  BY <1>1, <1>2

-----------------------------------------------------------------------------
(* Two builds over the same answers, under the one version and the other.  *)

LEMMA PlansBuy ==
  ASSUME SceneInv, NEW at, NEW r, LandedAt(r, at), NEW reg \in JudgedUnder(LibAt(at), r),
         NEW short, NEW ev, ev = EvidenceUnder(at, short)
  PROVE  /\ groupReadings(r.schema, reg) \subseteq DOMAIN ev.groups
         /\ valueReadings(r.schema, reg, ev) \subseteq DOMAIN ev.values
<1> DEFINE lib   == LibAt(at)
           named == [names |-> ev.names]
<1>1. r \in landedSchema(lib, Environment)
  BY DEF LandedAt
<1>2. ev.groups = GroupsOf(lib, short) /\ ev.values = ValuesOf(lib, ev.names, short)
  BY GatheredForLanded
<1>3. DOMAIN ev.groups = groupPlan(lib, Environment)
  BY <1>2 DEF GroupsOf
<1>4. DOMAIN ev.values = valuePlan(lib, Environment, named)
  BY <1>2 DEF ValuesOf
<1>5. groupReadings(r.schema, reg) \subseteq groupPlan(lib, Environment)
  <2> HIDE DEF lib
  <2> QED
    BY <1>1 DEF groupPlan, lib
<1>6. valueReadings(r.schema, reg, named) \subseteq valuePlan(lib, Environment, named)
  <2> HIDE DEF lib, named
  <2> QED
    BY <1>1 DEF valuePlan, lib
<1>7. \A kind, window, key : InUse(kind, window, key, named) <=> InUse(kind, window, key, ev)
  BY DEF InUse
<1>8. valueReadings(r.schema, reg, named) = valueReadings(r.schema, reg, ev)
  <2> HIDE DEF named
  <2> QED
    BY <1>7 DEF valueReadings
<1> QED
  BY <1>3, <1>4, <1>5, <1>6, <1>8

LEMMA ReadingsAlike ==
  ASSUME SceneInv, NEW at, NEW to, NEW r, LandedAt(r, at), NEW short
  PROVE  LET ev == EvidenceUnder(at, short)  other == EvidenceUnder(to, short) IN
         /\ LandedAt(r, to) /\ SameSignals(ev, other)
         /\ \A k \in DOMAIN ev.groups \cap DOMAIN other.groups : other.groups[k] = ev.groups[k]
         /\ \A k \in DOMAIN ev.values \cap DOMAIN other.values : other.values[k] = ev.values[k]
<1> DEFINE ev    == EvidenceUnder(at, short)
           other == EvidenceUnder(to, short)
<1>1. LibAt(at).requirements = Library[scene] /\ LibAt(to).requirements = Library[scene]
  BY DEF LibAt
<1> DEFINE lib  == LibAt(at)
           next == LibAt(to)
<1> HIDE DEF lib, next
<1>2. lib.requirements = next.requirements
  BY <1>1 DEF lib, next
<1>3. Applying(lib, Environment) = Applying(next, Environment)
  BY <1>2 DEF Applying
<1>4. /\ landedSchema(lib, Environment) = landedSchema(next, Environment)
      /\ Windows(lib, Environment) = Windows(next, Environment)
  BY <1>3 DEF landedSchema, Windows
<1>5. SchemaReadings(lib, Environment) = SchemaReadings(next, Environment)
  BY <1>4 DEF SchemaReadings
<1>6. LandedAt(r, to)
  BY <1>4 DEF LandedAt, lib, next
<1>7. SameSignals(ev, other)
  <2>1. /\ ev.observed = ObservedOf(lib, Environment, world, short)
        /\ ev.names = NamesOf(lib, Environment, world, short)
    BY GatheredForLanded DEF lib
  <2>2. /\ other.observed = ObservedOf(next, Environment, world, short)
        /\ other.names = NamesOf(next, Environment, world, short)
    BY <1>6, GatheredForLanded DEF next
  <2> QED
    BY <1>4, <1>5, <2>1, <2>2 DEF SameSignals, ObservedOf, NamesOf
<1>8. ev.groups = GroupsOf(lib, short) /\ ev.values = ValuesOf(lib, ev.names, short)
  BY GatheredForLanded DEF lib
<1>9. other.groups = GroupsOf(next, short) /\ other.values = ValuesOf(next, other.names, short)
  BY <1>6, GatheredForLanded DEF next
<1> HIDE DEF ev, other
<1>10. /\ \A k \in DOMAIN ev.groups \cap DOMAIN other.groups : other.groups[k] = ev.groups[k]
       /\ \A k \in DOMAIN ev.values \cap DOMAIN other.values : other.values[k] = ev.values[k]
  BY <1>8, <1>9 DEF GroupsOf, ValuesOf
<1> QED
  BY <1>6, <1>7, <1>10 DEF ev, other

(* What a version asks, the build under it has read; and it has read it as *)
(* every other build has that read it at all.                              *)
LEMMA BuildIsFuller ==
  ASSUME SceneInv, NEW at, NEW to, NEW r, LandedAt(r, at), NEW short,
         NEW reg \in JudgedUnder(LibAt(to), r)
  PROVE  Fuller(r.schema, reg, EvidenceUnder(at, short), EvidenceUnder(to, short))
<1> DEFINE a     == r.schema
           ev    == EvidenceUnder(at, short)
           other == EvidenceUnder(to, short)
<1>1. /\ LandedAt(r, to) /\ SameSignals(ev, other)
      /\ \A k \in DOMAIN ev.groups \cap DOMAIN other.groups : other.groups[k] = ev.groups[k]
      /\ \A k \in DOMAIN ev.values \cap DOMAIN other.values : other.values[k] = ev.values[k]
  BY ReadingsAlike
<1>2. /\ groupReadings(a, reg) \subseteq DOMAIN other.groups
      /\ valueReadings(a, reg, other) \subseteq DOMAIN other.values
  BY <1>1, PlansBuy
<1> HIDE DEF ev, other
<1>3. \A kind, window, key : InUse(kind, window, key, other) <=> InUse(kind, window, key, ev)
  BY <1>1, SignalsAlike
<1>4. valueReadings(a, reg, other) = valueReadings(a, reg, ev)
  BY <1>3 DEF valueReadings
<1>5. Fuller(a, reg, ev, other)
  BY <1>1, <1>2, <1>4 DEF Fuller, MoreOf
<1> QED
  BY <1>5 DEF ev, other

LEMMA UnderIsNoLess ==
  ASSUME NEW at, NEW short, NEW ev, ev = EvidenceUnder(at, short), NEW v, NEW a, NEW reg
  PROVE  /\ \A fuller : Fuller(a, reg, ev, fuller) => Fuller(a, reg, Refiled(ev, v), fuller)
         /\ Fuller(a, reg, ev, Refiled(ev, v)) /\ Fuller(a, reg, Refiled(ev, v), ev)
<1> DEFINE same == Refiled(ev, v)
<1>1. SameSignals(ev, same) /\ same.groups = ev.groups /\ same.values = ev.values
  BY UnderKeepsTheReadings
<1> HIDE DEF same
<1>2. \A kind, window, key : InUse(kind, window, key, same) <=> InUse(kind, window, key, ev)
  BY <1>1, SignalsAlike
<1>3. valueReadings(a, reg, same) = valueReadings(a, reg, ev)
  BY <1>2 DEF valueReadings
<1>4. SameSignals(same, ev)
  BY <1>1 DEF SameSignals
<1>5. \A fuller : SameSignals(ev, fuller) => SameSignals(same, fuller)
  BY <1>1 DEF SameSignals
<1> QED
  BY <1>1, <1>3, <1>4, <1>5 DEF Fuller, MoreOf, same

(* What the report is computed over, and what the next build judges on.    *)
LEMMA WhatIsToldFails ==
  ASSUME SceneInv, NEW at, Loading(at), NEW v \in DOMAIN Installed[scene], Loading(v),
         NEW r, LandedAt(r, at), NEW short,
         NEW told, told = Refiled(EvidenceUnder(at, short), v),
         NEW now, now = EvidenceUnder(v, short)
  PROVE  /\ MissingOn(r, told) \subseteq MissingOn(r, now)
         /\ MissingOn(r, told) # {} => ~ Passing(OutcomeOn(r, now))
<1> DEFINE a == r.schema
           P == Standing(r, v)
           N == Installed[scene][v]
<1>1. LandedAt(r, v) /\ v # NoVersion
  BY ReadingsAlike, ConformanceAssumption DEF SceneInv
<1>2. Files(r, v, told) /\ Files(r, v, now)
  BY <1>1, UnderFiles, BuildFiles
<1>3. /\ P \in JudgedUnder(LibAt(v), r) /\ Loaded(P)
      /\ ~ Tracking(r) => Loaded(N) /\ (r.schema.pin # v => N \in JudgedUnder(LibAt(v), r))
  BY <1>1, VersionsAt
<1>4. \A reg \in JudgedUnder(LibAt(v), r) : Fuller(a, reg, told, now)
  BY BuildIsFuller, UnderIsNoLess
<1>5. /\ MissingOn(r, told) = IF Moves(r, v, told) THEN LacksOf(a, N, told) ELSE LacksOf(a, P, told)
      /\ MissingOn(r, now)  = IF Moves(r, v, now) THEN LacksOf(a, N, now) ELSE LacksOf(a, P, now)
      /\ OutcomeOn(r, now)  = IF Moves(r, v, now) THEN "library_drift" ELSE worst(FoundOn(a, P, now))
  BY <1>1, <1>2, OutcomeFiled
<1> HIDE DEF a, P, N
<1>6. CASE Moves(r, v, told)
  <2>1. /\ ~ Tracking(r) /\ v # r.schema.pin
        /\ worst(FoundOn(a, P, told)) = "compliant" /\ worst(FoundOn(a, N, told)) \in Reds
    BY <1>6 DEF Moves, a, P, N
  <2>2. Fuller(a, P, told, now) /\ Fuller(a, N, told, now) /\ Loaded(P) /\ Loaded(N)
    BY <1>3, <1>4, <2>1
  <2>3. worst(FoundOn(a, P, now)) = "compliant" /\ worst(FoundOn(a, N, now)) \in Reds
    BY <2>1, <2>2, PassStays, RedStays
  <2>4. Moves(r, v, now)
    BY <1>1, <2>1, <2>3 DEF Moves, a, P, N
  <2>5. LacksOf(a, N, told) \subseteq LacksOf(a, N, now)
    BY <2>2, LacksFuller DEF Fuller
  <2> QED
    BY <1>5, <1>6, <2>4, <2>5 DEF Passing
<1>7. CASE ~ Moves(r, v, told)
  <2>1. LacksOf(a, P, told) \subseteq LacksOf(a, P, now)
    BY <1>3, <1>4, LacksFuller DEF Fuller
  <2>2. ASSUME NEW key \in LacksOf(a, P, told)
        PROVE  key \in MissingOn(r, now) /\ ~ Passing(OutcomeOn(r, now))
    <3>1. ~ Passing(worst(FoundOn(a, P, now)))
      BY <2>1, WhatLacksIsNoPass
    <3>2. ~ Moves(r, v, now)
      BY <3>1 DEF Moves, Passing, a, P
    <3> QED
      BY <1>5, <2>1, <3>1, <3>2
  <2> QED
    BY <1>5, <1>7, <2>2
<1> QED
  BY <1>6, <1>7

(* Of a tracking requirement the version is the whole judgement.           *)
LEMMA WhatFailsIsTold ==
  ASSUME SceneInv, NEW at, Loading(at), NEW v \in DOMAIN Installed[scene], Loading(v),
         NEW r, LandedAt(r, at), Tracking(r), NEW short,
         NEW told, told = Refiled(EvidenceUnder(at, short), v),
         NEW now, now = EvidenceUnder(v, short)
  PROVE  /\ groupReadings(r.schema, Installed[scene][v]) \subseteq groupPlan(LibAt(at), Environment) =>
              MissingOn(r, now) \subseteq MissingOn(r, told)
         /\ ~ Passing(OutcomeOn(r, now)) => ~ Passing(OutcomeOn(r, told))
         /\ MissingOn(r, told) # {} => ~ Passing(OutcomeOn(r, told))
<1> DEFINE a == r.schema
           N == Installed[scene][v]
           ev == EvidenceUnder(at, short)
<1>1. LandedAt(r, v) /\ v # NoVersion
  BY ReadingsAlike, ConformanceAssumption DEF SceneInv
<1>2. Files(r, v, told) /\ Files(r, v, now)
  BY <1>1, UnderFiles, BuildFiles
<1>3. Standing(r, v) = N
  BY DEF Standing
<1>4. N \in JudgedUnder(LibAt(v), r) /\ Loaded(N)
  BY <1>1, <1>3, VersionsAt
<1>5. Fuller(a, N, told, now)
  BY <1>4, BuildIsFuller, UnderIsNoLess
<1>6. /\ MissingOn(r, told) = LacksOf(a, N, told) /\ OutcomeOn(r, told) = worst(FoundOn(a, N, told))
      /\ MissingOn(r, now) = LacksOf(a, N, now) /\ OutcomeOn(r, now) = worst(FoundOn(a, N, now))
  BY <1>1, <1>2, <1>3, OutcomeFiled DEF Moves
<1>7. ASSUME groupReadings(a, N) \subseteq groupPlan(LibAt(at), Environment)
      PROVE  LacksOf(a, N, now) \subseteq LacksOf(a, N, told)
  <2>1. /\ SameSignals(ev, now)
        /\ \A k \in DOMAIN ev.groups \cap DOMAIN now.groups : now.groups[k] = ev.groups[k]
    BY ReadingsAlike
  <2>2. DOMAIN ev.groups = groupPlan(LibAt(at), Environment)
    BY GatheredForLanded DEF GroupsOf
  <2>3. told.names = ev.names /\ told.observed = ev.observed /\ told.groups = ev.groups
    BY UnderKeepsTheReadings DEF SameSignals
  <2> HIDE DEF ev, a, N
  <2>4. SameSignals(now, told) /\ MoreOf(groupReadings(a, N), now.groups, told.groups)
    BY <1>7, <2>1, <2>2, <2>3 DEF SameSignals, MoreOf
  <2> QED
    BY <1>4, <2>4, LacksFuller DEF a, N
<1>8. ASSUME Passing(worst(FoundOn(a, N, told)))
      PROVE  Passing(worst(FoundOn(a, N, now)))
  <2>1. worst(FoundOn(a, N, told)) \in {"compliant", "unknown", "not_delivered", "misconfigured"}
    BY FoundAreOutcomes, WhatTheWorstSays
  <2>2. worst(FoundOn(a, N, told)) = "compliant"
    BY <1>8, <2>1 DEF Passing
  <2>3. worst(FoundOn(a, N, now)) = "compliant"
    <3> HIDE DEF a, N
    <3> QED
      BY <1>4, <1>5, <2>2, PassStays DEF N
  <2> QED
    BY <2>3 DEF Passing
<1> QED
  BY <1>6, <1>7, <1>8, WhatLacksIsNoPass

LEMMA BeforeIsKept ==
  ASSUME SceneInv, NEW at, Loading(at), NEW r, LandedAt(r, at), Tracking(r), NEW short,
         NEW ev, ev = EvidenceUnder(at, short), NEW same, same = Refiled(ev, at)
  PROVE  /\ MissingOn(r, same) \subseteq MissingOn(r, ev)
         /\ Passing(OutcomeOn(r, ev)) => Passing(OutcomeOn(r, same))
<1> DEFINE a == r.schema
           N == Installed[scene][at]
<1>1. at \in DOMAIN Installed[scene] \cup {NoVersion}
  <2>1. r \in SchemaRequirements(Library[scene])
    BY LandedCovers
  <2> QED
    BY <2>1 DEF Loading, LibraryLoads
<1>2. Files(r, at, ev) /\ Files(r, at, same)
  BY <1>1, BuildFiles, UnderFiles
<1>3. CASE at = NoVersion
  BY <1>2, <1>3, OutcomeFiled DEF Passing
<1>4. CASE at # NoVersion
  <2>1. Standing(r, at) = N
    BY DEF Standing
  <2>2. Loaded(N)
    BY <1>4, <2>1, VersionsAt
  <2>3. Fuller(a, N, ev, same) /\ Fuller(a, N, same, ev)
    BY UnderIsNoLess
  <2>4. /\ MissingOn(r, same) = LacksOf(a, N, same) /\ OutcomeOn(r, same) = worst(FoundOn(a, N, same))
        /\ MissingOn(r, ev) = LacksOf(a, N, ev) /\ OutcomeOn(r, ev) = worst(FoundOn(a, N, ev))
    BY <1>2, <1>4, <2>1, OutcomeFiled DEF Moves
  <2>5. worst(FoundOn(a, N, ev)) \in {"compliant", "unknown", "not_delivered", "misconfigured"}
    BY FoundAreOutcomes, WhatTheWorstSays
  <2> HIDE DEF a, N
  <2>6. LacksOf(a, N, same) \subseteq LacksOf(a, N, ev)
    BY <2>2, <2>3, LacksFuller DEF Fuller
  <2>7. worst(FoundOn(a, N, ev)) = "compliant" => worst(FoundOn(a, N, same)) = "compliant"
    BY <2>2, <2>3, PassStays
  <2> QED
    BY <2>4, <2>5, <2>6, <2>7 DEF Passing
<1> QED
  BY <1>3, <1>4

-----------------------------------------------------------------------------
(* What the report names, by requirement.                                  *)

LEMMA JudgedAgain ==
  ASSUME SceneInv, NEW at, NEW r, LandedAt(r, at), NEW ev,
         NEW judged, judged = Evaluate(Environment, Library[scene], ev),
         NEW verdicts, verdicts = failures(LibAt(at), judged)
  PROVE  /\ \E f \in verdicts : f.requirement = r.id
         /\ failedIn(verdicts, r.id) <=> ~ Passing(OutcomeOn(r, ev))
         /\ missingIn(verdicts, r.id) = IF Passing(OutcomeOn(r, ev)) THEN {} ELSE MissingOn(r, ev)
<1>1. r.id \in schemaIds(LibAt(at))
  BY LandedCovers DEF schemaIds, LibAt
<1>2. \A f : f \in verdicts /\ f.requirement = r.id <=> f \in judged /\ f.requirement = r.id /\ Scored(f)
  BY <1>1 DEF failures
<1>3. /\ \E f \in judged : f.requirement = r.id /\ Scored(f)
      /\ \A f \in judged : f.requirement = r.id /\ Scored(f) =>
           f.outcome = OutcomeOn(r, ev) /\ f.missing = MissingOn(r, ev)
  BY FindingsOfLanded
<1>4. /\ \E f \in verdicts : f.requirement = r.id
      /\ \A f \in verdicts : f.requirement = r.id =>
           f.outcome = OutcomeOn(r, ev) /\ f.missing = MissingOn(r, ev)
  BY <1>2, <1>3
<1>5. missingIn(verdicts, r.id)
        = UNION {f.missing : f \in {g \in verdicts : g.requirement = r.id /\ ~ Passing(g.outcome)}}
  BY DEF missingIn
<1>6. CASE Passing(OutcomeOn(r, ev))
  <2>1. {g \in verdicts : g.requirement = r.id /\ ~ Passing(g.outcome)} = {}
    BY <1>4, <1>6
  <2> QED
    BY <1>4, <1>5, <1>6, <2>1 DEF failedIn
<1>7. CASE ~ Passing(OutcomeOn(r, ev))
  <2>1. \A key : key \in missingIn(verdicts, r.id) <=> key \in MissingOn(r, ev)
    BY <1>4, <1>5, <1>7
  <2> QED
    BY <1>4, <1>7, <2>1 DEF failedIn
<1> QED
  BY <1>6, <1>7

(* A live requirement's finding names no attribute.                        *)
LEMMA OnlyLandedMiss ==
  ASSUME SceneInv, NEW at, NEW ev,
         NEW verdicts, verdicts = failures(LibAt(at), Evaluate(Environment, Library[scene], ev)),
         NEW id, missingIn(verdicts, id) # {}
  PROVE  \E r : LandedAt(r, at) /\ r.id = id
<1> DEFINE lib == LibAt(at)
<1>1. lib.requirements = Library[scene]
  BY DEF LibAt
<1>2. PICK f \in verdicts : f.requirement = id /\ f.missing # {}
  BY DEF missingIn
<1>3. f \in Evaluate(Environment, Library[scene], ev) /\ id \in schemaIds(lib)
  BY <1>2 DEF failures
<1>4. PICK r \in Library[scene] : AppliesTo(r, Environment) /\ f \in judge(r, ev)
  BY <1>3 DEF Evaluate
<1>5. r.id = id
  BY <1>2, <1>4, FindingsBelong
<1>6. PICK q \in Library[scene] : q.schema # NoAssertion /\ q.id = id
  BY <1>1, <1>3 DEF schemaIds, SchemaRequirements
<1>7. r.schema # NoAssertion
  BY <1>4, <1>5, <1>6, ConformanceAssumption DEF SceneInv
<1>8. ASSUME r.placement = "live" PROVE FALSE
  <2>1. f \in judgeSchemaLive(r, ev)
    BY <1>4, <1>7, <1>8 DEF judge, judgeSchema
  <2>2. schemaUnknown(r).missing = {}
        /\ \A level, seen, base, truncated : liveFinding(r, level, seen, base, truncated).missing = {}
    BY DEF schemaUnknown, liveFinding
  <2>3. f = schemaUnknown(r)
        \/ \E level, seen, base, truncated : f = liveFinding(r, level, seen, base, truncated)
    BY <2>1 DEF judgeSchemaLive
  <2> QED
    BY <1>2, <2>2, <2>3
<1>9. r \in landedSchema(lib, Environment)
  BY <1>1, <1>4, <1>7, <1>8 DEF landedSchema, SchemaRequirements, Applying
<1> QED
  BY <1>4, <1>5, <1>9 DEF LandedAt

LEMMA ReportsAreTrue ==
  ASSUME ConformanceInv, Builds, Built, active \in DOMAIN doc.reports, lost' = lost
  PROVE  Foretold(active)
<1> DEFINE at     == doc.active
           v      == active
           ev     == EvidenceUnder(at, lost)
           now    == EvidenceUnder(v, lost)
           same   == Refiled(ev, at)
           told   == Refiled(ev, v)
           before == failures(LibAt(at), Evaluate(Environment, Library[scene], same))
           after  == failures(LibAt(at), Evaluate(Environment, Library[scene], told))
           report == doc.reports[v]
           ids    == {f.requirement : f \in after}
           N      == Installed[scene][v]
<1>1. SceneInv /\ DocInv /\ Loading(at)
  BY DEF ConformanceInv, DocInv, Loading
<1>2. doc.reports = ReportsOf(at, ev)
  BY <1>1 DEF DocInv
<1>3. v \in DOMAIN Installed[scene]
      /\ report = registryReport(LibAt(at), Environment, ev, Installed[scene], at, v)
  BY <1>2 DEF ReportsOf
<1>4. Loading(v) /\ doc'.findings = Evaluate(Environment, Library[scene], now)
  <2>1. lost' = lost /\ Loads /\ \E short : lost' = short /\ doc' = Documents(EvidenceUnder(active, short))
    BY DEF Builds
  <2> QED
    BY <2>1 DEF Documents, Loads, Loading
<1>5. LibAt(at).requirements = Library[scene]
  BY DEF LibAt
<1>6. /\ judgeUnder(LibAt(at), Environment, ev, Installed[scene], at)
           = Evaluate(Environment, Library[scene], same)
      /\ judgeUnder(LibAt(at), Environment, ev, Installed[scene], v)
           = Evaluate(Environment, Library[scene], told)
  BY <1>5 DEF judgeUnder, Refiled
<1>7. /\ report.read <=> DOMAIN ev.versions # {}
      /\ report.failing = IF DOMAIN ev.versions = {} THEN NoEstateReading
                          ELSE [attributes   |-> UNION {freshIn(before, after, id) : id \in ids},
                                requirements |-> {id \in ids : freshIn(before, after, id) = {}
                                                                /\ ~ failedIn(before, id)}]
  <2>1. report.failing = IF DOMAIN ev.versions = {} THEN NoEstateReading
                         ELSE newlyFailing(LibAt(at), Evaluate(Environment, Library[scene], same),
                                                      Evaluate(Environment, Library[scene], told))
    BY <1>3, <1>6 DEF registryReport
  <2>2. report.read <=> DOMAIN ev.versions # {}
    <3>1. registryReport(LibAt(at), Environment, ev, Installed[scene], at, v).read
            = (DOMAIN ev.versions # {})
      <4> HIDE DEF ev, at, v
      <4> QED
        BY DEF registryReport
    <3> HIDE DEF report, ev
    <3> QED
      BY <1>3, <3>1
  <2> QED
    BY <2>1, <2>2 DEF newlyFailing
<1>8. /\ report.failing.attributes \subseteq UNION {freshIn(before, after, id) : id \in ids}
      /\ report.read =>
           /\ report.failing.attributes = UNION {freshIn(before, after, id) : id \in ids}
           /\ report.failing.requirements = {id \in ids : freshIn(before, after, id) = {}
                                                           /\ ~ failedIn(before, id)}
  <2> HIDE DEF report, ev, before, after, ids
  <2> QED
    BY <1>7 DEF NoEstateReading
<1>9. ASSUME NEW r, LandedAt(r, at)
      PROVE  /\ r.id \in ids
             /\ freshIn(before, after, r.id) =
                  (IF Passing(OutcomeOn(r, told)) THEN {} ELSE MissingOn(r, told))
                  \ (IF Passing(OutcomeOn(r, same)) THEN {} ELSE MissingOn(r, same))
             /\ failedIn(before, r.id) <=> ~ Passing(OutcomeOn(r, same))
  <2>1. /\ \E f \in after : f.requirement = r.id
        /\ missingIn(after, r.id) = IF Passing(OutcomeOn(r, told)) THEN {} ELSE MissingOn(r, told)
    BY <1>1, <1>9, JudgedAgain
  <2>2. /\ failedIn(before, r.id) <=> ~ Passing(OutcomeOn(r, same))
        /\ missingIn(before, r.id) = IF Passing(OutcomeOn(r, same)) THEN {} ELSE MissingOn(r, same)
    BY <1>1, <1>9, JudgedAgain
  <2> HIDE DEF before, after, told, same
  <2> QED
    BY <2>1, <2>2 DEF freshIn, ids
<1>10. ASSUME NEW r, LandedAt(r, at)
       PROVE  /\ MissingOn(r, told) \subseteq MissingOn(r, now)
              /\ MissingOn(r, told) # {} => ~ Passing(OutcomeOn(r, now))
              /\ \E f \in doc'.findings : f.requirement = r.id /\ Scored(f)
              /\ \A f \in doc'.findings : f.requirement = r.id /\ Scored(f) =>
                   f.outcome = OutcomeOn(r, now) /\ f.missing = MissingOn(r, now)
  <2>1. LandedAt(r, v)
    BY <1>1, <1>10, ReadingsAlike
  <2> QED
    BY <1>1, <1>3, <1>4, <1>10, <2>1, WhatIsToldFails, FindingsOfLanded
<1>11. ASSUME NEW key \in report.failing.attributes
       PROVE  \E f \in doc'.findings : Scored(f) /\ ~ Passing(f.outcome) /\ key \in f.missing
  <2>1. PICK id \in ids : key \in freshIn(before, after, id)
    BY <1>8
  <2>2. missingIn(after, id) # {}
    BY <2>1 DEF freshIn
  <2>3. PICK r : LandedAt(r, at) /\ r.id = id
    BY <1>1, <2>2, OnlyLandedMiss
  <2> HIDE DEF told, same, before, after, ids, now, at, v
  <2>4. key \in MissingOn(r, told)
    BY <1>9, <2>1, <2>3
  <2>5. key \in MissingOn(r, now) /\ ~ Passing(OutcomeOn(r, now))
    BY <1>10, <2>3, <2>4
  <2> QED
    BY <1>10, <2>3, <2>5
<1>12. ASSUME report.read, NEW r \in Landed, Tracking(r), ~ Passing(NowOf(r).outcome)
       PROVE  /\ AsksNoMore(r, v) =>
                   NowOf(r).missing \ VerdictOf(r).missing \subseteq report.failing.attributes
              /\ Passing(VerdictOf(r).outcome) =>
                   \/ r.id \in report.failing.requirements
                   \/ NowOf(r).missing \cap report.failing.attributes # {}
  <2>1. LandedAt(r, at)
    BY DEF Landed, LandedAt
  <2>2. NowOf(r).outcome = OutcomeOn(r, now) /\ NowOf(r).missing = MissingOn(r, now)
    <3>1. NowOf(r) \in doc'.findings /\ NowOf(r).requirement = r.id /\ Scored(NowOf(r))
      BY <1>10, <2>1 DEF NowOf
    <3> QED
      BY <1>10, <2>1, <3>1
  <2>3. VerdictOf(r).outcome = OutcomeOn(r, ev) /\ VerdictOf(r).missing = MissingOn(r, ev)
    <3>1. doc.findings = Evaluate(Environment, Library[scene], ev)
      BY <1>1 DEF DocInv
    <3>2. /\ \E f \in doc.findings : f.requirement = r.id /\ Scored(f)
          /\ \A f \in doc.findings : f.requirement = r.id /\ Scored(f) =>
               f.outcome = OutcomeOn(r, ev) /\ f.missing = MissingOn(r, ev)
      BY <1>1, <2>1, <3>1, FindingsOfLanded
    <3>3. VerdictOf(r) \in doc.findings /\ VerdictOf(r).requirement = r.id /\ Scored(VerdictOf(r))
      BY <3>2 DEF VerdictOf
    <3> QED
      BY <3>2, <3>3
  <2>4. /\ groupReadings(r.schema, N) \subseteq groupPlan(LibAt(at), Environment) =>
             MissingOn(r, now) \subseteq MissingOn(r, told)
        /\ ~ Passing(OutcomeOn(r, now)) => ~ Passing(OutcomeOn(r, told))
        /\ MissingOn(r, told) # {} => ~ Passing(OutcomeOn(r, told))
    BY <1>1, <1>3, <1>4, <1>12, <2>1, WhatFailsIsTold
  <2>5. /\ MissingOn(r, same) \subseteq MissingOn(r, ev)
        /\ Passing(OutcomeOn(r, ev)) => Passing(OutcomeOn(r, same))
    BY <1>1, <1>12, <2>1, BeforeIsKept
  <2>6. freshIn(before, after, r.id) \subseteq report.failing.attributes
    BY <1>8, <1>9, <1>12, <2>1
  <2>7. AsksNoMore(r, v) <=> groupReadings(r.schema, N) \subseteq groupPlan(LibAt(at), Environment)
    BY DEF AsksNoMore
  <2> HIDE DEF told, same, before, after, ids, now, at, v, ev, N
  <2>8. ~ Passing(OutcomeOn(r, told))
    BY <1>12, <2>2, <2>4
  <2>9. ASSUME AsksNoMore(r, v), NEW key \in NowOf(r).missing \ VerdictOf(r).missing
        PROVE  key \in report.failing.attributes
    <3>1. key \in MissingOn(r, told) /\ key \notin MissingOn(r, same)
      BY <2>2, <2>3, <2>4, <2>5, <2>7, <2>9
    <3>2. key \in freshIn(before, after, r.id)
      BY <1>9, <2>1, <2>8, <3>1
    <3> QED
      BY <2>6, <3>2
  <2>10. ASSUME Passing(VerdictOf(r).outcome)
         PROVE  \/ r.id \in report.failing.requirements
                \/ NowOf(r).missing \cap report.failing.attributes # {}
    <3>1. Passing(OutcomeOn(r, same))
      BY <2>3, <2>5, <2>10
    <3>2. freshIn(before, after, r.id) = MissingOn(r, told) /\ ~ failedIn(before, r.id) /\ r.id \in ids
      BY <1>9, <2>1, <2>8, <3>1
    <3>3. CASE MissingOn(r, told) = {}
      BY <1>8, <1>12, <3>2, <3>3
    <3>4. CASE MissingOn(r, told) # {}
      <4>1. MissingOn(r, told) \subseteq MissingOn(r, now)
        BY <1>10, <2>1
      <4> QED
        BY <2>2, <2>6, <3>2, <3>4, <4>1
    <3> QED
      BY <3>3, <3>4
  <2> QED
    BY <2>9, <2>10
<1> QED
  BY <1>11, <1>12 DEF Foretold

-----------------------------------------------------------------------------
(* Of every build the specification can reach.                             *)

(* A cross verdict that blames the collectors or the delivery says what    *)
(* all the collectors that answered run and what arrived (JudgeCross,      *)
(* effectiveFor): never what the one that was read runs.                   *)
THEOREM TheCrossIsTrue == Spec => []CrossIsTrue
BY ConformanceInvHolds, CrossVerdictIsTrue, PTL

(* A pass against the Schema Registry conforms and a red does not, over    *)
(* any readings blind or cut (judgeSchemaAgainst), and a live verdict says *)
(* what the tap was fed and what it found (judgeSchemaLive).               *)
THEOREM VerdictsAreTrue == Spec => []VerdictIsTrue
<1>1. ConformanceInv => VerdictIsTrue
  BY LandedVerdictIsTrue, LiveVerdictIsTrue DEF VerdictIsTrue
<1> QED
  BY <1>1, ConformanceInvHolds, PTL

(* Drift is told of a scope that passes its pin and fails the active       *)
(* version, and never out of a reading gap; with every reading whole it is *)
(* always told, the plans having bought what both versions ask             *)
(* (schemaDrift, JudgedUnder).                                             *)
THEOREM DriftIsProven == Spec => []DriftIsProved
BY ConformanceInvHolds, DriftIsTold, PTL

(* With every reading whole no landed verdict is unknown: whatever         *)
(* judging asks was planned (groupPlan, valuePlan).  And with a covered    *)
(* signal unread, or a version that does not resolve, none passes          *)
(* (readScope, judgeSchema).                                               *)
THEOREM UnknownsAreCaused == Spec => []UnknownHasACause
BY ConformanceInvHolds, UnknownIsCaused, PTL

(* What an activation's report says a Service newly fails on, it fails on  *)
(* in the next build under that version over the same answers; and of a    *)
(* requirement tracking head nothing that stops passing was left out, nor  *)
(* an attribute of a group the build had read (judgeUnder, newlyFailing).  *)
THEOREM ReportsComeTrue == Spec => ReportForetells
<1> DEFINE Step == doc' # doc /\ Built /\ active \in DOMAIN doc.reports /\ lost' = lost => Foretold(active)
<1>1. ConformanceInv /\ [Next]_vars => [Step]_vars
  <2> SUFFICES ASSUME ConformanceInv, Next, doc' # doc, Built,
                      active \in DOMAIN doc.reports, lost' = lost
               PROVE  Foretold(active)
    OBVIOUS
  <2>1. Builds
    BY DEF Next, Activates
  <2> QED
    BY <2>1, ReportsAreTrue
<1> QED
  BY <1>1, ConformanceInvHolds, PTL DEF Spec, ReportForetells

=============================================================================
