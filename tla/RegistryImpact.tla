---------------------------- MODULE RegistryImpact ----------------------------
(***************************************************************************)
(* The impact report of a Schema Registry version (internal/activation     *)
(* registry.go, internal/console activations.go): what differs from the    *)
(* active version, and what judging the rows again over the very evidence  *)
(* of this build says will stop passing.                                   *)
(*                                                                         *)
(* One row is one Service, so the Services a change names are that one.    *)
(***************************************************************************)
EXTENDS Evidence

definitions(reg) == {a \in Entries(reg) : a.defines}
defined(reg)     == {a.key : a \in definitions(reg)}

attributesAdded(from, to)   == defined(to) \ defined(from)
attributesRemoved(from, to) == defined(from) \ defined(to)

(* A level is a group's demand.  One the version does not state is not     *)
(* compared.                                                               *)
tightenedLevels(from, to) ==
  {<<p[1].id, p[2].key>> :
     p \in {q \in UNION {{<<g, a>> : a \in g.attributes} : g \in to.groups} :
              \E h \in from.groups : \E b \in h.attributes :
                /\ h.id = q[1].id /\ b.key = q[2].key
                /\ b.level # NoLevel /\ q[2].level # NoLevel
                /\ Stricter(q[2].level, b.level)}}

-----------------------------------------------------------------------------
(* The same evidence with another version answering for head and for the   *)
(* active designation; NoVersion is the estate before anything was active. *)

judgeUnderHeadKept(lib, environment, ev, installed, v) ==   \* mutant: head stays what the build resolved it to
  LET refs == DOMAIN ev.versions \cup (IF v = NoVersion THEN {} ELSE {v})
  IN  Evaluate(environment, lib.requirements,
               [ev EXCEPT !.active = v,
                          !.versions = [ref \in refs |->
                             IF ref = v THEN installed[v] ELSE ev.versions[ref]]])

judgeUnder(lib, environment, ev, installed, v) ==
  LET refs == (DOMAIN ev.versions \ {TrackHead}) \cup (IF v = NoVersion THEN {} ELSE {TrackHead, v})
  IN  Evaluate(environment, lib.requirements,
               [ev EXCEPT !.active = v,
                          !.versions = [ref \in refs |->
                             IF ref \in {TrackHead, v} THEN installed[v] ELSE ev.versions[ref]]])

(* Only the scored findings of schema requirements are compared.           *)
schemaIds(lib) == {r.id : r \in SchemaRequirements(lib.requirements)}

failures(lib, findings) ==
  {f \in findings : f.requirement \in schemaIds(lib) /\ Scored(f)}

failedIn(verdicts, id)  == \E f \in verdicts : f.requirement = id /\ ~Passing(f.outcome)
missingIn(verdicts, id) == UNION {f.missing : f \in {g \in verdicts : g.requirement = id
                                                                       /\ ~Passing(g.outcome)}}

freshIn(before, after, id) == missingIn(after, id) \ missingIn(before, id)

(* What newly fails is reported under the attributes freshly missing, or   *)
(* under the requirement where there are none.                             *)
newlyFailing(lib, judgedBefore, judgedAfter) ==
  LET before == failures(lib, judgedBefore)
      after  == failures(lib, judgedAfter)
      ids    == {f.requirement : f \in after}
  IN  [attributes   |-> UNION {freshIn(before, after, id) : id \in ids},
       requirements |-> {id \in ids : freshIn(before, after, id) = {} /\ ~failedIn(before, id)}]

NoEstateReading == [attributes |-> {}, requirements |-> {}]

registryReport(lib, environment, ev, installed, active, candidate) ==
  [candidate |-> candidate,
   added     |-> IF active = NoVersion THEN {}
                 ELSE attributesAdded(installed[active], installed[candidate]),
   removed   |-> IF active = NoVersion THEN {}
                 ELSE attributesRemoved(installed[active], installed[candidate]),
   tightened |-> IF active = NoVersion THEN {}
                 ELSE tightenedLevels(installed[active], installed[candidate]),
   read      |-> DOMAIN ev.versions # {},
   failing   |-> IF DOMAIN ev.versions = {} THEN NoEstateReading
                 ELSE newlyFailing(lib, judgeUnder(lib, environment, ev, installed, active),
                                   judgeUnder(lib, environment, ev, installed, candidate))]

=============================================================================
