---------------------------- MODULE SchemaRegistry ----------------------------
(***************************************************************************)
(* A Schema Registry version (internal/schemaregistry) and what a scope    *)
(* demands under it (internal/conformance/schema.go, schemagroup.go).      *)
(*                                                                         *)
(* A registry is its ref and its groups.  A group carries attribute        *)
(* entries: one that defines an attribute, or one that references a        *)
(* definition made elsewhere and may state a level of its own.  Types,     *)
(* notes, deprecations and files are left out.                             *)
(***************************************************************************)
EXTENDS Integers, FiniteSets

CONSTANT Under(_, _)     \* Under(key, ns): the key is the namespace or lies below it

Levels      == <<"required", "conditionally_required", "recommended", "opt_in">>
Level       == {Levels[i] : i \in DOMAIN Levels}
NoLevel     == ""
rank(level) == CHOOSE i \in DOMAIN Levels : Levels[i] = level

Stricter(x, y) == rank(x) < rank(y)

-----------------------------------------------------------------------------
(* Lookups.  A group's entries are unique by key and an attribute is       *)
(* defined once in a registry; a version that breaks either does not load. *)

Entries(reg) == UNION {g.attributes : g \in reg.groups}

Valid(reg) ==
  /\ reg.groups # {}
  /\ \A g, h \in reg.groups : g.id = h.id => g = h
  /\ \A g \in reg.groups : \A a, b \in g.attributes :
       /\ a.key = b.key => a = b
       /\ a.level \in Level \cup {NoLevel}
  /\ \A g, h \in reg.groups : \A a \in g.attributes, b \in h.attributes :
       a.defines /\ b.defines /\ a.key = b.key => g = h

Declares(reg, id)       == \E g \in reg.groups : g.id = id
CarriesNamespace(reg, ns) == \E a \in Entries(reg) : Under(a.key, ns)

(* A reference restates no members: they come from the definition, and a   *)
(* reference that resolves nowhere in this version has none of its own.    *)
definitionOf(reg, a) ==
  IF ~a.defines /\ \E d \in Entries(reg) : d.defines /\ d.key = a.key
  THEN CHOOSE d \in Entries(reg) : d.defines /\ d.key = a.key
  ELSE a

levelOf(a) == IF a.level = NoLevel THEN "recommended" ELSE a.level

-----------------------------------------------------------------------------
(* A scope names groups outright and attribute namespaces.  What it        *)
(* reaches of a registry is kept per group, because which groups arrived   *)
(* decides what is demanded at all.                                        *)

demandOf(reg, a) ==
  [attribute |-> a.key, level |-> levelOf(a), members |-> definitionOf(reg, a).members]

Taken(g, scope) ==
  IF g.id \in scope.groups THEN g.attributes
  ELSE {a \in g.attributes : \E ns \in scope.namespaces : Under(a.key, ns)}

scopedGroups(reg, scope) ==
  {[group |-> g, demands |-> {demandOf(reg, a) : a \in Taken(g, scope)}] :
     g \in {h \in reg.groups : h.id \in scope.groups \/ Taken(h, scope) # {}}}

(* Only a metric group declares the name its records are grouped by.       *)
groupKeyValue(g) == IF g.kind = "metric" THEN g.metricName ELSE ""

LocatedOn(g, signals) == groupKeyValue(g) # "" /\ "metrics" \in signals

(* An attribute demanded at two levels is demanded at the stricter one.    *)

demandsIn(groups) ==
  LET all == UNION {s.demands : s \in groups}
  IN  {d \in all : ~\E e \in all : e.attribute = d.attribute /\ Stricter(e.level, d.level)}

demandsOf(reg, scope) == demandsIn(scopedGroups(reg, scope))

=============================================================================
