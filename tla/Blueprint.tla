------------------------------ MODULE Blueprint ------------------------------
(***************************************************************************)
(* The authored Components and Blueprints (internal/blueprint).            *)
(*                                                                         *)
(* An estate is [components, blueprints], each a function of the           *)
(* team-qualified id <<team, name>>; a name is the sequence of its         *)
(* dot-separated segments.  A Blueprint's lanes are sequences of entries   *)
(* [team, name, pin, track]: team is Unset on a reference to a local       *)
(* Component, pin is 0 where none is written.  The spelling of names and   *)
(* of references, and the files themselves, are left out.                  *)
(***************************************************************************)
EXTENDS AllowList

SignalOrder    == <<"traces", "metrics", "logs", "profiles">>
BlueprintSignals == Range(SignalOrder)
ExtensionsLane == "extensions"
Lanes          == BlueprintSignals \cup {ExtensionsLane}

RefID(e)   == <<e.team, e.name>>
IsLocal(e) == e.team = Unset
Tracks(e)  == e.track = "head"

LaneEntries(b, l) == Range(b.lanes[l])
AllEntries(b)     == UNION {LaneEntries(b, l) : l \in Lanes}

-----------------------------------------------------------------------------
(* Loading: what refuses the whole estate.                                 *)

WellFormed(c) == c.class \in Classes /\ c.type # Unset /\ c.version \in Nat /\ c.version >= 1

LoadsShared(c) == WellFormed(c) /\ c.owner # Unset

(* A local travels with its Blueprint: no owner, nothing to pin or track,  *)
(* declared once and used.                                                 *)
LoadsLocals(b) ==
  /\ \A c \in b.locals : WellFormed(c) /\ c.owner = Unset
  /\ \A c, d \in b.locals : c.name = d.name => c = d
  /\ \A c \in b.locals : \E e \in AllEntries(b) : IsLocal(e) /\ e.name = c.name

LoadsEntry(e, b) ==
  /\ e.track \in {Unset, "head"} /\ e.pin \in Nat
  /\ IF IsLocal(e)
     THEN e.pin = 0 /\ ~Tracks(e) /\ \E c \in b.locals : c.name = e.name
     ELSE (e.pin # 0) # Tracks(e)

LoadsBlueprint(b) ==
  /\ b.owner # Unset /\ b.version >= 1
  /\ \A l \in Lanes : b.lanes[l] \in Seq(LaneEntries(b, l))
  /\ \A i, j \in DOMAIN b.satisfies : b.satisfies[i].requirement = b.satisfies[j].requirement => i = j
  /\ LoadsLocals(b)
  /\ \A e \in AllEntries(b) : LoadsEntry(e, b)
  /\ \A l \in Lanes : \A i, j \in DOMAIN b.lanes[l] :
       RefID(b.lanes[l][i]) = RefID(b.lanes[l][j]) => i = j
  /\ AllEntries(b) # {}

LoadsSources(est) ==
  /\ DOMAIN est.components # {} \/ DOMAIN est.blueprints # {}
  /\ \A c \in DOMAIN est.components : LoadsShared(est.components[c])
  /\ \A b \in DOMAIN est.blueprints : LoadsBlueprint(est.blueprints[b])

-----------------------------------------------------------------------------
(* Resolution, at head whatever the pin.  A Component carries the team of  *)
(* its directory, a local one none.                                        *)

LocalsNamed(b, n) == {c \in b.locals : c.name = n}

Provided(est, b, e) ==
  IF IsLocal(e) THEN LocalsNamed(b, e.name) # {} ELSE RefID(e) \in DOMAIN est.components

Resolve(est, b, e) ==
  LET body == IF IsLocal(e) THEN CHOOSE c \in LocalsNamed(b, e.name) : TRUE
              ELSE est.components[RefID(e)]
  IN  [team |-> e.team, name |-> e.name, class |-> body.class, type |-> body.type,
       version |-> body.version, config |-> body.config]

ResolvedIn(est, b, entries) == {Resolve(est, b, e) : e \in {f \in entries : Provided(est, b, f)}}

-----------------------------------------------------------------------------
(* Findings: visible, and never a reason to refuse the load.               *)

Misplaced(l, c) == (l = ExtensionsLane) # (c.class = "extension")

CannotDeliver(est, b, l, e) ==
  IF ~Provided(est, b, e) THEN TRUE
  ELSE Resolve(est, b, e).version < e.pin \/ Misplaced(l, Resolve(est, b, e))

ReferenceFindings(est) ==
  {at \in (DOMAIN est.blueprints) \X Lanes :
     LET b == est.blueprints[at[1]]
     IN  \E e \in LaneEntries(b, at[2]) : CannotDeliver(est, b, at[2], e)}

(* Ordering wisdom: where a type belongs among its lane's entries of the   *)
(* same class.                                                             *)
DefaultOrderingRules == {[class |-> "processor", type |-> "memory_limiter", slot |-> "first"],
                         [class |-> "processor", type |-> "batch", slot |-> "last"]}

ClassedTypes(est, b, l, class) ==
  LET classed == SelectSeq(b.lanes[l],
                   LAMBDA e : Provided(est, b, e) /\ Resolve(est, b, e).class = class)
  IN  [i \in DOMAIN classed |-> Resolve(est, b, classed[i]).type]

OutOfPlace(types, rule) ==
  \E i \in DOMAIN types : types[i] = rule.type /\ i # (IF rule.slot = "first" THEN 1 ELSE Len(types))

OrderingFindings(est) ==
  {at \in (DOMAIN est.blueprints) \X BlueprintSignals :
     \E rule \in DefaultOrderingRules :
       OutOfPlace(ClassedTypes(est, est.blueprints[at[1]], at[2], rule.class), rule)}
=============================================================================
