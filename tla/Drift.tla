-------------------------------- MODULE Drift --------------------------------
(***************************************************************************)
(* library_drift in the authored estate (internal/drift): config in git    *)
(* that met an earlier bar and does not meet the one at head.  A pinned    *)
(* reference is behind the Component's head, a claim is behind its         *)
(* requirement and fails it, or a committed artefact is below the floor.   *)
(*                                                                         *)
(* A head carries "library", the requirements by id as [version, config].  *)
(* A tree is the committed artefacts by path, as Render writes them.  No   *)
(* history is wired, so the stamp of a claim is trusted.                   *)
(***************************************************************************)
EXTENDS Render

CONSTANTS NoAssertion, NoVersion

NoNamespaces(key, ns) == FALSE
Checker == INSTANCE Verdict WITH Under <- NoNamespaces

-----------------------------------------------------------------------------
(* Routed to the consuming object's owner: only a consumer can adopt.      *)

Routed(h, id) == [team |-> TeamOf(id), owner |-> h.blueprints[id].owner]

BehindHead(h, e) ==
  /\ ~IsLocal(e) /\ ~Tracks(e) /\ e.pin # 0
  /\ RefID(e) \in DOMAIN h.components
  /\ e.pin < h.components[RefID(e)].version

pinDriftInSignals(h, id) ==              \* mutant: the extensions are not looked at
  {[facet |-> "component", to |-> Routed(h, id), blueprint |-> id, subject |-> <<RefID(e), e.pin>>] :
     e \in {f \in UNION {LaneEntries(h.blueprints[id], l) : l \in BlueprintSignals} : BehindHead(h, f)}}

(* One finding for a pinned reference, however many lanes it is in.        *)
pinDrift(h, id) ==
  {[facet |-> "component", to |-> Routed(h, id), blueprint |-> id, subject |-> <<RefID(e), e.pin>>] :
     e \in {f \in AllEntries(h.blueprints[id]) : BehindHead(h, f)}}

-----------------------------------------------------------------------------
(* The claims, judged on the lanes compiled as they render.  A component   *)
(* is asserted by its type.                                                *)

Types(ids) == {id[1] : id \in Range(ids)}

intendedEffective(h, b) ==
  [known |-> TRUE,
   pipelines |-> {[receivers  |-> Types(p.receivers),
                   processors |-> Types(p.processors),
                   exporters  |-> Types(p.exporters)] : p \in Range(Intended(h, b))}]

BehindBar(h, claim) ==
  /\ claim.requirement \in DOMAIN h.library
  /\ claim.version < h.library[claim.requirement].version
  /\ h.library[claim.requirement].config # NoAssertion

PassesNow(h, id, claim) ==
  Checker!checkConfig(h.library[claim.requirement].config,
                      intendedEffective(h, h.blueprints[id])) = "yes"

StaleClaims(h, id) == {c \in Range(h.blueprints[id].satisfies) : BehindBar(h, c)}

claimDrift(h, id) ==
  {[facet |-> "requirement", to |-> Routed(h, id), blueprint |-> id, subject |-> <<c>>] :
     c \in {d \in StaleClaims(h, id) : ~PassesNow(h, id, d)}}

Nudges(h, id) == {c \in StaleClaims(h, id) : PassesNow(h, id, c)}

-----------------------------------------------------------------------------
(* The committed artefacts: every file of a team's directory but the       *)
(* Supervisors', under the name of the file, so that an @next artefact is  *)
(* under no Tier's id.                                                     *)

LoadRendered(tree) == {p \in DOMAIN tree : p[1] \in {"tier", "next"}}

Committed(h, tree) == {tier \in DOMAIN h.tiers : ArtefactPath(tier) \in LoadRendered(tree)}

Judged(h, tree) == {tier \in Committed(h, tree) : h.tiers[tier].binding.id \in DOMAIN h.blueprints}

floorDrift(h, tree) ==
  UNION {{[facet |-> "requirement", to |-> [team |-> TeamOf(tier), owner |-> h.tiers[tier].owner],
           blueprint |-> h.tiers[tier].binding.id, subject |-> <<tier, breach[1], CompID(breach[2])>>] :
             breach \in Breaches(h, tier, h.blueprints[h.tiers[tier].binding.id])} :
           tier \in Judged(h, tree)}

(* A Service Class nobody ranks fails the whole detection.                 *)
DetectFails(h, tree) == \E tier \in Judged(h, tree) : Unranked(h, tier)

Detect(h, tree) ==
  UNION {pinDrift(h, id) \cup claimDrift(h, id) : id \in DOMAIN h.blueprints} \cup floorDrift(h, tree)
=============================================================================
