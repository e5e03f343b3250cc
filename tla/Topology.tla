------------------------------- MODULE Topology -------------------------------
(***************************************************************************)
(* The authored topology (internal/renderer load.go, rollout.go): Tiers,   *)
(* Services and Rollouts, each a function of the team-qualified id         *)
(* <<team, name>>, and the two estate-level destinations beside them       *)
(* (selftelemetry.go, livecheck.go).                                       *)
(*                                                                         *)
(* An optional block is the empty sequence where it is not written.  An    *)
(* endpoint is its host and the segments of its path, <<>> where none is   *)
(* written; a selector is a set of pairs.                                  *)
(***************************************************************************)
EXTENDS Blueprint, Integers

Written(x) == x # <<>>

(* A sampling rate an author wrote.                                        *)
Samples(percent) == Written(percent) => percent[1] \in 1..100

(* The decoder refuses a field it does not know.                           *)
TierFields ==
  {"owner", "environment", "binding", "selector", "min", "serving", "hops", "livecheck"}

LoadsTier(t) ==
  /\ DOMAIN t = TierFields
  /\ t.owner # Unset /\ t.environment # Unset
  /\ t.binding.version >= 1
  /\ Written(t.serving) => t.serving[1] # Unset /\ t.selector # {}
  /\ \A pair \in t.selector : pair[1] # Unset /\ pair[2] # Unset
  /\ t.min >= 0 /\ (t.min > 0 => t.selector # {})
  /\ \A hop \in t.hops : hop.from # Unset
  /\ Written(t.livecheck) => Samples(t.livecheck[1].percent)

LoadsService(s) ==
  s.owner # Unset /\ s.class # Unset /\ \A path \in s.paths : path # <<>>

(* A stage admits somebody, and a share of the population is counted over  *)
(* attributes the Rollout pins.                                            *)
LoadsStage(stage, r) ==
  /\ Written(stage.hosts) \/ stage.match # {} \/ stage.percent # 0
  /\ Written(stage.hosts) => stage.hosts[1].attribute # Unset /\ stage.hosts[1].values # {}
  /\ \A pair \in stage.match : pair[1] # Unset /\ pair[2] # Unset
  /\ stage.percent \in 0..100
  /\ stage.percent > 0 => r.hashAttributes # <<>>

LoadsRollout(r) ==
  /\ r.owner # Unset
  /\ r.from.version >= 1 /\ r.to.version >= 1
  /\ r.from.id # r.to.id
  /\ r.stages # <<>> /\ r.stage \in 0..(Len(r.stages) - 1)
  /\ \A i \in DOMAIN r.stages : LoadsStage(r.stages[i], r)
  /\ IsInjective(r.hashAttributes) /\ Unset \notin Range(r.hashAttributes)

TeamOf(id) == id[1]

(* While it is active the Rollout is the only way to rebind its Tier.      *)
StagesAnyBinding(id, h) ==               \* mutant: the Tier may be rebound under its Rollout
  LET r == h.rollouts[id] IN
  /\ r.tier \in DOMAIN h.tiers
  /\ TeamOf(r.tier) = TeamOf(id) /\ r.owner = h.tiers[r.tier].owner

StagesItsTier(id, h) ==
  LET r == h.rollouts[id] IN
  /\ r.tier \in DOMAIN h.tiers
  /\ TeamOf(r.tier) = TeamOf(id) /\ r.owner = h.tiers[r.tier].owner
  /\ r.from = h.tiers[r.tier].binding

LoadsTopology(h) ==
  /\ DOMAIN h.tiers # {}
  /\ \A t \in DOMAIN h.tiers : LoadsTier(h.tiers[t])
  /\ \A s \in DOMAIN h.services :
       /\ LoadsService(h.services[s])
       /\ \A path \in h.services[s].paths : Range(path) \subseteq DOMAIN h.tiers
  /\ \A r \in DOMAIN h.rollouts : LoadsRollout(h.rollouts[r]) /\ StagesItsTier(r, h)
  /\ \A r, q \in DOMAIN h.rollouts : h.rollouts[r].tier = h.rollouts[q].tier => r = q

ActiveOn(h, tier) == {r \in DOMAIN h.rollouts : h.rollouts[r].tier = tier}
RolloutFor(h, tier) == h.rollouts[CHOOSE r \in ActiveOn(h, tier) : TRUE]

Final(r) == r.stage = Len(r.stages) - 1

(* One Tier renders one artefact for all its collectors, so one untrusted  *)
(* arrival makes the whole intake untrusted.                               *)
Untrusted(t) == \E hop \in t.hops : ~hop.trusted

Traversing(h, tier) ==
  {s \in DOMAIN h.services : \E path \in h.services[s].paths : tier \in Range(path)}

-----------------------------------------------------------------------------
(* The estate-level destinations.                                          *)

SignalPath(signal) == <<"v1", signal>>
SignalPaths        == {SignalPath(s) : s \in {"metrics", "logs", "traces"}}
EndsInSignalPath(endpoint) == \E path \in SignalPaths : IsSuffix(path, endpoint)

Destination(d) ==
  /\ d.endpoint # <<>>
  /\ \A e \in {d.endpoint} \cup Range(d.environments) : e # <<>> /\ ~EndsInSignalPath(e)

LoadsTelemetry(declared) ==
  /\ Written(declared)
  /\ Destination(declared[1])
  /\ declared[1].protocol \in {Unset, "grpc", "http/protobuf"}

LoadsLiveCheck(declared) ==
  Written(declared) =>
    /\ Destination(declared[1])
    /\ declared[1].protocol \in {Unset, "grpc"}
    /\ Samples(declared[1].percent)

ResolveFor(d, environment) ==
  IF environment \in DOMAIN d.environments THEN d.environments[environment] ELSE d.endpoint

SignalEndpoint(d, environment, signal) ==
  IF d.protocol = "grpc" THEN ResolveFor(d, environment)
  ELSE ResolveFor(d, environment) \o SignalPath(signal)

DefaultLiveCheckSamplePercent == 10

SampleRate(d, t) ==
  CASE Written(t.livecheck) /\ Written(t.livecheck[1].percent) -> t.livecheck[1].percent[1]
    [] Written(d.percent) /\ ~(Written(t.livecheck) /\ Written(t.livecheck[1].percent)) -> d.percent[1]
    [] OTHER                                                  -> DefaultLiveCheckSamplePercent
=============================================================================
