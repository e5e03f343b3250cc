------------------------------- MODULE MCEstate -------------------------------
(***************************************************************************)
(* A platform team over a paying team over its cards team: one production  *)
(* Tier behind an untrusted Hop, a gateway in staging, a staged Rollout,   *)
(* and for every authored file the edits the code distinguishes.           *)
(***************************************************************************)
EXTENDS Estate

MCOrder  == <<"C1", "C2", "C3">>
MCFloors == [e \in {"production"} |-> [C1 |-> "beta", C2 |-> "beta", C3 |-> "alpha"]]

-----------------------------------------------------------------------------
(* The team tree, whose owners may move, and a Team nested twice.          *)

Node(id, under, owners) == [id |-> id, under |-> under, owners |-> owners]

Teams     == <<Node("platform", 0, <<"ops">>), Node("pay", 1, <<"ann">>), Node("cards", 2, <<"cy">>)>>
OpsMoved  == <<Node("platform", 0, <<"bo">>), Node("pay", 1, <<"ann">>), Node("cards", 2, <<"cy", "ops">>)>>
Nested    == <<Node("platform", 0, <<"ops">>), Node("cards", 1, <<>>), Node("pay", 1, <<"ann">>),
               Node("cards", 3, <<"cy">>)>>

TeamTrees == {Teams, OpsMoved, Nested}

-----------------------------------------------------------------------------
(* The catalogue, and who may use what of it.                              *)

All(level) == [s \in {"traces", "metrics", "logs"} |-> level]

Catalogue ==
  {[class |-> "receiver",  type |-> "otlp",          alias |-> "", stability |-> All("stable")],
   [class |-> "exporter",  type |-> "otlp",          alias |-> "", stability |-> All("stable")],
   [class |-> "processor", type |-> "attributes",    alias |-> "", stability |-> All("beta")],
   [class |-> "processor", type |-> "tail_sampling", alias |-> "sampling", stability |-> [traces |-> "alpha"]],
   [class |-> "connector", type |-> "spanmetrics",   alias |-> "",
    stability |-> [traces |-> "development", metrics |-> "unmaintained"]],
   [class |-> "extension", type |-> "health_check",  alias |-> "", stability |-> << >>]}

Entry(class, types) == [class |-> class, types |-> types]
Lists(team, entries) == [team |-> team, owner |-> "ops", allow |-> entries]

Everyday == <<Entry("receiver", {"otlp"}), Entry("exporter", {"otlp"}), Entry("processor", {"attributes"}),
              Entry("connector", {"spanmetrics"}), Entry("extension", {"health_check"})>>

AllowLists == {<<>>, <<Lists("platform", Everyday)>>,
               <<Lists("platform", Everyday), Lists("cards", Everyday)>>}

Grant(id, owner, team) ==
  [id |-> id, owner |-> owner, team |-> team, adds |-> <<Entry("processor", {"sampling"})>>]

GrantFiles == {<<>>, <<Grant("g", "ops", "pay")>>, <<Grant("g", "ann", "pay")>>,
               <<Grant("g", "ann", "cards"), Grant("h", "ops", "pay")>>}

-----------------------------------------------------------------------------
(* The Components and the Blueprints.                                      *)

Component(class, type, version) ==
  [class |-> class, type |-> type, version |-> version, owner |-> "ops", config |-> <<"authored">>]

Ingest == <<"platform", <<"ingest">>>>
Out    == <<"platform", <<"out">>>>
Spans  == <<"platform", <<"spans">>>>
Health == <<"platform", <<"health">>>>
Sample == <<"pay", <<"sample">>>>

Components ==
  Ingest :> Component("receiver", "otlp", 2) @@ Out    :> Component("exporter", "otlp", 1)
    @@ Spans  :> Component("connector", "spanmetrics", 1)
    @@ Health :> Component("extension", "health_check", 1)
    @@ Sample :> Component("processor", "tail_sampling", 1)

Bumped(id) == [Components EXCEPT ![id].version = @ + 1]

ComponentTrees == {Components, Bumped(Health), Bumped(Out), Restrict(Components, DOMAIN Components \ {Spans})}

Pin(id, version) == [team |-> id[1], name |-> id[2], pin |-> version, track |-> ""]
Track(id)        == [team |-> id[1], name |-> id[2], pin |-> 0, track |-> "head"]
Local(name)      == [team |-> "", name |-> name, pin |-> 0, track |-> ""]

Scrub(name) ==
  [name |-> name, class |-> "processor", type |-> "attributes", version |-> 1, owner |-> "",
   config |-> <<"local">>]

Draft(version, satisfies, locals, traces, metrics, extensions) ==
  [owner |-> "ann", version |-> version, satisfies |-> satisfies, locals |-> locals,
   lanes |-> [traces |-> traces, metrics |-> metrics, logs |-> <<>>, profiles |-> <<>>,
              extensions |-> extensions]]

Agent == <<"pay", <<"agent">>>>
Then  == <<"pay", <<"then">>>>

AgentWith(version, local) ==
  Draft(version, <<[requirement |-> "traced", version |-> 1]>>, {Scrub(local)},
             <<Track(Ingest), Local(local), Pin(Out, 1), Pin(Spans, 1)>>,
             <<Pin(Spans, 1), Pin(Out, 1)>>, <<Pin(Health, 1)>>)

AgentFirst == AgentWith(1, <<"scrub">>)

ThenFirst ==
  Draft(1, <<>>, {}, <<Pin(Ingest, 1), Pin(Sample, 1), Pin(Out, 1)>>, <<>>, <<>>)

(* A lane with an extension in it, one with no exporter, and a local that  *)
(* lands on the generated strip.                                           *)
Blueprints ==
  {Agent :> a @@ Then :> ThenFirst :
     a \in {AgentFirst, AgentWith(2, <<"scrub">>), AgentWith(1, <<"telecraft", "untrusted-hop">>),
            [AgentFirst EXCEPT !.lanes.traces = Append(@, Pin(Health, 1))],
            [AgentFirst EXCEPT !.lanes.metrics = <<Pin(Spans, 1)>>]}}

-----------------------------------------------------------------------------
(* The topology.                                                           *)

Edge == <<"pay", <<"edge">>>>
Gw   == <<"platform", <<"gw">>>>
To(id) == [id |-> id, version |-> 1]

Hops(trusted) == {[from |-> "shop", trusted |-> TRUE], [from |-> "web", trusted |-> trusted]}

Tier(owner, environment, binding, hops, livecheck) ==
  [owner |-> owner, environment |-> environment, binding |-> binding,
   selector |-> {<<"role", "x">>}, min |-> 1, serving |-> <<"opamp">>, hops |-> hops,
   livecheck |-> livecheck]

Tapped == <<[percent |-> <<50>>]>>

Tiers ==
  {Edge :> Tier("ann", "production", To(b), Hops(trusted), tap)
     @@ Gw :> Tier("ops", "staging", To(Agent), {}, <<>>) :
       b \in {Agent, Then}, trusted \in BOOLEAN, tap \in {<<>>, Tapped}}

Service(class, tiers) == [owner |-> "ann", class |-> class, paths |-> {tiers}]
Shop == <<"pay", <<"shop">>>>
Card == <<"cards", <<"card">>>>

Services ==
  {Shop :> Service("C3", <<Edge, Gw>>), Shop :> Service("C1", <<Edge>>), Shop :> Service("C9", <<Edge>>),
   Shop :> Service("C3", <<Edge>>) @@ Card :> Service("C1", <<Edge>>)}

Stage(percent) == [hosts |-> <<>>, match |-> {<<"ring", "one">>}, percent |-> percent]

Staging(from, to, stage) ==
  <<"pay", <<"move">>>> :>
    [owner |-> "ann", tier |-> Edge, from |-> To(from), to |-> To(to), stage |-> stage,
     hashAttributes |-> <<"host">>, stages |-> <<Stage(0), Stage(50)>>]

Rollouts == {<< >>, Staging(Agent, Then, 0), Staging(Agent, Then, 1), Staging(Then, Agent, 1)}

Destinations == <<[endpoint |-> <<"otel", "base">>, protocol |-> "", environments |-> [staging |-> <<"stage">>]]>>

LiveChecks ==
  {<<>>, <<[endpoint |-> <<"weaver">>, protocol |-> "grpc", environments |-> << >>, percent |-> <<>>]>>}

-----------------------------------------------------------------------------

Required(version, exporters) ==
  [version |-> version, config |-> [receivers |-> {"otlp"}, processors |-> {}, exporters |-> exporters]]
Libraries == {[traced |-> Required(1, {"otlp"})], [traced |-> Required(2, {"kafka"})]}

Object(kind, id, owner) == [kind |-> kind, id |-> id, owner |-> owner]
Objects == {Object("tier", "edge", "ann"), Object("service", "card", "cy"), Object("tier", "gw", "ops")}

First ==
  [teams |-> Teams, lists |-> <<>>, grants |-> <<>>, catalogue |-> Catalogue,
   components |-> Components, blueprints |-> Agent :> AgentFirst @@ Then :> ThenFirst,
   tiers |-> Edge :> Tier("ann", "production", To(Agent), Hops(FALSE), <<>>)
               @@ Gw :> Tier("ops", "staging", To(Agent), {}, <<>>),
   services |-> Shop :> Service("C3", <<Edge, Gw>>), rollouts |-> << >>,
   telemetry |-> Destinations, livecheck |-> <<>>, library |-> [traced |-> Required(1, {"otlp"})],
   objects |-> Objects]

MCStart == {First, [First EXCEPT !.rollouts = Staging(Agent, Then, 0),
                                 !.livecheck = CHOOSE l \in LiveChecks : l # <<>>]}

MCAuthored(h) ==
  {[h EXCEPT !.teams = v] : v \in TeamTrees} \cup {[h EXCEPT !.lists = v] : v \in AllowLists}
    \cup {[h EXCEPT !.grants = v] : v \in GrantFiles}
    \cup {[h EXCEPT !.components = v] : v \in ComponentTrees}
    \cup {[h EXCEPT !.blueprints = v] : v \in Blueprints}
    \cup {[h EXCEPT !.tiers = v] : v \in Tiers}
    \cup {[h EXCEPT !.services = v] : v \in Services}
    \cup {[h EXCEPT !.rollouts = v] : v \in Rollouts}
    \cup {[h EXCEPT !.livecheck = v] : v \in LiveChecks}
    \cup {[h EXCEPT !.library = v] : v \in Libraries}

Subject(kind, id, tier) == [kind |-> kind, id |-> id, tier |-> tier]
Finding(kind, subject, grade, waived) ==
  [kind |-> kind, subject |-> subject, grade |-> grade, waived |-> waived]

MCReported ==
  {Finding("delivery", Subject("tier", "edge", ""), "violation", FALSE),
   Finding("delivery", Subject("collector", "k1", "gw"), "pass", FALSE),
   Finding("delivery", Subject("collector", "k2", "edge"), "neutral", FALSE),
   Finding("service_conformance", Subject("service", "card", ""), "violation", TRUE),
   Finding("service_conformance", Subject("service", "card", ""), "advisory", FALSE)}
=============================================================================
