----------------------------- MODULE MCConformance -----------------------------
(***************************************************************************)
(* Four libraries over one Service: the cross, a Schema Registry of three  *)
(* versions judged on what landed, a requirement that only tracks head     *)
(* (over versions of which one asks for a group reading and one does not), *)
(* and the live-check tap.                                                 *)
(***************************************************************************)
EXTENDS Conformance

MCScene     == {"cross", "schema", "head", "live"}
MCCollector == {"c1", "c2"}

MCUnder(key, ns) == ns = "db" /\ key \in {"db.system", "db.name", "db.pool"}

-----------------------------------------------------------------------------
(* The versions.  V2 withdraws a value of the enum and tightens db.name;   *)
(* V3 has a second metric group, which demands an attribute of its own.    *)

Def(key, level, members) == [key |-> key, defines |-> TRUE, level |-> level, members |-> members]
Ref(key, level)          == [key |-> key, defines |-> FALSE, level |-> level, members |-> {}]

Plain(id, attributes) ==
  [id |-> id, kind |-> "attribute_group", metricName |-> "", attributes |-> attributes]
Metric(id, name, attributes) ==
  [id |-> id, kind |-> "metric", metricName |-> name, attributes |-> attributes]

V1 == [groups |-> {Plain("db", {Def("db.system", "recommended", {"pg", "my"}),
                                Def("db.name", "recommended", {})}),
                   Plain("client", {Ref("db.system", "required")}),
                   Metric("duration", "db.duration", {Ref("db.system", NoLevel)})}]
V2 == [groups |-> {Plain("db", {Def("db.system", "recommended", {"pg"}),
                                Def("db.name", "required", {})}),
                   Plain("client", {Ref("db.system", "required"), Ref("db.name", "recommended")}),
                   Metric("duration", "db.duration", {Ref("db.system", NoLevel)})}]
V3 == [groups |-> {Plain("db", {Def("db.system", "recommended", {"pg", "my"}),
                                Def("db.pool", "opt_in", {"a"})}),
                   Plain("client", {Ref("db.system", "required")}),
                   Metric("pool", "db.pool.size", {Ref("db.pool", "required")})}]

Versions == [v1 |-> V1, v2 |-> V2, v3 |-> V3]

Asking == [groups |-> {Plain("db", {Def("db.system", "recommended", {"pg"}),
                                    Def("db.name", "recommended", {})}),
                       Plain("client", {Ref("db.system", "required")}),
                       Metric("duration", "db.duration", {Ref("db.name", "required")})}]

MCInstalled   ==
  [cross |-> << >>, schema |-> Versions, head |-> [v2 |-> Asking, v3 |-> V3], live |-> [v1 |-> V1]]
MCDesignation == [s \in MCScene |-> CASE s = "schema" -> {"v1", "v2", "v3", "v9"}
                                         [] s = "head"   -> {"v2", "v3"}
                                         [] OTHER        -> {}]

-----------------------------------------------------------------------------
(* The libraries.                                                          *)

Config(receivers, exporters) ==
  [receivers |-> receivers, processors |-> {}, exporters |-> exporters]
Signal(kind, window, floors) ==
  [kind |-> kind, window |-> window, present |-> TRUE, floors |-> floors]
Schema(pin, groups, namespaces, signals) ==
  [pin |-> pin, scope |-> [groups |-> groups, namespaces |-> namespaces],
   signals |-> signals, window |-> "long"]

Asserts(id, config, signal) ==
  [id |-> id, environments |-> {}, config |-> config, signal |-> signal,
   schema |-> NoAssertion, placement |-> ""]
References(id, schema, placement) ==
  [id |-> id, environments |-> {"prod"}, config |-> NoAssertion, signal |-> NoAssertion,
   schema |-> schema, placement |-> placement]

Elsewhere == [Asserts("elsewhere", NoAssertion, Signal("logs", "long", TRUE))
                EXCEPT !.environments = {"staging"}]

MCLibrary ==
  [cross  |-> {Asserts("both", Config({"filelog"}, {"otlp"}), Signal("logs", "short", FALSE)),
               Asserts("volume", Config({"filelog"}, {}), Signal("logs", "long", TRUE)),
               Elsewhere},
   schema |-> {References("pinned", Schema("v1", {"client"}, {}, {"traces", "metrics"}), "landed"),
               References("namespaced", Schema("v1", {}, {"db"}, {"metrics"}), "landed"),
               References("tracking", Schema(TrackHead, {"client", "duration"}, {}, {"metrics"}), "")},
   head   |-> {References("tracking", Schema(TrackHead, {"client", "duration"}, {}, {"metrics"}), "")},
   live   |-> {References("tapped", Schema("v1", {"client"}, {}, {"traces"}), "live")}]

-----------------------------------------------------------------------------
(* Two collectors answer for the row's first Tier; another first Tier has  *)
(* no selector, and one is in another Environment.                         *)

MCTopology ==
  [s \in MCScene |->
     [tiers |-> [agents |-> [environment |-> "prod", selector |-> s = "cross",
                             satisfying |-> IF s = "cross" THEN MCCollector ELSE {}],
                 gitops |-> [environment |-> "prod", selector |-> FALSE, satisfying |-> {}],
                 stage  |-> [environment |-> "staging", selector |-> TRUE, satisfying |-> {}]],
      paths |-> {<<"agents", "gitops">>, <<"gitops">>, <<"stage", "agents">>}]]

Good == {[name |-> "logs", receivers |-> {"filelog"}, processors |-> {}, exporters |-> {"otlp"}]}
Bare == {}
Half == {[name |-> "logs", receivers |-> {"filelog"}, processors |-> {}, exporters |-> {}]}

NoTap   == [records |-> {}, sent |-> FALSE, sendFailed |-> FALSE]
Sending == [arrived |-> {"traces", "metrics"}, quiet |-> {}, enough |-> {}, metrics |-> {"db.duration"},
            carries |-> {<<s, "service.name", "s">> : s \in Signals}, tap |-> NoTap, configs |-> [c \in MCCollector |-> Bare],
            override |-> NoOverride]

CrossWorlds ==
  {[Sending EXCEPT !.arrived = l[1], !.quiet = l[2], !.enough = l[3], !.override = o,
                   !.configs = c, !.metrics = {}] :
     l \in {<<{}, {}, {}>>, <<{"logs"}, {"logs"}, {"logs"}>>, <<{"logs"}, {}, {}>>,
            <<{"logs"}, {}, {"logs"}>>},
     o \in {NoOverride, Half}, c \in [MCCollector -> {Good, Half, Bare}]}

(* What the traces and the metrics carry of the registry's attributes.     *)
TracesCarry  == {{}, {<<"db.system", "my">>}, {<<"db.system", "xx">>},
                 {<<"db.system", "pg">>, <<"db.name", "n">>}, {<<"db.system", "pg">>, <<"db.system", "xx">>}}
MetricsCarry == {<<{}, {<<"db.system", "pg">>}>>, <<{"db.duration"}, {}>>,
                 <<{"db.duration"}, {<<"db.system", "xx">>, <<"db.name", "n">>}>>,
                 <<{"db.duration"}, {<<"db.system", "pg">>, <<"db.name", "n">>}>>,
                 <<{"db.duration", "db.pool.size"}, {<<"db.system", "my">>, <<"db.pool", "b">>}>>,
                 <<{"db.duration", "db.pool.size"},
                   {<<"db.system", "pg">>, <<"db.name", "n">>, <<"db.pool", "a">>}>>}

(* Whatever arrives carries the name of the Service.                       *)
On(signal, attributes) == {<<signal, a[1], a[2]>> : a \in attributes \cup {<<"service.name", "s">>}}

SchemaWorlds ==
  {[Sending EXCEPT !.carries = On("traces", t) \cup On("metrics", m[2]), !.metrics = m[1]] :
     t \in TracesCarry, m \in MetricsCarry}
  \cup {[Sending EXCEPT !.arrived = {"metrics"}, !.carries = On("metrics", m[2]), !.metrics = m[1]] :
          m \in MetricsCarry}
  \cup {[Sending EXCEPT !.arrived = {"traces"}, !.carries = On("traces", t), !.metrics = {}] :
          t \in TracesCarry}

TapRecord(names, severity, signal) == [names |-> names, severity |-> severity, signal |-> signal]

LiveWorlds ==
  {[Sending EXCEPT !.tap = [records |-> r, sent |-> s, sendFailed |-> f]] :
     r \in {x \in SUBSET {TapRecord("conditionally_required", "violation", "traces"),
                          TapRecord(NoLevel, "violation", "metrics"),
                          TapRecord(NoLevel, "violation", "resource"),
                          TapRecord("required", "violation", "traces"),
                          TapRecord(NoLevel, "improvement", "traces")} : Cardinality(x) <= 3},
     s \in BOOLEAN, f \in BOOLEAN}

MCWorld == [cross |-> CrossWorlds, schema |-> SchemaWorlds, head |-> SchemaWorlds, live |-> LiveWorlds]

=============================================================================
