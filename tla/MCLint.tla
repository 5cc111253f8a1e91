------------------------------- MODULE MCLint -------------------------------
(***************************************************************************)
(* A web application, its database and a proxy, each a quadlet, and the    *)
(* units their authors may write instead; and projects of one job with all *)
(* sorts of restart and stop settings.                                     *)
(***************************************************************************)
EXTENDS Lint

CONSTANTS inf, none

Globs == "etc/*" :> {<<"app.conf", "conf">>} @@ "empty/*" :> {}
           @@ "drop/*" :> {<<"app.conf/a", "conf">>}
AssetKeys == "etc/*" :> "." @@ "empty/*" :> "none" @@ "drop/*" :> "app.conf"
Paths == "app.conf" :> "app.conf" @@ "x/../app.conf" :> "app.conf" @@ "../up" :> none
           @@ "run.sh" :> "run.sh"
Contents == "conf" :> {1, 2}
Ranks == "web.container" :> 1 @@ "web.build" :> 2 @@ "front.network" :> 3 @@ "db.container" :> 4
           @@ "data.volume" :> 5 @@ "proxy.container" :> 6 @@ "app.pod" :> 7 @@ "job.container" :> 8 @@ "gate.container" :> 9 @@ "base.build" :> 10

Unit(q, stem, kind, more) ==
  more @@ [value |-> q, quadlet |-> q, kind |-> kind, stem |-> stem,
           file |-> stem \o "." \o kind,
           service |-> stem \o (IF kind = "container" THEN "" ELSE "-" \o kind) \o ".service"]
       @@ Plain

Quiet ==
  [stop |-> None, grace |-> None, type |-> None, restart |-> None, delay |-> None,
   steps |-> 0, max |-> None, interval |-> None, burst |-> None,
   healthy |-> FALSE, bounded |-> FALSE]

Web(image, more) ==
  Unit("web", "web", "container", [image |-> image, name |-> "web"] @@ more)
Build(more) ==
  Unit("web", "web", "build", [inputs |-> "FROM a", tags |-> {"local/web"}] @@ more)
FrontNet(pair) == Unit("web", "front", "network", [pair |-> pair])
Db(more) == Unit("db", "db", "container", [image |-> "reg/db", name |-> "db"] @@ more)
Data == Unit("db", "data", "volume", [name |-> none])
Proxy(more) == Unit("proxy", "proxy", "container", [image |-> "reg/proxy", name |-> "proxy"] @@ more)

Base ==
  {Web("web.build", [networks |-> {"front.network"}]), Build([assets |-> {"etc/*"}]),
   FrontNet(TRUE), Db([volumes |-> {"data.volume"}]), Data,
   Proxy([networks |-> {"front.network"}])}

\* What stands instead of a unit of the base, or beside it.
Alternatives ==
  {Web("local/web", [networks |-> {"front.network"}, deps |-> {<<"After", "web-build.service">>}]),
   Web("web.build", [deps |-> {<<"Requires", "web-build.service">>, <<"Wants", "user-net.service">>}]),
   Web("web.build", [networks |-> {"front.network"}, deps |->
     {<<"BindsTo", "front-network.service">>, <<"Wants", "front-network.service">>}]),
   Web("local/web", [pod |-> "app.pod", routers |-> {"r"}]),
   Build([assets |-> {"etc/*"}, inputs |-> "FROM b"]),
   Build([assets |-> {"empty/*"}]),
   Build([assets |-> {"etc/*", "drop/*"}]),
   Build([context |-> {<<"run.sh", 1>>}]),
   Build([context |-> {<<"app.conf", 1>>}, assets |-> {"etc/*"}]),
   Build([context |-> {<<"app.conf", 1>>, <<"x/../app.conf", 2>>}]),
   Build([context |-> {<<"../up", 1>>}]),
   FrontNet(FALSE),
   Unit("web", "app", "pod", [name |-> "app", infra |-> "db"]),
   Db([volumes |-> {"data.volume"}, networks |-> {"front.network"}, deps |->
     {<<"After", "data-volume.service">>, <<"Requires", "web.service">>}]),
   Db([image |-> "local/web", defaults |-> FALSE, deps |->
     {<<"After", "net.target">>, <<"Wants", "data-volume.service">>}]),
   Db([name |-> "web", routers |-> {"r"}, deps |-> {<<"After", "net.target">>}]),
   Unit("db", "web", "build", [tags |-> {"local/db"}]),
   Unit("db", "base", "build", [tags |-> {"local/web"}]),
   [Data EXCEPT !.service = "db.service"],
   Proxy([image |-> "reg/proxy@1", networks |-> {"front.network"}, deps |->
     {<<"After", "front-network.service">>, <<"Requires", "front-network.service">>,
      <<"After", "web-build.service">>}]),
   Proxy([image |-> "web.build", networks |-> {"front.network"}, deps |->
     {<<"After", "web-build.service">>, <<"BindsTo", "web.service">>}]),
   Unit("proxy", "gate", "container", [image |-> "local/web", name |-> "proxy",
     quadlet |-> "web"])}

Images == {[image |-> "reg/proxy", tag |-> "1", digest |-> "d", parses |-> TRUE,
            pinned |-> "reg/proxy@1"],
           [image |-> "reg/db", tag |-> "2", digest |-> none, parses |-> TRUE,
            pinned |-> "reg/db@2"]}
Table == "image/unmanaged" :> "warn" @@ "graph/orphan-network" :> "error"

Job(settings) ==
  Unit("job", "job", "container", [image |-> "reg/db", name |-> "job", settings |-> settings])

Restarting ==
  {[restart |-> "always", delay |-> d, interval |-> i, burst |-> b, steps |-> r[1], max |-> r[2]]
     @@ Quiet : d \in {none, 0, 1, 2, 3, inf}, i \in {none, inf, 0, 3, 4, 6, 7, 15, 20},
     b \in {none, 0, 1, 3}, r \in {<<0, none>>, <<0, 8>>, <<1, 1>>, <<1, 6>>, <<2, 4>>, <<2, 12>>, <<2, inf>>}}
Ramped == {s \in Restarting : Whole(s)}
Stopping ==
  {[stop |-> t, grace |-> g] @@ Quiet : t \in {none, inf, 0, 5, 10, 11, 90, 91},
                                         g \in {none, 0, 5, 10, 90, 91}}
Other ==
  {[restart |-> r, type |-> t, healthy |-> h, bounded |-> ~h] @@ Quiet :
     r \in {"no", "on-success", "on-failure"}, t \in {none, "oneshot", "simple"}, h \in BOOLEAN}

Projects == {Base} \cup {{Job(s)} : s \in Ramped \cup Stopping \cup Other}

-----------------------------------------------------------------------------
\* Compose projects.

NearestIdentifier ==
  [n \in {"", "data", "db", "default", "foo-bar", "foo_bar", "foo_bar_2", "web"} |->
     IF n = "foo-bar" THEN "foo_bar" ELSE n]
Sorted == "" :> 0 @@ "data" :> 1 @@ "db" :> 2 @@ "default" :> 3 @@ "foo-bar" :> 4
            @@ "foo_bar" :> 5 @@ "foo_bar_2" :> 6 @@ "web" :> 7

Check(start, interval, retries, timeout) ==
  [off |-> FALSE, start |-> start, interval |-> interval, retries |-> retries,
   timeout |-> timeout]
\* In half seconds; the last is of sixty-one tries at a second and a half.
Checks == {none, Check(0, 60, 3, 60), Check(0, 20, 3, 10), Check(120, 20, 0, 40),
           Check(120, 20, 1, 21), [Check(0, 20, 3, 10) EXCEPT !.off = TRUE],
           Check(0, 3, 60, 60)}

Service(more) ==
  more @@ [image |-> "reg/db", build |-> none, name |-> none, networks |-> {"default"},
           mode |-> none, mounts |-> {}, secrets |-> {}, check |-> none, grace |-> none,
           restart |-> none, retries |-> none, memory |-> none, deploy |-> none,
           swap |-> none, depends |-> <<>>]
Default == "default" :> [name |-> "shop_default", external |-> FALSE]
Stack(services, more) ==
  more @@ [name |-> "shop", services |-> services, volumes |-> <<>>, networks |-> Default,
           secrets |-> <<>>, preserve |-> FALSE, resolve |-> FALSE, discovered |-> FALSE,
           tokens |-> <<>>, verbatim |-> {}]
Mount(source, target) == [type |-> "volume", source |-> source, target |-> target]

\* One service after another.
Ordered ==
  {Stack("web" :> Service([depends |-> "db" :> cond, mode |-> mode, restart |-> "always"])
           @@ "db" :> Service([check |-> h, grace |-> 60]), [name |-> name]) :
     cond \in {"started", "healthy", "completed"}, mode \in {none, "db", "host"}, h \in Checks,
     name \in {"shop", "job"}}

\* Names that are one identifier.
Clashing ==
  {Stack([n \in names |-> Service([mounts |-> {Mount(v, "/" \o v) : v \in vols \ {n}},
                                   build |-> b])],
         [volumes |-> [v \in vols |-> [name |-> "old_" \o v, external |-> v = "foo_bar"]],
          preserve |-> kept]) :
     names \in {{"foo-bar", "foo_bar"}, {"foo-bar", "foo_bar_2", "web"}},
     vols \in SUBSET {"foo-bar", "foo_bar", "foo_bar_2"}, kept \in BOOLEAN,
     b \in {none, [tags |-> {"t"}, inputs |-> "FROM a", network |-> "default"]}}

\* One service.
Alone ==
  {Stack(n :> Service([mounts |-> {Mount(v, "/" \o v) : v \in DOMAIN vols},
                       restart |-> r[1], retries |-> r[2], memory |-> 4, swap |-> swap,
                       secrets |-> {"db"}]),
         [volumes |-> vols, secrets |-> "db" :> "shop_db"]) :
     n \in {"web", "foo-bar"}, swap \in {none, -1, 6}, r \in {<<"no", none>>, <<"on-failure", 3>>,
       <<"on-failure", none>>, <<"unless-stopped", none>>},
     vols \in {[v \in vs |-> [name |-> v, external |-> FALSE]] :
                 vs \in {{}, {"data"}, {"data", "foo-bar"}}}}

\* A mount without a source.
Nameless ==
  {Stack([n \in names |-> Service([mounts |-> {Mount("data", "/data"), Mount("", "/cache")}])],
         [volumes |-> "data" :> [name |-> "shop_data", external |-> FALSE]]) :
     names \in {{"web"}, {"web", "db"}}}

\* Variables, with and without values.
Bare == [name |-> "TAG", op |-> "", default |-> none, inner |-> {}]
Given(d) == [name |-> "TAG", op |-> "-", default |-> d, inner |-> {}]
Nested == [name |-> "TAG", op |-> "-", default |-> none,
           inner |-> {[Bare EXCEPT !.name = "FALLBACK"]}]
Variable ==
  {Stack("web" :> Service(<<>>), [tokens |-> t, resolve |-> r[1], discovered |-> r[2],
                                  verbatim |-> {[Bare EXCEPT !.name = "DNS"]}]) :
     t \in UNION {[1 .. n -> {Bare, Given("a"), Given("b"), Nested}] : n \in 1 .. 3},
     r \in BOOLEAN \X BOOLEAN}

ComposeFiles == Ordered \cup Clashing \cup Alone \cup Nameless \cup Variable
JustOne == {Stack("foo-bar" :> Service(<<>>), <<>>)}
Homes == {{}, {Job(Quiet)}}
=============================================================================
