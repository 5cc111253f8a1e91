---------------------------------- MODULE Lint ----------------------------------
(***************************************************************************)
(* The rules of `crei lint` and `crei validate` (internal/cli/lint.go,     *)
(* lintconfig.go, graphrules.go, timeoutrules.go, imagerules.go), and the  *)
(* author who edits the project and follows them.                          *)
(*                                                                         *)
(* A finding is the rule, the unit it is reported at and what it is about. *)
(* The [Service] settings of a unit are a record of times in seconds,      *)
(* modes and counts; the texts they are written as are left out, as are    *)
(* systemd's host settings other than their defaults.                      *)
(***************************************************************************)
EXTENDS Graph, Compose

CONSTANTS
  Initial,    \* the projects there may be at first
  Drafts,     \* the units that the author may write
  Revisions,  \* the contents an asset may have
  Online,     \* the target Quadlet orders every unit after, by root's and by a user's name
  Entries,    \* registries/images.cue: records of an image, its tag and digest, whether
              \* it parses, and how it is written with the digest
  Levels,     \* the [lint] table: severities by rule
  Rank,       \* the order of file names
  Infinity,   \* the unbounded time
  Composes,   \* the compose projects there are to import
  Hosts,      \* the projects they are imported into
  MaxEdits    \* bound on what the author does

\* What there can be in a project before findings are followed.
Writable ==
  Drafts \cup (UNION (Initial \cup Hosts)) \cup (UNION {Convert(c) : c \in Composes})

\* The unit names that a unit has or refers to in [Unit], which the schema tells from
\* the names of files (#ServiceName).
ServiceNames(u) == {u.service} \cup {d[2] : d \in u.deps}

Registry == "registries/images.cue"

ResourceRels == {"image", "pod", "network", "volume"}

ASSUME LintAssumption ==
  /\ MaxEdits \in Nat /\ Infinity \notin Nat /\ None \notin Nat
  /\ \A u \in Writable :
       /\ DOMAIN Plain \cup {"value", "quadlet", "kind", "stem", "file"} \subseteq DOMAIN u
       /\ \A d \in u.deps : d[1] \notin ResourceRels
       /\ u.kind = "build" => u.service # None
       /\ IsFiniteSet(u.deps) /\ IsFiniteSet(u.networks) /\ IsFiniteSet(u.volumes)
  /\ Files(Writable) \cap ({Registry} \cup UNION {ServiceNames(u) : u \in Writable}) = {}
  /\ \A p \in Initial \cup Hosts \cup {Convert(c) : c \in Composes} : IsFiniteSet(p)
  /\ \A c \in Composes :
       /\ c.tokens \in Seq(Range(c.tokens))
       /\ \A t \in Range(c.tokens) : HasDefault(t) /\ t.inner = {} => t.default # None

\* A compose project is loaded before it is imported, and the author writes into
\* other quadlets than the imported one.
ASSUME ImportAssumption ==
  \A c \in Composes :
    /\ Consistent(c)
    /\ \A u \in Convert(c) : u.service # None
    /\ \A d \in Drafts : d.value # c.name

Power(x, n) == LET power[i \in 0 .. n] == IF i = 0 THEN 1 ELSE x * power[i - 1] IN power[n]

\* Restart times as the schema has them; of the delays that grow, those that do so by
\* a whole factor are modelled.
Whole(s) ==
  /\ {s.delay, s.interval, s.burst, s.max} \subseteq Nat \cup {None, Infinity}
  /\ s.burst # Infinity /\ s.steps \in Nat
  /\ s.steps # 0 /\ {s.delay, s.max} \subseteq Nat /\ s.delay \in 1 .. s.max - 1 =>
       \E r \in 1 .. s.max : s.delay * Power(r, s.steps) = s.max

ASSUME RestartAssumption ==
  None # "always" /\ \A u \in Writable : u.settings # None => Whole(u.settings)

VARIABLES
  units,   \* the project
  assets,  \* the contents of its asset files
  imported,  \* the compose project that was imported, if one was
  unfilled,  \* the env fields of the import that have no value yet
  edits

vars == <<units, assets, imported, unfilled, edits>>

Loaded == Evaluate(units, assets)
Finding(rule, unit, about) == [rule |-> rule, unit |-> unit, about |-> about]

-----------------------------------------------------------------------------
(* Dependencies that Quadlet makes anyway.                                  *)

\* Mutant: BindsTo is taken for a kind of Requires.
SubsumedAndBinds == {"After", "Requires", "Wants", "BindsTo"}

SubsumedByQuadlet == {"After", "Requires", "Wants"}

\* An edge that both a resource and a directive make.
RedundantResources(focus, all) ==
  LET edges == BuildEdges(focus, all) IN
  {Finding("deps/redundant-resource", e.from, <<e.rel, e.to>>) :
     e \in {x \in edges : /\ x.rel \in SubsumedByQuadlet
                          /\ Rels(edges, x.from, x.to) \cap ResourceRels # {}}}

RedundantOnline(focus) ==
  UNION {{Finding("deps/redundant-network-online", u.file, d) :
            d \in u.deps \cap ({"After", "Wants"} \X Online)} :
         u \in {v \in focus : v.defaults}}

-----------------------------------------------------------------------------
(* Timeouts and restarts.                                                   *)

PodmanDefaultGrace == 10
SystemdDefaultStop == 90

StopTooSoon(stop, grace) == stop <= grace

\* TimeoutStopSec against StopTimeout; zero and infinity switch the timeout off.
StopFindings(u) ==
  LET stop == u.settings.stop grace == u.settings.grace IN
  IF stop \in {0, Infinity} \/ u.kind \notin {"container", "pod"} THEN {}
  ELSE CASE stop # None /\ grace # None ->
              IF StopTooSoon(stop, grace) THEN {"service/stop-timeout"} ELSE {}
         [] stop = None /\ grace # None ->
              IF grace >= SystemdDefaultStop THEN {"service/stop-timeout-default"} ELSE {}
         [] stop # None /\ grace = None ->
              IF StopTooSoon(stop, PodmanDefaultGrace) THEN {"service/stop-timeout-default"}
              ELSE {}
         [] stop = None /\ grace = None -> {}

IsOneshot(u) ==
  /\ u.kind # "pod"
  /\ \/ u.settings.type = "oneshot"
     \/ /\ u.settings.type = None
        /\ u.kind \in {"build", "image", "network", "volume", "artifact"}

\* The first burst gaps between restarts: RestartSec each, or growing by equal
\* factors to RestartMaxDelaySec within RestartSteps restarts.
Ratio(s) == CHOOSE r \in 1 .. s.max : s.delay * Power(r, s.steps) = s.max

RestartSpan(s, burst) ==
  IF s.steps = 0 \/ s.delay = 0 \/ s.max \in {None, Infinity} \/ s.delay >= s.max
  THEN burst * s.delay
  ELSE LET r == Ratio(s) k == Min({burst, s.steps})
       IN (s.delay * (Power(r, k) - 1)) \div (r - 1) + Max({0, burst - s.steps}) * s.max

Interval(s) == IF s.interval = None THEN 10 ELSE s.interval
Burst(s) == IF s.burst = None THEN 5 ELSE s.burst

\* Mutant: the gaps are counted between the starts of one burst.
FlapsWithin(s) ==
  /\ s.delay # Infinity /\ Interval(s) \notin {0, Infinity} /\ Burst(s) # 0
  /\ RestartSpan(s, Burst(s) - 1) >= Interval(s)

\* The start limit is on and the restarts are too far apart to reach it.
RestartFlaps(s) ==
  /\ s.delay # Infinity /\ Interval(s) \notin {0, Infinity} /\ Burst(s) # 0
  /\ RestartSpan(s, Burst(s)) >= Interval(s)

RestartFindings(u) ==
  LET s == u.settings IN
  IF s.restart \in {None, "no"} THEN {}
  ELSE IF s.restart \in {"always", "on-success"} /\ IsOneshot(u)
  THEN {"service/oneshot-restart"}
  ELSE IF s.delay = None THEN {"service/restart-delay"}
  ELSE IF RestartFlaps(s) THEN {"service/restart-flap"} ELSE {}

StartFindings(u) ==
  IF u.kind = "container" /\ u.settings.healthy /\ ~u.settings.bounded
  THEN {"service/start-timeout"} ELSE {}

TimeoutFindings(focus) ==
  UNION {{Finding(r, u.file, None) :
            r \in StartFindings(u) \cup RestartFindings(u) \cup StopFindings(u)} :
         u \in {v \in focus : v.settings # None}}

LintQuadlets(focus, all) ==
  RedundantResources(focus, all) \cup RedundantOnline(focus) \cup TimeoutFindings(focus)

-----------------------------------------------------------------------------
(* Contracts between quadlets.                                              *)

FirstOf(files) == CHOOSE f \in files : \A g \in files : Rank[f] <= Rank[g]

Attachers(all, n) ==
  {u \in all : u.kind \in {"container", "pod", "kube"} /\ n.file \in u.networks}

\* A network of a pair belongs to its quadlet and one unit of another, the proxy.
PairFindings(all, n) ==
  LET foreign == {u \in Attachers(all, n) : u.quadlet # n.quadlet} IN
  IF Cardinality(foreign) > 1 THEN {"graph/pair-cardinality"}
  ELSE IF foreign = {} \/ foreign = Attachers(all, n) THEN {"graph/pair-unwired"} ELSE {}

NetworkFindings(all) ==
  UNION {{Finding(r, n.file, None) :
            r \in IF n.pair THEN PairFindings(all, n)
                  ELSE IF Attachers(all, n) = {} THEN {"graph/orphan-network"} ELSE {}} :
         n \in {u \in all : u.kind = "network"}}

\* The runtime names that units take: containers and the infra containers of pods
\* share a name space, pods have another.
ContainerNames(u) ==
  (IF u.kind = "pod" THEN {u.infra} ELSE {u.name}) \ {None}
PodNames(u) == IF u.kind = "pod" THEN {u.name} ELSE {}

\* Names taken twice, given what each unit takes.
Shared(rule, takes) ==
  LET Takers(name) == {u.file : u \in {v \in DOMAIN takes : name \in takes[v]}} IN
  {Finding(rule, FirstOf(Takers(name)), name) :
     name \in {n \in UNION Range(takes) : Cardinality(Takers(n)) > 1}}

Routers(u) == u.routers

GraphFindings(all) ==
  LET attachable == {u \in all : u.kind \in {"container", "pod"}} IN
  NetworkFindings(all)
    \cup Shared("graph/duplicate-name", [u \in attachable |-> ContainerNames(u)])
    \cup Shared("graph/duplicate-name", [u \in attachable |-> PodNames(u)])
    \cup Shared("graph/duplicate-router", [u \in attachable |-> Routers(u)])

-----------------------------------------------------------------------------
(* Images, severities, and the command.                                     *)

\* What an entry of the registry renders to.
Reference(e) == IF e.digest = None THEN e.image ELSE e.pinned

ImageFindings(focus, all) ==
  {Finding("image/unpinned", Registry, e.image) :
     e \in {x \in Entries : x.parses => x.tag # None /\ x.digest = None}}
  \cup {Finding("image/unmanaged", u.file, u.image) :
     u \in {v \in focus :
       /\ v.kind = "container" /\ v.image # None
       /\ v.image \notin {b.file : b \in {w \in all : w.kind \in {"build", "image"}}}
       /\ v.image \notin {Reference(e) : e \in Entries}}}

Defaults ==
  LET errors == {"graph/pair-cardinality", "graph/duplicate-name", "service/stop-timeout",
                 "service/oneshot-restart"}
      warnings == {"graph/pair-unwired", "graph/orphan-network", "graph/duplicate-router",
                   "deps/redundant-resource", "deps/redundant-network-online",
                   "service/stop-timeout-default", "service/start-timeout",
                   "service/restart-delay", "service/restart-flap", "image/unpinned"}
  IN [r \in errors |-> "error"] @@ [r \in warnings |-> "warn"]
       @@ ("image/unmanaged" :> "off")

\* A rule or severity that does not exist is an error, whatever else is said.
LevelsFail ==
  \/ ~(DOMAIN Levels \subseteq DOMAIN Defaults)
  \/ \E r \in DOMAIN Levels : Levels[r] \notin {"error", "warn", "off"}

Severity(f) == (Levels @@ Defaults)[f.rule]

Enabled(findings) == {f \in findings : Severity(f) # "off"}

\* crei lint, of all or of the quadlets named: contracts are judged over the whole
\* project, and shown at the units in focus.
LintCommand(all, only) ==
  LET focus == FilterQuadlets(all, only) IN
  Enabled(LintQuadlets(focus, all)
    \cup {f \in GraphFindings(all) : f.unit \in Files(focus)}
    \cup ImageFindings(focus, all))

\* crei validate fails on errors alone.
ValidateFails(all) ==
  \E f \in LintQuadlets(all, all) \cup GraphFindings(all) \cup ImageFindings(all, all) :
    Severity(f) = "error"

-----------------------------------------------------------------------------
(* The author.                                                              *)

Init ==
  /\ units \in Initial \cup Hosts
  /\ assets \in [DOMAIN Revisions -> {1}]
  /\ imported = None /\ unfilled = {} /\ edits = 0

Works == edits < MaxEdits /\ edits' = edits + 1

\* A unit of one of the quadlets is written, or replaced.
Write ==
  /\ Works
  /\ \E d \in Drafts \ units :
       /\ d.value \in {u.value : u \in units}
       /\ units' = {u \in units : ~(u.value = d.value /\ u.file = d.file)} \cup {d}
  /\ UNCHANGED <<assets, imported, unfilled>>

WriteAsset ==
  /\ Works
  /\ \E a \in DOMAIN Revisions : \E r \in Revisions[a] \ {assets[a]} :
       assets' = [assets EXCEPT ![a] = r]
  /\ UNCHANGED <<units, imported, unfilled>>

Loads == unfilled = {} /\ ~LoadFails(units) /\ ~RenderFails(Loaded) /\ ~LevelsFail

\* The directives of a unit that a finding is about.
About(u, f) ==
  IF f.unit # u.file THEN {}
  ELSE CASE f.rule = "deps/redundant-resource" ->
              {d \in u.deps : d[1] = f.about[1] /\ Target(Loaded, d[2]) = f.about[2]}
         [] f.rule = "deps/redundant-network-online" -> {f.about}
         [] OTHER -> {}

\* The author takes out what lint calls redundant.
Follow ==
  /\ Works /\ Loads
  /\ \E u \in units, f \in LintCommand(Loaded, {}) :
       /\ About(u, f) # {}
       /\ units' = (units \ {u}) \cup {[u EXCEPT !.deps = @ \ About(u, f)]}
  /\ UNCHANGED <<assets, imported, unfilled>>

\* crei import compose: the file is new, or is overwritten.  Bounded to one import.
Import ==
  /\ Works
  /\ units \in Hosts /\ imported = None
  /\ \E c \in Composes :
       /\ imported' = c /\ unfilled' = Required(c)
       /\ units' = {u \in units : u.value # c.name} \cup Convert(c)
  /\ UNCHANGED assets

\* The author gives the env fields their values.
FillIn ==
  /\ Works
  /\ unfilled # {} /\ unfilled' = {}
  /\ UNCHANGED <<units, assets, imported>>

Next == Write \/ WriteAsset \/ Follow \/ Import \/ FillIn

Spec == Init /\ [][Next]_vars

-----------------------------------------------------------------------------
(* Properties.  What Quadlet's generator and systemd make of a unit is      *)
(* theirs, not crei's.                                                      *)

\* The directives of the generated service.
Generated(u, all) ==
  LET of(rel) == {v.service : v \in {w \in all : <<rel, w.file>> \in Resources(u)}} IN
  u.deps \cup {"BindsTo", "After"} \X of("pod")
    \cup {"Requires", "After"} \X (UNION {of(r) : r \in {"image", "network", "volume"}})
    \cup (IF u.defaults THEN {"After", "Wants"} \X Online ELSE {})

Couplings == <<"Wants", "Requires", "BindsTo">>

\* What starts before the unit, and how it is coupled to it.
Wiring(u, all) ==
  LET g == Generated(u, all) IN
  [before |-> {d[2] : d \in {x \in g : x[1] = "After"}},
   couples |-> [n \in {d[2] : d \in g} |->
     Max({0} \cup {i \in 1 .. 3 : <<Couplings[i], n>> \in g})]]

\* To do what lint says changes nothing: every service starts after what it started
\* after, and is coupled as closely as it was.
FollowingKeeps ==
  [][Follow => \A u \in Loaded, v \in Loaded' :
       u.file = v.file => Wiring(u, Loaded) = Wiring(v, Loaded')]_vars

\* Lint of one quadlet says of its units, and of the image registry, what lint of
\* the project says of them.
FocusAgrees ==
  Loads => \A u \in Loaded :
    LintCommand(Loaded, {u.quadlet}) =
      {f \in LintCommand(Loaded, {}) :
         \/ f.unit = Registry
         \/ \E v \in Loaded : v.quadlet = u.quadlet /\ v.file = f.unit}

Consumes(c, b) == c.kind = "container" /\ b.kind = "build" /\ c.image \in {b.file} \cup b.tags

\* Whatever changes in a build, be it in a file that a glob finds, changes the unit
\* file of every container of its image: apply and status see that it is stale.
StampFollows ==
  [][Loads /\ Loads' =>
       \A b, c \in Loaded, b2, c2 \in Loaded' :
         /\ Consumes(c, b) /\ Consumes(c2, b2) /\ c.file = c2.file /\ b.file = b2.file
         /\ UnitFile(c) = UnitFile(c2)
         => b = b2]_vars

\* A container of an image that the project builds waits for the build and does not
\* start without it, by file name, by tag, and from another quadlet; and when the
\* build has failed, status names it as what keeps the container down.
ConsumersWait ==
  Loads => \A b, c \in Loaded :
    Consumes(c, b) =>
      /\ b.service \in Wiring(c, Loaded).before
      /\ Wiring(c, Loaded).couples[b.service] >= 2
      /\ Blocked(c, Loaded, {b.file}) = {b.file}

\* systemd's start limit: a window opens with a start, lets burst starts through and
\* refuses the next one; a start after its end opens another.
Gap(s, i) ==
  IF s.steps = 0 \/ s.max \in {None, Infinity} \/ s.delay \notin 1 .. s.max - 1 THEN s.delay
  ELSE IF i > s.steps THEN s.max ELSE s.delay * Power(Ratio(s), i - 1)

Starts(s) ==
  LET n == 2 * Burst(s) + s.steps + 1
      start[i \in 0 .. n] ==
        IF i = 0 THEN [at |-> 0, opened |-> 0, let |-> 1, refused |-> FALSE]
        ELSE LET last == start[i - 1]
                 at   == last.at + Gap(s, i)
             IN IF last.opened + Interval(s) <= at
                THEN [at |-> at, opened |-> at, let |-> 1, refused |-> last.refused]
                ELSE [at |-> at, opened |-> last.opened, let |-> last.let + 1,
                      refused |-> last.refused \/ last.let >= Burst(s)]
  IN start[n]

\* A unit that fails whenever it starts comes to rest as failed, unless lint said
\* that it would not or the limit is switched off.
FlapsCaught ==
  \A u \in units :
    LET s == u.settings IN
    /\ s # None /\ s.restart = "always" /\ ~IsOneshot(u) /\ s.delay \notin {None, Infinity}
    /\ Interval(s) \notin {0, Infinity} /\ Burst(s) # 0
    => (RestartFindings(u) = {"service/restart-flap"}) = ~Starts(s).refused

-----------------------------------------------------------------------------
(* Properties of an import.                                                 *)

Declared(c) ==
  ({"container"} \X DOMAIN c.services) \cup ({"volume"} \X DOMAIN c.volumes)
    \cup ({"network"} \X DOMAIN c.networks)
    \cup ({"build"} \X {n \in DOMAIN c.services : c.services[n].build # None})

\* The unit that bears the compose name, or the quadlet's if it is the only one.
Bearing(c, d) ==
  {u \in Loaded : /\ u.value = c.name /\ u.kind = d[1]
                  /\ u.stem \in {c.name, c.name \o "-" \o d[2]}}

TheUnit(c, kind, name) == CHOOSE u \in Bearing(c, <<kind, name>>) : TRUE

Ready == imported # None /\ Loads

\* What compose keeps apart stays apart, however the names are written in CUE: each
\* service, build, volume and network is a unit of its own that bears its name, and
\* a container is attached to the volumes and networks its service has.
ImportKeepsApart ==
  Ready =>
    LET c == imported IN
    /\ \A d \in Declared(c) : Cardinality(Bearing(c, d)) = 1
    /\ \A d, e \in Declared(c) : Bearing(c, d) = Bearing(c, e) => d = e
    /\ \A n \in DOMAIN c.services :
         LET s == c.services[n] u == TheUnit(c, "container", n) IN
         /\ \A m \in {x \in s.mounts : x.type = "volume" /\ x.source # Anonymous} :
              <<TheUnit(c, "volume", m.source).file, m.target>> \in u.mounts
         /\ s.mode = None =>
              u.networks = {TheUnit(c, "network", x).file : x \in s.networks}
    /\ \A v \in DOMAIN c.volumes :
         c.volumes[v].external => TheUnit(c, "volume", v).name = c.volumes[v].name

\* depends_on orders: a service starts after those it depends on, and not without them
\* unless they only have to complete, which nothing makes sure of.  Where it waits for a
\* healthy one, systemd does not call that one started before its check passes, and does
\* not give up a whole second before the last try of the check has come to its end.
ImportOrders ==
  Ready =>
    LET c == imported IN
    \A n \in DOMAIN c.services : \A d \in DOMAIN c.services[n].depends :
      LET condition == c.services[n].depends[d]
          wiring == Wiring(TheUnit(c, "container", n), Loaded)
          u == TheUnit(c, "container", d)
          check == c.services[d].check
          limit == IF u.settings.startup = None THEN SystemdDefaultStart
                   ELSE u.settings.startup
      IN /\ u.service \in wiring.before
         /\ condition # "completed" => wiring.couples[u.service] >= 2
         /\ condition = "healthy" /\ Live(c.services[d]) =>
              /\ u.settings.healthy /\ u.settings.type = "notify"
              /\ \A try \in 1 .. check.retries + 1 :
                   check.start + try * check.interval + check.timeout
                     < (limit + 1) * TicksPerSecond

\* No variable of a field that is lifted comes to nothing unnoticed: one that occurs
\* without a default has to be filled in, in whatever order it occurs with and without
\* one, and a default that is kept is the first.  When values are baked in from files
\* that were named, every variable that anywhere occurs without a default is reported.
VariablesAsked ==
  imported # None =>
    LET c == imported
        tokens == Range(c.tokens) \cup c.verbatim
        nested == UNION {{t} \cup t.inner : t \in tokens}
        hollow == {t.name : t \in {x \in nested : x.op # "-"}}
    IN IF c.resolve THEN c.discovered \/ hollow \subseteq Empties(c)
       ELSE \A i \in DOMAIN c.tokens :
              LET t == c.tokens[i] same == {j \in DOMAIN c.tokens : c.tokens[j].name = t.name} IN
              IF \E j \in same : c.tokens[j].op # "-" \/ c.tokens[j].inner # {}
              THEN t.name \in Required(c)
              ELSE Env(c)[t.name].default = c.tokens[Min(same)].default

\* importer_test.go: every emitted file type-checks against the schema.
ImportLoads ==
  imported # None /\ unfilled = {} => \A u \in Convert(imported) : u.valid
=============================================================================
