-------------------------------- MODULE Compose --------------------------------
(***************************************************************************)
(* `crei import compose` (internal/importer): the units that a compose     *)
(* project is converted to, and the variables it leaves to the user.       *)
(*                                                                         *)
(* A compose project is a record as compose-go loads it: normalized and    *)
(* consistent (what services refer to is declared, except for the volume   *)
(* with no name that an anonymous mount has for its source).  Attributes   *)
(* that are copied, and the report of those that are not, are left out.    *)
(***************************************************************************)
EXTENDS Project, Maps, Integers, SequencesExt

CONSTANTS
  Identifier,  \* the identifier nearest to a name, the name itself if there is none
  Place,       \* of the names, in sorted order
  TicksPerSecond  \* of the clock that the times of a healthcheck are in

ASSUME TicksAssumption == TicksPerSecond \in Nat \ {0}

-----------------------------------------------------------------------------
(* Keys.  A name is written as an identifier, by which CUE refers to it.    *)

Anonymous == ""

\* The volumes that services mount and nobody declares.
Implicit(c) ==
  {m.source : m \in UNION {{x \in s.mounts : x.type = "volume"} : s \in Range(c.services)}}
    \ DOMAIN c.volumes

\* What there is of each kind.
Names(c, kind) ==
  CASE kind = "container" -> DOMAIN c.services
    [] kind = "build"     -> {n \in DOMAIN c.services : c.services[n].build # None}
    [] kind = "volume"    -> DOMAIN c.volumes \cup Implicit(c)
    [] kind = "network"   -> DOMAIN c.networks

WithNumber(base, i) == base \o "_" \o ToString(i)

Numbered(base, used) ==
  WithNumber(base, Min({i \in 2 .. 2 + Cardinality(used) : WithNumber(base, i) \notin used}))

\* Mutant: the identifier is taken, whatever else it stands for.
SanitizedKey(name, used) == Identifier[name]

NextKey(name, used) ==
  LET key == IF Identifier[name] \in used THEN name ELSE Identifier[name]
  IN IF key \in used THEN Numbered(key, used) ELSE key

\* The keys of a set of names, given out in sorted order.
Keys(names) ==
  LET key[n \in names] == NextKey(n, {key[m] : m \in {x \in names : Place[x] < Place[n]}})
  IN key

\* There are so many names, each in its place, and a name with one number is not that
\* with another.
ASSUME NamesAssumption ==
  /\ IsFiniteSet(DOMAIN Place)
  /\ \A n \in DOMAIN Place : Place[n] \in 0 .. Cardinality(DOMAIN Place)
  /\ \A m, n \in DOMAIN Place : Place[m] = Place[n] => m = n
  /\ \A base \in DOMAIN Place \cup {Identifier[n] : n \in DOMAIN Place} :
       \A i, j \in 2 .. 2 + Cardinality(DOMAIN Place) :
         WithNumber(base, i) = WithNumber(base, j) => i = j

\* Builds are given the keys of their services.
KeysOf(c, kind) ==
  Keys(IF kind = "build" THEN DOMAIN c.services ELSE Names(c, kind))

\* The only unit of its kind is the quadlet's own if there is one service; the
\* volumes that nobody declares are not counted.
Singular(c, kind) ==
  /\ Cardinality(DOMAIN c.services) = 1
  /\ CASE kind = "container" -> TRUE
       [] kind = "volume" -> Cardinality(DOMAIN c.volumes) = 1
       [] OTHER -> Cardinality(Names(c, kind)) = 1

\* The name fields written under a key: the name, where it is not the key.
NameFields(c, kind, key) ==
  {n \in Names(c, kind) : KeysOf(c, kind)[n] = key /\ n # key}

\* The stem of the unit that a reference to a name leads to.
StemOf(c, kind, name) ==
  LET key == KeysOf(c, kind)[name] fields == NameFields(c, kind, key) IN
  IF Singular(c, kind) THEN c.name
  ELSE c.name \o "-" \o (IF fields = {} THEN key ELSE CHOOSE n \in fields : TRUE)

FileOf(c, kind, name) == StemOf(c, kind, name) \o "." \o kind
ServiceOf(c, kind, name) ==
  StemOf(c, kind, name) \o (IF kind = "container" THEN "" ELSE "-" \o kind) \o ".service"

\* What compose-go has made sure of, and that a unit's name tells its stem.
Consistent(c) ==
  /\ DOMAIN c.services \cup Names(c, "volume") \cup DOMAIN c.networks \subseteq DOMAIN Place
  /\ \A m, n \in DOMAIN Place :
       /\ c.name \o "-" \o m = c.name \o "-" \o n => m = n
       /\ c.name \o "-" \o n # c.name
  /\ \A s \in Range(c.services) :
       /\ s.mode = None => s.networks \subseteq DOMAIN c.networks
       /\ DOMAIN s.depends \subseteq DOMAIN c.services
       /\ s.check # None =>
            {s.check.start, s.check.interval, s.check.retries, s.check.timeout} \subseteq Nat

-----------------------------------------------------------------------------
(* Services.                                                                *)

ServiceNetworks(c, s) ==
  IF s.mode # None
  THEN {FileOf(c, "container", n) : n \in {s.mode} \cap DOMAIN c.services}
  ELSE {FileOf(c, "network", n) : n \in s.networks}

\* What is mounted where.
ServiceMounts(c, s) ==
  {<<IF m.type = "volume" THEN FileOf(c, "volume", m.source) ELSE m.source, m.target>> :
     m \in s.mounts}

\* The compose name, or the project's own, of the podman secret behind a key.
SecretName(c, key) ==
  LET cueKey == Keys(DOMAIN c.secrets)[key] name == c.secrets[key] IN
  IF name \notin {None, cueKey} THEN name ELSE key

\* Restart is systemd's; on-failure may have a number of retries.
RestartMode(s) ==
  CASE s.restart = "always" -> "always"
    [] s.restart \in {"unless-stopped", "on-failure"} -> "on-failure"
    [] OTHER -> None

Live(s) == s.check # None /\ ~s.check.off

SystemdDefaultStart == 90

\* The time a healthcheck may take until it passes, in ticks; the limit is the whole
\* seconds of it.
WorstStart(h) == h.start + (h.retries + 1) * h.interval + h.timeout

StartLimit(s) ==
  IF Live(s) /\ WorstStart(s.check) > SystemdDefaultStart * TicksPerSecond
  THEN WorstStart(s.check) \div TicksPerSecond ELSE None

Unlimited == -1

\* Memory, and swap alone, where compose has memory and swap together.
Limits(s) ==
  LET memory == IF s.deploy # None THEN s.deploy ELSE s.memory IN
  [memory |-> memory,
   swap |-> IF s.swap = None THEN None
            ELSE IF s.swap < 0 THEN Unlimited
            ELSE IF memory # None /\ s.swap >= memory THEN s.swap - memory ELSE None]

Settings(s) ==
  [stop |-> None, grace |-> s.grace, type |-> IF Live(s) THEN "notify" ELSE None,
   restart |-> RestartMode(s), delay |-> None, steps |-> 0, max |-> None,
   interval |-> None, burst |-> None, healthy |-> Live(s),
   bounded |-> StartLimit(s) # None, startup |-> StartLimit(s), limits |-> Limits(s),
   serviceBurst |-> IF s.restart = "on-failure" THEN s.retries ELSE None]

\* Mutant: a healthy dependency is only ordered, like a completed one.
OrderHealthy(c, s) ==
  UNION {(IF s.depends[d] \in {"completed", "healthy"} THEN {"After"} ELSE {"After", "Requires"})
           \X {ServiceOf(c, "container", d)} : d \in DOMAIN s.depends}

DependsOn(c, s) ==
  UNION {(IF s.depends[d] = "completed" THEN {"After"} ELSE {"After", "Requires"})
           \X {ServiceOf(c, "container", d)} : d \in DOMAIN s.depends}

ContainerOf(c, n) ==
  LET s == c.services[n] mounts == ServiceMounts(c, s) IN
  [image |-> IF s.build # None THEN FileOf(c, "build", n) ELSE s.image,
   name |-> IF s.name # None THEN s.name ELSE "systemd-" \o StemOf(c, "container", n),
   networks |-> ServiceNetworks(c, s), mounts |-> mounts,
   volumes |-> {m[1] : m \in mounts} \cap {FileOf(c, "volume", v) : v \in Names(c, "volume")},
   secrets |-> {SecretName(c, x) : x \in s.secrets},
   settings |-> Settings(s), deps |-> DependsOn(c, s)]

BuildOf(c, n) ==
  LET s == c.services[n] IN
  [tags |-> ({s.image} \ {None}) \cup s.build.tags, inputs |-> s.build.inputs,
   networks |-> {FileOf(c, "network", x) : x \in {s.build.network} \cap DOMAIN c.networks}]

\* An external resource is adopted by its name, another one if names are preserved.
Adopted(c, r) == IF r.external \/ c.preserve THEN r.name ELSE None

VolumeOf(c, n) ==
  [name |-> IF n \in DOMAIN c.volumes THEN Adopted(c, c.volumes[n]) ELSE None]

NetworkOf(c, n) == [name |-> Adopted(c, c.networks[n])]

-----------------------------------------------------------------------------
(* The quadlet.                                                             *)

Body(c, kind, n) ==
  CASE kind = "container" -> ContainerOf(c, n)
    [] kind = "build"     -> BuildOf(c, n)
    [] kind = "volume"    -> VolumeOf(c, n)
    [] kind = "network"   -> NetworkOf(c, n)

\* Of a singular kind only the first unit is written.
Written(c, kind) ==
  IF kind = "volume" /\ Singular(c, kind) THEN DOMAIN c.volumes ELSE Names(c, kind)

\* What CUE makes of the names under one key: they are unified.  A name has to be a
\* unit's name, and the primary unit's is the quadlet's; an image is required, and
\* [Service] has no StartLimitBurst.
Unifies(c, kind, names) ==
  LET fields == {n \in names : KeysOf(c, kind)[n] # n} IN
  /\ Cardinality({Body(c, kind, n) : n \in names}) = 1
  /\ Cardinality(fields) <= 1
  /\ Anonymous \notin names
  /\ Singular(c, kind) => fields \subseteq {c.name}
  /\ kind = "container" => \A n \in names :
       /\ Body(c, kind, n).image # None
       /\ Body(c, kind, n).settings.serviceBurst = None

UnitsOf(c, kind) ==
  LET Under(n) == {x \in Written(c, kind) : KeysOf(c, kind)[x] = KeysOf(c, kind)[n]} IN
  {LET n == CHOOSE x \in Under(name) : TRUE IN
     Over(Over(Plain,
       [value |-> c.name, quadlet |-> c.name, kind |-> kind, stem |-> StemOf(c, kind, n),
        file |-> FileOf(c, kind, n), service |-> ServiceOf(c, kind, n),
        valid |-> Unifies(c, kind, Under(name))]), Body(c, kind, n)) :
   name \in Written(c, kind)}

Convert(c) == UNION {UnitsOf(c, kind) : kind \in {"container", "build", "volume", "network"}}

-----------------------------------------------------------------------------
(* Variables.  A token is a name, an operator, the default and the ${}      *)
(* tokens in the default.  tokens are those of the fields that are lifted,  *)
(* in the order they are mapped; verbatim are those of the fields that are  *)
(* quoted as they stand, which stay in the units.  discovered: no compose   *)
(* file was named.                                                          *)

HasDefault(t) == t.op = "-"

Unseen == [default |-> None, bare |-> FALSE, warned |-> FALSE]

\* Mutant: a default is taken after a bare occurrence as well.
RecordAny(v, default) ==
  LET bare == v.bare \/ default = None
      kept == IF v.default = None THEN default ELSE v.default
      mixed == bare /\ kept # None /\ ~v.warned
  IN [default |-> IF mixed THEN None ELSE kept, bare |-> bare, warned |-> v.warned \/ mixed]

\* One more occurrence of a variable.
Occurs(v, default) ==
  LET bare == v.bare \/ default = None
      kept == IF v.default = None /\ ~v.bare THEN default ELSE v.default
      mixed == bare /\ (v.default # None \/ default # None) /\ ~v.warned
  IN [default |-> IF mixed THEN None ELSE kept, bare |-> bare, warned |-> v.warned \/ mixed]

\* The env struct, of what is lifted: a default with tokens of its own is dropped.
Env(c) ==
  LET tokens == IF c.resolve THEN <<>> ELSE c.tokens
      env[i \in 0 .. Len(tokens)] ==
        IF i = 0 THEN [n \in {t.name : t \in Range(tokens)} |-> Unseen]
        ELSE LET t == tokens[i] IN
             [env[i - 1] EXCEPT ![t.name] =
                Occurs(@, IF HasDefault(t) /\ t.inner = {} THEN t.default ELSE None)]
  IN env[Len(tokens)]

\* The fields that the user has to fill in before the project is concrete.
Required(c) == {n \in DOMAIN Env(c) : Env(c)[n].default = None}

\* Every token of the files that are named, with those in its default.
Scanned(c) ==
  UNION {{t} \cup t.inner :
           t \in IF c.discovered THEN {} ELSE Range(c.tokens) \cup c.verbatim}

\* With values baked in: the variables that may have come to nothing, which the
\* report names.
Empties(c) == {t.name : t \in {x \in Scanned(c) : ~HasDefault(x)}}
=============================================================================
