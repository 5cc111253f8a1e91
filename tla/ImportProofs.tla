----------------------------- MODULE ImportProofs -----------------------------
(***************************************************************************)
(* What `crei import compose` promises of every compose project: names     *)
(* that compose keeps apart become keys, files and services apart, and     *)
(* depends_on is enforced and stays so whatever is written, replaced and   *)
(* followed afterwards.  Lint never takes out what the import relies on:   *)
(* what it calls redundant the imported units imply without it.            *)
(***************************************************************************)
EXTENDS LintProofs

-----------------------------------------------------------------------------
(* Keys.                                                                    *)

\* A number that is not taken is found: there is one more than there are names.
LEMMA NumberedIsNew ==
  ASSUME NEW base, NEW used, IsFiniteSet(used),
         \A i, j \in 2 .. 2 + Cardinality(used) :
           WithNumber(base, i) = WithNumber(base, j) => i = j
  PROVE  Numbered(base, used) \notin used
  <1> DEFINE k == Cardinality(used)
             free == {i \in 2 .. 2 + k : WithNumber(base, i) \notin used}
  <1>1. k \in Nat
    BY FS_CardinalityType
  <1>2. free # {}
    <2> SUFFICES ASSUME free = {} PROVE FALSE
      OBVIOUS
    <2> DEFINE S == 2 .. 2 + k
               f == [i \in S |-> WithNumber(base, i)]
    <2> HIDE DEF k
    <2>1. IsFiniteSet(S) /\ Cardinality(S) = k + 1
      BY <1>1, FS_Interval
    <2>2. f \in [S -> used]
      OBVIOUS
    <2>3. Cardinality(used) < Cardinality(S)
      BY <1>1, <2>1 DEF k
    <2> HIDE DEF f, S
    <2>4. ASSUME NEW g \in [S -> used] PROVE \E x, y \in S : x # y /\ g[x] = g[y]
      BY <2>1, <2>3, FS_PigeonHole
    <2>5. PICK x \in S, y \in S : x # y /\ f[x] = f[y]
      BY <2>2, <2>4
    <2> QED
      BY <2>5 DEF f, S, k
  <1>3. free \in SUBSET Nat
    BY <1>1
  <1>4. Min(free) \in free
    <2> HIDE DEF free
    <2> QED
      BY <1>2, <1>3, LeastOf
  <1> QED
    BY <1>4 DEF Numbered

\* No key is given out twice.
LEMMA NextKeyIsNew ==
  ASSUME NEW name \in DOMAIN Place, NEW used, IsFiniteSet(used),
         Cardinality(used) <= Cardinality(DOMAIN Place)
  PROVE  NextKey(name, used) \notin used
  <1> DEFINE key == IF Identifier[name] \in used THEN name ELSE Identifier[name]
  <1>1. key \in DOMAIN Place \cup {Identifier[n] : n \in DOMAIN Place}
    OBVIOUS
  <1> HIDE DEF key
  <1>2. Cardinality(used) \in Nat /\ Cardinality(DOMAIN Place) \in Nat
    BY NamesAssumption, FS_CardinalityType DEF NamesAssumption
  <1>3. \A i \in 2 .. 2 + Cardinality(used) : i \in 2 .. 2 + Cardinality(DOMAIN Place)
    BY <1>2
  <1>4. \A i, j \in 2 .. 2 + Cardinality(used) :
          WithNumber(key, i) = WithNumber(key, j) => i = j
    BY <1>1, <1>3, NamesAssumption DEF NamesAssumption
  <1>5. Numbered(key, used) \notin used
    BY <1>4, NumberedIsNew
  <1> QED
    BY <1>5 DEF NextKey, key

\* Keys are given out one after another.
Lower(names, n) == {m \in names : Place[m] < Place[n]}
Given(key, names) == [n \in names |-> NextKey(n, {key[m] : m \in Lower(names, n)})]

\* They are given out to all names.
LEMMA KeysExist ==
  ASSUME NEW names \in SUBSET DOMAIN Place
  PROVE  \E key : key = Given(key, names)
  <1> DEFINE Upto(key, k) == /\ DOMAIN key = names
                             /\ \A n \in names : Place[n] < k => key[n] = Given(key, names)[n]
             S == {k \in Nat : \E key : key = [n \in names |-> key[n]] /\ Upto(key, k)}
  <1>1. \A n \in names : Place[n] \in Nat
    BY NamesAssumption, FS_CardinalityType DEF NamesAssumption
  <1>2. 0 \in S
    <2>1. [n \in names |-> n] = [n \in names |-> [m \in names |-> m][n]]
      OBVIOUS
    <2>2. Upto([n \in names |-> n], 0)
      BY <1>1
    <2> HIDE DEF Upto
    <2> QED
      BY <2>1, <2>2
  <1>3. ASSUME NEW k \in Nat, k \in S PROVE k + 1 \in S
    <2>1. PICK f : f = [n \in names |-> f[n]] /\ Upto(f, k)
      BY <1>3
    <2> DEFINE g == [n \in names |-> IF Place[n] = k THEN Given(f, names)[n] ELSE f[n]]
    <2>2. g = [n \in names |-> g[n]]
      OBVIOUS
    <2>3. ASSUME NEW n \in names, Place[n] < k + 1
          PROVE  g[n] = Given(g, names)[n]
      <3>1. \A m \in Lower(names, n) : g[m] = f[m]
        BY <1>1, <2>3 DEF Lower
      <3>2. {g[m] : m \in Lower(names, n)} = {f[m] : m \in Lower(names, n)}
        <4> HIDE DEF g
        <4> QED
          BY <3>1
      <3>3. Given(g, names)[n] = NextKey(n, {g[m] : m \in Lower(names, n)})
        <4> HIDE DEF g
        <4> QED
          BY DEF Given
      <3>4. Given(f, names)[n] = NextKey(n, {f[m] : m \in Lower(names, n)})
        BY DEF Given
      <3>5. Given(g, names)[n] = Given(f, names)[n]
        <4> HIDE DEF g
        <4> QED
          BY <3>2, <3>3, <3>4
      <3>6. CASE Place[n] = k
        <4>1. g[n] = Given(f, names)[n]
          BY <3>6
        <4> HIDE DEF g
        <4> QED
          BY <3>5, <4>1
      <3>7. CASE Place[n] # k
        <4>1. Place[n] < k
          BY <1>1, <2>3, <3>7
        <4>2. f[n] = Given(f, names)[n]
          BY <2>1, <4>1
        <4>3. g[n] = f[n]
          BY <3>7
        <4> HIDE DEF g
        <4> QED
          BY <3>5, <4>2, <4>3
      <3> QED
        BY <3>6, <3>7
    <2>4. DOMAIN g = names
      OBVIOUS
    <2> HIDE DEF g
    <2>5. Upto(g, k + 1)
      BY <2>3, <2>4
    <2> HIDE DEF Upto
    <2> QED
      BY <2>2, <2>5
  <1>4. Nat \subseteq S
    <2> HIDE DEF S
    <2> QED
      BY <1>2, <1>3, AllNumbers
  <1> DEFINE k == Cardinality(DOMAIN Place) + 1
  <1>5. k \in Nat /\ \A n \in names : Place[n] < k
    BY NamesAssumption, FS_CardinalityType DEF NamesAssumption
  <1>6. PICK f : f = [n \in names |-> f[n]] /\ Upto(f, k)
    <2> HIDE DEF k, Upto
    <2> QED
      BY <1>4, <1>5
  <1>7. \A n \in names : f[n] = Given(f, names)[n]
    BY <1>5, <1>6
  <1>8. [n \in names |-> f[n]] = Given(f, names)
    BY <1>7 DEF Given
  <1> QED
    BY <1>6, <1>8

\* Different names have different keys.
LEMMA KeysAreApart ==
  ASSUME NEW names \in SUBSET DOMAIN Place
  PROVE  /\ DOMAIN Keys(names) = names
         /\ \A m, n \in names : Keys(names)[m] = Keys(names)[n] => m = n
  <1> DEFINE key == Keys(names)
  <1>1. key = Given(key, names)
    <2>1. key = CHOOSE f : f = Given(f, names)
      BY DEF Keys, Given, Lower
    <2> HIDE DEF key
    <2> QED
      BY <2>1, KeysExist
  <1> HIDE DEF key
  <1>2. DOMAIN key = names
    <2>1. DOMAIN Given(key, names) = names
      BY DEF Given
    <2> QED
      BY <1>1, <2>1
  <1>3. ASSUME NEW m \in names, NEW n \in names, Place[m] < Place[n]
        PROVE  key[m] # key[n]
    <2> DEFINE lower == Lower(names, n)
               used == {key[x] : x \in lower}
               image == [x \in lower |-> key[x]]
    <2>1. key[n] = NextKey(n, used)
      <3>1. Given(key, names)[n] = NextKey(n, used)
        BY DEF Given
      <3> QED
        BY <1>1, <3>1
    <2>2. lower \in SUBSET DOMAIN Place
      BY DEF Lower
    <2>3. IsFiniteSet(lower) /\ Cardinality(lower) <= Cardinality(DOMAIN Place)
            /\ Cardinality(lower) \in Nat /\ Cardinality(DOMAIN Place) \in Nat
      BY <2>2, NamesAssumption, FS_Subset, FS_CardinalityType DEF NamesAssumption
    <2>4. image \in Surjection(lower, used)
      BY DEF Surjection
    <2>5. IsFiniteSet(used) /\ Cardinality(used) <= Cardinality(lower)
      <3> HIDE DEF used, lower, image
      <3> QED
        BY <2>3, <2>4, FS_Surjection
    <2>6. Cardinality(used) \in Nat
      BY <2>5, FS_CardinalityType
    <2>7. Cardinality(used) <= Cardinality(DOMAIN Place)
      <3> HIDE DEF used, lower
      <3> QED
        BY <2>3, <2>5, <2>6
    <2>8. key[n] \notin used
      <3> HIDE DEF used
      <3> QED
        BY <2>1, <2>5, <2>7, NextKeyIsNew
    <2>9. key[m] \in used
      BY <1>3 DEF Lower
    <2> QED
      BY <2>8, <2>9
  <1>4. ASSUME NEW m \in names, NEW n \in names, m # n
        PROVE  key[m] # key[n]
    <2>1. Place[m] # Place[n] /\ Place[m] \in Nat /\ Place[n] \in Nat
      BY <1>4, NamesAssumption, FS_CardinalityType DEF NamesAssumption
    <2>2. Place[m] < Place[n] \/ Place[n] < Place[m]
      BY <2>1
    <2> QED
      BY <1>3, <2>2
  <1> QED
    BY <1>2, <1>4 DEF key

-----------------------------------------------------------------------------
(* What is converted.                                                       *)

Kinds == {"container", "build", "volume", "network"}

\* What a unit is but for its directives and its hashes.
Like(u, v) ==
  /\ DOMAIN v = DOMAIN u
  /\ \A f \in DOMAIN u \ {"deps", "stamp", "assets", "context"} : v[f] = u[f]

\* The unit of a name.
Converted(c, kind, n) ==
  Over(Over(Plain,
    [value |-> c.name, quadlet |-> c.name, kind |-> kind, stem |-> StemOf(c, kind, n),
     file |-> FileOf(c, kind, n), service |-> ServiceOf(c, kind, n),
     valid |-> Unifies(c, kind, {n})]), Body(c, kind, n))

\* Names have places, and the names of a kind have keys of their own.
LEMMA NamesAre ==
  ASSUME NEW c \in Composes, NEW kind \in Kinds
  PROVE  /\ Names(c, kind) \subseteq DOMAIN Place
         /\ Written(c, kind) \subseteq Names(c, kind)
         /\ \A m, n \in Names(c, kind) : KeysOf(c, kind)[m] = KeysOf(c, kind)[n] => m = n
  <1>1. /\ DOMAIN c.services \subseteq DOMAIN Place
        /\ Names(c, "volume") \subseteq DOMAIN Place
        /\ DOMAIN c.networks \subseteq DOMAIN Place
    BY ImportAssumption DEF ImportAssumption, Consistent
  <1>2. Names(c, kind) \subseteq DOMAIN Place
    <2>1. CASE kind = "volume"
      BY <1>1, <2>1
    <2>2. CASE kind # "volume"
      BY <1>1, <2>2 DEF Names, Kinds
    <2> QED
      BY <2>1, <2>2
  <1>3. Written(c, kind) \subseteq Names(c, kind)
    BY DEF Written, Names
  <1>4. CASE kind = "build"
    <2>1. Names(c, kind) \subseteq DOMAIN c.services /\ KeysOf(c, kind) = Keys(DOMAIN c.services)
      BY <1>4 DEF Names, KeysOf
    <2> QED
      BY <1>1, <1>2, <1>3, <2>1, KeysAreApart
  <1>5. CASE kind # "build"
    <2>1. KeysOf(c, kind) = Keys(Names(c, kind))
      BY <1>5 DEF KeysOf
    <2> QED
      BY <1>2, <1>3, <2>1, KeysAreApart
  <1> QED
    BY <1>4, <1>5

\* A unit bears its name: a key that is not the name has the name beside it.
LEMMA StemIs ==
  ASSUME NEW c \in Composes, NEW kind \in Kinds, NEW n \in Names(c, kind)
  PROVE  StemOf(c, kind, n) = IF Singular(c, kind) THEN c.name ELSE c.name \o "-" \o n
  <1> DEFINE key == KeysOf(c, kind)[n]
             fields == NameFields(c, kind, key)
  <1>1. CASE key = n
    <2>1. fields = {}
      BY <1>1, NamesAre DEF NameFields
    <2> QED
      BY <1>1, <2>1 DEF StemOf
  <1>2. CASE key # n
    <2>1. fields = {n}
      BY <1>2, NamesAre DEF NameFields
    <2>2. (CHOOSE x \in fields : TRUE) = n /\ fields # {}
      <3> HIDE DEF fields
      <3> QED
        BY <2>1
    <2> QED
      BY <2>2 DEF StemOf
  <1> QED
    BY <1>1, <1>2

\* What is converted is a unit for each name.
LEMMA ConvertIs ==
  ASSUME NEW c \in Composes
  PROVE  /\ \A kind \in Kinds : \A n \in Written(c, kind) : Converted(c, kind, n) \in Convert(c)
         /\ \A u \in Convert(c) :
              \E kind \in Kinds : \E n \in Written(c, kind) : u = Converted(c, kind, n)
  <1>1. ASSUME NEW kind \in Kinds
        PROVE  UnitsOf(c, kind) = {Converted(c, kind, n) : n \in Written(c, kind)}
    <2> DEFINE Under(n) == {x \in Written(c, kind) : KeysOf(c, kind)[x] = KeysOf(c, kind)[n]}
               made(name) == LET n == CHOOSE x \in Under(name) : TRUE IN
                 Over(Over(Plain,
                   [value |-> c.name, quadlet |-> c.name, kind |-> kind,
                    stem |-> StemOf(c, kind, n), file |-> FileOf(c, kind, n),
                    service |-> ServiceOf(c, kind, n),
                    valid |-> Unifies(c, kind, Under(name))]), Body(c, kind, n))
    <2>1. \A n \in Written(c, kind) : Under(n) = {n}
      BY NamesAre
    <2>2. UnitsOf(c, kind) = {made(n) : n \in Written(c, kind)}
      BY DEF UnitsOf
    <2>3. ASSUME NEW n \in Written(c, kind) PROVE made(n) = Converted(c, kind, n)
      <3>1. (CHOOSE x \in {n} : TRUE) = n
        OBVIOUS
      <3>2. Under(n) = {n}
        BY <2>1
      <3> HIDE DEF Under
      <3> QED
        BY <3>1, <3>2 DEF Converted
    <2> HIDE DEF made
    <2> QED
      BY <2>2, <2>3
  <1>2. Convert(c) = UNION {UnitsOf(c, kind) : kind \in Kinds}
    BY DEF Convert, Kinds
  <1> QED
    BY <1>1, <1>2

\* What the unit of a name is, and what its body has.
LEMMA ConvertedAre ==
  ASSUME NEW c, NEW kind \in Kinds, NEW n
  PROVE  /\ Fields \subseteq DOMAIN Converted(c, kind, n)
         /\ Converted(c, kind, n).value = c.name /\ Converted(c, kind, n).kind = kind
         /\ Converted(c, kind, n).stem = StemOf(c, kind, n)
         /\ Converted(c, kind, n).file = FileOf(c, kind, n)
         /\ Converted(c, kind, n).service = ServiceOf(c, kind, n)
  <1> DEFINE own == [value |-> c.name, quadlet |-> c.name, kind |-> kind,
                     stem |-> StemOf(c, kind, n), file |-> FileOf(c, kind, n),
                     service |-> ServiceOf(c, kind, n), valid |-> Unifies(c, kind, {n})]
             body == Body(c, kind, n)
             u == Over(Over(Plain, own), body)
  <1>1. u = Converted(c, kind, n)
    BY DEF Converted
  <1>2. DOMAIN own = {"value", "quadlet", "kind", "stem", "file", "service", "valid"}
    OBVIOUS
  <1>3. DOMAIN body \cap {"value", "quadlet", "kind", "stem", "file", "service"} = {}
    BY DEF Body, ContainerOf, BuildOf, VolumeOf, NetworkOf, Kinds
  <1>4. /\ own.value = c.name /\ own.kind = kind /\ own.stem = StemOf(c, kind, n)
        /\ own.file = FileOf(c, kind, n) /\ own.service = ServiceOf(c, kind, n)
    OBVIOUS
  <1> HIDE DEF own, body
  <1>5. DOMAIN u = (DOMAIN Plain \cup DOMAIN own) \cup DOMAIN body
    BY DEF Over
  <1>6. \A f \in DOMAIN own \ DOMAIN body : u[f] = own[f]
    BY DEF Over
  <1> HIDE DEF u
  <1>7. /\ u.value = own.value /\ u.kind = own.kind /\ u.stem = own.stem
        /\ u.file = own.file /\ u.service = own.service
    BY <1>2, <1>3, <1>6
  <1> QED
    BY <1>1, <1>2, <1>4, <1>5, <1>7 DEF Fields

LEMMA ConvertedHas ==
  ASSUME NEW c, NEW kind, NEW n
  PROVE  /\ DOMAIN Body(c, kind, n) \subseteq DOMAIN Converted(c, kind, n)
         /\ \A f \in DOMAIN Body(c, kind, n) : Converted(c, kind, n)[f] = Body(c, kind, n)[f]
  BY DEF Converted, Over

\* If there is one unit of a kind, one is written.
LEMMA SingularIs ==
  ASSUME NEW c \in Composes, NEW kind \in Kinds, Singular(c, kind)
  PROVE  \E x : Written(c, kind) = {x}
  <1>1. IsFiniteSet(Names(c, kind))
    BY NamesAre, NamesAssumption, FS_Subset DEF NamesAssumption
  <1>2. IsFiniteSet(Written(c, kind))
    BY <1>1, NamesAre, FS_Subset
  <1>3. Cardinality(Written(c, kind)) = 1
    BY DEF Singular, Written, Names, Kinds
  <1> QED
    BY <1>2, <1>3, FS_Singleton

\* The unit that a name leads to, and the only one whose stem that can be.
LEMMA LeadsTo ==
  ASSUME NEW c \in Composes, NEW kind \in Kinds, NEW n \in Names(c, kind)
  PROVE  \E x \in Written(c, kind) :
           /\ StemOf(c, kind, x) = StemOf(c, kind, n)
           /\ n \in Written(c, kind) => x = n
           /\ \A y \in Written(c, kind) :
                StemOf(c, kind, y) \in {c.name, c.name \o "-" \o n} <=> y = x
  <1>1. Written(c, kind) \subseteq Names(c, kind) /\ Names(c, kind) \subseteq DOMAIN Place
    BY NamesAre
  <1>2. CASE Singular(c, kind)
    <2>1. PICK x : Written(c, kind) = {x}
      BY <1>2, SingularIs
    <2>2. StemOf(c, kind, x) = c.name /\ StemOf(c, kind, n) = c.name
      BY <1>1, <1>2, <2>1, StemIs
    <2> QED
      BY <2>1, <2>2
  <1>3. CASE ~Singular(c, kind)
    <2>1. n \in Written(c, kind)
      BY <1>3 DEF Written
    <2>2. \A y \in Written(c, kind) : StemOf(c, kind, y) = c.name \o "-" \o y
      BY <1>1, <1>3, StemIs
    <2>3. \A y \in Written(c, kind) : /\ c.name \o "-" \o y # c.name
                                      /\ c.name \o "-" \o y = c.name \o "-" \o n => y = n
      BY <1>1, ImportAssumption DEF ImportAssumption, Consistent
    <2> QED
      BY <2>1, <2>2, <2>3
  <1> QED
    BY <1>2, <1>3

-----------------------------------------------------------------------------
(* What becomes of an imported unit.                                        *)

LEMMA LikeOnce == \A u : Like(u, u)
  BY DEF Like

LEMMA LikeOnward ==
  ASSUME NEW u, NEW v, NEW w, Like(u, v), Like(v, w)
  PROVE  Like(u, w)
  BY DEF Like

LEMMA TrimLeaves ==
  ASSUME NEW u, NEW D
  PROVE  Like(u, Trimmed(u, D))
  BY DEF Like, Trimmed

LEMMA LoadLeaves ==
  ASSUME NEW us, NEW contents, NEW u
  PROVE  Like(u, Evaluated(u, us, contents))
  <1> DEFINE e == ExpandAssets(u, contents)  U == Expanded(us, contents)
  <1>1. Like(u, e)
    <2> DEFINE found == {<<x[1], contents[x[2]]>> : x \in UNION {Matches[g] : g \in u.assets}}
    <2>1. e = [u EXCEPT !.assets = {}, !.context = @ \cup found]
      BY DEF ExpandAssets
    <2> HIDE DEF found
    <2> QED
      BY <2>1 DEF Like
  <1> HIDE DEF e, U
  <1>2. Like(e, Stamp(U, e))
    <2> DEFINE builders == BuildersOf(U, e)
               added == UNION {TagDeps(e, b) : b \in builders}
               s == [e EXCEPT !.stamp = HashData(e)]
               t == [e EXCEPT !.stamp = HashData(CHOOSE b \in builders : TRUE),
                              !.deps = @ \cup added]
    <2>1. Stamp(U, e) \in {s, t, e}
      BY DEF Stamp
    <2>2. Like(e, s) /\ Like(e, e)
      BY DEF Like
    <2>3. Like(e, t)
      <3> HIDE DEF added, builders
      <3> QED
        BY DEF Like
    <2> HIDE DEF s, t
    <2> QED
      BY <2>1, <2>2, <2>3
  <1> QED
    BY <1>1, <1>2, LikeOnward DEF Evaluated, e, U

\* The fields of a unit that has been imported.
LEMMA LikeHas ==
  ASSUME NEW u, NEW v, Like(u, v), Fields \subseteq DOMAIN u
  PROVE  /\ v.value = u.value /\ v.kind = u.kind /\ v.stem = u.stem /\ v.file = u.file
         /\ v.service = u.service /\ v.settings = u.settings /\ v.image = u.image
         /\ v.pod = u.pod /\ v.networks = u.networks /\ v.volumes = u.volumes
         /\ v.defaults = u.defaults /\ v.name = u.name
  <1>1. {"value", "kind", "stem", "file", "service", "settings", "image", "pod", "networks",
         "volumes", "defaults", "name"} \subseteq DOMAIN u
    BY DEF Fields, Plain
  <1> QED
    BY <1>1 DEF Like

-----------------------------------------------------------------------------
(* The inductive invariant of an import.                                    *)

\* What is left of an imported unit: the directives that lint called redundant may
\* have gone, and each is implied by what the import itself made of the unit.
Remnant(c, v, w) ==
  /\ Like(v, w)
  /\ \A d \in v.deps : d \in w.deps \/ Covered(d, Implied(v, Convert(c)))

Remains(c) ==
  /\ \A w \in units : w.value = c.name => \E v \in Convert(c) : Remnant(c, v, w)
  /\ \A v \in Convert(c) : \E w \in units : Like(v, w)

ImportInv == imported # None => Remains(imported)

\* Services are unique when loaded, if they were.
LEMMA LoadedServices ==
  ASSUME NEW us, \A v \in us : Fields \subseteq DOMAIN v, NEW contents, UniqueServices(us)
  PROVE  \A x, y \in Evaluate(us, contents) :
           x.service = y.service /\ x.service # None => x = y
  <1>1. Evaluate(us, contents) = {Evaluated(u, us, contents) : u \in us}
    BY LoadedUnits
  <1>2. \A u \in us : Evaluated(u, us, contents).service = u.service
    <2>1. \A u \in us : Same(u, Evaluated(u, us, contents))
      BY LoadedUnits
    <2> QED
      BY <2>1 DEF Same
  <1> QED
    BY <1>1, <1>2 DEF UniqueServices

\* The directives of an imported unit are about services of the import.
LEMMA DirectivesAre ==
  ASSUME NEW c \in Composes, NEW v \in Convert(c), NEW d \in v.deps
  PROVE  \E y \in Convert(c) : y.service = d[2] /\ d[2] # None
  <1>0. PICK kind \in Kinds : \E n \in Written(c, kind) : v = Converted(c, kind, n)
    BY ConvertIs
  <1>1. PICK n \in Written(c, kind) : v = Converted(c, kind, n)
    BY <1>0
  <1>2. CASE kind = "container"
    <2> DEFINE s == c.services[n]
    <2>1. Body(c, kind, n) = ContainerOf(c, n)
      BY <1>2 DEF Body
    <2>2. "deps" \in DOMAIN ContainerOf(c, n) /\ ContainerOf(c, n).deps = DependsOn(c, s)
      BY DEF ContainerOf
    <2>3. v.deps = DependsOn(c, s)
      BY <1>1, <2>1, <2>2, ConvertedHas
    <2>4. PICK x \in DOMAIN s.depends : d[2] = ServiceOf(c, "container", x)
      BY <2>3 DEF DependsOn
    <2>5. n \in DOMAIN c.services
      BY <1>2 DEF Written, Names
    <2>6. x \in DOMAIN c.services
      <3>1. s \in Range(c.services)
        BY <2>5 DEF Range
      <3> QED
        BY <3>1, ImportAssumption DEF ImportAssumption, Consistent
    <2> DEFINE y == Converted(c, "container", x)
    <2>7. x \in Written(c, "container") /\ "container" \in Kinds
      BY <2>6 DEF Written, Names, Kinds
    <2>8. y \in Convert(c)
      BY <2>7, ConvertIs
    <2>9. y.service = ServiceOf(c, "container", x)
      BY <2>7, ConvertedAre
    <2>10. y.service # None
      BY <2>8, ImportAssumption DEF ImportAssumption
    <2> QED
      BY <2>4, <2>8, <2>9, <2>10
  <1>3. CASE kind # "container"
    <2> DEFINE own == [value |-> c.name, quadlet |-> c.name, kind |-> kind,
                       stem |-> StemOf(c, kind, n), file |-> FileOf(c, kind, n),
                       service |-> ServiceOf(c, kind, n), valid |-> Unifies(c, kind, {n})]
               body == Body(c, kind, n)
    <2>1. v = Over(Over(Plain, own), body)
      BY <1>1 DEF Converted
    <2>2. "deps" \notin DOMAIN own
      OBVIOUS
    <2>3. "deps" \notin DOMAIN body
      BY <1>3 DEF Body, BuildOf, VolumeOf, NetworkOf, Kinds
    <2>4. "deps" \in DOMAIN Plain /\ Plain.deps = {}
      BY DEF Plain
    <2> HIDE DEF own, body
    <2>5. v.deps = Plain.deps
      BY <2>1, <2>2, <2>3, <2>4 DEF Over
    <2> QED
      BY <2>4, <2>5
  <1> QED
    BY <1>2, <1>3

\* Nothing outside the import implies a directive about a service of the import.
LEMMA ImpliedWithin ==
  ASSUME NEW A, NEW all, NEW v \in A, NEW w \in all, Alike(v, w),
         \A x \in A : \E y \in all : Alike(x, y),
         \A x, y \in all : x.service = y.service /\ x.service # None => x = y,
         NEW d \in Implied(w, all), NEW z \in A, d[2] = z.service, d[2] # None
  PROVE  d \in Implied(v, A)
  <1>1. Resources(v) = Resources(w) /\ v.defaults = w.defaults
    BY DEF Alike, Resources
  <1>2. ASSUME NEW rel, d[2] \in ServicesBy(w, all, rel)
        PROVE  d[2] \in ServicesBy(v, A, rel)
    <2>1. PICK y \in all : y.service = d[2] /\ <<rel, y.file>> \in Resources(w)
      BY <1>2 DEF ServicesBy
    <2>2. PICK t \in all : Alike(z, t)
      OBVIOUS
    <2>3. t = y
      BY <2>1, <2>2 DEF Alike
    <2>4. z.file = y.file
      BY <2>2, <2>3 DEF Alike
    <2> QED
      BY <1>1, <2>1, <2>4 DEF ServicesBy
  <1>3. CASE d \in {"BindsTo", "After"} \X ServicesBy(w, all, "pod")
    <2>1. d \in {"BindsTo", "After"} \X ServicesBy(v, A, "pod")
      BY <1>2, <1>3
    <2> QED
      BY <2>1 DEF Implied
  <1>4. CASE d \in {"Requires", "After"} \X
               (UNION {ServicesBy(w, all, r) : r \in {"image", "network", "volume"}})
    <2>1. d[2] \in UNION {ServicesBy(v, A, r) : r \in {"image", "network", "volume"}}
      BY <1>2, <1>4
    <2>2. d \in {"Requires", "After"} \X
            (UNION {ServicesBy(v, A, r) : r \in {"image", "network", "volume"}})
      BY <1>4, <2>1
    <2> QED
      BY <2>2 DEF Implied
  <1>5. CASE d \in (IF w.defaults THEN {"After", "Wants"} \X Online ELSE {})
    BY <1>1, <1>5 DEF Implied
  <1> QED
    BY <1>3, <1>4, <1>5 DEF Implied

\* What lint removes from an imported unit is implied by the import.
LEMMA RemovedWithin ==
  ASSUME NEW c \in Composes, IInv, Loads, Remains(c),
         NEW u \in units, NEW f \in LintCommand(Loaded, {}),
         NEW v \in Convert(c), Like(v, u),
         NEW d \in v.deps, d \in u.deps, d \in About(u, f)
  PROVE  Covered(d, Implied(v, Convert(c)))
  <1> DEFINE w == Evaluated(u, units, assets)
  <1>1. Covered(d, Implied(w, Loaded))
    BY RemovedIsCovered
  <1>2. PICK z \in Convert(c) : z.service = d[2] /\ d[2] # None
    BY DirectivesAre
  <1>3. Loaded = {Evaluated(x, units, assets) : x \in units}
    BY LoadedAre DEF Loaded
  <1>4. \A x, y \in Loaded : x.service = y.service /\ x.service # None => x = y
    <2>1. UniqueServices(units) /\ \A x \in units : Fields \subseteq DOMAIN x
      BY DEF Loads, LoadFails, IInv, Sound
    <2> QED
      BY <2>1, LoadedServices DEF Loaded
  <1>5. \A x \in Convert(c) : Fields \subseteq DOMAIN x
    BY LintAssumption DEF LintAssumption, Writable, Fields
  <1>6. ASSUME NEW x \in Convert(c), NEW t \in units, Like(x, t)
        PROVE  Alike(x, Evaluated(t, units, assets))
    <2>1. Like(x, Evaluated(t, units, assets))
      BY <1>6, LoadLeaves, LikeOnward
    <2> QED
      BY <1>5, <2>1, LikeHas DEF Alike
  <1>7. w \in Loaded /\ Alike(v, w)
    BY <1>3, <1>6
  <1>8. \A x \in Convert(c) : \E y \in Loaded : Alike(x, y)
    BY <1>3, <1>6 DEF Remains
  <1> HIDE DEF w
  <1>9. ASSUME NEW e \in Implied(w, Loaded), e[2] = d[2]
        PROVE  e \in Implied(v, Convert(c))
    BY <1>2, <1>4, <1>7, <1>8, <1>9, ImpliedWithin
  <1>10. \A r : <<r, d[2]>>[2] = d[2]
    OBVIOUS
  <1> QED
    BY <1>1, <1>9, <1>10 DEF Covered

\* An import is whole at first: there is none.
LEMMA ImportInitially == Init => ImportInv
  BY DEF Init, ImportInv

\* Whatever the author writes beside it and follows, it remains.
LEMMA ImportInductive == IInv /\ ImportInv /\ [Next]_vars => ImportInv'
  <1> SUFFICES ASSUME IInv, ImportInv, [Next]_vars, imported' # None
               PROVE  Remains(imported)'
    BY DEF ImportInv
  <1> DEFINE c == imported
  <1>1. CASE Import
    <2>1. PICK k \in Composes : /\ imported' = k
                                /\ units' = {u \in units : u.value # k.name} \cup Convert(k)
      BY <1>1 DEF Import
    <2>2. \A w \in units' : w.value = k.name => w \in Convert(k)
      BY <2>1
    <2>3. \A w \in Convert(k) : Remnant(k, w, w)
      BY LikeOnce DEF Remnant
    <2>4. \A w \in Convert(k) : w \in units'
      BY <2>1
    <2> QED
      BY <2>1, <2>2, <2>3, <2>4, LikeOnce DEF Remains
  <1>2. CASE Write
    <2>1. imported' = c /\ c # None /\ c \in Composes /\ Remains(c)
      BY <1>2 DEF Write, ImportInv, IInv
    <2>2. PICK d \in Drafts :
            units' = {u \in units : ~(u.value = d.value /\ u.file = d.file)} \cup {d}
      BY <1>2 DEF Write
    <2>3. d.value # c.name
      BY <2>1, ImportAssumption DEF ImportAssumption
    <2>4. \A w \in units' : w.value = c.name => w \in units
      BY <2>2, <2>3
    <2>5. \A w \in units : w.value = c.name => w \in units'
      BY <2>2, <2>3
    <2>6. ASSUME NEW v \in Convert(c), NEW w \in units, Like(v, w) PROVE w.value = c.name
      <3>1. Fields \subseteq DOMAIN v
        BY <2>1, LintAssumption DEF LintAssumption, Writable, Fields
      <3>2. v.value = c.name
        BY <2>1, ConvertIs, ConvertedAre
      <3> QED
        BY <2>6, <3>1, <3>2, LikeHas
    <2>7. Remains(c)'
      BY <2>1, <2>4, <2>5, <2>6 DEF Remains
    <2> QED
      BY <2>1, <2>7
  <1>3. CASE Follow
    <2>1. imported' = c /\ c # None /\ c \in Composes /\ Remains(c) /\ Loads
      BY <1>3 DEF Follow, ImportInv, IInv
    <2>2. PICK u \in units, f \in LintCommand(Loaded, {}) :
            units' = (units \ {u}) \cup {Trimmed(u, About(u, f))}
      BY <1>3 DEF Follow, Trimmed
    <2> DEFINE D == About(u, f)  t == Trimmed(u, D)
    <2>3. Fields \subseteq DOMAIN u
      BY DEF IInv, Sound
    <2>4. Like(u, t) /\ t.deps = u.deps \ D /\ t.value = u.value
      <3>1. Like(u, t)
        BY TrimLeaves
      <3> HIDE DEF D
      <3>2. t.deps = u.deps \ D
        BY <2>3, TrimKeeps
      <3> HIDE DEF t
      <3> QED
        BY <2>3, <3>1, <3>2, LikeHas
    <2> HIDE DEF D, t
    <2>5. ASSUME NEW v \in Convert(c), Remnant(c, v, u)
          PROVE  Remnant(c, v, t)
      <3>1. Like(v, t)
        BY <2>4, <2>5, LikeOnward DEF Remnant
      <3>2. ASSUME NEW d \in v.deps, d \notin t.deps
            PROVE  Covered(d, Implied(v, Convert(c)))
        <4>1. CASE d \in u.deps
          BY <2>1, <2>4, <2>5, <3>2, <4>1, RemovedWithin DEF Remnant, D
        <4>2. CASE d \notin u.deps
          BY <2>5, <4>2 DEF Remnant
        <4> QED
          BY <4>1, <4>2
      <3> QED
        BY <3>1, <3>2 DEF Remnant
    <2>6. \A w \in units' : w.value = c.name => \E v \in Convert(c) : Remnant(c, v, w)
      <3> SUFFICES ASSUME NEW w \in units', w.value = c.name
                   PROVE  \E v \in Convert(c) : Remnant(c, v, w)
        OBVIOUS
      <3>1. CASE w \in units
        BY <2>1, <3>1 DEF Remains
      <3>2. CASE w = t
        <4>1. PICK v \in Convert(c) : Remnant(c, v, u)
          BY <2>1, <2>4, <3>2 DEF Remains
        <4> QED
          BY <2>5, <3>2, <4>1
      <3> QED
        BY <2>2, <3>1, <3>2 DEF t, D
    <2>7. \A v \in Convert(c) : \E w \in units' : Like(v, w)
      <3> SUFFICES ASSUME NEW v \in Convert(c) PROVE \E w \in units' : Like(v, w)
        OBVIOUS
      <3>1. PICK w \in units : Like(v, w)
        BY <2>1 DEF Remains
      <3>2. CASE w = u
        BY <2>2, <2>4, <3>1, <3>2, LikeOnward DEF t, D
      <3>3. CASE w # u
        BY <2>2, <3>1, <3>3
      <3> QED
        BY <3>2, <3>3
    <2> QED
      BY <2>1, <2>6, <2>7 DEF Remains
  <1>4. CASE UNCHANGED <<units, imported>>
    BY <1>4 DEF ImportInv, Remains
  <1> QED
    BY <1>1, <1>2, <1>3, <1>4 DEF Next, vars, WriteAsset, FillIn

\* What is imported remains.
THEOREM ImportRemains == Spec => []ImportInv
  BY ImportInitially, ImportInductive, UnitsAreSound, PTL DEF Spec

-----------------------------------------------------------------------------
(* What an import keeps apart.                                              *)

\* The loaded units of an import are those of its names.
LEMMA ImportedIs ==
  ASSUME NEW c \in Composes, IInv, Remains(c),
         NEW t \in Loaded, t.value = c.name
  PROVE  \E kind \in Kinds : \E y \in Written(c, kind) :
           /\ Remnant(c, Converted(c, kind, y), t)
           /\ t.kind = kind /\ t.stem = StemOf(c, kind, y) /\ t.file = FileOf(c, kind, y)
  <1>1. Loaded = {Evaluated(x, units, assets) : x \in units}
    BY LoadedAre DEF Loaded
  <1>2. PICK w \in units : t = Evaluated(w, units, assets)
    BY <1>1
  <1>3. Like(w, t) /\ \A x \in units : Fields \subseteq DOMAIN x
    BY <1>2, LoadLeaves DEF IInv, Sound
  <1>4. t.value = w.value /\ w.deps \subseteq t.deps
    <2>1. t.deps = w.deps \cup Added(units, w)
      BY <1>2, <1>3, LoadedUnits
    <2> QED
      BY <1>3, <2>1, LikeHas
  <1>5. PICK v \in Convert(c) : Remnant(c, v, w)
    BY <1>4 DEF Remains
  <1>6. Remnant(c, v, t)
    BY <1>3, <1>4, <1>5, LikeOnward DEF Remnant
  <1>7. PICK kind \in Kinds : \E y \in Written(c, kind) : v = Converted(c, kind, y)
    BY ConvertIs
  <1>8. PICK y \in Written(c, kind) : v = Converted(c, kind, y)
    BY <1>7
  <1>9. Fields \subseteq DOMAIN v /\ v.kind = kind /\ v.stem = StemOf(c, kind, y)
          /\ v.file = FileOf(c, kind, y)
    BY <1>8, ConvertedAre
  <1>10. t.kind = v.kind /\ t.stem = v.stem /\ t.file = v.file
    BY <1>6, <1>9, LikeHas DEF Remnant
  <1> QED
    BY <1>6, <1>8, <1>9, <1>10

\* A name leads to one unit of the import.
LEMMA UnitIs ==
  ASSUME NEW c \in Composes, IInv, Remains(c), Loads,
         NEW kind \in Kinds, NEW n \in Names(c, kind)
  PROVE  \E x \in Written(c, kind) :
           /\ StemOf(c, kind, x) = StemOf(c, kind, n) /\ (n \in Written(c, kind) => x = n)
           /\ TheUnit(c, kind, n) \in Loaded
           /\ Bearing(c, <<kind, n>>) = {TheUnit(c, kind, n)}
           /\ Remnant(c, Converted(c, kind, x), TheUnit(c, kind, n))
  <1>1. PICK x \in Written(c, kind) :
          /\ StemOf(c, kind, x) = StemOf(c, kind, n)
          /\ n \in Written(c, kind) => x = n
          /\ \A y \in Written(c, kind) :
               StemOf(c, kind, y) \in {c.name, c.name \o "-" \o n} <=> y = x
    BY LeadsTo
  <1> DEFINE v == Converted(c, kind, x)
  <1>2. v \in Convert(c)
    BY ConvertIs
  <1>3. Fields \subseteq DOMAIN v /\ v.value = c.name /\ v.kind = kind
          /\ v.stem = StemOf(c, kind, x)
    BY ConvertedAre
  <1> HIDE DEF v
  <1>4. PICK w \in units : Like(v, w)
    BY <1>2 DEF Remains
  <1> DEFINE u == Evaluated(w, units, assets)
  <1>5. u \in Loaded
    <2>1. Loaded = {Evaluated(y, units, assets) : y \in units}
      BY LoadedAre DEF Loaded
    <2> QED
      BY <2>1
  <1>6. u.value = c.name /\ u.kind = kind /\ u.stem = StemOf(c, kind, x)
    <2>1. Like(v, u)
      BY <1>4, LoadLeaves, LikeOnward
    <2> HIDE DEF u
    <2> QED
      BY <1>3, <2>1, LikeHas
  <1> HIDE DEF u
  <1>7. UniqueFilenames(Loaded)
    <2>1. UniqueFilenames(units) /\ \A y \in units : Fields \subseteq DOMAIN y
      BY DEF Loads, LoadFails, IInv, Sound
    <2> QED
      BY <2>1, LoadedFiles DEF Loaded
  <1>8. ASSUME NEW t \in Loaded, t.value = c.name, t.kind = kind,
               t.stem \in {c.name, c.name \o "-" \o n}
        PROVE  Remnant(c, Converted(c, kind, x), t) /\ t.file = FileOf(c, kind, x)
    <2>1. PICK kd \in Kinds : \E y \in Written(c, kd) :
            /\ Remnant(c, Converted(c, kd, y), t)
            /\ t.kind = kd /\ t.stem = StemOf(c, kd, y) /\ t.file = FileOf(c, kd, y)
      BY <1>8, ImportedIs
    <2>2. kd = kind
      BY <1>8, <2>1
    <2>3. PICK y \in Written(c, kind) :
            /\ Remnant(c, Converted(c, kind, y), t)
            /\ t.stem = StemOf(c, kind, y) /\ t.file = FileOf(c, kind, y)
      BY <2>1, <2>2
    <2>4. y = x
      BY <1>1, <1>8, <2>3
    <2> QED
      BY <2>3, <2>4
  <1>9. u.stem \in {c.name, c.name \o "-" \o n}
    BY <1>1, <1>6
  <1>10. Bearing(c, <<kind, n>>) = {u}
    <2>1. Bearing(c, <<kind, n>>)
            = {t \in Loaded : /\ t.value = c.name /\ t.kind = kind
                              /\ t.stem \in {c.name, c.name \o "-" \o n}}
      BY DEF Bearing
    <2>2. u \in Bearing(c, <<kind, n>>)
      BY <1>5, <1>6, <1>9, <2>1
    <2>3. ASSUME NEW t \in Bearing(c, <<kind, n>>) PROVE t = u
      <3>1. t \in Loaded /\ t.file = FileOf(c, kind, x)
        BY <1>8, <2>1
      <3>2. u.file = FileOf(c, kind, x)
        BY <1>5, <1>6, <1>8, <1>9
      <3> QED
        BY <1>5, <1>7, <3>1, <3>2 DEF UniqueFilenames
    <2> QED
      BY <2>2, <2>3
  <1>11. TheUnit(c, kind, n) = u
    BY <1>10 DEF TheUnit
  <1>12. Remnant(c, Converted(c, kind, x), u)
    BY <1>5, <1>6, <1>8, <1>9
  <1> QED
    BY <1>1, <1>5, <1>10, <1>11, <1>12

\* The fields that the import gave a unit.
LEMMA GivenFields ==
  ASSUME NEW c, NEW kind \in Kinds, NEW x, NEW u, Remnant(c, Converted(c, kind, x), u)
  PROVE  /\ u.kind = kind /\ u.file = FileOf(c, kind, x)
         /\ u.service = ServiceOf(c, kind, x) /\ u.stem = StemOf(c, kind, x)
         /\ \A f \in DOMAIN Body(c, kind, x) \ {"deps"} : u[f] = Body(c, kind, x)[f]
  <1> DEFINE v == Converted(c, kind, x)
  <1>1. /\ Fields \subseteq DOMAIN v
        /\ v.kind = kind /\ v.file = FileOf(c, kind, x) /\ v.service = ServiceOf(c, kind, x)
        /\ v.stem = StemOf(c, kind, x)
    BY ConvertedAre
  <1>0. /\ DOMAIN Body(c, kind, x) \subseteq DOMAIN v
        /\ \A f \in DOMAIN Body(c, kind, x) : v[f] = Body(c, kind, x)[f]
    BY ConvertedHas
  <1>2. Like(v, u)
    BY DEF Remnant
  <1> HIDE DEF v
  <1>3. DOMAIN Body(c, kind, x) \cap {"stamp", "assets", "context"} = {}
    BY DEF Body, ContainerOf, BuildOf, VolumeOf, NetworkOf, Kinds
  <1>4. u.kind = v.kind /\ u.file = v.file /\ u.service = v.service /\ u.stem = v.stem
    BY <1>1, <1>2, LikeHas
  <1>5. \A f \in DOMAIN Body(c, kind, x) \ {"deps"} : u[f] = v[f]
    BY <1>0, <1>2, <1>3 DEF Like
  <1> QED
    BY <1>0, <1>1, <1>4, <1>5

\* The names that are declared are written as units.
LEMMA DeclaredAre ==
  ASSUME NEW c, NEW d \in Declared(c)
  PROVE  /\ d = <<d[1], d[2]>> /\ d[1] \in Kinds /\ d[2] \in Written(c, d[1])
  BY DEF Declared, Written, Names, Kinds

\* The containers of an import, as compose has them.
LEMMA ContainerIs ==
  ASSUME NEW c \in Composes, IInv, Remains(c), Loads, NEW n \in DOMAIN c.services
  PROVE  LET u == TheUnit(c, "container", n) IN
         /\ u \in Loaded /\ Remnant(c, Converted(c, "container", n), u)
         /\ u.service = ServiceOf(c, "container", n)
         /\ u.mounts = ServiceMounts(c, c.services[n])
         /\ u.networks = ServiceNetworks(c, c.services[n])
         /\ u.settings = Settings(c.services[n])
  <1> DEFINE u == TheUnit(c, "container", n)
  <1>1. "container" \in Kinds /\ n \in Written(c, "container") /\ n \in Names(c, "container")
    BY DEF Kinds, Written, Names
  <1>2. u \in Loaded /\ Remnant(c, Converted(c, "container", n), u)
    BY <1>1, UnitIs
  <1> HIDE DEF u
  <1>3. /\ u.service = ServiceOf(c, "container", n)
        /\ \A f \in DOMAIN Body(c, "container", n) \ {"deps"} :
             u[f] = Body(c, "container", n)[f]
    BY <1>1, <1>2, GivenFields
  <1>4. Body(c, "container", n) = ContainerOf(c, n)
    BY DEF Body
  <1>5. /\ {"mounts", "networks", "settings"} \subseteq DOMAIN ContainerOf(c, n)
        /\ ContainerOf(c, n).mounts = ServiceMounts(c, c.services[n])
        /\ ContainerOf(c, n).networks = ServiceNetworks(c, c.services[n])
        /\ ContainerOf(c, n).settings = Settings(c.services[n])
    BY DEF ContainerOf
  <1> QED
    BY <1>2, <1>3, <1>4, <1>5 DEF u

\* The file of the unit that a name leads to is the one that references to it name.
LEMMA FileIs ==
  ASSUME NEW c \in Composes, IInv, Remains(c), Loads,
         NEW kind \in Kinds, NEW n \in Names(c, kind)
  PROVE  TheUnit(c, kind, n).file = FileOf(c, kind, n)
  <1>1. PICK x \in Written(c, kind) :
          /\ StemOf(c, kind, x) = StemOf(c, kind, n)
          /\ Remnant(c, Converted(c, kind, x), TheUnit(c, kind, n))
    BY UnitIs
  <1>2. TheUnit(c, kind, n).file = FileOf(c, kind, x)
    BY <1>1, GivenFields
  <1> QED
    BY <1>1, <1>2 DEF FileOf

\* What compose keeps apart is kept apart by every import, however the names collide as
\* CUE identifiers and whatever the author writes beside it and follows after.
THEOREM ImportsAreApart == Spec => []ImportKeepsApart
  <1>1. ASSUME IInv, ImportInv PROVE ImportKeepsApart
    <2> SUFFICES ASSUME Ready PROVE ImportKeepsApart
      BY DEF ImportKeepsApart
    <2> DEFINE c == imported
    <2>1. c \in Composes /\ Remains(c) /\ Loads
      BY <1>1 DEF Ready, IInv, ImportInv
    <2> HIDE DEF c
    <2>2. \A d \in Declared(c) : /\ Bearing(c, d) = {TheUnit(c, d[1], d[2])}
                                 /\ Remnant(c, Converted(c, d[1], d[2]), TheUnit(c, d[1], d[2]))
      BY <1>1, <2>1, DeclaredAre, NamesAre, UnitIs
    <2>3. \A d \in Declared(c) : Cardinality(Bearing(c, d)) = 1
      BY <2>2, FS_Singleton
    <2>4. ASSUME NEW d \in Declared(c), NEW e \in Declared(c), Bearing(c, d) = Bearing(c, e)
          PROVE  d = e
      <3> DEFINE u == TheUnit(c, d[1], d[2])
      <3>1. Remnant(c, Converted(c, d[1], d[2]), u) /\ Remnant(c, Converted(c, e[1], e[2]), u)
        BY <2>2, <2>4
      <3>2. /\ d = <<d[1], d[2]>> /\ d[1] \in Kinds /\ d[2] \in Written(c, d[1])
            /\ e = <<e[1], e[2]>> /\ e[1] \in Kinds /\ e[2] \in Written(c, e[1])
        BY DeclaredAre
      <3> HIDE DEF u
      <3>3. /\ u.kind = d[1] /\ u.kind = e[1]
            /\ u.stem = StemOf(c, d[1], d[2]) /\ u.stem = StemOf(c, e[1], e[2])
        BY <3>1, <3>2, GivenFields
      <3>4. d[2] \in Names(c, d[1])
        BY <2>1, <3>2, NamesAre
      <3>5. \E x \in Written(c, d[1]) :
               /\ d[2] \in Written(c, d[1]) => x = d[2]
               /\ \A y \in Written(c, d[1]) :
                    StemOf(c, d[1], y) \in {c.name, c.name \o "-" \o d[2]} <=> y = x
        BY <2>1, <3>2, <3>4, LeadsTo
      <3>6. \A y \in Written(c, d[1]) : StemOf(c, d[1], y) = StemOf(c, d[1], d[2]) => y = d[2]
        BY <3>2, <3>5
      <3>7. d[1] = e[1] /\ d[2] = e[2]
        BY <3>2, <3>3, <3>6
      <3> QED
        BY <3>2, <3>7
    <2>5. ASSUME NEW n \in DOMAIN c.services, NEW m \in c.services[n].mounts,
                 m.type = "volume"
          PROVE  <<TheUnit(c, "volume", m.source).file, m.target>>
                   \in TheUnit(c, "container", n).mounts
      <3>1. m.source \in Names(c, "volume") /\ "volume" \in Kinds
        <4>1. c.services[n] \in Range(c.services)
          BY DEF Range
        <4>2. m \in UNION {{x \in s.mounts : x.type = "volume"} : s \in Range(c.services)}
          BY <2>5, <4>1
        <4>3. m.source \in DOMAIN c.volumes \cup Implicit(c)
          BY <4>2 DEF Implicit
        <4> QED
          BY <4>3 DEF Names, Kinds
      <3>2. TheUnit(c, "volume", m.source).file = FileOf(c, "volume", m.source)
        BY <1>1, <2>1, <3>1, FileIs
      <3>3. TheUnit(c, "container", n).mounts = ServiceMounts(c, c.services[n])
        BY <1>1, <2>1, ContainerIs
      <3>4. <<FileOf(c, "volume", m.source), m.target>> \in ServiceMounts(c, c.services[n])
        BY <2>5 DEF ServiceMounts
      <3> QED
        BY <3>2, <3>3, <3>4
    <2>6. ASSUME NEW n \in DOMAIN c.services, c.services[n].mode = None
          PROVE  TheUnit(c, "container", n).networks
                   = {TheUnit(c, "network", x).file : x \in c.services[n].networks}
      <3>1. c.services[n].networks \subseteq DOMAIN c.networks
        <4>1. c.services[n] \in Range(c.services)
          BY DEF Range
        <4> QED
          BY <2>1, <2>6, <4>1, ImportAssumption DEF ImportAssumption, Consistent
      <3>2. \A x \in c.services[n].networks :
              TheUnit(c, "network", x).file = FileOf(c, "network", x)
        <4>1. "network" \in Kinds /\ Names(c, "network") = DOMAIN c.networks
          BY DEF Kinds, Names
        <4> QED
          BY <1>1, <2>1, <3>1, <4>1, FileIs
      <3>3. TheUnit(c, "container", n).networks = ServiceNetworks(c, c.services[n])
        BY <1>1, <2>1, ContainerIs
      <3>4. ServiceNetworks(c, c.services[n])
              = {FileOf(c, "network", x) : x \in c.services[n].networks}
        BY <2>6 DEF ServiceNetworks
      <3> QED
        BY <3>2, <3>3, <3>4
    <2>7. ASSUME NEW v \in DOMAIN c.volumes, c.volumes[v].external
          PROVE  TheUnit(c, "volume", v).name = c.volumes[v].name
      <3>1. "volume" \in Kinds /\ v \in Names(c, "volume") /\ v \in Written(c, "volume")
        BY DEF Kinds, Names, Written
      <3>2. Remnant(c, Converted(c, "volume", v), TheUnit(c, "volume", v))
        BY <1>1, <2>1, <3>1, UnitIs
      <3>3. \A f \in DOMAIN Body(c, "volume", v) \ {"deps"} :
              TheUnit(c, "volume", v)[f] = Body(c, "volume", v)[f]
        BY <3>1, <3>2, GivenFields
      <3>4. /\ "name" \in DOMAIN Body(c, "volume", v)
            /\ Body(c, "volume", v).name = c.volumes[v].name
        BY <2>7 DEF Body, VolumeOf, Adopted
      <3> QED
        BY <3>3, <3>4
    <2> QED
      BY <2>3, <2>4, <2>5, <2>6, <2>7 DEF ImportKeepsApart, c
  <1> QED
    BY UnitsAreSound, ImportRemains, <1>1, PTL

-----------------------------------------------------------------------------
(* What an import orders.                                                   *)

\* More units imply more.
LEMMA ImpliedMore ==
  ASSUME NEW A, NEW all, NEW v, NEW w, Alike(v, w), \A x \in A : \E y \in all : Alike(x, y)
  PROVE  Implied(v, A) \subseteq Implied(w, all)
  <1>1. Resources(v) = Resources(w) /\ v.defaults = w.defaults
    BY DEF Alike, Resources
  <1>2. ASSUME NEW rel, NEW x \in A, <<rel, x.file>> \in Resources(v)
        PROVE  x.service \in ServicesBy(w, all, rel)
    <2>1. PICK y \in all : y.file = x.file /\ y.service = x.service
      BY DEF Alike
    <2> QED
      BY <1>1, <1>2, <2>1 DEF ServicesBy
  <1>3. \A rel : ServicesBy(v, A, rel) \subseteq ServicesBy(w, all, rel)
    BY <1>2 DEF ServicesBy
  <1> QED
    BY <1>1, <1>3 DEF Implied

\* What a covered directive does.
LEMMA WiredBy ==
  ASSUME NEW g, NEW s
  PROVE  /\ Covered(<<"After", s>>, g) => s \in Wired(g).before
         /\ Covered(<<"Requires", s>>, g) => Wired(g).couples[s] >= 2
  <1>0. \A r : <<r, s>>[2] = s /\ <<r, s>>[1] = r
    OBVIOUS
  <1>1. ASSUME Covered(<<"After", s>>, g) PROVE s \in Wired(g).before
    <2>1. <<"After", s>> \in g
      BY <1>0, <1>1 DEF Covered
    <2> QED
      BY <1>0, <2>1 DEF Wired
  <1>2. ASSUME Covered(<<"Requires", s>>, g) PROVE Wired(g).couples[s] >= 2
    <2> DEFINE S == {0} \cup {i \in 1 .. 3 : <<Couplings[i], s>> \in g}
    <2>1. <<"Requires", s>> \in g \/ <<"BindsTo", s>> \in g
      BY <1>0, <1>2 DEF Covered
    <2>2. s \in {d[2] : d \in g}
      BY <1>0, <2>1
    <2>3. Wired(g).couples[s] = Max(S)
      BY <2>2 DEF Wired
    <2>4. Couplings[2] = "Requires" /\ Couplings[3] = "BindsTo"
      BY DEF Couplings
    <2>5. 2 \in S \/ 3 \in S
      BY <2>1, <2>4
    <2>6. S \in SUBSET (0 .. 3) /\ S # {}
      BY <2>5
    <2> HIDE DEF S
    <2>7. Max(S) \in S /\ \A i \in S : Max(S) >= i
      BY <2>6, MaxOfFew
    <2>8. Max(S) \in 0 .. 3
      BY <2>6, <2>7
    <2> QED
      BY <2>3, <2>5, <2>7, <2>8
  <1> QED
    BY <1>1, <1>2

\* An imported unit is wired as compose has it, whatever lint had removed.
LEMMA StillWired ==
  ASSUME NEW c \in Composes, IInv, Remains(c),
         NEW v \in Convert(c), NEW t \in Loaded, Remnant(c, v, t)
  PROVE  \A s : /\ <<"After", s>> \in v.deps => s \in Wiring(t, Loaded).before
                /\ <<"Requires", s>> \in v.deps => Wiring(t, Loaded).couples[s] >= 2
  <1> DEFINE g == t.deps \cup Implied(t, Loaded)
  <1>1. \A x \in Convert(c) : Fields \subseteq DOMAIN x
    BY LintAssumption DEF LintAssumption, Writable, Fields
  <1>2. \A x \in Convert(c), y \in Loaded : Like(x, y) => Alike(x, y)
    BY <1>1, LikeHas DEF Alike
  <1>3. ASSUME NEW x \in Convert(c) PROVE \E y \in Loaded : Alike(x, y)
    <2>1. PICK w \in units : Like(x, w)
      BY DEF Remains
    <2> DEFINE y == Evaluated(w, units, assets)
    <2>2. y \in Loaded
      <3>1. Loaded = {Evaluated(u, units, assets) : u \in units}
        BY LoadedAre DEF Loaded
      <3> QED
        BY <3>1
    <2>3. Like(x, y)
      BY <2>1, LoadLeaves, LikeOnward
    <2> HIDE DEF y
    <2> QED
      BY <1>2, <2>2, <2>3
  <1>4. Alike(v, t)
    BY <1>2 DEF Remnant
  <1>5. Implied(v, Convert(c)) \subseteq Implied(t, Loaded)
    BY <1>3, <1>4, ImpliedMore
  <1>6. \A d \in v.deps : Covered(d, g)
    BY <1>5 DEF Remnant, Covered
  <1>7. Wiring(t, Loaded) = Wired(g)
    BY WiringIs
  <1> HIDE DEF g
  <1> QED
    BY <1>6, <1>7, WiredBy

\* The directives that depends_on is made into.
LEMMA DependsAre ==
  ASSUME NEW c \in Composes, NEW n \in DOMAIN c.services,
         NEW d \in DOMAIN c.services[n].depends
  PROVE  LET deps == Converted(c, "container", n).deps
             s == ServiceOf(c, "container", d) IN
         /\ <<"After", s>> \in deps
         /\ c.services[n].depends[d] # "completed" => <<"Requires", s>> \in deps
  <1>1. Body(c, "container", n) = ContainerOf(c, n)
    BY DEF Body
  <1>2. /\ "deps" \in DOMAIN ContainerOf(c, n)
        /\ ContainerOf(c, n).deps = DependsOn(c, c.services[n])
    BY DEF ContainerOf
  <1>3. Converted(c, "container", n).deps = DependsOn(c, c.services[n])
    BY <1>1, <1>2, ConvertedHas
  <1>4. /\ <<"After", ServiceOf(c, "container", d)>> \in DependsOn(c, c.services[n])
        /\ c.services[n].depends[d] # "completed" =>
             <<"Requires", ServiceOf(c, "container", d)>> \in DependsOn(c, c.services[n])
    BY DEF DependsOn
  <1> QED
    BY <1>3, <1>4

\* More tries take longer.
LEMMA MoreTries ==
  ASSUME NEW i \in Nat, NEW j \in Nat, NEW t \in Nat, i <= j
  PROVE  i * t <= j * t
  <1>1. PICK k \in Nat : j = i + k
    <2>1. j - i \in Nat /\ j = i + (j - i)
      OBVIOUS
    <2> QED
      BY <2>1
  <1>2. j * t = i * t + k * t
    BY <1>1
  <1>3. k * t \in Nat /\ i * t \in Nat
    OBVIOUS
  <1> QED
    BY <1>2, <1>3

\* Whole seconds fall short of the ticks by less than a second.
LEMMA WholeSeconds ==
  ASSUME NEW n \in Nat, NEW t \in Nat \ {0}
  PROVE  n \div t \in Nat /\ n < (n \div t + 1) * t
  OBVIOUS

\* systemd waits as long as a check may take, up to a second.
LEMMA StartIsAwaited ==
  ASSUME NEW s, Live(s), None \notin Nat,
         NEW start \in Nat, NEW interval \in Nat, NEW retries \in Nat, NEW timeout \in Nat,
         s.check.start = start, s.check.interval = interval, s.check.retries = retries,
         s.check.timeout = timeout, NEW try \in 1 .. retries + 1
  PROVE  start + try * interval + timeout
           < ((IF StartLimit(s) = None THEN SystemdDefaultStart ELSE StartLimit(s)) + 1)
               * TicksPerSecond
  <1> DEFINE worst == start + (retries + 1) * interval + timeout
  <1>1. WorstStart(s.check) = worst
    BY DEF WorstStart
  <1>2. (retries + 1) * interval \in Nat /\ try * interval \in Nat
    OBVIOUS
  <1>3. try * interval <= (retries + 1) * interval
    BY MoreTries
  <1>4. worst \in Nat /\ start + try * interval + timeout <= worst
    <2> DEFINE a == try * interval  b == (retries + 1) * interval
    <2>1. a \in Nat /\ b \in Nat /\ a <= b
      BY <1>2, <1>3
    <2>2. worst = start + b + timeout
      OBVIOUS
    <2> HIDE DEF a, b, worst
    <2>3. worst \in Nat /\ start + a + timeout <= worst
      BY <2>1, <2>2
    <2> QED
      BY <2>3 DEF a
  <1> DEFINE goal == start + try * interval + timeout
  <1>5. goal \in Nat
    BY <1>2
  <1>6. goal <= worst
    BY <1>4
  <1> HIDE DEF worst, goal
  <1> DEFINE ticks == TicksPerSecond
  <1>7. ticks \in Nat \ {0}
    BY TicksAssumption DEF TicksAssumption
  <1>8. worst \in Nat
    BY <1>4 DEF worst
  <1>9. CASE worst > SystemdDefaultStart * ticks
    <2> DEFINE seconds == worst \div ticks
    <2>1. seconds \in Nat /\ worst < (seconds + 1) * ticks
      BY <1>7, <1>8, WholeSeconds
    <2>2. StartLimit(s) = seconds
      BY <1>1, <1>9 DEF StartLimit
    <2>3. StartLimit(s) # None
      BY <2>1, <2>2
    <2> DEFINE m == (seconds + 1) * ticks
    <2>4. m \in Nat
      BY <1>7, <2>1
    <2>5. worst < m
      BY <2>1
    <2>6. (StartLimit(s) + 1) * TicksPerSecond = m
      BY <2>2
    <2> HIDE DEF seconds, m
    <2>7. goal < m
      BY <1>5, <1>6, <1>8, <2>4, <2>5
    <2> QED
      BY <2>3, <2>6, <2>7 DEF goal
  <1>10. CASE ~(worst > SystemdDefaultStart * ticks)
    <2>1. StartLimit(s) = None
      BY <1>1, <1>10 DEF StartLimit
    <2>2. goal < (SystemdDefaultStart + 1) * ticks
      BY <1>7, <1>8, <1>5, <1>6, <1>10 DEF SystemdDefaultStart
    <2> QED
      BY <2>1, <2>2 DEF goal
  <1> QED
    BY <1>9, <1>10

\* depends_on orders in every import: a service starts after those it depends on, not
\* without them unless they only have to complete, and their checks have the time they may
\* take up to less than a second, whatever the author writes beside it and follows after.
THEOREM ImportsAreOrdered == Spec => []ImportOrders
  <1>1. ASSUME IInv, ImportInv PROVE ImportOrders
    <2> SUFFICES ASSUME Ready PROVE ImportOrders
      BY DEF ImportOrders
    <2> DEFINE c == imported
    <2>1. c \in Composes /\ Remains(c) /\ Loads
      BY <1>1 DEF Ready, IInv, ImportInv
    <2> HIDE DEF c
    <2> SUFFICES ASSUME NEW n \in DOMAIN c.services, NEW d \in DOMAIN c.services[n].depends
                 PROVE  LET condition == c.services[n].depends[d]
                            wiring == Wiring(TheUnit(c, "container", n), Loaded)
                            u == TheUnit(c, "container", d)
                            check == c.services[d].check
                            limit == IF u.settings.startup = None THEN SystemdDefaultStart
                                     ELSE u.settings.startup
                        IN /\ u.service \in wiring.before
                           /\ condition # "completed" => wiring.couples[u.service] >= 2
                           /\ condition = "healthy" /\ Live(c.services[d]) =>
                                /\ u.settings.healthy /\ u.settings.type = "notify"
                                /\ \A try \in 1 .. check.retries + 1 :
                                     check.start + try * check.interval + check.timeout
                                       < (limit + 1) * TicksPerSecond
      BY Zenon DEF ImportOrders, c
    <2> DEFINE s == c.services[d]  u == TheUnit(c, "container", d)
               t == TheUnit(c, "container", n)
    <2>2. d \in DOMAIN c.services
      <3>1. c.services[n] \in Range(c.services)
        BY DEF Range
      <3> QED
        BY <2>1, <3>1, ImportAssumption DEF ImportAssumption, Consistent
    <2>3. u.service = ServiceOf(c, "container", d) /\ u.settings = Settings(s)
      BY <1>1, <2>1, <2>2, ContainerIs
    <2>4. t \in Loaded /\ Remnant(c, Converted(c, "container", n), t)
      BY <1>1, <2>1, ContainerIs
    <2>5. Converted(c, "container", n) \in Convert(c)
      <3>1. "container" \in Kinds /\ n \in Written(c, "container")
        BY DEF Kinds, Written, Names
      <3> QED
        BY <2>1, <3>1, ConvertIs
    <2>6. /\ <<"After", u.service>> \in Converted(c, "container", n).deps
          /\ c.services[n].depends[d] # "completed" =>
               <<"Requires", u.service>> \in Converted(c, "container", n).deps
      BY <2>1, <2>3, DependsAre
    <2> HIDE DEF s, u, t
    <2>7. /\ u.service \in Wiring(t, Loaded).before
          /\ c.services[n].depends[d] # "completed" =>
               Wiring(t, Loaded).couples[u.service] >= 2
      BY <1>1, <2>1, <2>4, <2>5, <2>6, StillWired
    <2>8. ASSUME Live(s)
          PROVE  /\ u.settings.healthy /\ u.settings.type = "notify"
                 /\ \A try \in 1 .. s.check.retries + 1 :
                      s.check.start + try * s.check.interval + s.check.timeout
                        < ((IF u.settings.startup = None THEN SystemdDefaultStart
                            ELSE u.settings.startup) + 1) * TicksPerSecond
      <3>1. /\ u.settings.healthy = Live(s) /\ u.settings.startup = StartLimit(s)
            /\ u.settings.type = IF Live(s) THEN "notify" ELSE None
        BY <2>3 DEF Settings
      <3>2. {s.check.start, s.check.interval, s.check.retries, s.check.timeout} \subseteq Nat
        <4>1. s \in Range(c.services) /\ s.check # None
          BY <2>2, <2>8 DEF Range, s, Live
        <4> QED
          BY <2>1, <4>1, ImportAssumption DEF ImportAssumption, Consistent
      <3>3. /\ s.check.start \in Nat /\ s.check.interval \in Nat
            /\ s.check.retries \in Nat /\ s.check.timeout \in Nat
        BY <3>2
      <3>4. ASSUME NEW try \in 1 .. s.check.retries + 1
            PROVE  s.check.start + try * s.check.interval + s.check.timeout
                     < ((IF StartLimit(s) = None THEN SystemdDefaultStart ELSE StartLimit(s)) + 1)
                         * TicksPerSecond
        <4>1. None \notin Nat
          BY LintAssumption DEF LintAssumption
        <4> QED
          BY <2>8, <3>3, <4>1, StartIsAwaited
      <3> QED
        BY <2>8, <3>1, <3>4
    <2> QED
      BY <2>7, <2>8 DEF s, u, t
  <1> QED
    BY UnitsAreSound, ImportRemains, <1>1, PTL
=============================================================================
