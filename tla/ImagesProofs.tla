----------------------------- MODULE ImagesProofs -----------------------------
(***************************************************************************)
(* The image commands, for any entries, tags, command lines and sessions,  *)
(* and any number of pushes, failed lookups and crashes.                   *)
(***************************************************************************)
EXTENDS Images, FiniteSetTheorems, TLAPS

-----------------------------------------------------------------------------
(* The inductive invariant.                                                 *)

\* What images.cue may have.
Files == UNION {[S -> Entries] : S \in SUBSET Keys}

Session ==
  [pc : Phases, cmd : Commands \cup {None}, mine : Files, todo : SUBSET Keys,
   edit : Files, young : SUBSET Keys, failed : SUBSET Keys, result : Results,
   since : Nat, now : Nat]

Typed ==
  /\ file \in Files /\ torn \in BOOLEAN
  /\ DOMAIN remote \subseteq Tags /\ \A t \in DOMAIN remote : remote[t] \in Known
  /\ \E n \in Digests : Known = 1 .. n
  /\ \A d \in Known : built[d] \in 0 .. clock
  /\ clock \in 0 .. MaxClock /\ given \in 0 .. MaxCommands /\ faults \in 0 .. MaxFaults
  /\ ses \in [Sessions -> Session]

\* The phases a command goes through.
Course(verb, phase) ==
  \/ verb = "add" /\ phase \in {"lookup", "write", "writing"}
  \/ verb \in {"pin", "update"} /\ phase \in {"lookup", "prompt", "write", "writing"}
  \/ verb = "outdated" /\ phase = "lookup"
  \/ verb \in {"lock", "unlock"} /\ phase \in {"write", "writing"}

\* What a command other than add may make of an entry.
Moves(verb, old, new) ==
  \/ verb = "lock" /\ new = [old EXCEPT !.lock = TRUE]
  \/ verb = "unlock" /\ new = [old EXCEPT !.lock = FALSE]
  \/ /\ verb \in {"pin", "update", "outdated"} /\ ~Locked(old)
     /\ new.minAge = old.minAge /\ new.range = old.range /\ new.lock = old.lock

\* What a session has at each of its phases.
Flow(r) ==
  r.pc # "idle" =>
    /\ r.cmd \in Commands /\ Course(r.cmd.verb, r.pc)
    /\ r.pc \in {"prompt", "write", "writing"} => DOMAIN r.edit # {}
    /\ r.pc = "prompt" => ~r.cmd.yes
    /\ r.todo \cup DOMAIN r.edit \subseteq Scope(r.cmd, r.mine)
    /\ r.cmd.verb = "add" =>
         /\ r.cmd.names \subseteq DOMAIN r.edit
         /\ \A k \in r.cmd.names \cap DOMAIN r.mine : ~Locked(r.mine[k]) /\ r.cmd.force
    /\ r.cmd.verb # "add" =>
         /\ r.cmd.names \subseteq DOMAIN r.mine
         /\ \A k \in r.todo : LooksUp(r.cmd, r.mine[k])
         /\ \A k \in DOMAIN r.edit : Moves(r.cmd.verb, r.mine[k], r.edit[k])

\* A tag is the one it follows or a higher version of it.
Ascends(old, new, range) ==
  old # new =>
    /\ new.suffix = old.suffix /\ Len(new.parts) >= Len(old.parts)
    /\ Less(old, Truncated(new, Len(old.parts)))
    /\ range # {} => InRange(new, range)

\* What update and outdated found for an entry, while the world goes on.
Found(old, new, young, birth, time) ==
  /\ old.tag \in Tags /\ new.tag \in Tags /\ Ascends(old.tag, new.tag, old.range)
  /\ new.digest \in DOMAIN birth
  /\ ~young => time - birth[new.digest] >= EffectiveMinAge(old)

Following(r, birth, time) ==
  r.pc # "idle" /\ r.cmd.verb \in {"update", "outdated"} =>
    /\ r.now <= time
    /\ \A k \in DOMAIN r.edit : Found(r.mine[k], r.edit[k], k \in r.young, birth, time)
    /\ r.pc \in {"write", "writing"} /\ r.cmd.yes =>
         \A k \in DOMAIN r.edit : k \notin r.young \/ k \in r.cmd.names

\* The tags an entry may be led to, by the tags there are.
NextIn(e, tags) ==
  LET pick == PickVersion(DOMAIN tags, e.tag, e.range)
  IN IF ~ParseVersion(e.tag) \/ pick = {} THEN {e.tag} ELSE pick

Current(e, tags) ==
  \A t \in NextIn(e, tags) :
    t \in DOMAIN tags /\ (Locked(e) \/ [e EXCEPT !.tag = t, !.digest = tags[t]] = e)

\* What outdated has passed is current, unless it says otherwise or a tag was pushed.
Compared(r, tags, birth) ==
  r.pc = "lookup" /\ r.cmd.verb = "outdated" =>
    /\ r.since <= Cardinality(DOMAIN birth)
    /\ r.since = Cardinality(DOMAIN birth) =>
         \A k \in DOMAIN r.mine \ r.todo :
           Managed(r.mine[k]) =>
             k \in r.failed \/ k \in DOMAIN r.edit \/ Current(r.mine[k], tags)

Sound(r, tags, birth, time) ==
  Flow(r) /\ Following(r, birth, time) /\ Compared(r, tags, birth)

IInv == Typed /\ \A s \in Sessions : Sound(ses[s], remote, built, clock)

-----------------------------------------------------------------------------
(* Files and entries.                                                       *)

LEMMA FileHas ==
  ASSUME NEW f \in Files
  PROVE  DOMAIN f \subseteq Keys /\ f \in [DOMAIN f -> Entries]
  BY DEF Files

LEMMA FileIs ==
  ASSUME NEW S \in SUBSET Keys, NEW f \in [S -> Entries]
  PROVE  f \in Files
  BY DEF Files

LEMMA NothingIsFile == Nothing \in Files /\ DOMAIN Nothing = {}
  <1>1. Nothing \in [{} -> Entries] /\ {} \in SUBSET Keys
    BY DEF Nothing
  <1> QED
    BY <1>1, FileIs

LEMMA FileWith ==
  ASSUME NEW f \in Files, NEW k \in Keys, NEW e \in Entries
  PROVE  /\ With(f, k, e) \in Files /\ DOMAIN With(f, k, e) = DOMAIN f \cup {k}
         /\ With(f, k, e)[k] = e /\ \A x \in DOMAIN f \ {k} : With(f, k, e)[x] = f[x]
  <1>1. With(f, k, e) \in [DOMAIN f \cup {k} -> Entries]
    BY FileHas DEF With
  <1> QED
    BY <1>1, FileHas, FileIs DEF With

LEMMA FileRestrict ==
  ASSUME NEW f \in Files, NEW S \in SUBSET DOMAIN f
  PROVE  /\ Restrict(f, S) \in Files /\ DOMAIN Restrict(f, S) = S
         /\ \A k \in S : Restrict(f, S)[k] = f[k]
  <1>1. Restrict(f, S) \in [S -> Entries]
    BY FileHas DEF Restrict
  <1> QED
    BY <1>1, FileHas, FileIs DEF Restrict

LEMMA FileOver ==
  ASSUME NEW f \in Files, NEW g \in Files
  PROVE  /\ Over(f, g) \in Files /\ DOMAIN Over(f, g) = DOMAIN f \cup DOMAIN g
         /\ \A k \in DOMAIN g : Over(f, g)[k] = g[k]
         /\ \A k \in DOMAIN f \ DOMAIN g : Over(f, g)[k] = f[k]
  <1>1. Over(f, g) \in [DOMAIN f \cup DOMAIN g -> Entries]
    BY FileHas DEF Over
  <1> QED
    BY <1>1, FileHas, FileIs DEF Over

\* A pin moves tag and digest, and nothing else.
LEMMA PinHas ==
  ASSUME NEW e \in Entries, NEW t \in Tags, remote[t] \in Digests
  PROVE  /\ NextPin(e, t) \in Entries
         /\ NextPin(e, t).tag = t /\ NextPin(e, t).digest = remote[t]
         /\ NextPin(e, t).minAge = e.minAge /\ NextPin(e, t).range = e.range
         /\ NextPin(e, t).lock = e.lock
  BY DEF Entries, NextPin

-----------------------------------------------------------------------------
(* Versions and ages.                                                       *)

LEMMA MaxOfTwo ==
  ASSUME NEW a \in Int, NEW b \in Int, NEW S, a \in S, b \in S,
         \A x \in S : x = a \/ x = b
  PROVE  Max(S) \in S /\ Max(S) >= a /\ Max(S) >= b
  <1>1. \E x \in S : \A y \in S : x >= y
    BY a >= b \/ b >= a
  <1> QED
    BY <1>1 DEF Max

LEMMA PartIsNat ==
  ASSUME NEW v, v.parts \in Seq(Nat), NEW i \in Nat \ {0}
  PROVE  Part(v, i) \in Nat /\ (i > Len(v.parts) => Part(v, i) = 0)
  BY DEF Part

\* Where a version is first below another.
LessAt(v, w, i) == Part(v, i) < Part(w, i) /\ \A j \in 1 .. i - 1 : Part(v, j) = Part(w, j)

LEMMA LessIs ==
  ASSUME NEW v, v.parts \in Seq(Nat), NEW w, w.parts \in Seq(Nat)
  PROVE  Less(v, w) <=> \E i \in Nat \ {0} : LessAt(v, w, i)
  <1> DEFINE S == {Len(v.parts), Len(w.parts)}  n == Max(S)
  <1>1. n \in Nat /\ n >= Len(w.parts)
    <2>1. Len(v.parts) \in Nat /\ Len(w.parts) \in Nat
      OBVIOUS
    <2>2. Len(v.parts) \in S /\ Len(w.parts) \in S
          /\ \A x \in S : x = Len(v.parts) \/ x = Len(w.parts)
      OBVIOUS
    <2> HIDE DEF S
    <2>3. Len(v.parts) \in Int /\ Len(w.parts) \in Int
      BY <2>1
    <2>4. Max(S) \in S /\ Max(S) >= Len(w.parts)
      BY <2>2, <2>3, MaxOfTwo
    <2> QED
      BY <2>1, <2>2, <2>4
  <1>2. ASSUME NEW i \in Nat \ {0}, LessAt(v, w, i)
        PROVE  i \in 1 .. n
    <2>1. Part(w, i) # 0
      BY <1>2, PartIsNat DEF LessAt
    <2>2. i <= Len(w.parts)
      BY <2>1, PartIsNat
    <2> QED
      BY <1>1, <2>2
  <1>3. \A i \in 1 .. n : i \in Nat \ {0}
    BY <1>1
  <1>4. Less(v, w) <=> \E i \in 1 .. n : LessAt(v, w, i)
    BY DEF Less, LessAt
  <1> HIDE DEF n
  <1> QED
    BY <1>2, <1>3, <1>4

LEMMA LessIsStrict ==
  ASSUME NEW v, v.parts \in Seq(Nat), NEW w, w.parts \in Seq(Nat), Less(v, w)
  PROVE  ~Less(w, v)
  <1> SUFFICES ASSUME Less(w, v) PROVE FALSE
    OBVIOUS
  <1>1. PICK i \in Nat \ {0} : LessAt(v, w, i)
    BY LessIs
  <1>2. PICK k \in Nat \ {0} : LessAt(w, v, k)
    BY LessIs
  <1>3. /\ Part(v, i) \in Nat /\ Part(w, i) \in Nat
        /\ Part(v, k) \in Nat /\ Part(w, k) \in Nat
    BY PartIsNat
  <1>4. CASE i < k
    BY <1>1, <1>2, <1>3, <1>4 DEF LessAt
  <1>5. CASE k < i
    BY <1>1, <1>2, <1>3, <1>5 DEF LessAt
  <1>6. CASE i = k
    BY <1>1, <1>2, <1>3, <1>6 DEF LessAt
  <1> QED
    BY <1>4, <1>5, <1>6

\* What is above at the precision of a tag is above.
LEMMA AscendsIsUp ==
  ASSUME NEW old \in Tags, NEW new \in Tags, NEW range, Ascends(old, new, range), old # new
  PROVE  /\ Less(old, new) /\ ~Less(new, old) /\ new.suffix = old.suffix
         /\ Len(new.parts) >= Len(old.parts)
         /\ Less(old, [new EXCEPT !.parts = SubSeq(@, 1, Len(old.parts))])
         /\ range # {} => InRange(new, range)
  <1> DEFINE n == Len(old.parts)
             cut == [new EXCEPT !.parts = SubSeq(@, 1, n)]
  <1>1. /\ old \in [parts : Seq(Nat), suffix : STRING]
        /\ new \in [parts : Seq(Nat), suffix : STRING]
    BY ImagesAssumption DEF ImagesAssumption
  <1>2. /\ old.parts \in Seq(Nat) /\ new.parts \in Seq(Nat) /\ n \in Nat
        /\ Len(new.parts) \in Nat /\ Len(new.parts) >= n
    BY <1>1 DEF Ascends
  <1>3. cut.parts = SubSeq(new.parts, 1, n)
    BY <1>1
  <1>4. cut.parts \in Seq(Nat) /\ Len(cut.parts) = n /\ \A i \in 1 .. n : cut.parts[i] = new.parts[i]
    BY <1>2, <1>3
  <1>5. Truncated(new, n).parts = cut.parts
    <2>1. CASE Len(new.parts) = n
      <3>1. SubSeq(new.parts, 1, n) = new.parts
        BY <1>2, <2>1
      <3> QED
        BY <1>2, <1>3, <2>1, <3>1 DEF Truncated
    <2>2. CASE Len(new.parts) # n
      BY <1>2, <2>2 DEF Truncated
    <2> QED
      BY <2>1, <2>2
  <1> HIDE DEF cut
  <1>6. Less(old, cut)
    BY <1>5 DEF Ascends, Less, Part
  <1>7. PICK i \in Nat \ {0} : LessAt(old, cut, i)
    BY <1>2, <1>4, <1>6, LessIs
  <1>8. i <= n
    <2>1. Part(old, i) \in Nat /\ Part(cut, i) \in Nat /\ (i > n => Part(cut, i) = 0)
      BY <1>2, <1>4, PartIsNat
    <2> QED
      BY <1>2, <1>7, <2>1 DEF LessAt
  <1>9. \A j \in 1 .. n : Part(cut, j) = Part(new, j)
    BY <1>2, <1>4 DEF Part
  <1>10. LessAt(old, new, i)
    BY <1>2, <1>7, <1>8, <1>9 DEF LessAt
  <1>11. Less(old, new)
    BY <1>2, <1>10, LessIs
  <1> QED
    BY <1>2, <1>6, <1>11, LessIsStrict DEF Ascends, cut

\* An entry with a version is led to itself or up.
LEMMA NextAscends ==
  ASSUME NEW e, NEW tags, NEW t \in NextIn(e, tags), DOMAIN tags \subseteq Tags
  PROVE  /\ Ascends(e.tag, t, e.range)
         /\ t \in DOMAIN tags \/ t = e.tag
  BY DEF NextIn, PickVersion, Upgrades, Ascends

LEMMA NextTagsIs ==
  ASSUME NEW e
  PROVE  NextTags(e) = NextIn(e, remote)
  BY DEF NextTags, NextIn

LEMMA AgeIsNat ==
  ASSUME NEW e \in Entries
  PROVE  EffectiveMinAge(e) \in Nat
  <1>1. CASE e.minAge = NoAge
    BY <1>1, ImagesAssumption DEF ImagesAssumption, EffectiveMinAge
  <1>2. CASE e.minAge # NoAge
    <2>1. e.minAge \in Nat \X (Nat \ {0})
      BY <1>2, ImagesAssumption DEF ImagesAssumption, Entries
    <2> DEFINE age == ParseAge(e.minAge[1], e.minAge[2], Width)
    <2>2. age \in Int
      <3>1. e.minAge[1] \in Int /\ e.minAge[2] \in Int
        BY <2>1
      <3>2. e.minAge[1] * e.minAge[2] \in Int
        BY <3>1
      <3> QED
        BY <3>2 DEF ParseAge
    <2> DEFINE S == {0, age}
    <2>3. 0 \in S /\ age \in S /\ \A x \in S : x = 0 \/ x = age
      OBVIOUS
    <2> HIDE DEF age, S
    <2>4. 0 \in Int
      OBVIOUS
    <2>5. Max(S) \in S /\ Max(S) >= 0
      BY <2>2, <2>3, <2>4, MaxOfTwo
    <2>6. Max(S) \in Nat
      <3>1. Max(S) = 0 \/ Max(S) = age
        BY <2>3, <2>5
      <3>2. Max(S) \in Int
        BY <2>2, <3>1
      <3> QED
        BY <2>5, <3>2
    <2> QED
      BY <1>2, <2>6 DEF EffectiveMinAge, age, S
  <1> QED
    BY <1>1, <1>2

\* An entry that is led to its own tag is led nowhere else.
LEMMA OneNext ==
  ASSUME NEW e, e.tag \in Tags, NEW tags, e.tag \in NextIn(e, tags)
  PROVE  NextIn(e, tags) = {e.tag}
  <1>1. e.tag \in [parts : Seq(Nat), suffix : STRING]
    BY ImagesAssumption DEF ImagesAssumption
  <1>2. Truncated(e.tag, Len(e.tag.parts)) = e.tag
    BY <1>1 DEF Truncated
  <1>3. ~Less(e.tag, e.tag)
    BY <1>1, LessIsStrict
  <1>4. e.tag \notin Upgrades(DOMAIN tags, e.tag, e.range)
    BY <1>2, <1>3 DEF Upgrades
  <1> QED
    BY <1>4 DEF NextIn, PickVersion

-----------------------------------------------------------------------------
(* What a step does to the sessions.                                        *)

LEMMA IdleIsSound ==
  ASSUME NEW how \in Results
  PROVE  /\ Idle(how) \in Session
         /\ \A tags, birth, time : Sound(Idle(how), tags, birth, time)
  <1>1. Idle(how) \in Session
    BY NothingIsFile DEF Idle, Session, Phases
  <1>2. Idle(how).pc = "idle"
    BY DEF Idle
  <1> QED
    BY <1>1, <1>2 DEF Sound, Flow, Following, Compared

\* What a session has, and the world.
LEMMA SessionHas ==
  ASSUME IInv, NEW s \in Sessions
  PROVE  /\ ses[s] \in Session /\ Sound(ses[s], remote, built, clock)
         /\ ses[s].mine \in Files /\ ses[s].edit \in Files
         /\ ses[s].todo \in SUBSET Keys /\ ses[s].now \in Nat
         /\ file \in Files /\ torn \in BOOLEAN /\ clock \in Nat
         /\ given \in 0 .. MaxCommands /\ faults \in 0 .. MaxFaults
         /\ DOMAIN remote \subseteq Tags /\ \A t \in DOMAIN remote : remote[t] \in Known
         /\ Known \subseteq Digests /\ Cardinality(Known) \in Nat
         /\ \A d \in Known : built[d] \in Nat /\ built[d] <= clock
  <1>1. PICK n \in Digests : Known = 1 .. n
    BY DEF IInv, Typed
  <1>2. n \in Nat /\ Known \subseteq Digests
    BY <1>1, ImagesAssumption DEF ImagesAssumption, Digests
  <1>3. Cardinality(Known) \in Nat
    BY <1>1, <1>2, FS_Interval, FS_CardinalityType
  <1>4. MaxClock \in Nat
    BY ImagesAssumption DEF ImagesAssumption
  <1>5. clock \in Nat /\ \A d \in Known : built[d] \in Nat /\ built[d] <= clock
    BY <1>4 DEF IInv, Typed
  <1> QED
    BY <1>2, <1>3, <1>5 DEF IInv, Typed, Session

\* A step of a session, which leaves the world alone.
LEMMA Moved ==
  ASSUME IInv, NEW s \in Sessions, NEW r \in Session, Becomes(s, r), UNCHANGED world,
         file' \in Files, torn' \in BOOLEAN, given' \in 0 .. MaxCommands,
         faults' \in 0 .. MaxFaults, Sound(r, remote, built, clock)
  PROVE  IInv'
  <1>1. remote' = remote /\ built' = built /\ clock' = clock /\ Known' = Known
    BY DEF world, Known
  <1>2. ses' = [ses EXCEPT ![s] = r] /\ ses \in [Sessions -> Session]
    BY DEF Becomes, IInv, Typed
  <1>3. Typed'
    BY <1>1, <1>2 DEF IInv, Typed
  <1>4. ASSUME NEW t \in Sessions
        PROVE  Sound(ses'[t], remote', built', clock')
    <2>1. CASE t = s
      BY <1>1, <1>2, <2>1
    <2>2. CASE t # s
      BY <1>1, <1>2, <2>2 DEF IInv
    <2> QED
      BY <2>1, <2>2
  <1> QED
    BY <1>3, <1>4 DEF IInv

\* A command returns.
LEMMA Ended ==
  ASSUME IInv, NEW s \in Sessions, NEW how \in Results, Returns(s, how), UNCHANGED world,
         file' \in Files, torn' \in BOOLEAN, given' \in 0 .. MaxCommands,
         faults' \in 0 .. MaxFaults
  PROVE  IInv'
  <1>1. Becomes(s, Idle(how))
    BY DEF Returns
  <1> QED
    BY <1>1, Moved, IdleIsSound

LEMMA VerdictIs ==
  ASSUME NEW s
  PROVE  Verdict(s) \in Results
  BY DEF Verdict, Results

\* A session that narrows its edit and goes on.
LEMMA Narrowed ==
  ASSUME NEW r \in Session, NEW q \in Session, NEW tags, NEW birth, NEW time,
         Sound(r, tags, birth, time), r.pc # "idle", r.cmd.verb \in {"pin", "update"},
         q.pc \in {"prompt", "write"}, q.cmd = r.cmd, q.mine = r.mine, q.todo = r.todo,
         q.young = r.young, q.now = r.now, DOMAIN q.edit \subseteq DOMAIN r.edit,
         \A k \in DOMAIN q.edit : q.edit[k] = r.edit[k], DOMAIN q.edit # {},
         q.pc = "prompt" => ~r.cmd.yes,
         q.pc = "write" /\ r.cmd.verb = "update" /\ r.cmd.yes =>
           \A k \in DOMAIN q.edit : k \notin r.young \/ k \in r.cmd.names
  PROVE  Sound(q, tags, birth, time)
  <1>1. Flow(q)
    BY DEF Sound, Flow, Course
  <1>2. Following(q, birth, time)
    BY DEF Sound, Following
  <1>3. Compared(q, tags, birth)
    BY DEF Compared
  <1> QED
    BY <1>1, <1>2, <1>3 DEF Sound

-----------------------------------------------------------------------------
(* The steps of a command.                                                  *)

LEMMA Initially == Init => IInv
  <1> SUFFICES ASSUME Init PROVE IInv
    OBVIOUS
  <1>1. "none" \in Results
    BY DEF Results
  <1>2. /\ MaxClock \in Nat /\ MaxCommands \in Nat /\ MaxFaults \in Nat
        /\ MaxDigests \in Nat \ {0}
    BY ImagesAssumption DEF ImagesAssumption
  <1>3. file \in Files
    <2>1. DOMAIN file \subseteq Keys /\ file \in [DOMAIN file -> Entries]
      BY ImagesAssumption DEF ImagesAssumption, Init
    <2> QED
      BY <2>1, FileIs
  <1>4. Known = 1 .. 1 /\ 1 \in Digests
    BY <1>2 DEF Init, Known, Digests
  <1>5. DOMAIN remote \subseteq Tags /\ \A t \in DOMAIN remote : remote[t] \in Known
    BY <1>4, ImagesAssumption DEF ImagesAssumption, Init
  <1>6. \A d \in Known : built[d] \in 0 .. clock
    BY <1>4 DEF Init, Known
  <1>7. /\ clock = 0 /\ given = 0 /\ faults = 0 /\ torn = FALSE
        /\ ses = [s \in Sessions |-> Idle("none")]
    BY DEF Init
  <1>8. ses \in [Sessions -> Session]
    BY <1>1, <1>7, IdleIsSound
  <1>9. Typed
    <2>1. /\ clock \in 0 .. MaxClock /\ given \in 0 .. MaxCommands
          /\ faults \in 0 .. MaxFaults
      BY <1>2, <1>7
    <2>2. torn \in BOOLEAN
      BY <1>7
    <2>3. \E n \in Digests : Known = 1 .. n
      BY <1>4
    <2> QED
      BY <1>3, <1>5, <1>6, <1>8, <2>1, <2>2, <2>3 DEF Typed
  <1> QED
    BY <1>1, <1>7, <1>9, IdleIsSound DEF IInv

\* What a command has that goes on.
LEMMA BegunIsSession ==
  ASSUME IInv, NEW pc \in {"lookup", "write"}, NEW c \in Commands, NEW mine \in Files,
         NEW edit \in Files, NEW todo \in SUBSET Keys, NEW failed \in SUBSET Keys
  PROVE  Begun(pc, c, mine, edit, todo, failed) \in Session
  <1>1. clock \in Nat /\ Cardinality(Known) \in Nat
    <2>1. PICK n \in Digests : Known = 1 .. n
      BY DEF IInv, Typed
    <2>2. n \in Nat /\ MaxClock \in Nat
      BY ImagesAssumption DEF ImagesAssumption, Digests
    <2>3. Cardinality(Known) \in Nat
      BY <2>1, <2>2, FS_Interval, FS_CardinalityType
    <2> QED
      BY <2>2, <2>3 DEF IInv, Typed
  <1> QED
    BY <1>1 DEF Begun, Session, Phases, Results

LEMMA AddStep ==
  ASSUME IInv, NEW s \in Sessions, NEW c \in Commands, c.verb = "add", NEW mine \in Files,
         Add(s, c, mine), UNCHANGED <<file, torn, world, faults>>, given' \in 0 .. MaxCommands
  PROVE  IInv'
  <1>0. /\ file' \in Files /\ torn' \in BOOLEAN /\ faults' \in 0 .. MaxFaults
        /\ UNCHANGED world
    BY SessionHas
  <1>1. /\ c.names \subseteq Keys /\ c.digest \in Digests \cup {NoDigest}
        /\ c.tag \in Tags \cup {NoTag} /\ \E k \in Keys : c.names = {k}
    BY ImagesAssumption DEF ImagesAssumption
  <1>2. PICK k \in c.names :
          IF k \in DOMAIN mine /\ (Locked(mine[k]) \/ ~c.force) THEN Returns(s, "error")
          ELSE LET edit == With(Nothing, k, Fresh(c.tag, c.digest)) IN
               Becomes(s, IF c.digest = NoDigest
                          THEN Begun("lookup", c, mine, edit, {k}, {})
                          ELSE Begun("write", c, mine, edit, {}, {}))
    BY DEF Add
  <1>3. CASE k \in DOMAIN mine /\ (Locked(mine[k]) \/ ~c.force)
    BY <1>0, <1>2, <1>3, Ended DEF Results
  <1>4. CASE ~(k \in DOMAIN mine /\ (Locked(mine[k]) \/ ~c.force))
    <2> DEFINE edit == With(Nothing, k, Fresh(c.tag, c.digest))
               pc == IF c.digest = NoDigest THEN "lookup" ELSE "write"
               todo == IF c.digest = NoDigest THEN {k} ELSE {}
               r == Begun(pc, c, mine, edit, todo, {})
    <2>1. Becomes(s, r)
      BY <1>2, <1>4
    <2>2. Fresh(c.tag, c.digest) \in Entries
      BY <1>1 DEF Fresh, Entries
    <2>3. c.names = {k} /\ k \in Keys
      BY <1>1
    <2>4. edit \in Files /\ DOMAIN edit = {k}
      <3>1. /\ edit \in Files /\ DOMAIN edit = DOMAIN Nothing \cup {k}
        BY <2>2, <2>3, FileWith, NothingIsFile
      <3> QED
        BY <3>1, NothingIsFile
    <2>5. /\ pc \in {"lookup", "write"} /\ todo \in SUBSET {k} /\ todo \in SUBSET Keys
          /\ {} \in SUBSET Keys
      BY <2>3
    <2> HIDE DEF edit, pc, todo
    <2>6. r \in Session
      BY <2>4, <2>5, BegunIsSession
    <2>7. r.pc = pc /\ r.cmd = c /\ r.mine = mine /\ r.edit = edit /\ r.todo = todo
      BY DEF Begun
    <2> HIDE DEF r
    <2>8. Flow(r)
      BY <1>4, <2>3, <2>4, <2>5, <2>7 DEF Flow, Course, Scope
    <2>9. Following(r, built, clock) /\ Compared(r, remote, built)
      BY <2>7 DEF Following, Compared
    <2> QED
      BY <1>0, <2>1, <2>6, <2>8, <2>9, Moved DEF Sound
  <1> QED
    BY <1>3, <1>4

LEMMA LockStep ==
  ASSUME IInv, NEW s \in Sessions, NEW c \in Commands, NEW mine \in Files,
         \/ c.verb = "lock" /\ Lock(s, c, mine)
         \/ c.verb = "unlock" /\ Unlock(s, c, mine),
         UNCHANGED <<file, torn, world, faults>>, given' \in 0 .. MaxCommands
  PROVE  IInv'
  <1>0. /\ file' \in Files /\ torn' \in BOOLEAN /\ faults' \in 0 .. MaxFaults
        /\ UNCHANGED world /\ c.names \subseteq Keys
        /\ c.verb = "lock" => \E k \in Keys : c.names = {k}
    BY SessionHas, ImagesAssumption DEF ImagesAssumption
  <1> DEFINE cleared == {k \in c.names \cap DOMAIN mine : Locked(mine[k])}
             over == IF c.verb = "lock" THEN c.names ELSE cleared
             edit == [k \in over |-> [mine[k] EXCEPT !.lock = (c.verb = "lock")]]
             r == Begun("write", c, mine, edit, {}, {})
  <1>1. CASE Returns(s, "ok") \/ Returns(s, "error")
    BY <1>0, <1>1, Ended DEF Results
  <1>2. CASE ~Returns(s, "ok") /\ ~Returns(s, "error")
    <2>1. Becomes(s, r) /\ c.names \subseteq DOMAIN mine /\ over # {}
      <3>1. CASE c.verb = "lock"
        <4>1. edit = [k \in c.names |-> [mine[k] EXCEPT !.lock = TRUE]]
          BY <3>1
        <4> QED
          BY <1>0, <1>2, <3>1, <4>1 DEF Lock
      <3>2. CASE c.verb = "unlock"
        <4>1. edit = [k \in cleared |-> [mine[k] EXCEPT !.lock = FALSE]]
          BY <3>2
        <4> QED
          BY <1>2, <3>2, <4>1 DEF Unlock
      <3> QED
        BY <3>1, <3>2
    <2>2. over \subseteq c.names /\ over \subseteq DOMAIN mine /\ over \subseteq Keys
      BY <1>0, <2>1
    <2> HIDE DEF over
    <2>3. \A k \in over : [mine[k] EXCEPT !.lock = (c.verb = "lock")] \in Entries
      BY <2>2, FileHas DEF Entries
    <2>4. edit \in Files /\ DOMAIN edit = over
      BY <2>2, <2>3, FileIs
    <2>5. \A k \in over : Moves(c.verb, mine[k], edit[k])
      <3>1. CASE c.verb = "lock"
        BY <3>1 DEF Moves
      <3>2. CASE c.verb = "unlock"
        BY <3>2 DEF Moves
      <3> QED
        BY <3>1, <3>2
    <2> HIDE DEF edit
    <2>6. {} \in SUBSET Keys
      OBVIOUS
    <2>7. r \in Session
      BY <2>4, <2>6, BegunIsSession
    <2>8. r.pc = "write" /\ r.cmd = c /\ r.mine = mine /\ r.edit = edit /\ r.todo = {}
      BY DEF Begun
    <2> HIDE DEF r
    <2>9. Scope(c, mine) = c.names
      BY <2>1, <2>2 DEF Scope
    <2>10. Flow(r)
      BY <2>1, <2>2, <2>4, <2>5, <2>8, <2>9 DEF Flow, Course
    <2>11. Following(r, built, clock) /\ Compared(r, remote, built)
      BY <2>8 DEF Following, Compared
    <2> QED
      BY <1>0, <2>1, <2>7, <2>10, <2>11, Moved DEF Sound
  <1> QED
    BY <1>1, <1>2

LEMMA SurveyStep ==
  ASSUME IInv, NEW s \in Sessions, NEW c \in Commands,
         c.verb \in {"pin", "update", "outdated"}, NEW mine \in Files, Survey(s, c, mine),
         UNCHANGED <<file, torn, world, faults>>, given' \in 0 .. MaxCommands
  PROVE  IInv'
  <1>0. /\ file' \in Files /\ torn' \in BOOLEAN /\ faults' \in 0 .. MaxFaults
        /\ UNCHANGED world /\ c.names \subseteq Keys /\ (c.verb = "outdated" => c.names = {})
    BY SessionHas, ImagesAssumption DEF ImagesAssumption
  <1> DEFINE todo == {k \in Scope(c, mine) : LooksUp(c, mine[k])}
             failed == {k \in Scope(c, mine) : Unparsed(c, mine[k])}
             r == Begun("lookup", c, mine, Nothing, todo, failed)
  <1>1. CASE Returns(s, "ok") \/ Returns(s, "error")
    BY <1>0, <1>1, Ended DEF Results
  <1>2. CASE ~Returns(s, "ok") /\ ~Returns(s, "error")
    <2>1. Becomes(s, r) /\ c.names \subseteq DOMAIN mine
      BY <1>2 DEF Survey
    <2>2. Scope(c, mine) \subseteq DOMAIN mine /\ Scope(c, mine) \subseteq Keys
      BY <2>1, FileHas DEF Scope
    <2>3. /\ todo \in SUBSET Keys /\ failed \in SUBSET Keys /\ todo \subseteq Scope(c, mine)
          /\ \A k \in todo : LooksUp(c, mine[k])
      BY <2>2
    <2>4. c.verb = "outdated" => \A k \in DOMAIN mine \ todo : ~Managed(mine[k])
      BY <1>0 DEF Scope, LooksUp
    <2> HIDE DEF todo, failed
    <2>5. r \in Session
      BY <2>3, NothingIsFile, BegunIsSession
    <2>6. /\ r.pc = "lookup" /\ r.cmd = c /\ r.mine = mine /\ r.edit = Nothing
          /\ r.todo = todo /\ r.now = clock /\ r.since = Cardinality(DOMAIN built)
      BY DEF Begun, Known
    <2> HIDE DEF r
    <2>7. Flow(r)
      BY <2>1, <2>3, <2>6, NothingIsFile DEF Flow, Course
    <2>8. clock \in Nat /\ Cardinality(DOMAIN built) \in Nat
      BY SessionHas DEF Known
    <2>9. Following(r, built, clock)
      BY <2>6, <2>8, NothingIsFile DEF Following
    <2>10. Compared(r, remote, built)
      BY <2>4, <2>6, <2>8 DEF Compared
    <2> QED
      BY <1>0, <2>1, <2>5, <2>7, <2>9, <2>10, Moved DEF Sound
  <1> QED
    BY <1>1, <1>2

\* A command is given.
LEMMA StartStep ==
  ASSUME IInv, NEW s \in Sessions, Start(s)
  PROVE  IInv'
  <1>1. /\ given' \in 0 .. MaxCommands /\ UNCHANGED <<file, torn, world, faults>>
        /\ file' \in Files /\ torn' \in BOOLEAN /\ faults' \in 0 .. MaxFaults
    <2>1. MaxCommands \in Nat
      BY ImagesAssumption DEF ImagesAssumption
    <2> QED
      BY <2>1, SessionHas DEF Start
  <1> DEFINE mine == IF torn THEN Nothing ELSE file
  <1>2. mine \in Files
    BY SessionHas, NothingIsFile
  <1>3. PICK c \in Commands :
          \/ Returns(s, "error")
          \/ c.verb = "add" /\ Add(s, c, mine)
          \/ c.verb = "lock" /\ Lock(s, c, mine)
          \/ c.verb = "unlock" /\ Unlock(s, c, mine)
          \/ c.verb \in {"pin", "update", "outdated"} /\ Survey(s, c, mine)
    BY DEF Start
  <1> HIDE DEF mine
  <1>4. CASE Returns(s, "error")
    BY <1>1, <1>4, Ended DEF Results
  <1> QED
    BY <1>1, <1>2, <1>3, <1>4, AddStep, LockStep, SurveyStep

-----------------------------------------------------------------------------
(* Lookups.                                                                 *)

\* An entry that is looked up by update or outdated has a tag.
LEMMA LookedUpHasTag ==
  ASSUME NEW c, NEW e \in Entries, LooksUp(c, e), c.verb # "pin"
  PROVE  e.tag \in Tags
  BY DEF LooksUp, HasTag, Managed, Entries

\* What passes for current is.
LEMMA PassedIsCurrent ==
  ASSUME NEW e \in Entries, e.tag \in Tags, NEW t \in NextTags(e), t \in DOMAIN remote,
         Locked(e) \/ NextPin(e, t) = e
  PROVE  Current(e, remote)
  <1>1. t \in NextIn(e, remote)
    BY NextTagsIs
  <1>2. CASE Locked(e)
    <2>1. NextIn(e, remote) = {e.tag} \/ NextIn(e, remote) \subseteq DOMAIN remote
      BY DEF NextIn, PickVersion, Upgrades
    <2> QED
      BY <1>1, <1>2, <2>1 DEF Current
  <1>3. CASE NextPin(e, t) = e
    <2>1. t = e.tag
      BY <1>3 DEF NextPin, Entries
    <2>2. NextIn(e, remote) = {t}
      BY <1>1, <2>1, OneNext
    <2>3. [e EXCEPT !.tag = t, !.digest = remote[t]] = e
      BY <1>3 DEF NextPin
    <2> QED
      BY <2>2, <2>3 DEF Current
  <1> QED
    BY <1>2, <1>3

\* What is not young is as old as its entry asks.
LEMMA NotYoung ==
  ASSUME NEW e \in Entries, NEW d, NEW now \in Nat, NEW ageKnown, clock \in Nat, now <= clock,
         built[d] \in Nat, built[d] <= clock, ~Young(e, d, now, ageKnown)
  PROVE  clock - built[d] >= EffectiveMinAge(e)
  <1>1. EffectiveMinAge(e) \in Nat
    BY AgeIsNat
  <1> QED
    BY <1>1 DEF Young

\* add resolves its tag.
LEMMA AddResolves ==
  ASSUME IInv, NEW s \in Sessions, ses[s].pc = "lookup", ses[s].cmd.verb = "add",
         NEW k \in ses[s].todo, NEW t \in DOMAIN remote,
         Resolve(s, k, ses[s].edit[k], t), UNCHANGED <<file, torn, world, given, faults>>
  PROVE  IInv'
  <1> DEFINE r == ses[s]
             next == NextPin(r.edit[k], t)
             q == [r EXCEPT !.todo = @ \ {k}, !.pc = "write", !.edit = With(@, k, next)]
  <1>1. /\ r \in Session /\ Flow(r) /\ r.pc = "lookup" /\ r.cmd.verb = "add"
        /\ r.mine \in Files /\ r.edit \in Files /\ r.todo \in SUBSET Keys
        /\ t \in Tags /\ remote[t] \in Digests
    BY SessionHas DEF Sound
  <1>2. /\ file' \in Files /\ torn' \in BOOLEAN /\ given' \in 0 .. MaxCommands
        /\ faults' \in 0 .. MaxFaults /\ UNCHANGED world
    BY SessionHas
  <1>3. Becomes(s, q)
    BY <1>1 DEF Resolve, Session
  <1> HIDE DEF r
  <1>4. /\ r.cmd \in Commands /\ r.todo \cup DOMAIN r.edit \subseteq Scope(r.cmd, r.mine)
        /\ r.cmd.names \subseteq DOMAIN r.edit
        /\ \A x \in r.cmd.names \cap DOMAIN r.mine : ~Locked(r.mine[x]) /\ r.cmd.force
    BY <1>1 DEF Flow
  <1>5. k \in r.cmd.names /\ k \in Keys /\ r.cmd.names \subseteq DOMAIN r.edit
    <2>1. \E x \in Keys : r.cmd.names = {x}
      BY <1>1, <1>4, ImagesAssumption DEF ImagesAssumption
    <2> QED
      BY <1>1, <1>4, <2>1 DEF Scope, r
  <1>6. r.edit[k] \in Entries
    BY <1>1, <1>5, FileHas
  <1>7. next \in Entries
    BY <1>1, <1>6, PinHas
  <1> HIDE DEF next
  <1>8. /\ With(r.edit, k, next) \in Files
        /\ DOMAIN With(r.edit, k, next) = DOMAIN r.edit \cup {k}
    BY <1>1, <1>5, <1>7, FileWith
  <1>9. /\ q \in Session /\ q.pc = "write" /\ q.cmd = r.cmd /\ q.mine = r.mine
        /\ q.edit = With(r.edit, k, next) /\ q.todo = r.todo \ {k}
    BY <1>1, <1>8 DEF Session, Phases
  <1> HIDE DEF q
  <1>10. Flow(q)
    BY <1>1, <1>4, <1>5, <1>8, <1>9 DEF Flow, Course
  <1>11. Following(q, built, clock) /\ Compared(q, remote, built)
    BY <1>1, <1>9 DEF Following, Compared
  <1> QED
    BY <1>2, <1>3, <1>9, <1>10, <1>11, Moved DEF Sound

\* What a survey has when it looks an entry up.
LEMMA SurveyHas ==
  ASSUME IInv, NEW s \in Sessions, ses[s].pc = "lookup", ses[s].cmd.verb # "add",
         NEW k \in ses[s].todo
  PROVE  LET r == ses[s] IN
         /\ r.cmd \in Commands /\ r.cmd.verb \in {"pin", "update", "outdated"}
         /\ r.todo \cup DOMAIN r.edit \subseteq Scope(r.cmd, r.mine)
         /\ r.cmd.names \subseteq DOMAIN r.mine /\ k \in DOMAIN r.mine /\ k \in Keys
         /\ r.mine[k] \in Entries /\ LooksUp(r.cmd, r.mine[k])
         /\ \A x \in r.todo : LooksUp(r.cmd, r.mine[x])
         /\ \A x \in DOMAIN r.edit : Moves(r.cmd.verb, r.mine[x], r.edit[x])
  <1> DEFINE r == ses[s]
  <1>1. Flow(r) /\ r.pc = "lookup" /\ r.cmd.verb # "add" /\ r.mine \in Files /\ k \in r.todo
    BY SessionHas DEF Sound
  <1> HIDE DEF r
  <1>2. /\ r.cmd \in Commands /\ r.cmd.verb \in {"pin", "update", "outdated"}
        /\ r.todo \cup DOMAIN r.edit \subseteq Scope(r.cmd, r.mine)
        /\ r.cmd.names \subseteq DOMAIN r.mine
        /\ \A x \in r.todo : LooksUp(r.cmd, r.mine[x])
        /\ \A x \in DOMAIN r.edit : Moves(r.cmd.verb, r.mine[x], r.edit[x])
    BY <1>1 DEF Flow, Course
  <1>3. k \in DOMAIN r.mine
    BY <1>1, <1>2 DEF Scope
  <1>4. k \in Keys /\ r.mine[k] \in Entries
    BY <1>1, <1>3, FileHas
  <1> QED
    BY <1>1, <1>2, <1>3, <1>4 DEF r

\* An entry that is locked, or current, is passed.
LEMMA SurveyPasses ==
  ASSUME IInv, NEW s \in Sessions, ses[s].pc = "lookup", ses[s].cmd.verb # "add",
         NEW k \in ses[s].todo, NEW t \in Targets(ses[s].cmd, ses[s].mine[k]), t \in DOMAIN remote,
         Locked(ses[s].mine[k]) \/ NextPin(ses[s].mine[k], t) = ses[s].mine[k],
         Becomes(s, [ses[s] EXCEPT !.todo = @ \ {k}]),
         UNCHANGED <<file, torn, world, given, faults>>
  PROVE  IInv'
  <1> DEFINE r == ses[s]
             q == [r EXCEPT !.todo = @ \ {k}]
             e == r.mine[k]
  <1>1. /\ r \in Session /\ Sound(r, remote, built, clock) /\ r.pc = "lookup"
        /\ r.cmd.verb # "add" /\ k \in r.todo /\ r.todo \in SUBSET Keys /\ r.mine \in Files
        /\ Becomes(s, q) /\ t \in Targets(r.cmd, e) /\ (Locked(e) \/ NextPin(e, t) = e)
    BY SessionHas
  <1>2. /\ file' \in Files /\ torn' \in BOOLEAN /\ given' \in 0 .. MaxCommands
        /\ faults' \in 0 .. MaxFaults /\ UNCHANGED world
    BY SessionHas
  <1>3. e \in Entries /\ LooksUp(r.cmd, e)
    BY SurveyHas
  <1> HIDE DEF r
  <1>4. /\ q \in Session /\ q.pc = r.pc /\ q.cmd = r.cmd /\ q.mine = r.mine
        /\ q.edit = r.edit /\ q.todo = r.todo \ {k} /\ q.young = r.young /\ q.now = r.now
        /\ q.failed = r.failed /\ q.since = r.since
    BY <1>1 DEF Session
  <1> HIDE DEF q, e
  <1>5. Flow(q)
    BY <1>1, <1>4 DEF Sound, Flow
  <1>6. Following(q, built, clock)
    BY <1>1, <1>4 DEF Sound, Following
  <1>7. r.cmd.verb = "outdated" => Current(e, remote)
    <2>1. SUFFICES ASSUME r.cmd.verb = "outdated" PROVE Current(e, remote)
      OBVIOUS
    <2>2. e.tag \in Tags /\ t \in NextTags(e)
      BY <1>1, <1>3, <2>1, LookedUpHasTag DEF Targets
    <2> QED
      BY <1>1, <1>3, <2>2, PassedIsCurrent
  <1>8. Compared(q, remote, built)
    BY <1>1, <1>4, <1>7 DEF Sound, Compared, e
  <1> QED
    BY <1>1, <1>2, <1>4, <1>5, <1>6, <1>8, Moved DEF Sound

\* An entry that can move is noted, with its age.
LEMMA SurveyFinds ==
  ASSUME IInv, NEW s \in Sessions, ses[s].pc = "lookup", ses[s].cmd.verb # "add",
         NEW k \in ses[s].todo, NEW t \in Targets(ses[s].cmd, ses[s].mine[k]), t \in DOMAIN remote,
         ~Locked(ses[s].mine[k]), NEW ageKnown \in BOOLEAN, NEW young \in SUBSET Keys,
         young = IF Young(ses[s].mine[k], NextPin(ses[s].mine[k], t).digest, ses[s].now, ageKnown)
                 THEN ses[s].young \cup {k} ELSE ses[s].young,
         UNCHANGED <<file, torn, world, given, faults>>
  PROVE  Becomes(s, [ses[s] EXCEPT !.todo = @ \ {k},
                       !.edit = With(@, k, NextPin(ses[s].mine[k], t)), !.young = young])
         => IInv'
  <1> DEFINE r == ses[s]
             e == r.mine[k]
             next == NextPin(e, t)
             q == [r EXCEPT !.todo = @ \ {k}, !.edit = With(@, k, next), !.young = young]
  <1>1. /\ r \in Session /\ Sound(r, remote, built, clock) /\ r.pc = "lookup"
        /\ r.cmd.verb # "add" /\ k \in r.todo /\ r.todo \in SUBSET Keys /\ r.mine \in Files
        /\ r.edit \in Files /\ r.now \in Nat /\ t \in Targets(r.cmd, e)
        /\ t \in Tags /\ remote[t] \in Digests /\ remote[t] \in Known /\ ~Locked(e)
        /\ young = IF Young(e, next.digest, r.now, ageKnown) THEN r.young \cup {k} ELSE r.young
    BY SessionHas
  <1>2. /\ file' \in Files /\ torn' \in BOOLEAN /\ given' \in 0 .. MaxCommands
        /\ faults' \in 0 .. MaxFaults /\ UNCHANGED world
    BY SessionHas
  <1>3. /\ r.cmd \in Commands /\ r.cmd.verb \in {"pin", "update", "outdated"}
        /\ r.todo \cup DOMAIN r.edit \subseteq Scope(r.cmd, r.mine)
        /\ r.cmd.names \subseteq DOMAIN r.mine /\ k \in DOMAIN r.mine /\ k \in Keys
        /\ e \in Entries /\ LooksUp(r.cmd, e) /\ \A x \in r.todo : LooksUp(r.cmd, r.mine[x])
        /\ \A x \in DOMAIN r.edit : Moves(r.cmd.verb, r.mine[x], r.edit[x])
    BY SurveyHas
  <1>4. clock \in Nat /\ built[remote[t]] \in Nat /\ built[remote[t]] <= clock
    BY <1>1, SessionHas
  <1> HIDE DEF r
  <1>5. /\ next \in Entries /\ next.tag = t /\ next.digest = remote[t]
        /\ next.minAge = e.minAge /\ next.range = e.range /\ next.lock = e.lock
    BY <1>1, <1>3, PinHas
  <1> HIDE DEF next
  <1>6. /\ With(r.edit, k, next) \in Files
        /\ DOMAIN With(r.edit, k, next) = DOMAIN r.edit \cup {k}
        /\ With(r.edit, k, next)[k] = next
        /\ \A x \in DOMAIN r.edit \ {k} : With(r.edit, k, next)[x] = r.edit[x]
    <2>1. r.edit \in Files /\ k \in Keys /\ next \in Entries
      BY <1>1, <1>3, <1>5
    <2>2. ASSUME NEW f \in Files, NEW n \in Entries
          PROVE  /\ With(f, k, n) \in Files /\ DOMAIN With(f, k, n) = DOMAIN f \cup {k}
                 /\ With(f, k, n)[k] = n /\ \A x \in DOMAIN f \ {k} : With(f, k, n)[x] = f[x]
      BY <2>1, FileWith
    <2> QED
      BY <2>1, <2>2
  <1> DEFINE edit == With(r.edit, k, next)
  <1> HIDE DEF edit
  <1>7. /\ q \in Session /\ q.pc = r.pc /\ q.cmd = r.cmd /\ q.mine = r.mine
        /\ q.edit = edit /\ q.todo = r.todo \ {k} /\ q.young = young /\ q.now = r.now
        /\ q.failed = r.failed /\ q.since = r.since
    BY <1>1, <1>6 DEF Session, edit
  <1>8. /\ DOMAIN edit = DOMAIN r.edit \cup {k} /\ edit[k] = next
        /\ \A x \in DOMAIN r.edit \ {k} : edit[x] = r.edit[x]
    BY <1>6 DEF edit
  <1> HIDE DEF q
  <1>9. Moves(r.cmd.verb, e, next)
    BY <1>1, <1>3, <1>5 DEF Moves
  <1>10. Flow(q)
    <2>1. \A x \in DOMAIN edit : Moves(r.cmd.verb, r.mine[x], edit[x])
      BY <1>3, <1>8, <1>9
    <2>2. k \in Scope(r.cmd, r.mine)
      BY <1>1, <1>3
    <2> QED
      BY <1>1, <1>3, <1>7, <1>8, <2>1, <2>2 DEF Sound, Flow
  <1>11. ASSUME r.cmd.verb \in {"update", "outdated"}
         PROVE  Found(e, next, k \in young, built, clock)
    <2>1. e.tag \in Tags /\ t \in NextTags(e)
      BY <1>1, <1>3, <1>11, LookedUpHasTag DEF Targets
    <2>2. Ascends(e.tag, t, e.range)
      BY <1>1, <2>1, NextTagsIs, NextAscends, SessionHas
    <2>3. r.now <= clock
      BY <1>1, <1>11 DEF Sound, Following
    <2>4. k \notin young => clock - built[remote[t]] >= EffectiveMinAge(e)
      BY <1>1, <1>3, <1>4, <1>5, <2>3, NotYoung
    <2> QED
      BY <1>1, <1>5, <2>1, <2>2, <2>4 DEF Found, Known
  <1>12. Following(q, built, clock)
    <2>1. ASSUME r.cmd.verb \in {"update", "outdated"}, NEW x \in DOMAIN edit
          PROVE  Found(r.mine[x], edit[x], x \in young, built, clock)
      <3>1. CASE x = k
        BY <1>8, <1>11, <2>1, <3>1 DEF e
      <3>2. CASE x # k
        <4>1. x \in DOMAIN r.edit /\ edit[x] = r.edit[x] /\ (x \in young <=> x \in r.young)
          BY <1>1, <1>8, <2>1, <3>2
        <4>2. Found(r.mine[x], r.edit[x], x \in r.young, built, clock)
          BY <1>1, <2>1, <4>1 DEF Sound, Following
        <4> QED
          BY <4>1, <4>2 DEF Found
      <3> QED
        BY <3>1, <3>2
    <2>2. r.cmd.verb \in {"update", "outdated"} => r.now <= clock
      BY <1>1 DEF Sound, Following
    <2> QED
      BY <1>1, <1>7, <2>1, <2>2 DEF Following
  <1>13. Compared(q, remote, built)
    BY <1>1, <1>7, <1>8 DEF Sound, Compared
  <1> QED
    <2>1. Sound(q, remote, built, clock)
      BY <1>10, <1>12, <1>13 DEF Sound
    <2>2. Becomes(s, q) => IInv'
      BY <1>2, <1>7, <2>1, Moved
    <2> QED
      BY <2>2 DEF q, next, e, r

\* A lookup fails.
LEMMA LookupFails ==
  ASSUME IInv, NEW s \in Sessions, ses[s].pc = "lookup", NEW k \in ses[s].todo,
         Unresolved(s, k), UNCHANGED <<file, torn, world, given>>, faults' \in 0 .. MaxFaults
  PROVE  IInv'
  <1> DEFINE r == ses[s]
             q == [r EXCEPT !.todo = @ \ {k}, !.failed = @ \cup {k}]
  <1>1. /\ r \in Session /\ Sound(r, remote, built, clock) /\ r.pc = "lookup"
        /\ k \in r.todo /\ r.todo \in SUBSET Keys
    BY SessionHas
  <1>2. /\ file' \in Files /\ torn' \in BOOLEAN /\ given' \in 0 .. MaxCommands
        /\ UNCHANGED world
    BY SessionHas
  <1>3. CASE r.cmd.verb = "add"
    BY <1>2, <1>3, Ended DEF Unresolved, Results
  <1>4. CASE r.cmd.verb # "add"
    <2>1. Becomes(s, q)
      BY <1>4 DEF Unresolved
    <2> HIDE DEF r
    <2>2. /\ q \in Session /\ q.pc = r.pc /\ q.cmd = r.cmd /\ q.mine = r.mine
          /\ q.edit = r.edit /\ q.todo = r.todo \ {k} /\ q.young = r.young /\ q.now = r.now
          /\ q.failed = r.failed \cup {k} /\ q.since = r.since
      BY <1>1 DEF Session
    <2> HIDE DEF q
    <2>3. Flow(q)
      BY <1>1, <1>4, <2>2 DEF Sound, Flow
    <2>4. Following(q, built, clock)
      BY <1>1, <2>2 DEF Sound, Following
    <2>5. Compared(q, remote, built)
      BY <1>1, <2>2 DEF Sound, Compared
    <2> QED
      BY <1>2, <2>1, <2>2, <2>3, <2>4, <2>5, Moved DEF Sound
  <1> QED
    BY <1>3, <1>4

\* One entry is looked up.
LEMMA LookupStep ==
  ASSUME IInv, NEW s \in Sessions, Lookup(s)
  PROVE  IInv'
  <1>1. ses[s].pc = "lookup" /\ UNCHANGED <<file, torn, world, given>>
    BY DEF Lookup
  <1> DEFINE r == ses[s]
             entry(k) == IF r.cmd.verb = "add" THEN r.edit[k] ELSE r.mine[k]
  <1>2. PICK k \in r.todo : \E t \in Targets(r.cmd, entry(k)) :
          \/ t \in DOMAIN remote /\ Resolve(s, k, entry(k), t) /\ UNCHANGED faults
          \/ t \notin DOMAIN remote /\ Unresolved(s, k) /\ UNCHANGED faults
          \/ faults < MaxFaults /\ faults' = faults + 1 /\ Unresolved(s, k)
    BY DEF Lookup
  <1>3. CASE Unresolved(s, k) /\ (UNCHANGED faults \/ (faults < MaxFaults /\ faults' = faults + 1))
    <2>1. MaxFaults \in Nat /\ faults \in 0 .. MaxFaults
      BY SessionHas, ImagesAssumption DEF ImagesAssumption
    <2>2. faults' \in 0 .. MaxFaults
      BY <1>3, <2>1
    <2> QED
      BY <1>1, <1>3, <2>2, LookupFails
  <1>4. ASSUME NEW t \in Targets(r.cmd, entry(k)), t \in DOMAIN remote,
               Resolve(s, k, entry(k), t), UNCHANGED faults
        PROVE  IInv'
    <2>1. CASE r.cmd.verb = "add"
      BY <1>1, <1>4, <2>1, AddResolves
    <2>2. CASE r.cmd.verb # "add" /\ (Locked(r.mine[k]) \/ NextPin(r.mine[k], t) = r.mine[k])
      <3>1. Becomes(s, [ses[s] EXCEPT !.todo = @ \ {k}])
        BY <1>4, <2>2 DEF Resolve
      <3> QED
        BY <1>1, <1>4, <2>2, <3>1, SurveyPasses
    <2>3. CASE r.cmd.verb # "add" /\ ~(Locked(r.mine[k]) \/ NextPin(r.mine[k], t) = r.mine[k])
      <3> DEFINE next == NextPin(r.mine[k], t)
                 young(known) == IF Young(r.mine[k], next.digest, r.now, known)
                                 THEN r.young \cup {k} ELSE r.young
      <3>1. r \in Session /\ k \in Keys
        BY <2>3, <1>1, SessionHas, SurveyHas
      <3>2. PICK ageKnown \in BOOLEAN :
              Becomes(s, [r EXCEPT !.todo = @ \ {k}, !.edit = With(@, k, next),
                                   !.young = young(ageKnown)])
        BY <1>4, <2>3, <3>1 DEF Resolve, Session
      <3>3. young(ageKnown) \in SUBSET Keys
        BY <3>1 DEF Session
      <3> QED
        BY <1>1, <1>4, <2>3, <3>2, <3>3, SurveyFinds
    <2> QED
      BY <2>1, <2>2, <2>3
  <1>5. PICK t \in Targets(r.cmd, entry(k)) :
          \/ t \in DOMAIN remote /\ Resolve(s, k, entry(k), t) /\ UNCHANGED faults
          \/ Unresolved(s, k) /\ (UNCHANGED faults \/ (faults < MaxFaults /\ faults' = faults + 1))
    BY <1>2
  <1> HIDE DEF entry, r
  <1>6. CASE t \in DOMAIN remote /\ Resolve(s, k, entry(k), t) /\ UNCHANGED faults
    BY <1>4, <1>6
  <1> QED
    BY <1>3, <1>5, <1>6

-----------------------------------------------------------------------------
(* Decisions, answers and writes.                                           *)

\* outdated reports, and pin and update go on to ask or to write.
LEMMA DecideStep ==
  ASSUME IInv, NEW s \in Sessions, Decide(s)
  PROVE  IInv'
  <1> DEFINE r == ses[s]
             asking == [r EXCEPT !.pc = "prompt"]
             pinning == [r EXCEPT !.pc = "write"]
             taking == [r EXCEPT !.pc = "write", !.edit = Restrict(@, Chosen(s))]
  <1>1. /\ file' \in Files /\ torn' \in BOOLEAN /\ given' \in 0 .. MaxCommands
        /\ faults' \in 0 .. MaxFaults /\ UNCHANGED world
    BY SessionHas DEF Decide
  <1>2. /\ r \in Session /\ Sound(r, remote, built, clock) /\ r.pc = "lookup"
        /\ r.cmd.verb # "add" /\ r.edit \in Files
    BY SessionHas DEF Decide
  <1>3. CASE \E how \in Results : Returns(s, how)
    BY <1>1, <1>3, Ended
  <1>4. ASSUME ~\E how \in Results : Returns(s, how)
        PROVE  /\ r.cmd.verb \in {"pin", "update"} /\ DOMAIN r.edit # {}
               /\ \/ ~r.cmd.yes /\ Becomes(s, asking)
                  \/ r.cmd.yes /\ r.cmd.verb = "pin" /\ Becomes(s, pinning)
                  \/ r.cmd.verb = "update" /\ Chosen(s) # {} /\ Becomes(s, taking)
    <2>1. r.cmd.verb \in {"pin", "update", "outdated"}
      BY <1>2 DEF Sound, Flow, Course
    <2>2. \A how \in {"ok", "error", "outdated"} : ~Returns(s, how)
      BY <1>4 DEF Results
    <2>3. ~Returns(s, Verdict(s))
      BY <1>4, VerdictIs
    <2>4. r.cmd.verb # "outdated"
      BY <2>2 DEF Decide
    <2> QED
      BY <2>1, <2>3, <2>4 DEF Decide
  <1>5. /\ Chosen(s) \subseteq DOMAIN r.edit
        /\ \A k \in Chosen(s) : k \notin r.young \/ k \in r.cmd.names
    BY DEF Chosen
  <1>6. /\ Restrict(r.edit, Chosen(s)) \in Files
        /\ DOMAIN Restrict(r.edit, Chosen(s)) = Chosen(s)
        /\ \A k \in Chosen(s) : Restrict(r.edit, Chosen(s))[k] = r.edit[k]
    BY <1>2, <1>5, FileRestrict
  <1> HIDE DEF r
  <1>7. ASSUME r.cmd.verb \in {"pin", "update"}, DOMAIN r.edit # {}, ~r.cmd.yes,
               Becomes(s, asking)
        PROVE  IInv'
    <2>1. /\ asking \in Session /\ asking.pc = "prompt" /\ asking.cmd = r.cmd
          /\ asking.mine = r.mine /\ asking.todo = r.todo /\ asking.young = r.young
          /\ asking.now = r.now /\ asking.edit = r.edit
      BY <1>2 DEF Session, Phases
    <2> HIDE DEF asking
    <2>2. Sound(asking, remote, built, clock)
      BY <1>2, <1>7, <2>1, Narrowed
    <2> QED
      BY <1>1, <1>7, <2>1, <2>2, Moved
  <1>8. ASSUME r.cmd.verb = "pin", DOMAIN r.edit # {}, Becomes(s, pinning)
        PROVE  IInv'
    <2>1. /\ pinning \in Session /\ pinning.pc = "write" /\ pinning.cmd = r.cmd
          /\ pinning.mine = r.mine /\ pinning.todo = r.todo /\ pinning.young = r.young
          /\ pinning.now = r.now /\ pinning.edit = r.edit
      BY <1>2 DEF Session, Phases
    <2> HIDE DEF pinning
    <2>2. Sound(pinning, remote, built, clock)
      BY <1>2, <1>8, <2>1, Narrowed
    <2> QED
      BY <1>1, <1>8, <2>1, <2>2, Moved
  <1>9. ASSUME r.cmd.verb = "update", Chosen(s) # {}, Becomes(s, taking)
        PROVE  IInv'
    <2>1. /\ taking \in Session /\ taking.pc = "write" /\ taking.cmd = r.cmd
          /\ taking.mine = r.mine /\ taking.todo = r.todo /\ taking.young = r.young
          /\ taking.now = r.now /\ taking.edit = Restrict(r.edit, Chosen(s))
      BY <1>2, <1>6 DEF Session, Phases
    <2> HIDE DEF taking
    <2>2. Sound(taking, remote, built, clock)
      BY <1>2, <1>5, <1>6, <1>9, <2>1, Narrowed
    <2> QED
      BY <1>1, <1>9, <2>1, <2>2, Moved
  <1> QED
    BY <1>3, <1>4, <1>7, <1>8, <1>9

\* The user answers.
LEMMA AnswerStep ==
  ASSUME IInv, NEW s \in Sessions, Answer(s)
  PROVE  IInv'
  <1> DEFINE r == ses[s]
             pinning == [r EXCEPT !.pc = "write"]
             picking(ks) == [r EXCEPT !.pc = "write", !.edit = Restrict(@, ks)]
  <1>1. /\ file' \in Files /\ torn' \in BOOLEAN /\ given' \in 0 .. MaxCommands
        /\ faults' \in 0 .. MaxFaults /\ UNCHANGED world
    BY SessionHas DEF Answer
  <1>2. /\ r \in Session /\ Sound(r, remote, built, clock) /\ r.pc = "prompt"
        /\ r.edit \in Files
    BY SessionHas DEF Answer
  <1>3. CASE \E how \in Results : Returns(s, how)
    BY <1>1, <1>3, Ended
  <1>4. ASSUME ~\E how \in Results : Returns(s, how)
        PROVE  \/ r.cmd.verb = "pin" /\ Becomes(s, pinning)
               \/ /\ r.cmd.verb = "update"
                  /\ \E ks \in SUBSET DOMAIN r.edit : ks # {} /\ Becomes(s, picking(ks))
    <2>1. ~Returns(s, "aborted") /\ ~Returns(s, Verdict(s))
      BY <1>4, VerdictIs DEF Results
    <2> QED
      BY <2>1 DEF Answer
  <1> HIDE DEF r
  <1>5. DOMAIN r.edit # {} /\ ~r.cmd.yes
    BY <1>2 DEF Sound, Flow
  <1>6. ASSUME r.cmd.verb = "pin", Becomes(s, pinning)
        PROVE  IInv'
    <2>1. /\ pinning \in Session /\ pinning.pc = "write" /\ pinning.cmd = r.cmd
          /\ pinning.mine = r.mine /\ pinning.todo = r.todo /\ pinning.young = r.young
          /\ pinning.now = r.now /\ pinning.edit = r.edit
      BY <1>2 DEF Session, Phases
    <2> HIDE DEF pinning
    <2>2. Sound(pinning, remote, built, clock)
      BY <1>2, <1>5, <1>6, <2>1, Narrowed
    <2> QED
      BY <1>1, <1>6, <2>1, <2>2, Moved
  <1>7. ASSUME r.cmd.verb = "update", NEW ks \in SUBSET DOMAIN r.edit, ks # {},
               Becomes(s, picking(ks))
        PROVE  IInv'
    <2> DEFINE q == picking(ks)
    <2>1. /\ Restrict(r.edit, ks) \in Files /\ DOMAIN Restrict(r.edit, ks) = ks
          /\ \A k \in ks : Restrict(r.edit, ks)[k] = r.edit[k]
      BY <1>2, FileRestrict
    <2>2. /\ q \in Session /\ q.pc = "write" /\ q.cmd = r.cmd
          /\ q.mine = r.mine /\ q.todo = r.todo /\ q.young = r.young
          /\ q.now = r.now /\ q.edit = Restrict(r.edit, ks)
      BY <1>2, <2>1 DEF Session, Phases
    <2>3. Becomes(s, q)
      BY <1>7
    <2> HIDE DEF q
    <2>4. Sound(q, remote, built, clock)
      BY <1>2, <1>5, <1>7, <2>1, <2>2, Narrowed
    <2> QED
      BY <1>1, <2>2, <2>3, <2>4, Moved
  <1> QED
    BY <1>3, <1>4, <1>6, <1>7

LEMMA TruncateStep ==
  ASSUME IInv, NEW s \in Sessions, Truncate(s)
  PROVE  IInv'
  <1> DEFINE r == ses[s]
             q == [r EXCEPT !.pc = "writing"]
  <1>1. /\ file' \in Files /\ given' \in 0 .. MaxCommands
        /\ faults' \in 0 .. MaxFaults /\ UNCHANGED world
    BY SessionHas DEF Truncate
  <1>2. torn' \in BOOLEAN
    BY DEF Truncate
  <1>3. r \in Session /\ Sound(r, remote, built, clock) /\ r.pc = "write" /\ Becomes(s, q)
    BY SessionHas DEF Truncate
  <1> HIDE DEF r
  <1>4. /\ q \in Session /\ q.pc = "writing" /\ q.cmd = r.cmd /\ q.mine = r.mine
        /\ q.edit = r.edit /\ q.todo = r.todo /\ q.young = r.young /\ q.now = r.now
    BY <1>3 DEF Session, Phases
  <1> HIDE DEF q
  <1>5. Flow(q)
    BY <1>3, <1>4 DEF Sound, Flow, Course
  <1>6. Following(q, built, clock)
    BY <1>3, <1>4 DEF Sound, Following
  <1>7. Compared(q, remote, built)
    BY <1>4 DEF Compared
  <1> QED
    BY <1>1, <1>2, <1>3, <1>4, <1>5, <1>6, <1>7, Moved DEF Sound

LEMMA WriteStep ==
  ASSUME IInv, NEW s \in Sessions, WriteImages(s)
  PROVE  IInv'
  <1>1. /\ given' \in 0 .. MaxCommands /\ faults' \in 0 .. MaxFaults /\ UNCHANGED world
        /\ torn' \in BOOLEAN
    BY SessionHas DEF WriteImages
  <1>2. file' \in Files
    BY SessionHas, FileOver DEF WriteImages, Emitted
  <1> QED
    BY <1>1, <1>2, Ended, VerdictIs DEF WriteImages

LEMMA CrashStep ==
  ASSUME IInv, NEW s \in Sessions, Crash(s)
  PROVE  IInv'
  <1>1. /\ given' \in 0 .. MaxCommands /\ UNCHANGED world /\ torn' \in BOOLEAN /\ file' \in Files
    BY SessionHas DEF Crash
  <1>2. faults' \in 0 .. MaxFaults
    <2>1. MaxFaults \in Nat
      BY ImagesAssumption DEF ImagesAssumption
    <2> QED
      BY <2>1, SessionHas DEF Crash
  <1>3. Returns(s, "error")
    BY DEF Crash
  <1> QED
    BY <1>1, <1>2, <1>3, Ended DEF Results

-----------------------------------------------------------------------------
(* What the world does meanwhile.                                           *)

\* What was found stays found while images are pushed and time goes by.
LEMMA StaysFound ==
  ASSUME NEW old, NEW new, NEW young, NEW birth, NEW time \in Nat, NEW later, NEW after \in Nat,
         Found(old, new, young, birth, time), DOMAIN birth \subseteq DOMAIN later,
         \A d \in DOMAIN birth : later[d] = birth[d] /\ birth[d] \in Nat,
         time <= after, EffectiveMinAge(old) \in Nat
  PROVE  Found(old, new, young, later, after)
  BY DEF Found

LEMMA StaysFollowing ==
  ASSUME IInv, NEW s \in Sessions, NEW later, NEW after \in Nat,
         Known \subseteq DOMAIN later, \A d \in Known : later[d] = built[d], clock <= after
  PROVE  Following(ses[s], later, after)
  <1> DEFINE r == ses[s]
  <1> SUFFICES ASSUME r.pc # "idle", r.cmd.verb \in {"update", "outdated"}
               PROVE  Following(r, later, after)
    BY DEF Following
  <1>1. /\ Sound(r, remote, built, clock) /\ r.mine \in Files /\ r.now \in Nat
        /\ clock \in Nat /\ \A d \in Known : built[d] \in Nat
    BY SessionHas
  <1> HIDE DEF r
  <1>2. /\ r.now <= clock
        /\ \A k \in DOMAIN r.edit : Found(r.mine[k], r.edit[k], k \in r.young, built, clock)
        /\ r.pc \in {"write", "writing"} /\ r.cmd.yes =>
             \A k \in DOMAIN r.edit : k \notin r.young \/ k \in r.cmd.names
    BY <1>1 DEF Sound, Following
  <1>3. DOMAIN r.edit \subseteq DOMAIN r.mine
    BY <1>1, <1>2 DEF Sound, Flow, Scope
  <1>4. ASSUME NEW k \in DOMAIN r.edit
        PROVE  Found(r.mine[k], r.edit[k], k \in r.young, later, after)
    <2>1. EffectiveMinAge(r.mine[k]) \in Nat
      BY <1>1, <1>3, FileHas, AgeIsNat
    <2>2. Found(r.mine[k], r.edit[k], k \in r.young, built, clock)
      BY <1>2
    <2> QED
      BY <1>1, <2>1, <2>2, StaysFound DEF Known
  <1>5. r.now <= after
    BY <1>1, <1>2
  <1> QED
    BY <1>2, <1>4, <1>5 DEF Following

LEMMA TickStep ==
  ASSUME IInv, Tick
  PROVE  IInv'
  <1>1. /\ clock \in Nat /\ clock' = clock + 1 /\ clock < MaxClock /\ MaxClock \in Nat
        /\ UNCHANGED <<file, torn, remote, built, ses, given, faults>> /\ clock' \in Nat
    BY ImagesAssumption DEF ImagesAssumption, IInv, Typed, Tick
  <1>2. \A d \in Known : built[d] \in 0 .. clock'
    BY <1>1 DEF IInv, Typed
  <1>3. clock' \in 0 .. MaxClock
    BY <1>1
  <1>4. Typed'
    BY <1>1, <1>2, <1>3 DEF IInv, Typed, Known
  <1>5. ASSUME NEW s \in Sessions
        PROVE  Sound(ses[s], remote, built, clock')
    <2>1. Following(ses[s], built, clock')
      BY <1>1, StaysFollowing DEF Known
    <2> QED
      BY <2>1 DEF IInv, Sound
  <1> QED
    BY <1>1, <1>4, <1>5 DEF IInv

\* A digest is pushed: what is known of the others stays, and there is one more.
LEMMA PushStep ==
  ASSUME IInv, Push
  PROVE  IInv'
  <1> DEFINE d == Cardinality(Known) + 1
  <1>1. PICK n \in Digests : Known = 1 .. n
    BY DEF IInv, Typed
  <1>2. n \in Nat /\ MaxDigests \in Nat /\ MaxClock \in Nat /\ Digests = 1 .. MaxDigests
    BY <1>1, ImagesAssumption DEF ImagesAssumption, Digests
  <1>3. Cardinality(Known) = n /\ d = n + 1 /\ n < MaxDigests
    BY <1>1, <1>2, FS_Interval DEF Push
  <1>4. PICK t \in Tags, when \in {0, clock} :
          remote' = With(remote, t, d) /\ built' = With(built, d, when)
    BY DEF Push
  <1> HIDE DEF d
  <1>5. d \in Digests /\ d \notin Known /\ 1 .. d = Known \cup {d}
    BY <1>1, <1>2, <1>3
  <1>6. /\ UNCHANGED <<file, torn, clock, ses, given, faults>> /\ clock \in Nat
    BY <1>2 DEF IInv, Typed, Push
  <1>7. /\ DOMAIN built' = Known \cup {d} /\ built'[d] = when
        /\ \A x \in Known : built'[x] = built[x]
    BY <1>4, <1>5 DEF With, Known
  <1>8. /\ DOMAIN remote' = DOMAIN remote \cup {t}
        /\ \A x \in DOMAIN remote' : remote'[x] \in Known \cup {d}
    BY <1>4 DEF With, IInv, Typed
  <1>9. Known' = 1 .. d
    BY <1>5, <1>7 DEF Known
  <1>10. \A x \in Known' : built'[x] \in 0 .. clock'
    <2>1. \A x \in Known : built[x] \in 0 .. clock
      BY DEF IInv, Typed
    <2>2. when \in 0 .. clock
      BY <1>6
    <2> QED
      BY <1>5, <1>6, <1>7, <1>9, <2>1, <2>2
  <1>11. Typed'
    <2>1. DOMAIN remote' \subseteq Tags /\ \A x \in DOMAIN remote' : remote'[x] \in Known'
      BY <1>5, <1>8, <1>9 DEF IInv, Typed
    <2>2. \E m \in Digests' : Known' = 1 .. m
      BY <1>5, <1>9
    <2>3. /\ file' \in Files /\ torn' \in BOOLEAN /\ clock' \in 0 .. MaxClock
          /\ given' \in 0 .. MaxCommands /\ faults' \in 0 .. MaxFaults
          /\ ses' \in [Sessions -> Session]
      BY <1>6 DEF IInv, Typed
    <2> QED
      BY <1>10, <2>1, <2>2, <2>3 DEF Typed
  <1>12. Cardinality(DOMAIN built') = d /\ d \in Nat
    BY <1>2, <1>3, <1>9, FS_Interval DEF Known
  <1>13. ASSUME NEW s \in Sessions
         PROVE  Sound(ses[s], remote', built', clock)
    <2>1. Following(ses[s], built', clock)
      <3>1. Known \subseteq DOMAIN built'
        BY <1>7
      <3> QED
        BY <1>6, <1>7, <3>1, StaysFollowing
    <2>2. Compared(ses[s], remote', built')
      <3>1. ses[s].pc = "lookup" /\ ses[s].cmd.verb = "outdated" => ses[s].since <= n
        BY <1>3 DEF IInv, Sound, Compared, Known
      <3>2. ses[s].since \in Nat
        BY DEF IInv, Typed, Session
      <3> QED
        BY <1>2, <1>3, <1>12, <3>1, <3>2 DEF Compared
    <2> QED
      BY <2>1, <2>2 DEF IInv, Sound
  <1> QED
    BY <1>6, <1>11, <1>13 DEF IInv

\* Every step.
LEMMA Inductive == IInv /\ [Next]_vars => IInv'
  <1> SUFFICES ASSUME IInv, [Next]_vars PROVE IInv'
    OBVIOUS
  <1>1. ASSUME NEW s \in Sessions, Step(s) PROVE IInv'
    BY <1>1, StartStep, LookupStep, DecideStep, AnswerStep, TruncateStep, WriteStep, CrashStep
       DEF Step
  <1>2. CASE UNCHANGED vars
    BY <1>2 DEF vars, IInv, Typed, Known
  <1> QED
    BY <1>1, <1>2, PushStep, TickStep DEF Next

\* Each entry that a command has in hand is what its verb, the lock of the entry, the
\* tags there were and the time make of it, at every phase and whatever other
\* commands and the remote registry do (imageupdate.go, imagepin.go, imagelock.go).
THEOREM ImagesInvariant == Spec => []IInv
  BY Initially, Inductive, PTL DEF Spec

-----------------------------------------------------------------------------
(* What follows from it.                                                    *)

\* Whatever commands run over each other, file and sessions have what the commands'
\* variables can have, and no command comes to write without an edit.
THEOREM ImagesTypes == Spec => []TypeOK
  <1>1. IInv => TypeOK
    <2> SUFFICES ASSUME IInv PROVE TypeOK
      OBVIOUS
    <2>1. DOMAIN file \subseteq Keys /\ Range(file) \subseteq Entries /\ torn \in BOOLEAN
      BY FileHas DEF IInv, Typed, Range
    <2>2. DOMAIN remote \subseteq Tags /\ Range(remote) \subseteq Known
      BY DEF IInv, Typed, Range
    <2>3. PICK n \in Digests : Known = 1 .. n
      BY DEF IInv, Typed
    <2>4. Known \subseteq Digests
      BY <2>3, ImagesAssumption DEF ImagesAssumption, Digests
    <2>5. Range(built) \subseteq 0 .. clock
      BY DEF IInv, Typed, Range, Known
    <2>6. clock \in 0 .. MaxClock /\ given \in 0 .. MaxCommands /\ faults \in 0 .. MaxFaults
      BY DEF IInv, Typed
    <2>7. ASSUME NEW s \in Sessions
          PROVE  /\ ses[s].pc \in Phases /\ ses[s].result \in Results
                 /\ ses[s].pc \in {"write", "writing"} =>
                      DOMAIN ses[s].edit # {} /\ Range(ses[s].edit) \subseteq Entries
      <3>1. ses[s] \in Session /\ Flow(ses[s]) /\ ses[s].edit \in Files
        BY SessionHas DEF Sound
      <3>2. Range(ses[s].edit) \subseteq Entries
        BY <3>1, FileHas DEF Range
      <3> QED
        BY <3>1, <3>2 DEF Session, Flow
    <2> QED
      BY <2>1, <2>2, <2>4, <2>5, <2>6, <2>7 DEF TypeOK
  <1> QED
    BY <1>1, ImagesInvariant, PTL

\* What a command writes, and what it has to do with what it read.
LEMMA WriteHas ==
  ASSUME IInv, NEW s \in Sessions, WriteImages(s)
  PROVE  LET r == ses[s] IN
         /\ r.mine \in Files /\ r.edit \in Files /\ file' \in Files
         /\ r.pc = "writing" /\ Flow(r) /\ Following(r, built, clock)
         /\ DOMAIN file' = DOMAIN r.mine \cup DOMAIN r.edit
         /\ \A k \in DOMAIN r.edit : file'[k] = r.edit[k]
         /\ \A k \in DOMAIN r.mine \ DOMAIN r.edit : file'[k] = r.mine[k]
  BY SessionHas, FileOver DEF WriteImages, Emitted, Sound

\* What an edit does to an entry that it changes.
LEMMA EditHas ==
  ASSUME NEW r, Flow(r), r.pc = "writing", r.mine \in Files, r.edit \in Files,
         NEW k \in DOMAIN r.edit \cap DOMAIN r.mine
  PROVE  LET old == r.mine[k] new == r.edit[k] IN
         /\ k \in Scope(r.cmd, r.mine)
         /\ Locked(old) => [new EXCEPT !.lock = TRUE] = old
         /\ Locked(old) /\ ~Locked(new) => r.cmd.verb = "unlock"
         /\ <<old.minAge, old.range>> # <<new.minAge, new.range>> =>
              r.cmd.verb = "add" /\ r.cmd.force
  <1> DEFINE old == r.mine[k]
             new == r.edit[k]
  <1>1. /\ r.cmd \in Commands /\ k \in Scope(r.cmd, r.mine)
        /\ r.cmd.verb \in {"add", "pin", "update", "lock", "unlock"}
        /\ r.cmd.verb = "add" => \A x \in r.cmd.names \cap DOMAIN r.mine :
                                    ~Locked(r.mine[x]) /\ r.cmd.force
        /\ r.cmd.verb # "add" => Moves(r.cmd.verb, old, new)
    BY DEF Flow, Course
  <1>2. old \in Entries /\ new \in Entries
    BY FileHas
  <1>3. CASE r.cmd.verb = "add"
    <2>1. k \in r.cmd.names
      BY <1>1, <1>3, ImagesAssumption DEF ImagesAssumption, Scope
    <2> QED
      BY <1>1, <1>3, <2>1
  <1>4. CASE r.cmd.verb # "add"
    <2> HIDE DEF old, new
    <2>1. \/ r.cmd.verb = "lock" /\ new = [old EXCEPT !.lock = TRUE]
          \/ r.cmd.verb = "unlock" /\ new = [old EXCEPT !.lock = FALSE]
          \/ /\ ~Locked(old) /\ new.minAge = old.minAge /\ new.range = old.range
      BY <1>1, <1>4 DEF Moves
    <2>2. Locked(old) => [new EXCEPT !.lock = TRUE] = old
      BY <1>2, <2>1 DEF Entries, Locked
    <2>3. new.minAge = old.minAge /\ new.range = old.range
      BY <1>2, <2>1 DEF Entries
    <2>4. Locked(old) /\ ~Locked(new) => r.cmd.verb = "unlock"
      BY <1>2, <2>1 DEF Entries, Locked
    <2> QED
      BY <1>1, <2>2, <2>3, <2>4 DEF old, new
  <1> QED
    BY <1>3, <1>4

\* No command does more than it was asked to (imageadd.go, imagepin.go, imageupdate.go,
\* imagelock.go, emitImageRegistry): for any registry and any tags, an undisturbed
\* write keeps every entry, and of the locked ones all but the lock.
THEOREM OnlyWhatWasAsked == Spec => OnlyAsAsked
  <1>1. ASSUME IInv, NEW s \in Sessions, Undisturbed(s)
        PROVE  AsAsked(s)
    <2> DEFINE r == ses[s]
    <2>1. /\ r.mine \in Files /\ r.edit \in Files /\ r.pc = "writing" /\ Flow(r)
          /\ file = r.mine
          /\ DOMAIN file' = DOMAIN r.mine \cup DOMAIN r.edit
          /\ \A k \in DOMAIN r.edit : file'[k] = r.edit[k]
          /\ \A k \in DOMAIN r.mine \ DOMAIN r.edit : file'[k] = r.mine[k]
      BY <1>1, WriteHas DEF Undisturbed
    <2> SUFFICES ASSUME NEW k \in DOMAIN file
                 PROVE  /\ k \in DOMAIN file'
                        /\ file'[k] # file[k] => k \in Scope(r.cmd, file)
                        /\ Locked(file[k]) => [file'[k] EXCEPT !.lock = TRUE] = file[k]
                        /\ Locked(file[k]) /\ ~Locked(file'[k]) => r.cmd.verb = "unlock"
                        /\ <<file[k].minAge, file[k].range>> # <<file'[k].minAge, file'[k].range>>
                             => r.cmd.verb = "add" /\ r.cmd.force
      BY DEF AsAsked
    <2> HIDE DEF r
    <2>2. CASE k \in DOMAIN r.edit
      BY <2>1, <2>2, EditHas
    <2>3. CASE k \notin DOMAIN r.edit
      <3>1. file'[k] = file[k] /\ file[k] \in Entries
        BY <2>1, <2>3, FileHas
      <3>2. Locked(file[k]) => [file[k] EXCEPT !.lock = TRUE] = file[k]
        BY <3>1 DEF Entries, Locked
      <3> QED
        BY <2>1, <3>1, <3>2
    <2> QED
      BY <2>2, <2>3
  <1>2. IInv /\ [Next]_vars => [\A s \in Sessions : Undisturbed(s) => AsAsked(s)]_vars
    BY <1>1
  <1> QED
    BY <1>2, ImagesInvariant, PTL DEF Spec, OnlyAsAsked

\* update never leads an entry down, to another suffix, out of its range or to a less
\* precise tag (PickVersion, nextPin): for any tags, of any number of parts.
THEOREM UpdatesOnlyAscend == Spec => UpdatesAscend
  <1>1. ASSUME IInv, NEW s \in Sessions, Undisturbed(s), ses[s].cmd.verb = "update",
               NEW k \in DOMAIN file, file'[k].tag # file[k].tag
        PROVE  Upwards(file[k].tag, file'[k].tag, file[k].range)
    <2>1. /\ ses[s].pc = "writing" /\ Following(ses[s], built, clock) /\ file = ses[s].mine
          /\ \A x \in DOMAIN ses[s].edit : file'[x] = ses[s].edit[x]
          /\ \A x \in DOMAIN ses[s].mine \ DOMAIN ses[s].edit : file'[x] = ses[s].mine[x]
      BY <1>1, WriteHas DEF Undisturbed
    <2>2. k \in DOMAIN ses[s].edit /\ file'[k] = ses[s].edit[k]
      BY <1>1, <2>1
    <2>3. Found(file[k], file'[k], k \in ses[s].young, built, clock)
      BY <1>1, <2>1, <2>2 DEF Following
    <2>4. /\ file[k].tag \in Tags /\ file'[k].tag \in Tags
          /\ Ascends(file[k].tag, file'[k].tag, file[k].range)
      BY <2>3 DEF Found
    <2> QED
      BY <1>1, <2>4, AscendsIsUp DEF Upwards
  <1>2. IInv /\ [Next]_vars =>
          [\A s \in Sessions : Undisturbed(s) /\ ses[s].cmd.verb = "update" =>
             \A k \in DOMAIN file :
               file'[k].tag # file[k].tag
                 => Upwards(file[k].tag, file'[k].tag, file[k].range)]_vars
    BY <1>1
  <1> QED
    BY <1>2, ImagesInvariant, PTL DEF Spec, UpdatesAscend

\* An age that a word holds is the age that is meant.
LEMMA AgeAsAsked ==
  ASSUME NEW e \in Entries, \A a \in Ages : ParseAge(a[1], a[2], Width) # -1
  PROVE  EffectiveMinAge(e) = AskedAge(e)
  <1>1. CASE e.minAge = NoAge
    BY <1>1 DEF EffectiveMinAge, AskedAge
  <1>2. CASE e.minAge # NoAge
    <2> DEFINE n == e.minAge[1]  u == e.minAge[2]  age == ParseAge(n, u, Width)
               S == {0, age}
    <2>1. n \in Nat /\ u \in Nat /\ age # -1
      BY <1>2, ImagesAssumption DEF ImagesAssumption, Entries
    <2> HIDE DEF n, u
    <2>2. n * u \in Nat
      BY <2>1
    <2>3. age = n * u
      BY <2>1 DEF ParseAge
    <2>4. 0 \in S /\ age \in S /\ \A x \in S : x = 0 \/ x = age
      OBVIOUS
    <2> HIDE DEF age, S
    <2>5. Max(S) \in S /\ Max(S) >= 0 /\ Max(S) >= age
      <3>1. 0 \in Int /\ age \in Int
        BY <2>2, <2>3
      <3> QED
        BY <2>4, <3>1, MaxOfTwo
    <2>6. Max(S) = age
      <3>1. age \in Nat
        BY <2>2, <2>3
      <3>2. Max(S) = 0 \/ Max(S) = age
        BY <2>4, <2>5
      <3> QED
        BY <2>5, <3>1, <3>2
    <2> QED
      BY <1>2, <2>3, <2>6 DEF EffectiveMinAge, AskedAge, n, u, age, S
  <1> QED
    BY <1>1, <1>2

\* update -y writes only images as old as their entries ask (nextPin, ParseAge),
\* while the remote moves and time goes by, where every minAge of the file is one
\* that ParseAge accepts: what the run images_min_age refutes is the rest.
THEOREM YoungOnlyIfNamed ==
  ASSUME \A a \in Ages : ParseAge(a[1], a[2], Width) # -1
  PROVE  Spec => YoungIsNamed
  <1>1. ASSUME IInv, NEW s \in Sessions, WriteImages(s), ses[s].cmd.verb = "update",
               NEW k \in DOMAIN ses[s].edit \ ses[s].cmd.names, ses[s].cmd.yes
        PROVE  clock - built[file'[k].digest] >= AskedAge(ses[s].mine[k])
    <2> DEFINE r == ses[s]
    <2>1. /\ r.pc = "writing" /\ Flow(r) /\ Following(r, built, clock)
          /\ r.mine \in Files /\ file'[k] = r.edit[k]
      BY <1>1, WriteHas
    <2>2. k \notin r.young /\ Found(r.mine[k], r.edit[k], k \in r.young, built, clock)
      BY <1>1, <2>1 DEF Following
    <2>3. clock - built[file'[k].digest] >= EffectiveMinAge(r.mine[k])
      BY <2>1, <2>2 DEF Found
    <2>4. k \in DOMAIN r.mine
      BY <1>1, <2>1 DEF Flow, Scope
    <2>5. r.mine[k] \in Entries
      BY <2>1, <2>4, FileHas
    <2> QED
      BY <2>3, <2>5, AgeAsAsked
  <1>2. IInv /\ [Next]_vars =>
          [\A s \in Sessions : WriteImages(s) /\ ses[s].cmd.verb = "update" =>
             \A k \in DOMAIN ses[s].edit \ ses[s].cmd.names :
               ses[s].cmd.yes =>
                 clock - built[file'[k].digest] >= AskedAge(ses[s].mine[k])]_vars
    BY <1>1
  <1> QED
    BY <1>2, ImagesInvariant, PTL DEF Spec, YoungIsNamed

\* A step of another session leaves this one as it is.
LEMMA OnlyOwnSteps ==
  ASSUME IInv, NEW s \in Sessions, [Next]_vars, ~Step(s)
  PROVE  ses'[s] = ses[s]
  <1>1. ASSUME NEW t \in Sessions, Step(t)
        PROVE  ses'[s] = ses[s]
    <2>1. t # s
      BY <1>1
    <2>2. \E record : Becomes(t, record)
      <3>1. CASE Start(t)
        BY <3>1 DEF Start, Add, Lock, Unlock, Survey, Returns
      <3>2. CASE Lookup(t)
        BY <3>2 DEF Lookup, Resolve, Unresolved, Returns
      <3>3. CASE Decide(t)
        BY <3>3 DEF Decide, Returns
      <3>4. CASE Answer(t)
        BY <3>4 DEF Answer, Returns
      <3>5. CASE Truncate(t) \/ WriteImages(t) \/ Crash(t)
        BY <3>5 DEF Truncate, WriteImages, Crash, Returns
      <3> QED
        BY <1>1, <3>1, <3>2, <3>3, <3>4, <3>5 DEF Step
    <2> QED
      BY <2>1, <2>2 DEF Becomes, IInv, Typed
  <1>2. CASE Push \/ Tick \/ UNCHANGED vars
    BY <1>2 DEF Push, Tick, vars
  <1> QED
    BY <1>1, <1>2 DEF Next

\* outdated says that all is current only at its end.
LEMMA ReportsByDeciding ==
  ASSUME IInv, NEW s \in Sessions, [Next]_vars, ReportsCurrent(s)
  PROVE  Decide(s)
  <1>1. /\ ses[s].pc = "lookup" /\ ses[s].cmd.verb = "outdated" /\ ses'[s].pc = "idle"
        /\ ses \in [Sessions -> Session] /\ ses[s] \in Session
    BY DEF ReportsCurrent, IInv, Typed
  <1>2. Step(s)
    BY <1>1, OnlyOwnSteps
  <1>3. ~Lookup(s)
    <2> SUFFICES ASSUME Lookup(s) PROVE FALSE
      OBVIOUS
    <2>1. PICK record : Becomes(s, record) /\ record.pc = "lookup"
      <3> DEFINE e(k) == IF ses[s].cmd.verb = "add" THEN ses[s].edit[k] ELSE ses[s].mine[k]
      <3>1. PICK k, t : Resolve(s, k, e(k), t) \/ Unresolved(s, k)
        BY DEF Lookup
      <3> HIDE DEF e
      <3>2. CASE Unresolved(s, k)
        <4> DEFINE q == [ses[s] EXCEPT !.todo = @ \ {k}, !.failed = @ \cup {k}]
        <4>1. Becomes(s, q)
          BY <1>1, <3>2 DEF Unresolved
        <4>2. q.pc = "lookup"
          BY <1>1 DEF Session
        <4> QED
          BY <4>1, <4>2
      <3>3. CASE Resolve(s, k, e(k), t)
        <4> DEFINE passed == [ses[s] EXCEPT !.todo = @ \ {k}]
                   found(young) == [ses[s] EXCEPT !.todo = @ \ {k},
                                      !.edit = With(@, k, NextPin(e(k), t)), !.young = young]
        <4>1. Becomes(s, passed) \/ \E young : Becomes(s, found(young))
          BY <1>1, <3>3 DEF Resolve, Session
        <4>2. passed.pc = "lookup" /\ \A young : found(young).pc = "lookup"
          BY <1>1 DEF Session
        <4> QED
          BY <4>1, <4>2
      <3> QED
        BY <3>1, <3>2, <3>3
    <2> QED
      BY <1>1, <2>1 DEF Becomes
  <1> QED
    BY <1>1, <1>2, <1>3 DEF Step, Start, Answer, Truncate, WriteImages, Crash

\* Exit status 0 of outdated can be relied on by a script (checkOutdated): for any
\* tags and any commands and failed lookups meanwhile, if nothing was pushed, all
\* that it read is current.
THEOREM CurrentIsCurrent == Spec => CurrentMeansCurrent
  <1>1. ASSUME IInv, NEW s \in Sessions, [Next]_vars, ReportsCurrent(s)
        PROVE  AllCurrent(s)
    <2> DEFINE r == ses[s]
    <2>1. Decide(s) /\ Compared(r, remote, built)
      BY <1>1, ReportsByDeciding DEF IInv, Sound
    <2>2. /\ r.pc = "lookup" /\ r.cmd.verb = "outdated"
          /\ r.since = Cardinality(DOMAIN built) /\ ses'[s].result = "ok"
      BY <1>1 DEF ReportsCurrent, Known
    <2>3. r.todo = {} /\ r.failed = {} /\ DOMAIN r.edit = {}
      <3>1. PICK how : Returns(s, how) /\ how = (IF r.failed # {} THEN "error"
                       ELSE IF DOMAIN r.edit # {} THEN "outdated" ELSE "ok")
        BY <2>1, <2>2 DEF Decide
      <3>2. how = "ok"
        BY <1>1, <2>2, <3>1 DEF Returns, Becomes, Idle, IInv, Typed
      <3> QED
        BY <2>1, <3>1, <3>2 DEF Decide
    <2> HIDE DEF r
    <2>4. \A k \in DOMAIN r.mine : Managed(r.mine[k]) => Current(r.mine[k], remote)
      BY <2>1, <2>2, <2>3 DEF Compared
    <2>5. ASSUME NEW k \in DOMAIN r.mine, Managed(r.mine[k]), NEW t \in NextTags(r.mine[k])
          PROVE  t \in DOMAIN remote /\ (Locked(r.mine[k]) \/ NextPin(r.mine[k], t) = r.mine[k])
      BY <2>4, <2>5, NextTagsIs DEF Current, NextPin
    <2> QED
      BY <2>5 DEF AllCurrent, r
  <1>2. IInv /\ [Next]_vars => [\A s \in Sessions : ReportsCurrent(s) => AllCurrent(s)]_vars
    BY <1>1
  <1> QED
    BY <1>2, ImagesInvariant, PTL DEF Spec, CurrentMeansCurrent
=============================================================================
