-------------------------------- MODULE Images --------------------------------
(***************************************************************************)
(* The image registry, registries/images.cue (internal/cli/image*.go,      *)
(* internal/eval/images.go).                                               *)
(*                                                                         *)
(* Every command reads the whole file, looks tags up in the remote         *)
(* registry, may ask the user, and writes the whole file back in place.    *)
(* Nothing excludes two commands from one file, and the remote goes on     *)
(* meanwhile.  All entries are of one repository; an entry's image is its  *)
(* tag.  The remote maps tags to digests, and remembers when each digest's *)
(* image was built.                                                        *)
(***************************************************************************)
EXTENDS Versions, Functions, Maps

CONSTANTS
  Keys, Sessions,
  Tags,          \* the tags the repository may have
  Published,     \* those it has at first
  NoTag,         \* an image with a digest and no tag
  Invalid,       \* an image that does not parse
  NoDigest, NoAge,
  Initial,       \* the contents the file may have at first
  Commands,      \* the command lines users give
  DefaultMinAge, \* --min-age, or else the config's min_age
  Ages,          \* what an entry's minAge may say: a number and how long its unit is
  Width,         \* of the word that holds a span of time
  MaxDigests,    \* bound on what is pushed
  MaxClock,      \* bound on time
  MaxCommands,   \* bound on the commands given
  MaxFaults      \* bound on failed lookups and crashes

Digests == 1 .. MaxDigests
Entries == [tag : Tags \cup {NoTag, Invalid}, digest : Digests \cup {NoDigest},
            minAge : Ages \cup {NoAge}, range : SUBSET (Nat \X Nat \X Nat),
            lock : BOOLEAN]

Verbs == {"add", "pin", "update", "outdated", "lock", "unlock"}

\* outdated takes no names, lock and add take one, unlock some (cobra's Args).
ASSUME ImagesAssumption ==
  /\ Tags \subseteq [parts : Seq(Nat), suffix : STRING]
  /\ NoTag \notin Tags /\ Invalid \notin Tags /\ NoTag # Invalid
  /\ Published \subseteq Tags
  /\ {MaxClock, MaxCommands, MaxFaults, DefaultMinAge} \subseteq Nat
  /\ {MaxDigests, Width} \subseteq Nat \ {0}
  /\ Ages \subseteq Nat \X (Nat \ {0})
  /\ NoDigest \notin Nat /\ NoAge \notin Nat \X Nat
  /\ \A f \in Initial : DOMAIN f \subseteq Keys /\ f \in [DOMAIN f -> Entries]
  /\ \A c \in Commands :
       /\ c.verb \in Verbs /\ c.names \subseteq Keys
       /\ c.verb = "outdated" => c.names = {}
       /\ c.verb = "unlock" => c.names # {}
       /\ c.verb = "lock" => \E k \in Keys : c.names = {k}
       /\ c.verb \in {"pin", "update"} => c.yes \in BOOLEAN
       /\ c.verb = "add" =>
            /\ c.force \in BOOLEAN /\ \E k \in Keys : c.names = {k}
            /\ c.tag \in Tags \cup {NoTag} /\ c.digest \in Digests \cup {NoDigest}
            /\ c.tag = NoTag => c.digest # NoDigest

None == <<>>

\* The entries of a file without images, and of a command that has no edit yet.
Nothing == [k \in {} |-> 0]

VARIABLES
  file,    \* images.cue: its entries, a function of some keys
  torn,    \* the file is truncated: the write is not done
  remote,  \* the digest of each tag there is
  built,   \* when the image of each digest was built
  clock,
  ses,     \* the commands under way
  given,   \* how many commands were given
  faults

vars == <<file, torn, remote, built, clock, ses, given, faults>>
world == <<remote, built, clock>>

Phases == {"idle", "lookup", "decide", "prompt", "write", "writing"}
Results == {"none", "ok", "aborted", "outdated", "error"}

\* What a session that is not in a command has.
Idle(result) ==
  [pc |-> "idle", cmd |-> None, mine |-> Nothing, todo |-> {}, edit |-> Nothing,
   young |-> {}, failed |-> {}, result |-> result, since |-> 0, now |-> 0]

Init ==
  /\ file \in Initial /\ torn = FALSE
  /\ remote = [t \in Published |-> 1]
  /\ built = [d \in {1} |-> 0] /\ clock = 0
  /\ ses = [s \in Sessions |-> Idle("none")]
  /\ given = 0 /\ faults = 0

Becomes(s, record) == ses' = [ses EXCEPT ![s] = record]
Returns(s, result) == Becomes(s, Idle(result))

-----------------------------------------------------------------------------
(* The remote registry, and time.                                           *)

Known == DOMAIN built

\* A tag is pushed: a new one, or one that moves.  The image may be old.
Push ==
  /\ Cardinality(Known) < MaxDigests
  /\ LET d == Cardinality(Known) + 1 IN
       /\ \E t \in Tags : remote' = With(remote, t, d)
       /\ \E when \in {0, clock} : built' = With(built, d, when)
  /\ UNCHANGED <<file, torn, clock, ses, given, faults>>

Tick ==
  /\ clock < MaxClock /\ clock' = clock + 1
  /\ UNCHANGED <<file, torn, remote, built, ses, given, faults>>

-----------------------------------------------------------------------------
(* What a command does to one entry.                                        *)

Locked(e) == e.lock

\* minAge of the entry wins over the flag, the flag over the config.  The error of
\* a span that does not fit is dropped, and no minimum is left.
EffectiveMinAge(e) ==
  IF e.minAge = NoAge THEN DefaultMinAge
  ELSE Max({0, ParseAge(e.minAge[1], e.minAge[2], Width)})

\* The tags an entry may be led to: the pick of a version-shaped tag, or its own.
NextTags(e) ==
  IF ~ParseVersion(e.tag) THEN {e.tag}
  ELSE LET pick == PickVersion(DOMAIN remote, e.tag, e.range)
       IN IF pick = {} THEN {e.tag} ELSE pick

\* Mutant: the entry is written anew, as by add.
NextPinAnew(e, t) ==
  [tag |-> t, digest |-> remote[t], minAge |-> NoAge, range |-> {}, lock |-> FALSE]

NextPin(e, t) == [e EXCEPT !.tag = t, !.digest = remote[t]]

\* Mutant: an image whose age is not known is not young.
YoungIfKnown(e, d, now, ageKnown) ==
  EffectiveMinAge(e) > 0 /\ ageKnown /\ now - built[d] < EffectiveMinAge(e)

\* Younger than min-age, or of unknown age while there is a min-age.
Young(e, d, now, ageKnown) ==
  /\ EffectiveMinAge(e) > 0
  /\ ageKnown => now - built[d] < EffectiveMinAge(e)

\* The entry add writes: nothing of an entry it replaces is kept.
Fresh(t, d) ==
  [tag |-> t, digest |-> d, minAge |-> NoAge, range |-> {}, lock |-> FALSE]

HasTag(e) == e.tag \notin {NoTag, Invalid}
Managed(e) == HasTag(e) /\ e.digest # NoDigest

\* The entries in the scope of the command, and those of them it looks up.
Scope(c, mine) == IF c.names = {} THEN DOMAIN mine ELSE c.names
LooksUp(c, e) ==
  \/ c.verb = "pin" /\ ~Locked(e) /\ HasTag(e) /\ e.digest = NoDigest
  \/ c.verb = "update" /\ HasTag(e)
  \/ c.verb = "outdated" /\ Managed(e)

\* Entries that fail without a lookup.
Unparsed(c, e) == c.verb = "pin" /\ ~Locked(e) /\ e.tag = Invalid

-----------------------------------------------------------------------------
(* The commands.                                                            *)

\* A command that has read the file and goes on, with an edit or to look tags up.
Begun(pc, c, mine, edit, todo, failed) ==
  [pc |-> pc, cmd |-> c, mine |-> mine, todo |-> todo, edit |-> edit, young |-> {},
   failed |-> failed, result |-> "none", since |-> Cardinality(Known), now |-> clock]

\* What follows the reading: a refusal, an early return, or work.
Add(s, c, mine) ==
  \E k \in c.names :
    IF k \in DOMAIN mine /\ (Locked(mine[k]) \/ ~c.force) THEN Returns(s, "error")
    ELSE LET edit == With(Nothing, k, Fresh(c.tag, c.digest)) IN
         Becomes(s, IF c.digest = NoDigest
                    THEN Begun("lookup", c, mine, edit, {k}, {})
                    ELSE Begun("write", c, mine, edit, {}, {}))

Lock(s, c, mine) ==
  IF mine = Nothing THEN Returns(s, "ok")
  ELSE IF ~(c.names \subseteq DOMAIN mine) THEN Returns(s, "error")
  ELSE LET edit == [k \in c.names |-> [mine[k] EXCEPT !.lock = TRUE]]
       IN Becomes(s, Begun("write", c, mine, edit, {}, {}))

Unlock(s, c, mine) ==
  LET cleared == {k \in c.names \cap DOMAIN mine : Locked(mine[k])}
      edit == [k \in cleared |-> [mine[k] EXCEPT !.lock = FALSE]]
  IN IF mine = Nothing THEN Returns(s, "ok")
     ELSE IF ~(c.names \subseteq DOMAIN mine) THEN Returns(s, "error")
     ELSE IF cleared = {} THEN Returns(s, "ok")
     ELSE Becomes(s, Begun("write", c, mine, edit, {}, {}))

Survey(s, c, mine) ==
  LET todo == {k \in Scope(c, mine) : LooksUp(c, mine[k])}
      failed == {k \in Scope(c, mine) : Unparsed(c, mine[k])}
  IN IF ~(c.names \subseteq DOMAIN mine) THEN Returns(s, "error")
     ELSE IF mine = Nothing THEN Returns(s, "ok")
     ELSE Becomes(s, Begun("lookup", c, mine, Nothing, todo, failed))

\* loadImages.  A truncated file does not load, or loads as one without images.
Start(s) ==
  /\ ses[s].pc = "idle" /\ given < MaxCommands /\ given' = given + 1
  /\ \E c \in Commands :
       LET mine == IF torn THEN Nothing ELSE file IN
       \/ torn /\ Returns(s, "error")
       \/ c.verb = "add" /\ Add(s, c, mine)
       \/ c.verb = "lock" /\ Lock(s, c, mine)
       \/ c.verb = "unlock" /\ Unlock(s, c, mine)
       \/ c.verb \in {"pin", "update", "outdated"} /\ Survey(s, c, mine)
  /\ UNCHANGED <<file, torn, world, faults>>

\* The tags one of which a lookup asks the digest of.
Targets(c, e) ==
  IF c.verb = "add" THEN {c.tag} ELSE IF c.verb = "pin" THEN {e.tag} ELSE NextTags(e)

\* An entry is resolved.  Locked entries are looked up, and never offered.
Resolve(s, k, e, t) ==
  LET r == ses[s]
      next == NextPin(e, t)
      done == [r EXCEPT !.todo = @ \ {k}]
  IN IF r.cmd.verb = "add"
     THEN Becomes(s, [done EXCEPT !.pc = "write", !.edit = With(@, k, next)])
     ELSE IF Locked(e) \/ next = e THEN Becomes(s, done)
     ELSE \E ageKnown \in BOOLEAN :
            Becomes(s, [done EXCEPT
              !.edit = With(@, k, next),
              !.young = IF Young(e, next.digest, r.now, ageKnown) THEN @ \cup {k} ELSE @])

\* Mutant: a failed lookup is passed over.
SkipIt(s, k) == Becomes(s, [ses[s] EXCEPT !.todo = @ \ {k}])

Unresolved(s, k) ==
  IF ses[s].cmd.verb = "add" THEN Returns(s, "error")
  ELSE Becomes(s, [ses[s] EXCEPT !.todo = @ \ {k}, !.failed = @ \cup {k}])

\* A tag may be gone, and the remote may not answer.
Lookup(s) ==
  /\ ses[s].pc = "lookup"
  /\ \E k \in ses[s].todo :
       LET c == ses[s].cmd
           e == IF c.verb = "add" THEN ses[s].edit[k] ELSE ses[s].mine[k]
       IN \E t \in Targets(c, e) :
            \/ t \in DOMAIN remote /\ Resolve(s, k, e, t) /\ UNCHANGED faults
            \/ t \notin DOMAIN remote /\ Unresolved(s, k) /\ UNCHANGED faults
            \/ faults < MaxFaults /\ faults' = faults + 1 /\ Unresolved(s, k)
  /\ UNCHANGED <<file, torn, world, given>>

\* The status a command returns with when it has done what it could.
Verdict(s) == IF ses[s].failed # {} THEN "error" ELSE "ok"

\* What update -y takes: the aged, and the named whatever their age.
Chosen(s) ==
  {k \in DOMAIN ses[s].edit : k \notin ses[s].young \/ k \in ses[s].cmd.names}

Decide(s) ==
  LET r == ses[s] IN
  /\ r.pc = "lookup" /\ r.todo = {} /\ r.cmd.verb # "add"
  /\ IF r.cmd.verb = "outdated"
     THEN Returns(s, IF r.failed # {} THEN "error"
                     ELSE IF DOMAIN r.edit # {} THEN "outdated" ELSE "ok")
     ELSE IF DOMAIN r.edit = {} THEN Returns(s, Verdict(s))
     ELSE IF ~r.cmd.yes THEN Becomes(s, [r EXCEPT !.pc = "prompt"])
     ELSE IF r.cmd.verb = "pin" THEN Becomes(s, [r EXCEPT !.pc = "write"])
     ELSE IF Chosen(s) = {} THEN Returns(s, Verdict(s))
     ELSE Becomes(s, [r EXCEPT !.pc = "write", !.edit = Restrict(@, Chosen(s))])
  /\ UNCHANGED <<file, torn, world, given, faults>>

\* The confirmation of pin, or the picker of update.
Answer(s) ==
  LET r == ses[s] IN
  /\ r.pc = "prompt"
  /\ \/ Returns(s, "aborted")
     \/ r.cmd.verb = "pin" /\ Becomes(s, [r EXCEPT !.pc = "write"])
     \/ /\ r.cmd.verb = "update"
        /\ \E ks \in SUBSET DOMAIN r.edit :
             IF ks = {} THEN Returns(s, Verdict(s))
             ELSE Becomes(s, [r EXCEPT !.pc = "write", !.edit = Restrict(@, ks)])
  /\ UNCHANGED <<file, torn, world, given, faults>>

\* emitImageRegistry of the entries read at the start, with the edit.
Emitted(s) == Over(ses[s].mine, ses[s].edit)

\* os.WriteFile truncates and then writes, from where it stands in the file: over
\* what another command has written since, of which the end may stay.
Truncate(s) ==
  /\ ses[s].pc = "write" /\ Becomes(s, [ses[s] EXCEPT !.pc = "writing"]) /\ torn' = TRUE
  /\ UNCHANGED <<file, world, given, faults>>

WriteImages(s) ==
  /\ ses[s].pc = "writing" /\ Returns(s, Verdict(s))
  /\ file' = Emitted(s) /\ torn' \in IF torn THEN {FALSE} ELSE BOOLEAN
  /\ UNCHANGED <<world, given, faults>>

Crash(s) ==
  /\ ses[s].pc \in {"write", "writing"} /\ faults < MaxFaults
  /\ faults' = faults + 1 /\ Returns(s, "error")
  /\ UNCHANGED <<file, torn, world, given>>

Step(s) ==
  \/ Start(s) \/ Lookup(s) \/ Decide(s) \/ Answer(s)
  \/ Truncate(s) \/ WriteImages(s) \/ Crash(s)

Next == Push \/ Tick \/ \E s \in Sessions : Step(s)

Spec == Init /\ [][Next]_vars

-----------------------------------------------------------------------------
(* Properties.                                                              *)

\* Types of all variables; a command has an edit when it comes to write.
TypeOK ==
  /\ DOMAIN file \subseteq Keys /\ Range(file) \subseteq Entries /\ torn \in BOOLEAN
  /\ DOMAIN remote \subseteq Tags /\ Range(remote) \subseteq Known
  /\ Known \subseteq Digests /\ Range(built) \subseteq 0 .. clock
  /\ clock \in 0 .. MaxClock /\ given \in 0 .. MaxCommands /\ faults \in 0 .. MaxFaults
  /\ \A s \in Sessions :
       /\ ses[s].pc \in Phases /\ ses[s].result \in Results
       /\ ses[s].pc \in {"write", "writing"} =>
            DOMAIN ses[s].edit # {} /\ Range(ses[s].edit) \subseteq Entries

\* A command's write over the contents it read: nobody wrote in between.
Undisturbed(s) == WriteImages(s) /\ file = ses[s].mine

AsAsked(s) ==
  LET c == ses[s].cmd IN
  \A k \in DOMAIN file :
    /\ k \in DOMAIN file'
    /\ file'[k] # file[k] => k \in Scope(c, file)
    /\ Locked(file[k]) => [file'[k] EXCEPT !.lock = TRUE] = file[k]
    /\ Locked(file[k]) /\ ~Locked(file'[k]) => c.verb = "unlock"
    /\ <<file[k].minAge, file[k].range>> # <<file'[k].minAge, file'[k].range>> =>
         c.verb = "add" /\ c.force

\* Such a write loses no entry, changes only entries the command was asked to
\* change, touches a locked one only to lock or unlock it, and drops an entry's
\* min-age and range only when add --force replaces it.
OnlyAsAsked == [][\A s \in Sessions : Undisturbed(s) => AsAsked(s)]_vars

Upwards(old, new, range) ==
  /\ Less(old, new) /\ ~Less(new, old) /\ new.suffix = old.suffix
  /\ Len(new.parts) >= Len(old.parts)
  /\ Less(old, [new EXCEPT !.parts = SubSeq(@, 1, Len(old.parts))])
  /\ range # {} => InRange(new, range)

\* update, when nobody wrote since it read, moves an entry to a higher version of its
\* own suffix within its range, or leaves the tag and follows the digest; and to a tag
\* that is no less precise than the one it follows ("3.20" never becomes a date).
UpdatesAscend ==
  [][\A s \in Sessions : Undisturbed(s) /\ ses[s].cmd.verb = "update" =>
       \A k \in DOMAIN file :
         file'[k].tag # file[k].tag => Upwards(file[k].tag, file'[k].tag, file[k].range)]_vars

\* The age that is asked for in an entry or for all.
AskedAge(e) == IF e.minAge = NoAge THEN DefaultMinAge ELSE e.minAge[1] * e.minAge[2]

\* update -y writes no image that is, in truth, younger than the min-age its entry
\* asks for, whether its age could be found out or not, unless the entry was named.
\* With an age that the schema admits and no word holds it does
\* (imageupdate.go:78), though "every `minAge > 0` gate downstream would then
\* silently disable the min-age safeguard" is what registry.go:43 is to prevent.
YoungIsNamed ==
  [][\A s \in Sessions : WriteImages(s) /\ ses[s].cmd.verb = "update" =>
       \A k \in DOMAIN ses[s].edit \ ses[s].cmd.names :
         ses[s].cmd.yes =>
           clock - built[file'[k].digest] >= AskedAge(ses[s].mine[k])]_vars

\* outdated returns 0 at this step, and nothing was pushed since it started.
ReportsCurrent(s) ==
  /\ ses[s].pc = "lookup" /\ ses[s].cmd.verb = "outdated"
  /\ ses[s].since = Cardinality(Known)
  /\ ses'[s].pc = "idle" /\ ses'[s].result = "ok"

AllCurrent(s) ==
  \A k \in DOMAIN ses[s].mine :
    LET e == ses[s].mine[k] IN
    Managed(e) =>
      \A t \in NextTags(e) :
        t \in DOMAIN remote /\ (Locked(e) \/ NextPin(e, t) = e)

\* When outdated exits with 0 and the remote did not change since it started,
\* every managed entry it read is current, or is locked; no failed lookup passes
\* for that.
CurrentMeansCurrent == [][\A s \in Sessions : ReportsCurrent(s) => AllCurrent(s)]_vars
===============================================================================
