------------------------------- MODULE Secrets -------------------------------
(***************************************************************************)
(* Secrets (internal/cli/secret*.go, internal/podman/podman.go): two       *)
(* stores, the registry registries/secrets.cue and podman's, which every   *)
(* command reads first and then changes one after the other, with a prompt *)
(* in between.  Nothing excludes two commands; either store may fail; and   *)
(* anybody may use podman without crei.                                    *)
(*                                                                         *)
(* Keys and podman names are the same kind of string, here numbers in      *)
(* their order.  A value is its serial number.  Charset and length of a    *)
(* generate policy are left out.                                           *)
(***************************************************************************)
EXTENDS Integers, FiniteSetsExt, Functions, Maps

CONSTANTS
  Names,        \* keys, and names in podman
  Sessions,
  HandAuthored, \* [key, name] of the entries in the hand-authored field
  UnitRefs,     \* the names that Secret= of a unit refers to
  Foreign,      \* the secrets in podman at first, made by others
  Commands,     \* the command lines users give
  NoName,
  MaxValues, MaxCommands, MaxFaults  \* bounds

Policies == {"manual", "generate"}
Verbs == {"create", "createAll", "rotate", "remove", "adopt", "prune"}

ASSUME SecretsAssumption ==
  /\ Names \subseteq Nat /\ NoName \notin Names /\ Foreign \subseteq Names
  /\ Names # {} => \E last \in Names : \A n \in Names : n <= last
  /\ HandAuthored \subseteq [key : Names, name : Names]
  /\ {MaxValues, MaxCommands, MaxFaults} \subseteq Nat
  /\ \A c \in Commands :
       /\ c.verb \in Verbs
       /\ c.verb = "create" =>
            /\ c.key \in Names /\ c.name \in Names \cup {NoName}
            /\ c.policy \in Policies \cup {"none"}
       /\ c.verb = "remove" => c.keys # {}

Entries == [key : Names, name : Names, policy : Policies]
Stored == [value : 0 .. MaxValues, managed : BOOLEAN, driver : {"file", "other"}]

VARIABLES
  registry,  \* secrets.cue: a set of entries
  torn,      \* the file is truncated: the write of remove is not done
  podman,    \* podman's secrets by name
  made,      \* how many values were made
  ses,       \* the commands under way
  given, faults

vars == <<registry, torn, podman, made, ses, given, faults>>
stores == <<registry, torn, podman, made>>

Phases == {"idle", "list", "load", "infos", "value", "confirm", "register",
           "create", "read", "adopt", "remove", "write", "writing"}

None == <<>>
Nothing == [n \in {} |-> 0]

Idle(result) ==
  [pc |-> "idle", cmd |-> None, mine |-> {}, saw |-> Nothing, todo |-> {},
   eff |-> None, alone |-> TRUE, failed |-> FALSE, result |-> result]

Init ==
  /\ registry = {} /\ torn = FALSE
  /\ podman = [n \in Foreign |-> [value |-> 0, managed |-> FALSE, driver |-> "other"]]
  /\ made = 0
  /\ ses = [s \in Sessions |-> Idle("none")]
  /\ given = 0 /\ faults = 0

Becomes(s, record) == ses' = [ses EXCEPT ![s] = record]
Returns(s, result) == Becomes(s, Idle(result))

\* A step that changes a store: what the others read is not what there is.
Others(s) == [t \in Sessions |-> [ses[t] EXCEPT !.alone = @ /\ t = s]]
Changes(s, record) == ses' = [Others(s) EXCEPT ![s] = record]
Ends(s, result) == Changes(s, Idle(result))

Declared(reg) == {e.name : e \in reg} \cup {h.name : h \in HandAuthored}
Referenced(reg) == Declared(reg) \cup UnitRefs

\* Two entries of one key do not unify.
Loads(reg) == \A e, f \in reg : e.key = f.key => e = f

ByKey(reg, keys) == {e \in reg : e.key \in keys}

-----------------------------------------------------------------------------
(* Reading.                                                                 *)

Start(s) ==
  /\ ses[s].pc = "idle" /\ given < MaxCommands /\ given' = given + 1
  /\ \E c \in Commands :
       Becomes(s, [Idle("none") EXCEPT
                     !.pc = IF c.verb \in {"create", "createAll"} THEN "list" ELSE "load",
                     !.cmd = c])
  /\ UNCHANGED <<stores, faults>>

\* podman secret ls.
ListSecrets(s) ==
  /\ ses[s].pc = "list" /\ Becomes(s, [ses[s] EXCEPT !.pc = "load", !.saw = podman])
  /\ UNCHANGED <<stores, given, faults>>

\* The entry an argument means: the last one that has it for its key or its name.
Meant(reg, key) == {e \in reg : e.key = key \/ e.name = key}
Last(es) == CHOOSE e \in es : \A f \in es : f.key <= e.key

Flagged(c) == c.policy # "none" \/ c.name # NoName

\* What create records and makes: the recorded entry, unless --force overrides it.
Effective(c, reg) ==
  LET desired == [key |-> c.key, name |-> IF c.name = NoName THEN c.key ELSE c.name,
                  policy |-> IF c.policy = "none" THEN "manual" ELSE c.policy]
      eff == IF Meant(reg, c.key) # {} /\ ~Flagged(c) THEN Last(Meant(reg, c.key))
             ELSE desired
      hand == {h \in HandAuthored : h.key = c.key \/ h.name = c.key}
  IN IF hand # {} /\ c.name = NoName
     THEN [eff EXCEPT !.name = (CHOOSE h \in hand : TRUE).name] ELSE eff

IsHandAuthored(c) == \E h \in HandAuthored : h.key = c.key \/ h.name = c.key

Create(s, c, reg) ==
  LET eff == Effective(c, reg)
      go == [ses[s] EXCEPT !.mine = reg, !.eff = eff, !.todo = {eff.name}]
  IN IF Meant(reg, c.key) # {} /\ Flagged(c) /\ ~c.force THEN Returns(s, "error")
     ELSE IF eff.name \in DOMAIN ses[s].saw /\ ~c.replace
     THEN IF Meant(reg, c.key) = {} /\ ~IsHandAuthored(c)
          THEN Becomes(s, [go EXCEPT !.pc = "register", !.todo = {}])
          ELSE Returns(s, "ok")
     ELSE Becomes(s, [go EXCEPT !.pc = IF eff.policy = "generate" THEN "register"
                                       ELSE "value"])

\* Mutant: only the registry is looked through.
MissingThere(reg, saw) == {e.name : e \in reg} \ DOMAIN saw

Missing(reg, saw) == Declared(reg) \ DOMAIN saw

CreateAll(s, reg) ==
  LET missing == Missing(reg, ses[s].saw) IN
  IF missing = {} THEN Returns(s, "ok")
  ELSE Becomes(s, [ses[s] EXCEPT !.pc = "value", !.mine = reg, !.todo = missing])

\* rotate and remove take keys; an unknown one fails before anything is done.
Rotate(s, c, reg) ==
  LET targets == IF c.keys = {} THEN reg ELSE ByKey(reg, c.keys)
      rotatable == {e.name : e \in {t \in targets : t.policy = "generate"}}
  IN IF reg # {} /\ ~(c.keys \subseteq {e.key : e \in reg}) THEN Returns(s, "error")
     ELSE IF rotatable = {} THEN Returns(s, "ok")
     ELSE Becomes(s, [ses[s] EXCEPT !.pc = "confirm", !.mine = reg, !.todo = rotatable])

Remove(s, c, reg) ==
  IF reg = {} THEN Returns(s, "ok")
  ELSE IF ~(c.keys \subseteq {e.key : e \in reg}) THEN Returns(s, "error")
  ELSE Becomes(s, [ses[s] EXCEPT
                     !.pc = IF c.delete THEN "confirm" ELSE "write", !.mine = reg,
                     !.todo = IF c.delete THEN {e.name : e \in ByKey(reg, c.keys)} ELSE {}])

\* The registry is loaded.  Truncated, it does not load or has no secrets.
Load(s) ==
  /\ ses[s].pc = "load"
  /\ \/ (torn \/ ~Loads(registry)) /\ Returns(s, "error")
     \/ LET c == ses[s].cmd
            reg == IF torn THEN {} ELSE registry
        IN /\ Loads(reg)
           /\ \/ c.verb = "create" /\ Create(s, c, reg)
              \/ c.verb = "createAll" /\ CreateAll(s, reg)
              \/ c.verb = "rotate" /\ Rotate(s, c, reg)
              \/ c.verb = "remove" /\ Remove(s, c, reg)
              \/ /\ c.verb \in {"adopt", "prune"}
                 /\ Becomes(s, [ses[s] EXCEPT !.pc = "infos", !.mine = reg])
  /\ UNCHANGED <<stores, given, faults>>

\* Mutant: whatever is not referenced goes.
DoomedAll(reg, infos) == DOMAIN infos \ Referenced(reg)

Doomed(reg, infos) ==
  {n \in DOMAIN infos : n \notin Referenced(reg) /\ infos[n].managed}
Adoptable(reg, infos) ==
  {n \in Declared(reg) \cap DOMAIN infos : ~infos[n].managed}

\* podman secret ls and inspect, for prune and adopt.
SecretInfos(s) ==
  /\ ses[s].pc = "infos"
  /\ LET prune == ses[s].cmd.verb = "prune"
         todo == IF prune THEN Doomed(ses[s].mine, podman) ELSE Adoptable(ses[s].mine, podman)
     IN IF todo = {} THEN Returns(s, "ok")
        ELSE Becomes(s, [ses[s] EXCEPT !.pc = IF prune THEN "confirm" ELSE "read",
                                       !.saw = podman, !.todo = todo])
  /\ UNCHANGED <<stores, given, faults>>

-----------------------------------------------------------------------------
(* The user.                                                                *)

\* A value is generated, typed in or generated at the prompt; the prompt may be
\* left.  What is chosen there becomes the policy, unless --manual forbids it.
Value(s) ==
  /\ ses[s].pc = "value"
  /\ IF ses[s].cmd.verb = "createAll"
     THEN \/ Becomes(s, [ses[s] EXCEPT !.pc = "create"])
          \/ /\ \A e \in ses[s].mine : e.name = Min(ses[s].todo) => e.policy = "manual"
             /\ Returns(s, "error")
     ELSE \/ Becomes(s, [ses[s] EXCEPT !.pc = "register"])
          \/ /\ ses[s].cmd.policy # "manual"
             /\ Becomes(s, [ses[s] EXCEPT !.pc = "register", !.eff.policy = "generate"])
          \/ Returns(s, "error")
  /\ UNCHANGED <<stores, given, faults>>

Confirm(s) ==
  /\ ses[s].pc = "confirm"
  /\ \/ Becomes(s, [ses[s] EXCEPT !.pc = IF ses[s].cmd.verb = "rotate" THEN "create"
                                          ELSE "remove"])
     \/ Returns(s, "aborted")
  /\ UNCHANGED <<stores, given, faults>>

-----------------------------------------------------------------------------
(* Changes.                                                                 *)

\* Mutant: only entries that are new are recorded.
UpdatedIfNew(s) ==
  IF Meant(ses[s].mine, ses[s].cmd.key) = {} THEN ses[s].mine \cup {ses[s].eff}
  ELSE ses[s].mine

\* The entries read, with the one that was meant replaced or a new one appended.
Updated(s) ==
  LET meant == Meant(ses[s].mine, ses[s].cmd.key)
  IN (ses[s].mine \ (IF meant = {} THEN {} ELSE {Last(meant)})) \cup {ses[s].eff}

\* The entry meant has the name and the policy already, under whatever key.
Recorded(s) ==
  LET meant == Meant(ses[s].mine, ses[s].cmd.key)
  IN /\ meant # {}
     /\ Last(meant).name = ses[s].eff.name /\ Last(meant).policy = ses[s].eff.policy

\* stageSecretRegistration and the rename: one step for everybody else.  What is
\* recorded already is not written again.
Register(s) ==
  /\ ses[s].pc = "register"
  /\ LET write == ~IsHandAuthored(ses[s].cmd) /\ ~Recorded(s)
         next == IF ses[s].todo = {} THEN Idle("ok") ELSE [ses[s] EXCEPT !.pc = "create"]
     IN /\ registry' = IF write THEN Updated(s) ELSE registry
        /\ torn' = (torn /\ ~write)
        /\ IF write THEN Changes(s, next) ELSE Becomes(s, next)
  /\ UNCHANGED <<podman, made, given, faults>>

\* What podman has after secret create.
Made == [value |-> made + 1, managed |-> TRUE, driver |-> "file"]

Replaces(s) == ses[s].cmd.verb = "rotate" \/ ses[s].cmd.replace

\* podman secret create, of the next name.  Without --replace a name that has come
\* up since is refused.
CreateSecret(s) ==
  /\ ses[s].pc = "create" /\ made < MaxValues
  /\ LET n == Min(ses[s].todo) rest == ses[s].todo \ {n}
         next == IF ses[s].cmd.verb = "createAll" THEN "value" ELSE "create"
     IN IF n \in DOMAIN podman /\ ~Replaces(s)
        THEN Returns(s, "error") /\ UNCHANGED <<podman, made>>
        ELSE /\ podman' = With(podman, n, Made) /\ made' = made + 1
             /\ IF rest = {} THEN Ends(s, "ok")
                ELSE Changes(s, [ses[s] EXCEPT !.pc = next, !.todo = rest])
  /\ UNCHANGED <<registry, torn, given, faults>>

\* adopt reads the value ...
ReadSecret(s) ==
  /\ ses[s].pc = "read"
  /\ LET n == Min(ses[s].todo) IN
     IF n \notin DOMAIN podman THEN Returns(s, "error")
     ELSE Becomes(s, [ses[s] EXCEPT !.pc = "adopt", !.eff = podman[n]])
  /\ UNCHANGED <<stores, given, faults>>

\* Mutant: adopt creates the secret as create does.
AdoptedAnew(value, info) == [value |-> value, managed |-> TRUE, driver |-> "file"]

\* What podman has after adopt: the value read, and the driver listed before.
Adopted(value, info) == [value |-> value, managed |-> TRUE, driver |-> info.driver]

\* ... and makes the secret anew with the label.
AdoptSecret(s) ==
  /\ ses[s].pc = "adopt"
  /\ LET n == Min(ses[s].todo) rest == ses[s].todo \ {n} IN
     /\ podman' = With(podman, n, Adopted(ses[s].eff.value, ses[s].saw[n]))
     /\ IF rest = {} THEN Ends(s, "ok")
        ELSE Changes(s, [ses[s] EXCEPT !.pc = "read", !.todo = rest])
  /\ UNCHANGED <<registry, torn, made, given, faults>>

\* The next secret of remove --delete or prune.  podman refuses one that is in use.
RemoveSecret(s) ==
  /\ ses[s].pc = "remove"
  /\ LET n == Min(ses[s].todo) rest == ses[s].todo \ {n}
         prune == ses[s].cmd.verb = "prune"
         After(failed) ==
           IF rest # {} THEN [ses[s] EXCEPT !.todo = rest, !.failed = failed]
           ELSE IF prune THEN Idle(IF failed THEN "error" ELSE "ok")
           ELSE [ses[s] EXCEPT !.pc = "write", !.todo = {}, !.failed = failed]
     IN \/ /\ n \in DOMAIN podman
           /\ podman' = Without(podman, {n})
           /\ Changes(s, After(ses[s].failed)) /\ UNCHANGED faults
        \/ /\ \/ n \notin DOMAIN podman /\ UNCHANGED faults
              \/ faults < MaxFaults /\ faults' = faults + 1
           /\ Becomes(s, After(TRUE)) /\ UNCHANGED podman
  /\ UNCHANGED <<registry, torn, made, given>>

\* remove writes the entries it keeps in place.
Kept(s) == ses[s].mine \ ByKey(ses[s].mine, ses[s].cmd.keys)

Truncate(s) ==
  /\ ses[s].pc = "write" /\ torn' = TRUE /\ Changes(s, [ses[s] EXCEPT !.pc = "writing"])
  /\ UNCHANGED <<registry, podman, made, given, faults>>

WriteRegistry(s) ==
  /\ ses[s].pc = "writing" /\ torn' = FALSE /\ registry' = Kept(s)
  /\ Ends(s, IF ses[s].failed THEN "error" ELSE "ok")
  /\ UNCHANGED <<podman, made, given, faults>>

\* podman or the file system fails, or the command is killed, before the step.  With
\* the truncated file every registration is given up.
Fail(s) ==
  /\ ses[s].pc \in {"list", "infos", "register", "create", "read", "adopt", "write", "writing"}
  /\ faults < MaxFaults /\ faults' = faults + 1 /\ Returns(s, "error")
  /\ UNCHANGED <<registry, torn, podman, made, given>>

Step(s) ==
  \/ Start(s) \/ ListSecrets(s) \/ Load(s) \/ SecretInfos(s) \/ Value(s) \/ Confirm(s)
  \/ Register(s) \/ CreateSecret(s) \/ ReadSecret(s)
  \/ AdoptSecret(s) \/ RemoveSecret(s) \/ Truncate(s) \/ WriteRegistry(s) \/ Fail(s)

\* Somebody makes, replaces or removes a secret with podman alone.
Outside ==
  /\ given < MaxCommands /\ given' = given + 1
  /\ \E n \in Names :
       \/ /\ made < MaxValues /\ made' = made + 1
          /\ podman' = With(podman, n, [Made EXCEPT !.managed = FALSE])
       \/ n \in DOMAIN podman /\ podman' = Without(podman, {n}) /\ UNCHANGED made
  /\ ses' = [s \in Sessions |-> [ses[s] EXCEPT !.alone = FALSE]]
  /\ UNCHANGED <<registry, torn, faults>>

Next == Outside \/ \E s \in Sessions : Step(s)

Spec == Init /\ [][Next]_vars
-----------------------------------------------------------------------------
(* Properties.                                                              *)

\* Types of all variables, and that a loop over names has one left.
TypeOK ==
  /\ registry \subseteq Entries /\ torn \in BOOLEAN
  /\ DOMAIN podman \subseteq Names /\ Range(podman) \subseteq Stored
  /\ made \in 0 .. MaxValues
  /\ given \in 0 .. MaxCommands /\ faults \in 0 .. MaxFaults
  /\ \A s \in Sessions :
       /\ ses[s].pc \in Phases /\ ses[s].mine \subseteq Entries
       /\ ses[s].pc \in {"create", "read", "adopt", "remove", "confirm"} => ses[s].todo # {}

\* --name for a secret that is declared by hand under another name: made, and
\* nowhere declared.
Renames(c) == c.verb = "create" /\ IsHandAuthored(c) /\ c.name # NoName

\* What the registry says of an entry but for its key.
OnRecord(reg, eff) == \E e \in reg : e.name = eff.name /\ e.policy = eff.policy

\* Every secret that create and rotate make is declared by the project by then, and
\* create's is recorded with its name and policy, unless somebody else's change came
\* between: no "changed secret nobody recorded" (secretcreate.go:221).
RecordedFirst ==
  [][\A s \in Sessions :
       LET c == ses[s].cmd n == Min(ses[s].todo) IN
       CreateSecret(s) /\ ses[s].alone /\ ~Renames(c) =>
         /\ n \in Declared(registry)
         /\ c.verb = "create" /\ ~IsHandAuthored(c) =>
              ses[s].eff.name = n /\ OnRecord(registry, ses[s].eff)]_vars

\* When create -a succeeds and nothing else changed, every secret the project
\* declares, in either registry, is in podman.
AllMeansAll ==
  [][\A s \in Sessions :
       ses[s].pc # "idle" /\ ses[s].cmd.verb = "createAll" /\ ses[s].alone
       /\ ses'[s].pc = "idle" /\ ses'[s].result = "ok" /\ ~torn
       => Declared(registry') \subseteq DOMAIN podman']_vars

\* adopt changes who owns a secret and nothing else: value and driver stay.
AdoptKeeps ==
  [][\A s \in Sessions : AdoptSecret(s) /\ ses[s].alone =>
       LET n == Min(ses[s].todo)
       IN podman'[n] = [podman[n] EXCEPT !.managed = TRUE]]_vars

\* A prune that nobody disturbs, from the reading of the registry to the last removal,
\* takes only secrets that crei made or adopted and that nothing refers to, whichever
\* of its removals fail; and when it succeeds it has left none of them.
PruneExact ==
  [][\A s \in Sessions :
       ses[s].pc # "idle" /\ ses[s].cmd.verb = "prune" /\ ses[s].alone /\ ~torn =>
         /\ RemoveSecret(s) =>
              \A n \in DOMAIN podman \ DOMAIN podman' :
                podman[n].managed /\ n \notin Referenced(registry)
         /\ ses'[s].pc = "idle" /\ ses'[s].result = "ok" =>
              \A n \in DOMAIN podman' : podman'[n].managed => n \in Referenced(registry')]_vars
=============================================================================
