-------------------------------- MODULE Vendor --------------------------------
(***************************************************************************)
(* `crei vendor` (internal/cli/vendor.go): CUE modules fetched from git    *)
(* into cue.mod/usr, file by file, and the lock cue.mod/crei-vendor.json   *)
(* that says which commit and which files each of them has.                *)
(*                                                                         *)
(* A module's path and a file's are sequences of segments: the tree of a   *)
(* module is everything below its path.  A snapshot of a repository is the *)
(* files with their contents and the modules they import.  The hash of a   *)
(* tree is the tree.                                                       *)
(***************************************************************************)
EXTENDS Naturals, SequencesExt, Maps

CONSTANTS
  Modules,     \* paths of the modules there are
  Snapshots,   \* the snapshots of each module, oldest first
  Refs,        \* what may be asked for: NoRef, or the number of a snapshot
  NoRef,       \* no ref asked for: the head of the repository
  Torn,        \* the content of a file half written
  MaxCommands, MaxFaults

ASSUME VendorAssumption ==
  /\ Modules \subseteq Seq(STRING)
  /\ NoRef \notin Nat /\ Refs \subseteq (Nat \ {0}) \cup {NoRef}
  /\ \A m \in Modules :
       /\ Len(Snapshots[m]) \in Nat \ {0}
       /\ \A i \in 1 .. Len(Snapshots[m]) : DOMAIN Snapshots[m][i].files \subseteq Seq(STRING)
  /\ {MaxCommands, MaxFaults} \subseteq Nat

VARIABLES
  head,     \* how many snapshots of each module are published
  usr,      \* cue.mod/usr: files by path, their content
  lock,     \* the pin of each vendored module
  torn,     \* the lock is truncated: its writing is not done
  pc, verb,
  mine,     \* the lock read, with the pins of this command
  todo,     \* the modules still to be vendored, with their refs
  now,      \* the module being installed
  left,     \* its files that are not yet written
  result,
  touched,  \* modules whose tree was changed by a command that did not finish
  given, faults

command == <<pc, verb, mine, todo, now, left, result>>
vars == <<head, usr, lock, torn, command, touched, given, faults>>

Nobody == <<>>
Results == {"none", "ok", "dirty", "error"}

Init ==
  /\ head = [m \in Modules |-> 1] /\ usr = [p \in {} |-> 0]
  /\ lock = [m \in {} |-> 0] /\ torn = FALSE
  /\ pc = "idle" /\ verb = "none" /\ mine = lock /\ todo = [m \in {} |-> 0]
  /\ now = Nobody /\ left = {} /\ result = "none"
  /\ touched = {} /\ given = 0 /\ faults = 0

Returns(how) == pc' = "idle" /\ result' = how

\* Somebody pushes to a repository.
Push ==
  /\ \E m \in Modules : head[m] < Len(Snapshots[m]) /\ head' = [head EXCEPT ![m] = @ + 1]
  /\ UNCHANGED <<usr, lock, torn, command, touched, given, faults>>

-----------------------------------------------------------------------------
\* Mutant: a module may import whatever has been published.
ImportsAny(m, imports, pins) == TRUE

\* A module may import itself and what the lock has, and packages below them.
CheckImports(m, imports, pins) ==
  \A i \in imports : \E base \in {m} \cup DOMAIN pins : IsPrefix(base, i)

\* The clone of a ref; a snapshot that is not published yet is no ref.
Resolves(m, ref) == ref = NoRef \/ ref <= head[m]
Commit(m, ref) == IF ref = NoRef THEN head[m] ELSE ref

Below(m) == {p \in DOMAIN usr : IsPrefix(m, p)}

\* What is hashed: the files below the module's path.
HashVendoredDir(m) == {<<SubSeq(p, Len(m) + 1, Len(p)), usr[p]>> : p \in Below(m)}
HashTree(m, commit) ==
  LET f == Snapshots[m][commit].files IN {<<p, f[p]>> : p \in DOMAIN f}

\* Mutant: the tree is written over, and files that are gone stay.
RemoveNothing(m) == usr
RemoveAll(m) == Without(usr, Below(m))

-----------------------------------------------------------------------------
\* vendor of one module, of all in the lock, and --check.
Begin(v, modules) ==
  /\ verb' = v /\ mine' = lock /\ todo' = modules
  /\ pc' = "fetch" /\ UNCHANGED <<now, left, result>>

Check ==
  /\ verb' = "check"
  /\ Returns(IF \A m \in DOMAIN lock : Below(m) # {} /\ HashVendoredDir(m) = lock[m].hash
             THEN "ok" ELSE "dirty")
  /\ UNCHANGED <<mine, todo, now, left>>

Start ==
  /\ pc = "idle" /\ given < MaxCommands /\ given' = given + 1
  /\ IF torn THEN Returns("error") /\ UNCHANGED <<verb, mine, todo, now, left>>
     ELSE \/ Check
          \/ \E m \in Modules, ref \in Refs : Begin("vendor", [n \in {m} |-> ref])
          \/ DOMAIN lock # {} /\ Begin("restore", [m \in DOMAIN lock |-> lock[m].ref])
  /\ UNCHANGED <<head, usr, lock, torn, touched, faults>>

\* The next module.  The order of paths has a module before those below it, and its
\* dependencies before or after it.
Fetch ==
  /\ pc = "fetch" /\ DOMAIN todo # {}
  /\ \E m \in DOMAIN todo :
       LET ref == todo[m] commit == Commit(m, ref) IN
       /\ \A n \in DOMAIN todo : ~(IsPrefix(n, m) /\ n # m)
       /\ IF Resolves(m, ref) /\ CheckImports(m, Snapshots[m][commit].imports, mine)
          THEN /\ now' = m /\ pc' = "clear"
               /\ mine' = With(mine, m, [ref |-> ref, commit |-> commit,
                                          hash |-> HashTree(m, commit)])
               /\ UNCHANGED result
          ELSE Returns("error") /\ UNCHANGED <<now, mine>>
  /\ UNCHANGED <<head, usr, lock, torn, verb, todo, left, touched, given, faults>>

Clear ==
  /\ pc = "clear" /\ usr' = RemoveAll(now) /\ touched' = touched \cup {now}
  /\ left' = mine[now].hash /\ pc' = "install"
  /\ UNCHANGED <<head, lock, torn, verb, mine, todo, now, result, given, faults>>

Install ==
  /\ pc = "install" /\ left # {}
  /\ \E f \in left : usr' = With(usr, now \o f[1], f[2]) /\ left' = left \ {f}
  /\ UNCHANGED <<head, lock, torn, pc, verb, mine, todo, now, result, touched, given, faults>>

Installed ==
  /\ pc = "install" /\ left = {}
  /\ todo' = Without(todo, {now})
  /\ pc' = IF DOMAIN todo' = {} THEN "lock" ELSE "fetch"
  /\ UNCHANGED <<head, usr, lock, torn, verb, mine, now, left, result, touched, given, faults>>

\* writeVendorLock, in place.
TruncateLock ==
  /\ pc = "lock" /\ torn' = TRUE /\ pc' = "locking"
  /\ UNCHANGED <<head, usr, lock, verb, mine, todo, now, left, result, touched, given, faults>>

\* The modules of this command are described by the lock again.
WriteLock ==
  /\ pc = "locking" /\ torn' = FALSE /\ lock' = mine
  /\ touched' = touched \ (IF verb = "restore" THEN DOMAIN mine ELSE {now})
  /\ Returns("ok")
  /\ UNCHANGED <<head, usr, verb, mine, todo, now, left, given, faults>>

\* git or the file system fails, or the command is killed; a file may be half
\* written.
Fail ==
  /\ pc # "idle" /\ faults < MaxFaults /\ faults' = faults + 1
  /\ \/ UNCHANGED usr
     \/ pc = "install" /\ \E f \in left : usr' = With(usr, now \o f[1], Torn)
  /\ Returns("error") /\ todo' = [m \in {} |-> 0] /\ now' = Nobody /\ left' = {}
  /\ UNCHANGED <<head, lock, torn, verb, mine, touched, given>>

Next ==
  \/ Push \/ Start \/ Fetch \/ Clear \/ Install \/ Installed
  \/ TruncateLock \/ WriteLock \/ Fail

Spec == Init /\ [][Next]_vars
-----------------------------------------------------------------------------
(* Properties.                                                              *)

\* Types of all variables; what is still to be written belongs to the module.
TypeOK ==
  /\ \A m \in Modules : head[m] \in 1 .. Len(Snapshots[m])
  /\ DOMAIN lock \subseteq Modules /\ DOMAIN mine \subseteq Modules
  /\ DOMAIN todo \subseteq Modules /\ torn \in BOOLEAN /\ result \in Results
  /\ pc \in {"idle", "fetch", "clear", "install", "lock", "locking"}
  /\ pc \in {"clear", "install"} => now \in DOMAIN mine /\ left \subseteq mine[now].hash
  /\ pc \in {"lock", "locking"} => DOMAIN todo = {} /\ left = {}
  /\ touched \subseteq Modules /\ given \in 0 .. MaxCommands /\ faults \in 0 .. MaxFaults

\* Drift is always the trace of a command that did not finish: every other module
\* of the lock is installed as it says, whatever was pushed, fetched and refused.
DriftExplained ==
  ~torn => \A m \in DOMAIN lock \ touched : HashVendoredDir(m) = lock[m].hash

\* What the lock lists imports nothing but what the lock lists: the project builds
\* offline.
Offline ==
  \A m \in DOMAIN lock : \A i \in Snapshots[m][lock[m].commit].imports :
    \E base \in DOMAIN lock : IsPrefix(base, i)

\* A vendor without arguments that succeeds leaves nothing for --check to find,
\* whatever was in usr before ("drifted from ... (re-run crei vendor)",
\* vendor.go:516).
RestoreHeals ==
  [][WriteLock /\ verb = "restore" =>
       \A m \in DOMAIN lock' : HashVendoredDir(m) = lock'[m].hash]_vars
=============================================================================
