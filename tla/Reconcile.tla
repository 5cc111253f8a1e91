------------------------------ MODULE Reconcile ------------------------------
(***************************************************************************)
(* What `crei apply` promises, without how it keeps the promise: no temp   *)
(* files, phases, failing system calls or crashes.  A session that works   *)
(* owes files to the directory and has condemned others; it discards what  *)
(* it condemned, replaces each owed path by a whole file that will do, and *)
(* may record its goal, or say that it is done, only when nothing is left. *)
(* It may stop at any time, with what it has done so far in place.         *)
(***************************************************************************)
EXTENDS Naturals

CONSTANTS
  Sessions,   \* the processes that may run apply
  Paths,      \* the paths others see: all but the temp names
  Inside,     \* the pairs <<a, p>>: p lies below a
  Managed,    \* the paths whose files apply may condemn
  Sweepable,  \* the paths of images/
  Nodes,      \* what a path can hold
  Regular,    \* the regular files among the nodes
  Empty,      \* nothing is there
  Folder,     \* a directory is there
  Goals,      \* what the project can render to
  Meets,      \* for each goal and path of it, the nodes that will do
  NoRecord    \* nothing is recorded

VARIABLES
  dir,        \* the quadlet directory as others see it
  project,    \* what the project renders to now
  recorded,   \* the goal on record
  status,     \* whether a session is busy, done or stopped short
  want,       \* the goal of a session
  owed,       \* the paths it has yet to write
  condemned,  \* the paths it has yet to clear
  edits,      \* the edits of the project so far
  meddles     \* the changes others have made to the directory so far

work == <<status, want, owed, condemned>>
vars == <<dir, project, recorded, work, edits, meddles>>

Above(p) == {a \in Paths : <<a, p>> \in Inside}
Within(p) == {p} \cup {q \in Paths : <<p, q>> \in Inside}

Unmet(g) == {p \in DOMAIN Meets[g] : dir[p] \notin Meets[g][p]}
Unwanted(g) == {p \in Managed \ DOMAIN Meets[g] : dir[p] \in Regular}

Init ==
  /\ dir \in [Paths -> Nodes]
  /\ project \in Goals
  /\ recorded \in Goals \cup {NoRecord}
  /\ status = [s \in Sessions |-> "stopped"]
  /\ want = [s \in Sessions |-> project]
  /\ owed = [s \in Sessions |-> {}]
  /\ condemned = [s \in Sessions |-> {}]
  /\ edits = 0 /\ meddles = 0

Busy(s) == status[s] = "busy"
NothingLeft(s) == Busy(s) /\ owed[s] = {} /\ condemned[s] = {}

\* The plan is the difference between goal and directory at one moment.
Begin(s) ==
  /\ ~Busy(s)
  /\ status' = [status EXCEPT ![s] = "busy"]
  /\ want' = [want EXCEPT ![s] = project]
  /\ owed' = [owed EXCEPT ![s] = Unmet(project)]
  /\ condemned' = [condemned EXCEPT ![s] = Unwanted(project)]
  /\ UNCHANGED <<dir, project, recorded, edits, meddles>>

\* A condemned path goes, with all there is below it.
Discard(s) ==
  /\ Busy(s)
  /\ \E p \in condemned[s] :
       /\ dir' = [q \in Paths |-> IF q \in Within(p) THEN Empty ELSE dir[q]]
       /\ condemned' = [condemned EXCEPT ![s] = @ \ {p}]
  /\ UNCHANGED <<project, recorded, status, want, owed, edits, meddles>>

\* Once nothing is condemned: directories for an owed path are made, and what
\* is at the path and no regular file goes.
MakeWay(s) ==
  /\ Busy(s) /\ condemned[s] = {}
  /\ \E p \in owed[s] :
       dir' = [q \in Paths |->
                 IF q \in Above(p) THEN Folder
                 ELSE IF q \in Within(p) /\ dir[p] \notin Regular THEN Empty
                 ELSE dir[q]]
  /\ UNCHANGED <<project, recorded, work, edits, meddles>>

\* An owed path gets a file that will do, whole and at once.
Install(s) ==
  /\ Busy(s) /\ condemned[s] = {}
  /\ \E p \in owed[s] : \E n \in Meets[want[s]][p] :
       /\ dir[p] # Folder
       /\ dir' = [dir EXCEPT ![p] = n]
       /\ owed' = [owed EXCEPT ![s] = @ \ {p}]
  /\ UNCHANGED <<project, recorded, status, want, condemned, edits, meddles>>

\* Directories of images/ that hold nothing but each other go.
Sweep(s) ==
  /\ NothingLeft(s)
  /\ \E S \in SUBSET Sweepable :
       /\ \A p \in S : dir[p] = Folder /\ \A q \in Within(p) : q \in S \/ dir[q] = Empty
       /\ dir' = [q \in Paths |-> IF q \in S THEN Empty ELSE dir[q]]
  /\ UNCHANGED <<project, recorded, work, edits, meddles>>

\* The goal is put on record.
Register(s) ==
  /\ NothingLeft(s)
  /\ recorded' = want[s]
  /\ UNCHANGED <<dir, project, work, edits, meddles>>

\* Success is reported.
Finish(s) ==
  /\ NothingLeft(s)
  /\ status' = [status EXCEPT ![s] = "done"]
  /\ UNCHANGED <<dir, project, recorded, want, owed, condemned, edits, meddles>>

\* The session is declined, fails or dies.
Stop(s) ==
  /\ Busy(s)
  /\ status' = [status EXCEPT ![s] = "stopped"]
  /\ owed' = [owed EXCEPT ![s] = {}]
  /\ condemned' = [condemned EXCEPT ![s] = {}]
  /\ UNCHANGED <<dir, project, recorded, want, edits, meddles>>

Edit ==
  /\ project' \in Goals
  /\ edits' = edits + 1
  /\ UNCHANGED <<dir, recorded, work, meddles>>

\* Somebody else changes the directory.
Meddle ==
  /\ dir' \in [Paths -> Nodes]
  /\ meddles' = meddles + 1
  /\ UNCHANGED <<project, recorded, work, edits>>

Step(s) ==
  \/ Begin(s) \/ Discard(s) \/ MakeWay(s) \/ Install(s) \/ Sweep(s)
  \/ Register(s) \/ Finish(s) \/ Stop(s)

Next == (\E s \in Sessions : Step(s)) \/ Edit \/ Meddle

Spec == Init /\ [][Next]_vars
=============================================================================
