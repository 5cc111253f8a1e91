-------------------------------- MODULE Apply --------------------------------
(***************************************************************************)
(* `crei apply`, run by several sessions (terminals, cron jobs, machines   *)
(* that share the quadlet directory) with nothing to exclude one another:  *)
(* plan, ask, remove, write, prune, record, daemon-reload.  Users edit the *)
(* CUE project and change the directory by hand meanwhile, system calls    *)
(* fail, and a session can be killed between any two steps.                *)
(*                                                                         *)
(* A session's plan is computed before the confirmation prompt and acted   *)
(* on after it.  One file is written in four steps, between which the      *)
(* other sessions run and a crash can strike: make room, create the temp   *)
(* file, fill it, rename it over the target.                               *)
(***************************************************************************)
EXTENDS QuadletTree

CONSTANTS
  Sessions,    \* the processes that may run apply
  Reloading,   \* those for which reload_systemd is on
  Projects,    \* the goals the CUE project can render to
  Trees,       \* the trees found at the start
  Records,     \* the recorded states found at the start
  Meddlings,   \* what somebody else may leave at a path
  NoRecord,    \* there is no (readable) crei.state
  NoTemp,      \* a session holds no temp file
  MaxEdits,    \* bound on the edits of the project
  MaxMeddles,  \* bound on the changes made to the directory from outside
  MaxFaults    \* bound on the failing system calls and the crashes

ASSUME ApplyAssumption ==
  /\ Reloading \subseteq Sessions
  /\ Projects \subseteq Goals
  /\ \A g \in Projects : DOMAIN g \cap Temps = {}
  /\ \A d \in Trees : /\ TreeOK(d)
                      /\ \A p \in Paths : d[p].content # Partial
                      /\ \A t \in Temps : d[t] = Absent
  /\ Records \subseteq Projects \cup {NoRecord}
  /\ Meddlings \subseteq {Absent, Dir, Link} \cup {File(c, m) : c \in Contents, m \in Modes}
  /\ NoRecord \notin Goals /\ NoTemp \notin Paths
  /\ MaxEdits \in Nat /\ MaxMeddles \in Nat /\ MaxFaults \in Nat

VARIABLES
  disk,      \* the quadlet directory
  project,   \* what the project renders to now
  recorded,  \* the goal crei.state records
  loaded,    \* the unit files systemd's generator read at the last reload
  pc,        \* where each session is
  goal,      \* desired: what it rendered
  dels,      \* the removals of its plan still to do
  puts,      \* the additions and changes of its plan still to do
  temp,      \* the temp file it holds
  result,    \* how its last apply ended
  clean,     \* nobody else touched directory or record since it planned
  edits, meddles, faults, crashes

session == <<pc, goal, dels, puts, temp, result>>
bounds == <<edits, meddles, faults, crashes>>
vars == <<disk, project, recorded, loaded, session, clean, bounds>>

Phases == {"idle", "confirm", "remove", "write", "stage", "fill", "commit",
           "prune", "record", "adopt", "reload"}
Results == {"none", "applied", "nothing", "aborted", "failed", "notdir", "crashed"}

\* The unit files of the directory, which is what the quadlet generator reads.
UnitFiles(d) == [u \in Units |-> d[u]]

-----------------------------------------------------------------------------
Init ==
  /\ disk \in Trees
  /\ project \in Projects
  /\ recorded \in Records
  /\ loaded = UnitFiles(disk)
  /\ pc = [s \in Sessions |-> "idle"]
  /\ goal = [s \in Sessions |-> project]
  /\ dels = [s \in Sessions |-> {}]
  /\ puts = [s \in Sessions |-> {}]
  /\ temp = [s \in Sessions |-> NoTemp]
  /\ result = [s \in Sessions |-> "none"]
  /\ clean = [s \in Sessions |-> TRUE]
  /\ edits = 0 /\ meddles = 0 /\ faults = 0 /\ crashes = 0

\* A step of the sessions in who: the plan of any other is no longer clean if
\* the step changed the directory or the record.
Notice(who) ==
  clean' = IF disk' = disk /\ recorded' = recorded THEN clean
           ELSE [t \in Sessions |-> clean[t] /\ t \in who]

\* p comes first in the sorted set S.
First(S, p) == p \in S /\ \A q \in S : Rank[p] <= Rank[q]

\* Where an apply goes on with the removals ds and the writes ps left.
NextPhase(ds, ps) ==
  IF ds # {} THEN "remove" ELSE IF ps # {} THEN "write" ELSE "prune"

Goto(s, phase) == pc' = [pc EXCEPT ![s] = phase]

\* The command returns.
Return(s, how) ==
  /\ Goto(s, "idle")
  /\ result' = [result EXCEPT ![s] = how]
  /\ dels' = [dels EXCEPT ![s] = {}]
  /\ puts' = [puts EXCEPT ![s] = {}]
  /\ temp' = [temp EXCEPT ![s] = NoTemp]
  /\ UNCHANGED goal

\* The temp names in use.  CreateTemp draws a random name, so that no two
\* sessions get the same one even if the file of the first is removed.
Held == {temp[s] : s \in Sessions}

\* Mutant: an error return leaves the temp file.
KeepTemp(s) == UNCHANGED disk

\* The deferred os.Remove of the temp file.
DropTemp(s) ==
  disk' = IF temp[s] # NoTemp /\ IsFile(disk, temp[s])
          THEN [disk EXCEPT ![temp[s]] = Absent] ELSE disk

-----------------------------------------------------------------------------
(* Planning.                                                                *)

\* Render the project and compute the plan.  With nothing to do the command
\* goes on to adopt the state, else it prompts.
Plan(s) ==
  /\ pc[s] = "idle"
  /\ goal' = [goal EXCEPT ![s] = project]
  /\ dels' = [dels EXCEPT ![s] = Dels(disk, project)]
  /\ puts' = [puts EXCEPT ![s] = Puts(disk, project)]
  /\ Goto(s, IF Synced(disk, project) THEN "adopt" ELSE "confirm")
  /\ result' = [result EXCEPT ![s] = "none"]
  /\ clean' = [clean EXCEPT ![s] = TRUE]
  /\ UNCHANGED <<disk, project, recorded, loaded, temp, bounds>>

\* The answer to "Apply changes?" (at once under --yes).
Confirm(s) ==
  /\ pc[s] = "confirm"
  /\ Goto(s, NextPhase(dels[s], puts[s]))
  /\ UNCHANGED <<disk, project, recorded, loaded, goal, dels, puts, temp,
                 result, clean, bounds>>

Decline(s) ==
  /\ pc[s] = "confirm"
  /\ Return(s, "aborted")
  /\ UNCHANGED <<disk, project, recorded, loaded, clean, bounds>>

-----------------------------------------------------------------------------
(* Acting on the plan.                                                      *)

\* RemoveFile on the next removal: os.RemoveAll, whatever is there by now.
Remove(s) ==
  /\ pc[s] = "remove"
  /\ \E p \in dels[s] :
       /\ First(dels[s], p) /\ ~RemoveFails(disk, p)
       /\ disk' = RemoveAll(disk, p)
       /\ dels' = [dels EXCEPT ![s] = @ \ {p}]
       /\ Goto(s, NextPhase(dels[s] \ {p}, puts[s]))
  /\ UNCHANGED <<project, recorded, loaded, goal, puts, temp, result, bounds>>
  /\ Notice({s})

\* WriteFile on the next addition or change: ensureDir, and removal of a
\* directory or link at the path.
Prepare(s) ==
  /\ pc[s] = "write"
  /\ \E p \in puts[s] :
       /\ First(puts[s], p) /\ ~EnsureDirFails(disk, p)
       /\ disk' = MakeRoom(disk, p)
  /\ Goto(s, "stage")
  /\ UNCHANGED <<project, recorded, loaded, goal, dels, puts, temp, result, bounds>>
  /\ Notice({s})

\* os.CreateTemp in the target's directory.
Stage(s) ==
  /\ pc[s] = "stage"
  /\ \E p \in puts[s] : \E t \in FreeTemps(disk, p) \ Held :
       /\ First(puts[s], p) /\ DirExists(disk, p)
       /\ disk' = [disk EXCEPT ![t] = File(Partial, DefaultMode)]
       /\ temp' = [temp EXCEPT ![s] = t]
  /\ Goto(s, "fill")
  /\ UNCHANGED <<project, recorded, loaded, goal, dels, puts, result, bounds>>
  /\ Notice({s})

\* Write, fsync, close and chmod the temp file.
Fill(s) ==
  /\ pc[s] = "fill"
  /\ IsFile(disk, temp[s])
  /\ \E p \in puts[s] :
       First(puts[s], p) /\ disk' = [disk EXCEPT ![temp[s]] = Rendered(goal[s], p)]
  /\ Goto(s, "commit")
  /\ UNCHANGED <<project, recorded, loaded, goal, dels, puts, temp, result, bounds>>
  /\ Notice({s})

\* Mutant: the loop over the plan does not move on.
CommitAgain(s) ==
  /\ pc[s] = "commit"
  /\ IsFile(disk, temp[s])
  /\ \E p \in puts[s] :
       First(puts[s], p) /\ disk[p] # Dir /\ disk' = Rename(disk, temp[s], p)
  /\ Goto(s, "write")
  /\ temp' = [temp EXCEPT ![s] = NoTemp]
  /\ UNCHANGED <<project, recorded, loaded, goal, dels, puts, result, bounds>>
  /\ Notice({s})

\* Rename the temp file over the target, then on to the next file.
Commit(s) ==
  /\ pc[s] = "commit"
  /\ IsFile(disk, temp[s])
  /\ \E p \in puts[s] :
       /\ First(puts[s], p) /\ disk[p] # Dir
       /\ disk' = Rename(disk, temp[s], p)
       /\ puts' = [puts EXCEPT ![s] = @ \ {p}]
       /\ Goto(s, NextPhase({}, puts[s] \ {p}))
  /\ temp' = [temp EXCEPT ![s] = NoTemp]
  /\ UNCHANGED <<project, recorded, loaded, goal, dels, result, bounds>>
  /\ Notice({s})

Prune(s) ==
  /\ pc[s] = "prune"
  /\ disk' = PruneEmptyDirs(disk)
  /\ Goto(s, "record")
  /\ UNCHANGED <<project, recorded, loaded, goal, dels, puts, temp, result, bounds>>
  /\ Notice({s})

\* Mutant: what is recorded is rendered anew.
RecordProject(s) ==
  /\ pc[s] = "record"
  /\ recorded' = project
  /\ Goto(s, "reload")
  /\ result' = [result EXCEPT ![s] = "applied"]
  /\ UNCHANGED <<disk, project, loaded, goal, dels, puts, temp, bounds>>
  /\ Notice({s})

\* recordState after an apply that changed files.
Record(s) ==
  /\ pc[s] = "record"
  /\ recorded' = goal[s]
  /\ Goto(s, "reload")
  /\ result' = [result EXCEPT ![s] = "applied"]
  /\ UNCHANGED <<disk, project, loaded, goal, dels, puts, temp, bounds>>
  /\ Notice({s})

\* Mutant: nothing to do, so nothing to reload.
AdoptOnly(s) ==
  /\ pc[s] = "adopt"
  /\ recorded' = goal[s]
  /\ Return(s, "nothing")
  /\ UNCHANGED <<disk, project, loaded, bounds>>
  /\ Notice({s})

\* recordState after a plan with nothing to do: a failing write is a warning.
Adopt(s) ==
  /\ pc[s] = "adopt"
  /\ \/ recorded' = goal[s] /\ UNCHANGED faults
     \/ faults < MaxFaults /\ faults' = faults + 1 /\ UNCHANGED recorded
  /\ Goto(s, "reload")
  /\ result' = [result EXCEPT ![s] = "nothing"]
  /\ UNCHANGED <<disk, project, loaded, goal, dels, puts, temp, edits, meddles, crashes>>
  /\ Notice({s})

\* systemctl daemon-reload, when reload is on, and a successful return.
Reload(s) ==
  /\ pc[s] = "reload"
  /\ loaded' = IF s \in Reloading THEN UnitFiles(disk) ELSE loaded
  /\ Return(s, result[s])
  /\ UNCHANGED <<disk, project, recorded, clean, bounds>>

-----------------------------------------------------------------------------
(* Failing.                                                                 *)

\* The system calls the state of the tree makes fail.
Stuck(s) ==
  \/ pc[s] = "remove" /\ \E p \in dels[s] : First(dels[s], p) /\ RemoveFails(disk, p)
  \/ /\ pc[s] = "stage"
     /\ \E p \in puts[s] :
          First(puts[s], p) /\ (~DirExists(disk, p) \/ FreeTemps(disk, p) \ Held = {})
  \/ pc[s] \in {"fill", "commit"} /\ ~IsFile(disk, temp[s])
  \/ pc[s] = "commit" /\ \E p \in puts[s] : First(puts[s], p) /\ disk[p] = Dir

GiveUp(s) ==
  /\ Stuck(s)
  /\ DropTemp(s)
  /\ Return(s, "failed")
  /\ UNCHANGED <<project, recorded, loaded, bounds>>
  /\ Notice({s})

\* ensureDir meets a file above the target's parent.
GiveUpNotDir(s) ==
  /\ pc[s] = "write"
  /\ \E p \in puts[s] : First(puts[s], p) /\ EnsureDirFails(disk, p)
  /\ Return(s, "notdir")
  /\ UNCHANGED <<disk, project, recorded, loaded, clean, bounds>>

\* Any other failure (no space, no permission, an I/O error, systemctl).
Fail(s) ==
  /\ pc[s] \notin {"idle", "confirm", "adopt"}
  /\ ~(pc[s] = "reload" /\ s \notin Reloading)
  /\ faults < MaxFaults
  /\ faults' = faults + 1
  /\ DropTemp(s)
  /\ Return(s, "failed")
  /\ UNCHANGED <<project, recorded, loaded, edits, meddles, crashes>>
  /\ Notice({s})

\* The process dies.  A temp file stays behind.
Crash(s) ==
  /\ pc[s] # "idle"
  /\ faults < MaxFaults
  /\ faults' = faults + 1
  /\ crashes' = crashes + 1
  /\ Return(s, "crashed")
  /\ UNCHANGED <<disk, project, recorded, loaded, clean, edits, meddles>>

-----------------------------------------------------------------------------
(* The rest of the world.                                                   *)

Edit ==
  /\ edits < MaxEdits
  /\ edits' = edits + 1
  /\ project' \in Projects \ {project}
  /\ UNCHANGED <<disk, recorded, loaded, session, clean, meddles, faults, crashes>>

\* Somebody puts something at a path of the directory, or removes it.
Meddle ==
  /\ meddles < MaxMeddles
  /\ meddles' = meddles + 1
  /\ \E p \in Paths \ Temps, n \in Meddlings :
       /\ DirExists(disk, p) /\ n # disk[p]
       /\ disk' = [RemoveAll(disk, p) EXCEPT ![p] = n]
  /\ UNCHANGED <<project, recorded, loaded, session, edits, faults, crashes>>
  /\ Notice({})

\* What a session does once it has been told to go on.
Work(s) ==
  \/ Remove(s) \/ Prepare(s) \/ Stage(s) \/ Fill(s) \/ Commit(s) \/ Prune(s)
  \/ Record(s) \/ Adopt(s) \/ Reload(s) \/ GiveUp(s) \/ GiveUpNotDir(s)

Answer(s) == Confirm(s) \/ Decline(s)

Next ==
  \/ \E s \in Sessions : Plan(s) \/ Answer(s) \/ Work(s) \/ Fail(s) \/ Crash(s)
  \/ Edit \/ Meddle

Spec == Init /\ [][Next]_vars

\* The processor runs a session that has work, and the user answers a prompt.
Fairness == \A s \in Sessions : WF_vars(Work(s)) /\ WF_vars(Answer(s))

FairSpec == Spec /\ Fairness

\* The user runs the command again and again, and agrees again and again.
Persistent ==
  \A s \in Sessions : WF_vars(Plan(s)) /\ SF_vars(Confirm(s))

RetrySpec == FairSpec /\ Persistent

-----------------------------------------------------------------------------
(* Invariants.                                                              *)

TypeOK ==
  /\ TreeOK(disk)
  /\ project \in Projects
  /\ recorded \in Projects \cup {NoRecord}
  /\ loaded \in [Units -> Nodes]
  /\ pc \in [Sessions -> Phases]
  /\ goal \in [Sessions -> Projects]
  /\ dels \in [Sessions -> SUBSET (Units \cup Artifacts)]
  /\ puts \in [Sessions -> SUBSET (Units \cup Artifacts)]
  /\ temp \in [Sessions -> Temps \cup {NoTemp}]
  /\ result \in [Sessions -> Results]
  /\ clean \in [Sessions -> BOOLEAN]
  /\ edits \in 0..MaxEdits /\ meddles \in 0..MaxMeddles
  /\ faults \in 0..MaxFaults /\ crashes \in 0..faults

\* The last apply of s returned without an error, having written files or not.
Done(s) == pc[s] = "idle" /\ result[s] \in {"applied", "nothing"}

\* A successful apply leaves exactly what the project rendered to, whatever it
\* found: every desired file in place with content and mode, no other managed
\* file.  Only for goals in which no file is the directory of another, and
\* only as long as nobody else changes the directory.
Converged ==
  \A s \in Sessions :
    Done(s) /\ clean[s] /\ PrefixFree(goal[s]) => Synced(disk, goal[s])

\* An apply that wrote files and succeeded has recorded what it wrote.
AppliedRecorded ==
  \A s \in Sessions :
    pc[s] = "idle" /\ result[s] = "applied" /\ clean[s] => recorded = goal[s]

\* After a successful apply with reload on, systemd has read the unit files as
\* they are now, also when this apply found nothing to do because an earlier
\* one wrote the files and then failed to reload.
ReloadTakesEffect ==
  \A s \in Reloading : Done(s) /\ clean[s] => loaded = UnitFiles(disk)

\* No file of the directory but a temp file is ever seen half-written, however
\* applies interleave, fail and die.
NoTornFile == \A p \in Paths \ Temps : disk[p].content # Partial

\* Unless a process died, a temp file belongs to exactly one session that is
\* still writing it: failing applies leave none behind.
TempsOwned ==
  crashes = 0 =>
    \A t \in Temps : disk[t] # Absent =>
      \E s \in Sessions : /\ temp[s] = t /\ pc[s] \in {"fill", "commit"}
                          /\ \A r \in Sessions : temp[r] = t => r = s

-----------------------------------------------------------------------------
(* The inductive invariant behind Converged and NoTornFile.                 *)

\* What the phase says of the plan, whatever the others do.
PhaseOK(s) ==
  /\ puts[s] \subseteq DOMAIN goal[s]
  /\ dels[s] \cap DOMAIN goal[s] = {}
  /\ pc[s] \notin {"confirm", "remove"} => dels[s] = {}
  /\ pc[s] \in {"idle", "prune", "record", "adopt", "reload"} => puts[s] = {}
  /\ temp[s] # NoTemp <=> pc[s] \in {"fill", "commit"}

\* A temp file lies beside the target, holds what its session has put there
\* unless somebody removed it, and is no other session's.
TempOK(s) ==
  temp[s] # NoTemp =>
    /\ \A r \in Sessions : temp[r] = temp[s] => r = s
    /\ \A p \in puts[s] : First(puts[s], p) =>
         /\ Anc(temp[s]) = Anc(p)
         /\ pc[s] = "commit" =>
              disk[temp[s]] \in {Absent, Rendered(goal[s], p)}

\* How far an apply that is alone has come: what is not left to write is in
\* place, and what is listed but not desired is left to remove.
OnTrack(s) ==
  /\ \A p \in DOMAIN goal[s] \ puts[s] : InSync(disk, goal[s], p)
  /\ \A p \in dels[s] : IsFile(disk, p)
  /\ ListExisting(disk) \ DOMAIN goal[s] \subseteq dels[s] \cup {temp[s]}

\* The conjunction that every step preserves.
IInv ==
  /\ TypeOK
  /\ NoTornFile
  /\ \A s \in Sessions : PhaseOK(s) /\ TempOK(s)
  /\ \A s \in Sessions :
       clean[s] /\ PrefixFree(goal[s]) /\ (pc[s] # "idle" \/ Done(s)) => OnTrack(s)

-----------------------------------------------------------------------------
(* Action properties.                                                       *)

\* The step is taken by s or leaves directory and record alone.
Alone(s) == clean[s] /\ clean'[s] /\ pc[s] # "idle"

\* An apply never disturbs a desired file that is already as desired, be it
\* one the plan calls unchanged or one it has written itself: not by a removal,
\* not by making room for another file, not by pruning, not by failing.
Undisturbed ==
  [][\A s \in Sessions :
       Alone(s) /\ PrefixFree(goal[s]) =>
         \A p \in DOMAIN goal[s] :
           InSync(disk, goal[s], p) => InSync(disk', goal[s], p)]_vars

\* p is in the way of a desired file: it stands where a directory of the file
\* must be, or below the place of the file itself.
InTheWay(g, p) == \E q \in DOMAIN g : p \in Anc(q) \/ q \in Anc(p)

\* What an apply that is alone changes is a temp file, a desired file,
\* something in the way of one, a regular managed file nobody desires, or a
\* directory below images/ with no file left in it.  Any other symlink,
\* directory or unmanaged file is left alone.
Footprint ==
  [][\A s \in Sessions : Alone(s) =>
       \A p \in Paths : disk'[p] # disk[p] =>
         \/ p \in Temps \cup DOMAIN goal[s] \cup ListExisting(disk)
         \/ InTheWay(goal[s], p)
         \/ /\ p \in Artifacts /\ disk[p] = Dir
            /\ \A q \in Paths : p \in Anc(q) => disk[q] \in {Absent, Dir}]_vars

-----------------------------------------------------------------------------
(* Liveness.                                                                *)

\* Every apply returns.
Returns == \A s \in Sessions : pc[s] # "idle" ~> pc[s] = "idle"

\* The project can be applied to the directory as it is: no desired file is
\* the directory of another, and none lies below a file that is not its parent.
Applicable ==
  /\ PrefixFree(project)
  /\ \A p \in DOMAIN project : ~EnsureDirFails(disk, p)

\* A user who repeats the command reaches the project's goal for good, also
\* after failures and crashes at any point of earlier attempts.
RetriesConverge == <>[]Applicable => <>[]Synced(disk, project)

-----------------------------------------------------------------------------
(* What apply promises (Reconcile), and how the sessions keep it.           *)

\* The nodes ComputePlan accepts for each path of a goal.
Accepted ==
  [g \in Projects |->
     [p \in DOMAIN g |-> {n \in Files : /\ n.content = g[p].content
                                       /\ g[p].mode \in {AnyMode, n.mode}}]]

Visible == Paths \ Temps
VisibleDisk == [p \in Visible |-> disk[p]]
Status == [s \in Sessions |->
             IF pc[s] # "idle" THEN "busy" ELSE IF Done(s) THEN "done" ELSE "stopped"]
Condemned == [s \in Sessions |-> dels[s] \ Temps]

Promise == INSTANCE Reconcile WITH
  Paths <- Visible, Managed <- (Units \cup Artifacts) \ Temps,
  Sweepable <- Artifacts \ Temps, Regular <- Files, Empty <- Absent, Folder <- Dir,
  Goals <- Projects, Meets <- Accepted,
  dir <- VisibleDisk, status <- Status, want <- goal, owed <- puts,
  condemned <- Condemned

\* Apply keeps its promise step by step, however sessions interleave, fail and
\* die: what others see of the directory changes only by discarding what a plan
\* condemned, by making way for an owed file, by replacing an owed path with a
\* whole accepted file, or by sweeping empty image directories; and no session
\* records its goal or reports success with a write or a removal left.
KeepsPromise == Promise!Spec

-----------------------------------------------------------------------------
(* What the documentation says and the code does not do.                    *)

\* crei status calls p foreign: it is on disk, neither recorded nor desired.
Foreign(p) ==
  /\ recorded # NoRecord
  /\ p \in ListExisting(disk) \ (DOMAIN recorded \cup DOMAIN project)

\* README: a foreign file is never touched.  Apply removes it, since it is a
\* listed file that is not desired.
ForeignUntouched ==
  [][meddles' = meddles => \A p \in Paths : Foreign(p) => disk'[p] = disk[p]]_vars
=============================================================================
