------------------------------ MODULE Staleness ------------------------------
(***************************************************************************)
(* What crei.state remembers of the applied unit files (internal/state),   *)
(* and how `crei status` concludes from it that a running unit is stale:   *)
(* running a definition other than the applied one.                        *)
(*                                                                         *)
(* Nobody tells crei what a process was started from.  It compares two     *)
(* times: when the record of the file last changed, and when systemd says  *)
(* the unit became active, which systemctl prints to the second.  systemd  *)
(* takes the definition when the start begins; the unit is active when     *)
(* that is over, for a container with Notify=healthy after all the checks  *)
(* of its health.  Applies write, record and reload in three steps; units  *)
(* are started and stopped, files edited by hand, daemon-reloads run and   *)
(* state files lost at any moment between them.  Every step takes one tick *)
(* of the clock.                                                           *)
(***************************************************************************)
EXTENDS Naturals, Sequences

CONSTANTS
  Units,       \* the unit files (each with the service of its name)
  Contents,    \* what a unit file can say
  Quadlets,    \* the quadlets that can emit a unit file
  Builds,      \* the units that may run to their end and rest inactive
  Gone,        \* there is no such file, definition, or version
  NoFile,      \* the state has no record of the file
  Stopped,     \* the unit is not running
  HistoryCap,  \* historyCap: superseded versions retained per file
  Second,      \* ticks to the second
  MaxClock     \* bound on the length of a behaviour

ASSUME StalenessAssumption ==
  /\ Gone \notin Contents \cup Quadlets /\ Builds \subseteq Units
  /\ HistoryCap \in Nat /\ Second \in Nat \ {0} /\ MaxClock \in Nat

VARIABLES
  now,      \* the time
  desired,  \* what the project renders each unit to, and in which quadlet
  disk,     \* the files in the quadlet directory
  record,   \* their records in crei.state
  apply,    \* how far a running apply is: idle, written or recorded
  goal,     \* what it rendered
  loaded,   \* the definitions systemd has loaded
  running,  \* each unit's process
  log       \* every version recorded since the record of the file began

vars == <<now, desired, disk, record, apply, goal, loaded, running, log>>

Times == 0..MaxClock
Versions == [content : Contents, at : Times]
Files == [quadlet : Quadlets, content : Contents, at : Times, history : Seq(Versions)]
Wanted == [quadlet : Quadlets, content : Contents]

\* def: the definition it was started with; began: when that was; entered: when
\* the unit became active, for one that has not, when it began (InactiveExit);
\* sound: status showed the file synced and loaded when it began.
Processes ==
  [phase : {"activating", "active", "done"}, def : Contents, began : Times,
   entered : Times, sound : BOOLEAN]

-----------------------------------------------------------------------------
(* The record.                                                              *)

Latest(file) == [content |-> file.content, at |-> file.at]

\* Mutant: the newest versions are dropped.
KeepOldest(versions) ==
  IF Len(versions) <= HistoryCap THEN versions ELSE SubSeq(versions, 1, HistoryCap)

\* The newest HistoryCap of the versions.
Retained(versions) ==
  IF Len(versions) <= HistoryCap THEN versions
  ELSE SubSeq(versions, Len(versions) - HistoryCap + 1, Len(versions))

Fresh(want) ==
  [quadlet |-> want.quadlet, content |-> want.content, at |-> now, history |-> <<>>]

Superseding(prev, want) ==
  [Fresh(want) EXCEPT !.history = Retained(Append(prev.history, Latest(prev)))]

\* Mutant: an unchanged file gets a new time.
AlwaysNow(prev, want) ==
  IF prev = NoFile \/ prev.quadlet # want.quadlet THEN Fresh(want)
  ELSE IF prev.content = want.content THEN [prev EXCEPT !.at = now]
  ELSE Superseding(prev, want)

\* The next record of a file.  The previous one counts only if it was made for
\* the same quadlet; while the content stays it is carried forward, else the
\* superseded version joins the history.
BuildFile(prev, want) ==
  IF prev = NoFile \/ prev.quadlet # want.quadlet THEN Fresh(want)
  ELSE IF prev.content = want.content THEN prev
  ELSE Superseding(prev, want)

Build ==
  [u \in Units |-> IF goal[u] = Gone THEN NoFile ELSE BuildFile(record[u], goal[u])]

\* The newest of the versions that is not after t.
NewestAt(versions, t) ==
  LET before == {i \in DOMAIN versions : versions[i].at <= t}
  IN IF before = {} THEN Gone
     ELSE versions[CHOOSE i \in before : \A j \in before : j <= i].content

\* Mutant: what was in effect before all that is kept is taken to be the present.
CurrentByDefault(file, t) ==
  IF file.at <= t \/ NewestAt(file.history, t) = Gone THEN file.content
  ELSE NewestAt(file.history, t)

\* The content that was applied and current at t, Gone if unknown.
InEffectAt(file, t) ==
  IF file.at <= t THEN file.content ELSE NewestAt(file.history, t)

\* Mutant: the time is rounded up.
RoundedUp(t) == (t - (t % Second)) + Second

\* A time as systemctl prints it.
Printed(t) == t - (t % Second)

\* ActiveEnterTimestamp, or InactiveExitTimestamp of a build that is done.
Since(u) == Printed(running[u].entered)

\* What status says of a unit that is active or done: the record has changed
\* since.
Stale(u) ==
  /\ running[u] # Stopped /\ running[u].phase # "activating"
  /\ record[u] # NoFile /\ record[u].at > Since(u)

-----------------------------------------------------------------------------
Content(want) == IF want = Gone THEN Gone ELSE want.content

Init ==
  /\ now = 0
  /\ desired \in [Units -> Wanted \cup {Gone}]
  /\ disk \in [Units -> Contents \cup {Gone}]
  /\ record = [u \in Units |-> NoFile]
  /\ apply = "idle"
  /\ goal = desired
  /\ loaded = disk
  /\ running = [u \in Units |-> Stopped]
  /\ log = [u \in Units |-> <<>>]

\* Every step takes its own tick, so that no two events are simultaneous.
Tick == now < MaxClock /\ now' = now + 1

\* Render, and bring the files to the goal (Apply has the details).
WriteFiles ==
  /\ Tick
  /\ apply = "idle"
  /\ goal' = desired
  /\ disk' = [u \in Units |-> Content(desired[u])]
  /\ apply' = "written"
  /\ UNCHANGED <<desired, record, loaded, running, log>>

\* The record of u begins anew with the record next.
Begins(u, next) == record[u] = NoFile \/ record[u].quadlet # next.quadlet

\* recordState: load the record, build the next one, write it.
RecordState ==
  /\ Tick
  /\ apply = "written"
  /\ record' = Build
  /\ log' = [u \in Units |->
       IF record'[u] = record[u] THEN log[u]
       ELSE IF record'[u] = NoFile THEN <<>>
       ELSE IF Begins(u, record'[u]) THEN <<Latest(record'[u])>>
       ELSE Append(log[u], Latest(record'[u]))]
  /\ apply' = "recorded"
  /\ UNCHANGED <<desired, disk, goal, loaded, running>>

\* daemon-reload by apply.
ReloadAfter ==
  /\ Tick
  /\ apply = "recorded"
  /\ loaded' = disk
  /\ apply' = "idle"
  /\ UNCHANGED <<desired, disk, record, goal, running, log>>

\* Apply ends early: reload is off, or a step failed, or the process died.
Abandon ==
  /\ Tick
  /\ apply # "idle"
  /\ apply' = "idle"
  /\ UNCHANGED <<desired, disk, record, goal, loaded, running, log>>

\* The state file is deleted or cannot be parsed.
LoseState ==
  /\ Tick
  /\ record' = [u \in Units |-> NoFile]
  /\ log' = [u \in Units |-> <<>>]
  /\ UNCHANGED <<desired, disk, apply, goal, loaded, running>>

Edit(u) ==
  /\ Tick
  /\ \E want \in Wanted \cup {Gone} :
       want # desired[u] /\ desired' = [desired EXCEPT ![u] = want]
  /\ UNCHANGED <<disk, record, apply, goal, loaded, running, log>>

Tamper(u) ==
  /\ Tick
  /\ \E c \in Contents \cup {Gone} : c # disk[u] /\ disk' = [disk EXCEPT ![u] = c]
  /\ UNCHANGED <<desired, record, apply, goal, loaded, running, log>>

DaemonReload ==
  /\ Tick
  /\ loaded' = disk
  /\ UNCHANGED <<desired, disk, record, apply, goal, running, log>>

\* status shows the recorded and deployed contents equal, and systemd has them.
InOrder(u) ==
  record[u] # NoFile /\ record[u].content = disk[u] /\ loaded[u] = disk[u]

\* systemd starts or restarts the unit from the definition it has loaded.
Start(u) ==
  /\ Tick
  /\ loaded[u] # Gone
  /\ running' = [running EXCEPT ![u] =
       [phase |-> "activating", def |-> loaded[u], began |-> now, entered |-> now,
        sound |-> InOrder(u)]]
  /\ UNCHANGED <<desired, disk, record, apply, goal, loaded, log>>

\* The start is over: the service is up, for Type=notify after it has said so.
Activate(u) ==
  /\ Tick
  /\ running[u] # Stopped /\ running[u].phase = "activating"
  /\ running' = [running EXCEPT ![u] = [@ EXCEPT !.phase = "active", !.entered = now]]
  /\ UNCHANGED <<desired, disk, record, apply, goal, loaded, log>>

\* A build has run and rests inactive, without ever having been active.
Complete(u) ==
  /\ Tick
  /\ u \in Builds /\ running[u] # Stopped /\ running[u].phase = "activating"
  /\ running' = [running EXCEPT ![u] = [@ EXCEPT !.phase = "done"]]
  /\ UNCHANGED <<desired, disk, record, apply, goal, loaded, log>>

Stop(u) ==
  /\ Tick
  /\ running[u] # Stopped /\ running[u].phase # "done"
  /\ running' = [running EXCEPT ![u] = Stopped]
  /\ UNCHANGED <<desired, disk, record, apply, goal, loaded, log>>

Next ==
  \/ WriteFiles \/ RecordState \/ ReloadAfter \/ Abandon \/ LoseState \/ DaemonReload
  \/ \E u \in Units :
       Edit(u) \/ Tamper(u) \/ Start(u) \/ Activate(u) \/ Complete(u) \/ Stop(u)

Spec == Init /\ [][Next]_vars

-----------------------------------------------------------------------------
TypeOK ==
  /\ now \in Times
  /\ desired \in [Units -> Wanted \cup {Gone}]
  /\ disk \in [Units -> Contents \cup {Gone}]
  /\ record \in [Units -> Files \cup {NoFile}]
  /\ \A u \in Units : record[u] # NoFile => Len(record[u].history) <= HistoryCap
  /\ apply \in {"idle", "written", "recorded"}
  /\ goal \in [Units -> Wanted \cup {Gone}]
  /\ loaded \in [Units -> Contents \cup {Gone}]
  /\ running \in [Units -> Processes \cup {Stopped}]
  /\ log \in [Units -> Seq(Versions)]

\* The start of u is over.
Up(u) == running[u] # Stopped /\ running[u].phase # "activating"

\* The recorded version of u was recorded while u was still starting.
AppliedMeanwhile(u) ==
  running[u].began < record[u].at /\ record[u].at <= running[u].entered

\* A unit whose start began while status showed it synced and loaded, and which
\* runs anything else than the recorded file, is marked stale, except when that
\* file was recorded while the unit was still starting: no other order of edits,
\* applies, reloads, tampering, state losses and starts hides it.
StaleComplete ==
  \A u \in Units :
    /\ Up(u) /\ record[u] # NoFile
    /\ running[u].sound /\ running[u].def # record[u].content
    => Stale(u) \/ AppliedMeanwhile(u)

\* The README: "(stale) marks a process started before the file's last apply,
\* i.e. running the old config".  Not so of a unit that took longer to start.
OldIsMarked ==
  \A u \in Units :
    /\ Up(u) /\ record[u] # NoFile
    /\ running[u].began < record[u].at
    /\ running[u].sound /\ running[u].def # record[u].content
    => Stale(u)

\* The capped history answers what was in effect at any time as the complete
\* log would, and fails to answer only for times before the versions it keeps.
HistoryFaithful ==
  \A u \in Units : record[u] # NoFile =>
    \A t \in 0..now :
      LET kept == InEffectAt(record[u], t)
          full == NewestAt(log[u], t)
      IN kept = full \/ (kept = Gone /\ Len(log[u]) > HistoryCap + 1)

\* What diff --stale shows as the running config is what the process was
\* started from, if no version was recorded between the begin of the start and
\* the second in which systemctl says it was over.
DiffShowsRunning ==
  \A u \in Units :
    /\ Up(u) /\ record[u] # NoFile /\ running[u].sound
    /\ \A i \in DOMAIN log[u] :
         (log[u][i].at <= Since(u)) <=> (log[u][i].at <= running[u].began)
    => InEffectAt(record[u], Since(u)) \in {Gone, running[u].def}

\* While a file stays in its quadlet, the time of its record moves exactly when
\* its content does: an apply that leaves a file alone makes nothing stale.
TimeFollowsContent(u) ==
  /\ record[u] # NoFile /\ record'[u] # NoFile
  /\ record[u].quadlet = record'[u].quadlet
  => IF record'[u].content = record[u].content
     THEN record'[u].at = record[u].at
     ELSE record'[u].at > record[u].at

CarriedForward == [][\A u \in Units : TimeFollowsContent(u)]_vars

-----------------------------------------------------------------------------
(* The inductive invariant behind the properties above.                     *)

\* What is recorded and what runs lies in the past.
Past(u) ==
  /\ record[u] # NoFile => record[u].at < now
  /\ running[u] # Stopped =>
       running[u].began <= running[u].entered /\ running[u].entered < now

\* The log is in the order of time and ends with the record's version; the
\* history is the end of what comes before that.
HistoryTail(u) ==
  record[u] # NoFile =>
    LET n == Len(log[u])
        k == Len(record[u].history)
    IN /\ n > 0 /\ log[u][n] = Latest(record[u])
       /\ k = IF n - 1 <= HistoryCap THEN n - 1 ELSE HistoryCap
       /\ \A i \in 1..k : record[u].history[i] = log[u][n - 1 - k + i]
       /\ \A i, j \in 1..n : i < j => log[u][i].at < log[u][j].at

\* A process that was started in order runs what the newest version recorded
\* before it says.
StartedFrom(u) ==
  running[u] # Stopped /\ running[u].sound /\ record[u] # NoFile =>
    \A i \in 1..Len(log[u]) :
      /\ log[u][i].at <= running[u].began
      /\ \A j \in 1..Len(log[u]) : log[u][j].at <= running[u].began => j <= i
      => log[u][i].content = running[u].def

\* The conjunction that every step preserves.
IInv == TypeOK /\ \A u \in Units : Past(u) /\ HistoryTail(u) /\ StartedFrom(u)
=============================================================================
