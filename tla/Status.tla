-------------------------------- MODULE Status --------------------------------
(***************************************************************************)
(* `crei status` (internal/cli/status.go): what it concludes about the     *)
(* unit files from the layers that Staleness keeps - the project, crei.state, *)
(* the directory and systemd - each of which it may fail to read.  The     *)
(* layers are read while nothing else happens.                             *)
(***************************************************************************)
EXTENDS Staleness

Everything == {}   \* no quadlet named on the command line

\* What was read: evaluates is FALSE when the project does not evaluate, exists
\* when there is a crei.state, runtime when systemctl answers.
Gathered(evaluates, runtime) ==
  [evaluates |-> evaluates, desired |-> [u \in Units |-> IF evaluates THEN desired[u] ELSE Gone],
   exists |-> \E u \in Units : record[u] # NoFile, recorded |-> record,
   disk |-> disk, runtime |-> runtime]

KnownQuadlets(in) ==
  {in.desired[u].quadlet : u \in {v \in Units : in.desired[v] # Gone}}
    \cup {in.recorded[u].quadlet : u \in {v \in Units : in.recorded[v] # NoFile}}

\* Mutant: only quadlets of the project are selected.
FilterToProject(in, only) ==
  LET wanted == [u \in Units |->
        IF in.desired[u] = Gone \/ in.desired[u].quadlet \notin only THEN Gone
        ELSE in.desired[u]]
      kept == [u \in Units |-> IF wanted[u] = Gone THEN NoFile ELSE in.recorded[u]]
  IN [in EXCEPT !.desired = wanted, !.recorded = kept,
        !.disk = [u \in Units |-> IF wanted[u] = Gone THEN Gone ELSE @[u]]]

\* Both layers that know quadlets are narrowed, and the directory to what they
\* leave.
FilterStatusInput(in, only) ==
  LET wanted == [u \in Units |->
        IF in.desired[u] = Gone \/ in.desired[u].quadlet \notin only THEN Gone
        ELSE in.desired[u]]
      recorded == [u \in Units |->
        IF in.recorded[u] = NoFile \/ in.recorded[u].quadlet \notin only THEN NoFile
        ELSE in.recorded[u]]
  IN [in EXCEPT !.desired = wanted, !.recorded = recorded,
        !.disk = [u \in Units |->
           IF wanted[u] = Gone /\ recorded[u] = NoFile THEN Gone ELSE @[u]]]

View(in, only) == IF only = Everything THEN in ELSE FilterStatusInput(in, only)

\* A path that the project does not have and the directory neither is left out,
\* recorded or not.
Shown(in) == {u \in Units : in.desired[u] # Gone \/ in.disk[u] # Gone}

Differs(in, u) == in.recorded[u] # NoFile /\ in.recorded[u].content # in.disk[u]

\* Mutant: a file that matches the project is synced whatever was recorded.
SyncedAnyhow(in, u) ==
  IF in.disk[u] = Gone THEN "missing"
  ELSE IF in.disk[u] = in.desired[u].content THEN "synced"
  ELSE IF Differs(in, u) THEN "tampered" ELSE "pending"

\* A file of the project.
DesiredWord(in, u) ==
  IF in.disk[u] = Gone THEN "missing"
  ELSE IF Differs(in, u) THEN "tampered"
  ELSE IF in.disk[u] = in.desired[u].content THEN "synced" ELSE "pending"

\* A file on disk that the project, if it evaluates, does not have.
OtherWord(in, u) ==
  IF in.recorded[u] # NoFile
  THEN IF in.evaluates THEN "orphan" ELSE IF Differs(in, u) THEN "tampered" ELSE "applied"
  ELSE IF in.exists THEN "foreign" ELSE IF in.evaluates THEN "orphan" ELSE "unknown"

DiskWord(in, u) == IF in.desired[u] # Gone THEN DesiredWord(in, u) ELSE OtherWord(in, u)

\* The service of a unit that neither layer knows is not asked for.
Known(in, u) == in.desired[u] # Gone \/ in.recorded[u] # NoFile

LoadedWord(in, u) ==
  IF ~in.runtime \/ ~Known(in, u) THEN "unread"
  ELSE IF loaded[u] = Gone THEN "not loaded"
  ELSE IF loaded[u] # disk[u] THEN "reload needed" ELSE "ok"

ShowsStale(in, u) ==
  /\ LoadedWord(in, u) \in {"ok", "reload needed"}
  /\ in.recorded[u] # NoFile /\ Stale(u)

Owner(in, u) ==
  IF in.desired[u] # Gone THEN in.desired[u].quadlet
  ELSE IF in.recorded[u] # NoFile THEN in.recorded[u].quadlet ELSE Gone

\* Of the states of services only those that Staleness tells apart.
RuntimeWord(in, u) ==
  IF LoadedWord(in, u) \notin {"ok", "reload needed"} THEN "unread"
  ELSE IF running[u] = Stopped THEN "stopped" ELSE running[u].phase

ClassifyRows(in) ==
  [u \in Shown(in) |->
     [quadlet |-> Owner(in, u), disk |-> DiskWord(in, u), loaded |-> LoadedWord(in, u),
      runtime |-> RuntimeWord(in, u), stale |-> ShowsStale(in, u)]]

\* The rows of --problems, but for failed and blocked services.
RowIsProblem(row) ==
  \/ row.disk \notin {"synced", "applied"}
  \/ row.loaded \in {"reload needed", "not loaded"}
  \/ row.runtime = "activating"
  \/ row.stale

\* status --check; a layer that could not be read, other than systemd, fails it.
StatusClean(in) ==
  /\ in.evaluates
  /\ \A u \in Shown(in) : ~RowIsProblem(ClassifyRows(in)[u])

-----------------------------------------------------------------------------
\* When --check passes with every layer read, a process whose start began in order
\* and whose unit is recorded runs exactly what the project renders now: not an
\* older version, and not one that somebody wrote over it.  The exception is what
\* StaleComplete excepts, a version recorded while the unit was still starting.
CleanMeansCurrent ==
  LET in == Gathered(TRUE, TRUE) IN
  StatusClean(in) =>
    \A u \in Units :
      /\ running[u] # Stopped /\ running[u].sound
      /\ desired[u] # Gone /\ record[u] # NoFile
      => running[u].def = desired[u].content \/ AppliedMeanwhile(u)

\* A file has the same row whether its quadlet is named on the command line or not,
\* however much of the layers is missing; also one that only crei.state knows, its
\* quadlet being gone from the project.  Left out are files that are recorded for
\* one quadlet and rendered by another: the narrowed status has half of the layers
\* for these and shows another row.
FilterAgrees ==
  \A evaluates, runtime \in BOOLEAN : \A q \in KnownQuadlets(Gathered(evaluates, runtime)) :
    LET in   == Gathered(evaluates, runtime)
        all  == ClassifyRows(in)
        some == ClassifyRows(View(in, {q}))
    IN \A u \in Shown(in) :
         /\ \/ in.desired[u] = Gone \/ in.recorded[u] = NoFile
            \/ in.desired[u].quadlet = in.recorded[u].quadlet
         /\ Owner(in, u) = q
         => u \in DOMAIN some /\ some[u] = all[u]
=============================================================================
