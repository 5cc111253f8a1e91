-------------------------------- MODULE Systemd --------------------------------
(***************************************************************************)
(* The service manager as crei sees it through `systemctl show` and        *)
(* `systemctl list-jobs` (internal/systemd): the ActiveState of each unit  *)
(* and the job queued for it, if any.                                      *)
(*                                                                         *)
(* systemd is not part of the repository.  What it does here is what the   *)
(* code in src/ expects of it, in particular "activating (auto-restart)":  *)
(* a unit whose process died under Restart= is activating with no job,     *)
(* until the restart delay is over and a new start job is queued.          *)
(***************************************************************************)
EXTENDS Naturals, FiniteSets

CONSTANTS
  Services,   \* the services of the project's units
  MaxUpsets   \* bound on the deaths of processes, and on reloads by somebody else

ASSUME SystemdAssumption ==
  IsFiniteSet(Services) /\ MaxUpsets \in Nat

VARIABLES
  active,  \* the ActiveState of each service
  job,     \* the job queued for it
  upsets   \* how many such deaths and reloads there have been

systemd == <<active, job, upsets>>

States == {"inactive", "activating", "active", "reloading", "deactivating", "failed"}
Jobs == {"none", "start", "stop", "restart", "reload"}

\* Between two states: the job of such a unit may be done and its fate open.
transitional(state) == state \in {"activating", "deactivating", "reloading"}

SystemdTypeOK ==
  /\ active \in [Services -> States]
  /\ job \in [Services -> Jobs]
  /\ upsets \in 0..MaxUpsets

SystemdInit ==
  /\ active \in [Services -> {"inactive", "active", "failed"}]
  /\ job = [u \in Services |-> "none"]
  /\ upsets = 0

Becomes(u, state, j) ==
  /\ active' = [active EXCEPT ![u] = state]
  /\ job' = [job EXCEPT ![u] = j]

\* A process dies, or cannot be started.
Dies == upsets < MaxUpsets /\ upsets' = upsets + 1

Up(u) == active[u] \in {"active", "reloading"}
Down(u) == active[u] \in {"inactive", "failed"}

\* The job queued for u makes progress.
StartJob(u) ==
  /\ job[u] = "start"
  /\ \/ Down(u) /\ Becomes(u, "activating", "start") /\ UNCHANGED upsets
     \/ Up(u) /\ Becomes(u, active[u], "none") /\ UNCHANGED upsets
     \/ /\ active[u] = "activating"
        /\ \/ Becomes(u, "active", "none") /\ UNCHANGED upsets
           \/ \E state \in {"failed", "activating"} :
                Becomes(u, state, "none") /\ Dies

StopJob(u) ==
  /\ job[u] \in {"stop", "restart"}
  /\ LET after == IF job[u] = "stop" THEN "none" ELSE "start" IN
     \/ Down(u) /\ Becomes(u, active[u], after)
     \/ Up(u) /\ Becomes(u, "deactivating", job[u])
     \/ active[u] = "activating" /\ Becomes(u, "inactive", after)
     \/ /\ active[u] = "deactivating"
        /\ \E state \in {"inactive", "failed"} : Becomes(u, state, after)
  /\ UNCHANGED upsets

ReloadJob(u) ==
  /\ job[u] = "reload"
  /\ Becomes(u, IF active[u] = "reloading" THEN "active" ELSE active[u], "none")
  /\ UNCHANGED upsets

\* A start job is dropped: the unit it requires failed to start.
DropJob(u) ==
  /\ job[u] = "start" /\ Down(u)
  /\ Becomes(u, active[u], "none")
  /\ UNCHANGED upsets

JobStep(u) == StartJob(u) \/ StopJob(u) \/ ReloadJob(u) \/ DropJob(u)

\* The process of a running unit exits: for good, or to be restarted.
Die(u) ==
  /\ job[u] = "none" /\ Up(u)
  /\ \E state \in {"inactive", "failed", "activating"} : Becomes(u, state, "none")
  /\ Dies

\* The restart delay is over, or the start limit is hit.
AutoRestart(u) ==
  /\ job[u] = "none" /\ active[u] = "activating"
  /\ \/ Becomes(u, "activating", "start")
     \/ Becomes(u, "failed", "none")
  /\ UNCHANGED upsets

\* Somebody reloads the service.
BeginReload(u) ==
  /\ job[u] = "none" /\ active[u] = "active"
  /\ upsets < MaxUpsets /\ upsets' = upsets + 1
  /\ Becomes(u, "reloading", "reload")

SystemdNext ==
  \E u \in Services : JobStep(u) \/ Die(u) \/ AutoRestart(u) \/ BeginReload(u)

\* A queued job comes to an end: TimeoutStartSec and TimeoutStopSec bound it.
JobsEnd == \A u \in Services : WF_systemd(JobStep(u))
=============================================================================
