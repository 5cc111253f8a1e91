------------------------------- MODULE Lifecycle -------------------------------
(***************************************************************************)
(* `crei start`, `crei stop` and `crei restart` (internal/cli/lifecycle.go,*)
(* startstop.go): one systemd transaction, followed to its end by polling. *)
(*                                                                         *)
(* A poll is two calls, list-jobs and then show, and systemd goes on       *)
(* between them as it does between the reading that decides which units    *)
(* need anything at all, the confirmation prompt and the transaction.  A   *)
(* unit is checked off when its job is gone and its state is settled; one  *)
(* that stays mid-transition without a job uses up its settle budget and   *)
(* is given up as stalled.  Time is counted in polls.                      *)
(***************************************************************************)
EXTENDS Systemd

CONSTANTS
  SettleWait,  \* settleWait in polls; 0 waits forever
  Off,         \* no settle clock runs
  MaxFaults    \* bound on the failing systemctl calls

ASSUME LifecycleAssumption ==
  SettleWait \in Nat /\ MaxFaults \in Nat /\ Off \notin Nat

VARIABLES
  pc,       \* where the command is
  verb,     \* start, stop or restart
  enqueue,  \* the units enqueued: those not in the wanted state already
  done,     \* the units checked off
  stalled,  \* the units given up
  cleared,  \* the units list-jobs showed no job for, in this poll
  from,     \* settleFrom: how long the current streak of each unit lasts
  accrued,  \* settleAccrued: the streaks before it
  result,   \* how the command returned
  ended,    \* the units whose job of this transaction has ended
  seen,     \* in how many polls a unit was found mid-transition without a job
  final,    \* the states that the last call of show returned, or "unknown"
  faults

tracker == <<pc, verb, enqueue, done, stalled, cleared, from, accrued, result>>
history == <<ended, seen, final>>
vars == <<systemd, tracker, history, faults>>

Phases == {"idle", "confirm", "enqueue", "jobs", "show", "sleep", "verify", "returned"}
Results == {"none", "ok", "nothing", "aborted", "failed", "error"}
Verbs == {"start", "stop", "restart"}

Running == pc \in {"jobs", "show", "sleep", "verify"}

\* A clock that stops at the budget: what is beyond makes no difference.
Ticked(t) == IF t = Off \/ t = SettleWait THEN t ELSE t + 1
Spent(u) ==
  LET t == accrued[u] + (IF from[u] = Off THEN 0 ELSE from[u])
  IN IF t > SettleWait THEN SettleWait ELSE t

-----------------------------------------------------------------------------
Init ==
  /\ SystemdInit
  /\ pc = "idle" /\ verb \in Verbs
  /\ enqueue = {} /\ done = {} /\ stalled = {} /\ cleared = {}
  /\ from = [u \in Services |-> Off]
  /\ accrued = [u \in Services |-> 0]
  /\ result = "none"
  /\ ended = {} /\ seen = [u \in Services |-> 0] /\ final = active
  /\ faults = 0

Return(how) == pc' = "returned" /\ result' = how

\* systemctl fails, and the command with it.
CallFails ==
  /\ faults < MaxFaults /\ faults' = faults + 1
  /\ Return("error")
  /\ UNCHANGED <<systemd, verb, enqueue, done, stalled, cleared, from, accrued, history>>

\* The units that are in the wanted state already.
PreDone ==
  CASE verb = "start" -> {u \in Services : active[u] = "active"}
    [] verb = "stop" -> {u \in Services : active[u] \notin {"active", "activating"}}
    [] verb = "restart" -> {}

\* gatherStatus, and the decision which units to enqueue.  Without an answer of
\* systemd no unit counts as being in the wanted state.
Select ==
  /\ pc = "idle"
  /\ \/ done' = PreDone /\ UNCHANGED faults
     \/ faults < MaxFaults /\ faults' = faults + 1 /\ done' = {}
  /\ enqueue' = Services \ done'
  /\ IF enqueue' = {} THEN Return("nothing")
     ELSE /\ pc' = IF verb = "start" THEN "enqueue" ELSE "confirm"
          /\ UNCHANGED result
  /\ UNCHANGED <<systemd, verb, stalled, cleared, from, accrued, history>>

Agree ==
  /\ pc = "confirm" /\ pc' = "enqueue"
  /\ UNCHANGED <<systemd, verb, enqueue, done, stalled, cleared, from, accrued,
                 result, history, faults>>

Decline ==
  /\ pc = "confirm" /\ Return("aborted")
  /\ UNCHANGED <<systemd, verb, enqueue, done, stalled, cleared, from, accrued,
                 history, faults>>

\* systemctl start, stop or restart --no-block: all jobs at once.
Enqueue ==
  /\ pc = "enqueue"
  /\ \/ /\ job' = [u \in Services |-> IF u \in enqueue THEN verb ELSE job[u]]
        /\ pc' = "jobs"
        /\ UNCHANGED <<active, upsets, verb, enqueue, done, stalled, cleared, from,
                       accrued, result, history, faults>>
     \/ CallFails

-----------------------------------------------------------------------------
(* The poll.                                                                *)

\* Where a poll leads once the sets are d and s.
AfterPoll(d, s) == IF Services \subseteq d \cup s THEN "verify" ELSE "sleep"

Open == enqueue \ (done \cup stalled)

\* Mutant: only start jobs are looked for.
QueuedStarts == {u \in Open : job[u] = "start"}

Queued == {u \in Open : job[u] # "none"}

\* Mutant: the clock of a unit with a job goes on.
KeepClock(u) == from[u]

\* bankSettle: the clock of a unit with a job stops, its time is kept.
Clock(u) == IF u \in Queued THEN Off ELSE from[u]
Bank(u) == IF u \in Queued THEN Spent(u) ELSE accrued[u]

\* PendingJobs.
ReadJobs ==
  /\ pc = "jobs"
  /\ \/ /\ cleared' = Open \ Queued
        /\ accrued' = [u \in Services |-> Bank(u)]
        /\ from' = [u \in Services |-> Clock(u)]
        /\ pc' = IF cleared' = {} THEN AfterPoll(done, stalled) ELSE "show"
        /\ UNCHANGED <<systemd, verb, enqueue, done, stalled, result, history, faults>>
     \/ CallFails

\* Mutant: every poll starts a streak.
StreakAnew(u) == 0

\* The current streak, which begins in this poll if there was none.
Streak(u) == IF from[u] = Off THEN 0 ELSE from[u]

\* `systemctl show` answers for the units known, of those asked for.  An answer
\* that leaves one out is a fault.
Answers(known, asked) ==
  /\ known \subseteq asked
  /\ \/ known = asked /\ UNCHANGED faults
     \/ known # asked /\ faults < MaxFaults /\ faults' = faults + 1

Unsettled(known) == {u \in known : transitional(active[u])}

\* Show, for the units without a job: those that have settled are checked off,
\* and so are those it says nothing about; the clock of the others runs, and
\* those over the budget are given up.
ReadStates ==
  /\ pc = "show"
  /\ \/ \E known \in SUBSET cleared :
          /\ Answers(known, cleared)
          /\ done' = done \cup (cleared \ Unsettled(known))
          /\ from' = [u \in Services |->
               IF u \in Unsettled(known) THEN Streak(u)
               ELSE IF u \in cleared THEN Off ELSE from[u]]
          /\ seen' = [u \in Services |->
               IF u \in Unsettled(known) /\ seen[u] <= SettleWait
               THEN seen[u] + 1 ELSE seen[u]]
          /\ stalled' = stalled \cup
               {u \in Unsettled(known) : SettleWait > 0 /\ Spent(u) = SettleWait}
          /\ pc' = AfterPoll(done', stalled')
          /\ UNCHANGED <<systemd, verb, enqueue, cleared, accrued, result, ended, final>>
     \/ CallFails

\* restartSleep: one poll interval.
Sleep ==
  /\ pc = "sleep" /\ pc' = "jobs"
  /\ from' = [u \in Services |-> Ticked(from[u])]
  /\ UNCHANGED <<systemd, verb, enqueue, done, stalled, cleared, accrued, result,
                 history, faults>>

\* Mutant: a unit that is still activating passes.
OnlyFailed(state) == verb # "stop" /\ state = "failed"

\* verbSpec.failed: what counts as a failed unit.
Bad(state) ==
  IF verb = "stop" THEN state \in {"active", "activating"}
  ELSE state = "failed" \/ transitional(state)

\* failures: the states are read once more, for the units enqueued.  One that
\* systemd says nothing about makes an error of the whole.
Verify ==
  /\ pc = "verify"
  /\ \/ \E known \in SUBSET enqueue :
          /\ Answers(known, enqueue)
          /\ final' = [u \in Services |->
               IF u \in enqueue \ known THEN "unknown" ELSE active[u]]
          /\ Return(IF known # enqueue THEN "error"
                    ELSE IF stalled = {} /\ \A u \in enqueue : ~Bad(active[u])
                    THEN "ok" ELSE "failed")
          /\ UNCHANGED <<systemd, verb, enqueue, done, stalled, cleared, from, accrued,
                         ended, seen>>
     \/ CallFails

Track == Enqueue \/ ReadJobs \/ ReadStates \/ Sleep \/ Verify

\* systemd takes a step, and may thereby end a job of the transaction.
World ==
  /\ SystemdNext
  /\ ended' = IF Running
              THEN ended \cup {u \in enqueue : job[u] # "none" /\ job'[u] = "none"}
              ELSE ended
  /\ UNCHANGED <<tracker, seen, final, faults>>

Next == Select \/ Agree \/ Decline \/ Track \/ World

Spec == Init /\ [][Next]_vars

\* The command runs on, and every queued job ends.  A restart delay need not
\* (RestartSec can be infinity): that is what the settle budget is for.
FairSpec == Spec /\ WF_vars(Track) /\ JobsEnd

-----------------------------------------------------------------------------
\* Types, and: no unit is both checked off and given up, and the settle clock
\* runs only for units that are neither.
TypeOK ==
  /\ SystemdTypeOK
  /\ pc \in Phases /\ result \in Results /\ verb \in Verbs
  /\ enqueue \subseteq Services /\ cleared \subseteq enqueue
  /\ done \subseteq Services /\ stalled \subseteq enqueue /\ done \cap stalled = {}
  /\ from \in [Services -> {Off} \cup 0..SettleWait]
  /\ \A u \in Services : from[u] # Off => u \in enqueue \ done
  /\ accrued \in [Services -> 0..SettleWait]
  /\ ended \subseteq enqueue /\ seen \in [Services -> 0..(SettleWait + 1)]
  /\ final \in [Services -> States \cup {"unknown"}]
  /\ faults \in 0..MaxFaults

\* A unit gets its check mark only after the job that this command queued for
\* it has ended, although systemd moves on between list-jobs and show.
CheckedMeansRan == Running => done \cap enqueue \subseteq ended

\* A unit is given up only when the polls that found it mid-transition without a
\* job outnumber the settle budget (the first of them starts the clock): polls
\* that found a job queued are not charged, however often an auto-restart queues
\* one in between.
BudgetSpent == \A u \in stalled : seen[u] > SettleWait

\* Exit status 0 is given only for a transaction that was seen through: every
\* unit enqueued was checked off after its job had ended, none was given up, even
\* if it came up after that, and the state of each was then known.  A unit to be
\* stopped was not up or on its way up; it may have failed, or be on its way down.
\* One to be started was up, or "inactive": a service whose process is already done,
\* and also one whose job systemd dropped, which status 0 does not tell apart.
OkMeansVerified ==
  result = "ok" =>
    /\ stalled = {} /\ enqueue \subseteq done \cap ended
    /\ \A u \in enqueue :
         final[u] \in IF verb = "stop"
                      THEN {"inactive", "failed", "deactivating", "reloading"}
                      ELSE {"active", "inactive"}

\* With a settle budget a transaction that was queued always comes to an end,
\* also if a unit stays between two states for ever.
Returns == pc = "jobs" ~> pc = "returned"

=============================================================================
