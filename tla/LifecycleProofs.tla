---------------------------- MODULE LifecycleProofs ----------------------------
(***************************************************************************)
(* start, stop and restart, for any set of services, any settle budget and *)
(* any number of deaths, reloads and failing calls: a check mark and exit  *)
(* status 0 mean what they say, and nobody is given up before its time.    *)
(***************************************************************************)
EXTENDS Lifecycle, TLAPS

\* Before the transaction there is nothing to follow.
NothingFollowed ==
  pc \in {"idle", "confirm", "enqueue"} =>
    /\ done \cap enqueue = {} /\ stalled = {} /\ cleared = {} /\ ended = {}
    /\ \A u \in Services : from[u] = Off /\ accrued[u] = 0 /\ seen[u] = 0

\* A unit enqueued still has a job, or that of the transaction has ended.
JobsFollowed == Running => \A u \in enqueue : u \in ended \/ job[u] # "none"

\* Between list-jobs and show: the jobs of the units to be read have ended, and
\* no clock runs but theirs and those of units given up.
BetweenCalls ==
  pc = "show" =>
    /\ cleared \cap (done \cup stalled) = {} /\ cleared \subseteq ended
    /\ \A u \in Services : from[u] # Off => u \in cleared \cup stalled

AllAccountedFor == pc = "verify" => Services \subseteq done \cup stalled

HasResult == (result # "none") <=> (pc = "returned")

\* The time charged to a unit is less than the number of polls that found it
\* between two states without a job, but for the interval just slept.
Charged ==
  \A u \in Services :
    /\ Spent(u) <= seen[u]
    /\ pc = "sleep" /\ from[u] # Off => Spent(u) < seen[u]

IInv ==
  /\ TypeOK
  /\ NothingFollowed /\ JobsFollowed /\ BetweenCalls /\ AllAccountedFor /\ HasResult
  /\ Charged
  /\ CheckedMeansRan /\ BudgetSpent /\ OkMeansVerified

-----------------------------------------------------------------------------
(* systemd.                                                                 *)

\* A step of systemd keeps its types.
LEMMA SystemdTypes ==
  ASSUME SystemdTypeOK, SystemdNext
  PROVE  SystemdTypeOK'
  <1> USE DEF SystemdTypeOK, States, Jobs, Becomes, Dies
  <1>1. MaxUpsets \in Nat
    BY SystemdAssumption
  <1>2. PICK u \in Services : JobStep(u) \/ Die(u) \/ AutoRestart(u) \/ BeginReload(u)
    BY DEF SystemdNext
  <1>3. CASE StartJob(u)
    BY <1>1, <1>3 DEF StartJob
  <1>4. CASE StopJob(u)
    BY <1>4 DEF StopJob
  <1>5. CASE ReloadJob(u)
    BY <1>5 DEF ReloadJob
  <1>6. CASE DropJob(u)
    BY <1>6 DEF DropJob
  <1>7. CASE Die(u)
    BY <1>1, <1>7 DEF Die
  <1>8. CASE AutoRestart(u)
    BY <1>8 DEF AutoRestart
  <1>9. CASE BeginReload(u)
    BY <1>1, <1>9 DEF BeginReload
  <1> QED
    BY <1>2, <1>3, <1>4, <1>5, <1>6, <1>7, <1>8, <1>9 DEF JobStep

-----------------------------------------------------------------------------
(* The settle clock.                                                        *)

\* What is charged never exceeds the budget, and is what was banked or more.
LEMMA SpentWithinBudget ==
  ASSUME TypeOK, NEW u \in Services
  PROVE  /\ Spent(u) \in 0..SettleWait
         /\ accrued[u] <= Spent(u)
         /\ from[u] = Off => Spent(u) = accrued[u]
         /\ from[u] = 0 => Spent(u) = accrued[u]
  BY LifecycleAssumption DEF TypeOK, Spent

\* list-jobs moves the time of a unit from one place to the other.
LEMMA BankingKeeps ==
  ASSUME TypeOK, NEW u \in Services,
         accrued'[u] = Bank(u), from'[u] = Clock(u)
  PROVE  /\ Bank(u) \in 0..SettleWait /\ Clock(u) \in {Off} \cup 0..SettleWait
         /\ Spent(u)' = Spent(u)
  <1>1. Spent(u) \in 0..SettleWait /\ SettleWait \in Nat
    BY SpentWithinBudget, LifecycleAssumption
  <1>2. from[u] \in {Off} \cup 0..SettleWait /\ accrued[u] \in 0..SettleWait
    BY DEF TypeOK
  <1>3. CASE u \in Queued
    <2>1. accrued'[u] = Spent(u) /\ from'[u] = Off
      BY <1>3 DEF Bank, Clock
    <2>2. Spent(u)' = IF accrued'[u] + 0 > SettleWait THEN SettleWait ELSE accrued'[u] + 0
      BY <2>1 DEF Spent
    <2> QED
      BY <1>1, <1>3, <2>1, <2>2 DEF Bank, Clock
  <1>4. CASE u \notin Queued
    <2>1. accrued'[u] = accrued[u] /\ from'[u] = from[u]
      BY <1>4 DEF Bank, Clock
    <2> QED
      BY <1>2, <1>4, <2>1 DEF Bank, Clock, Spent
  <1> QED
    BY <1>3, <1>4

\* A sleep charges at most one interval, and only to a clock that runs.
LEMMA SleepCharges ==
  ASSUME TypeOK, NEW u \in Services,
         accrued'[u] = accrued[u], from'[u] = Ticked(from[u])
  PROVE  /\ Ticked(from[u]) \in {Off} \cup 0..SettleWait
         /\ Ticked(from[u]) = Off <=> from[u] = Off
         /\ Spent(u)' <= Spent(u) + 1
         /\ from[u] = Off => Spent(u)' = Spent(u)
  BY LifecycleAssumption DEF TypeOK, Spent, Ticked

-----------------------------------------------------------------------------
(* The invariant, action by action.                                         *)

\* The invariant holds at first.
LEMMA InitEstablishes ==
  ASSUME Init
  PROVE  IInv
  <1> USE LifecycleAssumption, SystemdAssumption DEF Init
  <1>1. TypeOK
    BY DEF TypeOK, SystemdTypeOK, SystemdInit, States, Jobs, Phases, Results
  <1>2. Charged
    BY <1>1, SpentWithinBudget DEF Charged
  <1>3. /\ NothingFollowed /\ JobsFollowed /\ BetweenCalls /\ AllAccountedFor
        /\ HasResult /\ CheckedMeansRan /\ BudgetSpent /\ OkMeansVerified
    BY DEF NothingFollowed, JobsFollowed, BetweenCalls, AllAccountedFor, HasResult,
           Running, CheckedMeansRan, BudgetSpent, OkMeansVerified
  <1> QED
    BY <1>1, <1>2, <1>3 DEF IInv

\* A command that returns without success claims nothing.
LEMMA ReturnKeeps ==
  ASSUME IInv, NEW how \in {"nothing", "aborted", "failed", "error"}, Return(how),
         done' \in SUBSET Services, enqueue' \in SUBSET Services,
         \/ UNCHANGED enqueue
         \/ cleared = {} /\ stalled = {} /\ ended = {} /\ \A u \in Services : from[u] = Off,
         UNCHANGED <<systemd, verb, stalled, cleared, from, accrued, ended, seen>>,
         done' \cap stalled = {},
         \A u \in Services : from[u] # Off => u \notin done',
         final' \in [Services -> States \cup {"unknown"}], faults' \in 0..MaxFaults
  PROVE  IInv'
  <1>1. TypeOK'
    BY DEF IInv, TypeOK, SystemdTypeOK, systemd, Return, Phases, Results
  <1>2. Charged'
    <2>1. ASSUME NEW u \in Services
          PROVE  Spent(u)' = Spent(u) /\ seen'[u] = seen[u]
      BY DEF Spent
    <2> QED
      BY <2>1 DEF IInv, Charged, Return
  <1>3. BudgetSpent'
    BY DEF IInv, BudgetSpent
  <1>4. /\ NothingFollowed' /\ JobsFollowed' /\ BetweenCalls' /\ AllAccountedFor'
        /\ HasResult' /\ CheckedMeansRan' /\ OkMeansVerified'
    BY DEF Return, NothingFollowed, JobsFollowed, BetweenCalls, AllAccountedFor,
           HasResult, Running, CheckedMeansRan, OkMeansVerified
  <1> QED
    BY <1>1, <1>2, <1>3, <1>4 DEF IInv

\* A failing systemctl call.
LEMMA CallFailsKeeps ==
  ASSUME IInv, CallFails
  PROVE  IInv'
  <1>1. faults' \in 0..MaxFaults
    BY LifecycleAssumption DEF CallFails, IInv, TypeOK
  <1>2. /\ Return("error")
        /\ UNCHANGED <<systemd, verb, enqueue, done, stalled, cleared, from, accrued,
                       ended, seen, final>>
    BY DEF CallFails, history
  <1>3. /\ done \in SUBSET Services /\ enqueue \in SUBSET Services
        /\ done \cap stalled = {} /\ final \in [Services -> States \cup {"unknown"}]
        /\ \A u \in Services : from[u] # Off => u \notin done
    BY DEF IInv, TypeOK
  <1> QED
    BY <1>1, <1>2, <1>3, ReturnKeeps

\* The selection of the units.
LEMMA SelectKeeps ==
  ASSUME IInv, Select
  PROVE  IInv'
  <1>1. /\ pc = "idle" /\ stalled = {} /\ cleared = {} /\ ended = {} /\ result = "none"
        /\ \A u \in Services : from[u] = Off /\ accrued[u] = 0 /\ seen[u] = 0
    BY DEF Select, IInv, NothingFollowed, HasResult, TypeOK
  <1>2. done' \in SUBSET Services /\ faults' \in 0..MaxFaults
    BY LifecycleAssumption DEF Select, PreDone, IInv, TypeOK, Verbs
  <1>3. /\ enqueue' = Services \ done' /\ enqueue' \in SUBSET Services
        /\ UNCHANGED <<systemd, verb, stalled, cleared, from, accrued, ended, seen, final>>
    BY DEF Select, history
  <1>4. CASE Return("nothing")
    <2>1. final' \in [Services -> States \cup {"unknown"}]
      BY <1>3 DEF IInv, TypeOK
    <2> QED
      BY <1>1, <1>2, <1>3, <1>4, <2>1, ReturnKeeps
  <1>5. CASE pc' \in {"confirm", "enqueue"} /\ UNCHANGED result
    <2>1. TypeOK'
      BY <1>1, <1>2, <1>3, <1>5 DEF IInv, TypeOK, SystemdTypeOK, systemd, Phases
    <2>2. Charged'
      <3>1. ASSUME NEW u \in Services
            PROVE  Spent(u)' = Spent(u) /\ seen'[u] = seen[u]
        BY <1>3 DEF Spent
      <3> QED
        BY <1>5, <3>1 DEF IInv, Charged
    <2>3. BudgetSpent'
      BY <1>1, <1>3 DEF BudgetSpent
    <2>4. NothingFollowed'
      BY <1>1, <1>3 DEF NothingFollowed
    <2>5. /\ JobsFollowed' /\ BetweenCalls' /\ AllAccountedFor'
          /\ HasResult' /\ CheckedMeansRan' /\ OkMeansVerified'
      BY <1>1, <1>5 DEF JobsFollowed, BetweenCalls, AllAccountedFor, HasResult, Running,
                   CheckedMeansRan, OkMeansVerified
    <2> QED
      BY <2>1, <2>2, <2>3, <2>4, <2>5 DEF IInv
  <1> QED
    BY <1>4, <1>5 DEF Select

\* The user agrees.
LEMMA AgreeKeeps ==
  ASSUME IInv, Agree
  PROVE  IInv'
  <1>1. /\ pc = "confirm" /\ pc' = "enqueue"
        /\ UNCHANGED <<systemd, verb, enqueue, done, stalled, cleared, from, accrued,
                       result, ended, seen, final, faults>>
    BY DEF Agree, history
  <1>2. TypeOK'
    BY <1>1 DEF IInv, TypeOK, SystemdTypeOK, systemd, Phases
  <1>3. Charged'
    <2>1. ASSUME NEW u \in Services
          PROVE  Spent(u)' = Spent(u) /\ seen'[u] = seen[u]
      BY <1>1 DEF Spent
    <2> QED
      BY <1>1, <2>1 DEF IInv, Charged
  <1>4. NothingFollowed' /\ BudgetSpent' /\ OkMeansVerified'
    BY <1>1 DEF IInv, NothingFollowed, BudgetSpent, OkMeansVerified
  <1>5. JobsFollowed' /\ BetweenCalls' /\ AllAccountedFor' /\ HasResult' /\ CheckedMeansRan'
    BY <1>1 DEF IInv, JobsFollowed, BetweenCalls, AllAccountedFor, HasResult, Running,
               CheckedMeansRan
  <1> QED
    BY <1>2, <1>3, <1>4, <1>5 DEF IInv

\* The user declines.
LEMMA DeclineKeeps ==
  ASSUME IInv, Decline
  PROVE  IInv'
  <1>1. /\ Return("aborted")
        /\ UNCHANGED <<systemd, verb, enqueue, done, stalled, cleared, from, accrued,
                       ended, seen, final, faults>>
    BY DEF Decline, history
  <1>2. /\ done \in SUBSET Services /\ enqueue \in SUBSET Services
        /\ done \cap stalled = {} /\ final \in [Services -> States \cup {"unknown"}]
        /\ \A u \in Services : from[u] # Off => u \notin done
        /\ faults \in 0..MaxFaults
    BY DEF IInv, TypeOK
  <1> QED
    BY <1>1, <1>2, ReturnKeeps

\* The units enqueued have a job from here on.
LEMMA EnqueueKeeps ==
  ASSUME IInv, Enqueue
  PROVE  IInv'
  <1>1. CASE CallFails
    BY <1>1, CallFailsKeeps
  <1>2. CASE ~CallFails
    <2>1. /\ pc = "enqueue" /\ pc' = "jobs"
          /\ job' = [u \in Services |-> IF u \in enqueue THEN verb ELSE job[u]]
          /\ UNCHANGED <<active, upsets, verb, enqueue, done, stalled, cleared, from,
                         accrued, result, ended, seen, final, faults>>
      BY <1>2 DEF Enqueue, history
    <2>2. TypeOK'
      BY <2>1 DEF IInv, TypeOK, SystemdTypeOK, Phases, Verbs, Jobs
    <2>3. Charged'
      <3>1. ASSUME NEW u \in Services
            PROVE  Spent(u)' = Spent(u) /\ seen'[u] = seen[u]
        BY <2>1 DEF Spent
      <3> QED
        BY <2>1, <3>1 DEF IInv, Charged
    <2>4. JobsFollowed'
      BY <2>1 DEF IInv, TypeOK, JobsFollowed, Verbs
    <2>5. CheckedMeansRan'
      BY <2>1 DEF IInv, NothingFollowed, CheckedMeansRan
    <2>6. BudgetSpent' /\ OkMeansVerified' /\ HasResult'
      BY <2>1 DEF IInv, BudgetSpent, OkMeansVerified, HasResult
    <2>7. NothingFollowed' /\ BetweenCalls' /\ AllAccountedFor'
      BY <2>1 DEF NothingFollowed, BetweenCalls, AllAccountedFor
    <2> QED
      BY <2>2, <2>3, <2>4, <2>5, <2>6, <2>7 DEF IInv
  <1> QED
    BY <1>1, <1>2

\* Where a poll leads.
LEMMA PollLeads ==
  ASSUME NEW d, NEW s
  PROVE  /\ AfterPoll(d, s) \in {"sleep", "verify"}
         /\ AfterPoll(d, s) = "verify" => Services \subseteq d \cup s
  BY DEF AfterPoll

\* A unit without a job after the transaction was queued has had its own, and a
\* clock that goes on is that of a unit to be read now, or given up.
LEMMA ReadJobsKeeps ==
  ASSUME IInv, ReadJobs
  PROVE  IInv'
  <1>1. CASE CallFails
    BY <1>1, CallFailsKeeps
  <1>2. CASE ~CallFails
    <2>1. /\ pc = "jobs" /\ cleared' = Open \ Queued
          /\ accrued' = [u \in Services |-> Bank(u)]
          /\ from' = [u \in Services |-> Clock(u)]
          /\ pc' = IF cleared' = {} THEN AfterPoll(done, stalled) ELSE "show"
          /\ UNCHANGED <<active, job, upsets, verb, enqueue, done, stalled, result,
                         ended, seen, final, faults>>
      BY <1>2 DEF ReadJobs, history, systemd
    <2>2. /\ pc' \in {"show", "sleep", "verify"}
          /\ pc' = "show" <=> cleared' # {}
          /\ pc' = "verify" => Services \subseteq done \cup stalled
      BY <2>1, PollLeads
    <2>3. ASSUME NEW u \in Services
          PROVE  /\ accrued'[u] \in 0..SettleWait /\ from'[u] \in {Off} \cup 0..SettleWait
                 /\ Spent(u)' = Spent(u)
                 /\ from'[u] # Off => from[u] # Off /\ u \notin Queued
      <3>1. accrued'[u] = Bank(u) /\ from'[u] = Clock(u)
        BY <2>1
      <3>2. TypeOK
        BY DEF IInv
      <3> QED
        BY <3>1, <3>2, BankingKeeps DEF Clock
    <2>4. TypeOK'
      <3>1. accrued' \in [Services -> 0..SettleWait]
        BY <2>1, <2>3
      <3>2. from' \in [Services -> {Off} \cup 0..SettleWait]
        BY <2>1, <2>3
      <3>3. \A u \in Services : from'[u] # Off => u \in enqueue \ done
        BY <2>3 DEF IInv, TypeOK
      <3>4. cleared' \subseteq enqueue
        BY <2>1 DEF Open
      <3> QED
        BY <2>1, <2>2, <3>1, <3>2, <3>3, <3>4 DEF IInv, TypeOK, SystemdTypeOK, Phases
    <2>5. \A u \in Services : from'[u] # Off => u \in cleared' \cup stalled
      BY <2>1, <2>3 DEF IInv, TypeOK, Open
    <2>6. BetweenCalls'
      <3>1. cleared' \cap (done \cup stalled) = {}
        BY <2>1 DEF Open
      <3>2. cleared' \subseteq ended
        BY <2>1 DEF IInv, JobsFollowed, Running, Open, Queued
      <3> QED
        BY <2>1, <2>5, <3>1, <3>2 DEF BetweenCalls
    <2>7. Charged'
      <3>1. ASSUME NEW u \in Services
            PROVE  Spent(u)' <= seen'[u]
        BY <2>1, <2>3 DEF IInv, Charged
      <3>2. ASSUME NEW u \in Services, pc' = "sleep", from'[u] # Off
            PROVE  Spent(u)' < seen'[u]
        <4>1. u \in stalled
          BY <2>2, <2>5, <3>2
        <4>2. seen[u] > SettleWait
          BY <4>1 DEF IInv, BudgetSpent
        <4>3. Spent(u) \in 0..SettleWait /\ seen[u] \in 0..(SettleWait + 1)
          BY SpentWithinBudget DEF IInv, TypeOK
        <4> QED
          BY <2>1, <2>3, <4>2, <4>3, LifecycleAssumption
      <3> QED
        BY <3>1, <3>2 DEF Charged
    <2>8. JobsFollowed' /\ CheckedMeansRan'
      BY <2>1 DEF IInv, JobsFollowed, CheckedMeansRan, Running
    <2>9. BudgetSpent' /\ OkMeansVerified' /\ HasResult' /\ NothingFollowed' /\ AllAccountedFor'
      BY <2>1, <2>2 DEF IInv, BudgetSpent, OkMeansVerified, HasResult, NothingFollowed,
                        AllAccountedFor
    <2> QED
      BY <2>4, <2>6, <2>7, <2>8, <2>9 DEF IInv
  <1> QED
    BY <1>1, <1>2

\* An answer that leaves a unit out counts as a fault.
LEMMA AnswersCount ==
  ASSUME TypeOK, NEW known, NEW asked, Answers(known, asked)
  PROVE  faults' \in 0..MaxFaults
  BY LifecycleAssumption DEF Answers, TypeOK

\* A unit that is given up has used up its budget in the polls before, and was
\* found once more in this one.
LEMMA ReadStatesKeeps ==
  ASSUME IInv, ReadStates
  PROVE  IInv'
  <1>1. CASE CallFails
    BY <1>1, CallFailsKeeps
  <1>2. CASE ~CallFails
    <2>1. PICK known \in SUBSET cleared :
             /\ Answers(known, cleared)
             /\ pc = "show" /\ done' = done \cup (cleared \ Unsettled(known))
             /\ from' = [u \in Services |->
                  IF u \in Unsettled(known) THEN Streak(u)
                  ELSE IF u \in cleared THEN Off ELSE from[u]]
             /\ seen' = [u \in Services |->
                  IF u \in Unsettled(known) /\ seen[u] <= SettleWait
                  THEN seen[u] + 1 ELSE seen[u]]
             /\ stalled' = stalled \cup
                  {u \in Unsettled(known) : SettleWait > 0 /\ Spent(u) = SettleWait}
             /\ pc' = AfterPoll(done', stalled')
             /\ UNCHANGED <<active, job, upsets, verb, enqueue, cleared, accrued, result,
                            ended, final>>
      BY <1>2 DEF ReadStates, systemd
    <2>0. faults' \in 0..MaxFaults
      BY <2>1, AnswersCount DEF IInv
    <2>2. /\ pc' \in {"sleep", "verify"}
          /\ pc' = "verify" => Services \subseteq done' \cup stalled'
      BY <2>1, PollLeads
    <2>3. /\ SettleWait \in Nat /\ Off \notin Nat
          /\ Unsettled(known) \subseteq cleared /\ cleared \subseteq enqueue
          /\ enqueue \subseteq Services /\ cleared \cap (done \cup stalled) = {}
          /\ cleared \subseteq ended
          /\ \A u \in Services : from[u] # Off => u \in cleared \cup stalled
      BY <2>1, LifecycleAssumption DEF Unsettled, IInv, TypeOK, BetweenCalls
    <2>4. ASSUME NEW u \in Services
          PROVE  /\ accrued[u] \in 0..SettleWait /\ from[u] \in {Off} \cup 0..SettleWait
                 /\ seen[u] \in 0..(SettleWait + 1) /\ Spent(u) \in 0..SettleWait
                 /\ Spent(u) <= seen[u] /\ accrued[u] <= Spent(u)
                 /\ from[u] = Off => Spent(u) = accrued[u]
      BY SpentWithinBudget DEF IInv, TypeOK, Charged
    <2>5. ASSUME NEW u \in Unsettled(known)
          PROVE  /\ from'[u] \in 0..SettleWait /\ Spent(u)' = Spent(u)
                 /\ seen'[u] \in 0..(SettleWait + 1)
                 /\ seen'[u] > Spent(u)
                 /\ seen'[u] > SettleWait <=> seen[u] >= SettleWait
      <3>1. u \in Services
        BY <2>3
      <3>2. /\ from'[u] = IF from[u] = Off THEN 0 ELSE from[u]
            /\ accrued'[u] = accrued[u]
            /\ seen'[u] = IF seen[u] <= SettleWait THEN seen[u] + 1 ELSE seen[u]
        BY <2>1, <3>1 DEF Streak
      <3>3. from'[u] \in 0..SettleWait
        BY <2>3, <2>4, <3>1, <3>2
      <3>4. Spent(u)' = Spent(u)
        BY <2>3, <2>4, <3>1, <3>2 DEF Spent
      <3> QED
        BY <2>3, <2>4, <3>1, <3>2, <3>3, <3>4
    <2>6. ASSUME NEW u \in Services, u \notin Unsettled(known)
          PROVE  /\ from'[u] = IF u \in cleared THEN Off ELSE from[u]
                 /\ seen'[u] = seen[u] /\ Spent(u)' \in Nat /\ Spent(u)' <= Spent(u)
      <3>1. /\ from'[u] = IF u \in cleared THEN Off ELSE from[u]
            /\ seen'[u] = seen[u] /\ accrued'[u] = accrued[u]
        BY <2>1, <2>6
      <3>2. CASE from'[u] = from[u]
        <4>1. Spent(u)' = Spent(u)
          BY <3>1, <3>2 DEF Spent
        <4> QED
          BY <2>4, <3>1, <4>1
      <3>3. CASE from'[u] = Off
        <4>1. Spent(u)' = accrued[u]
          BY <2>3, <2>4, <3>1, <3>3 DEF Spent
        <4> QED
          BY <2>4, <3>1, <4>1
      <3> QED
        BY <3>1, <3>2, <3>3
    <2>7. stalled' \subseteq stalled \cup Unsettled(known)
      BY <2>1
    <2>8. TypeOK'
      <3>1. done' \subseteq Services /\ stalled' \subseteq enqueue /\ done' \cap stalled' = {}
        BY <2>1, <2>3, <2>7 DEF IInv, TypeOK
      <3>2. from' \in [Services -> {Off} \cup 0..SettleWait]
        BY <2>1, <2>3, <2>4, <2>5, <2>6
      <3>3. \A u \in Services : from'[u] # Off => u \in enqueue \ done'
        BY <2>1, <2>3, <2>6 DEF IInv, TypeOK
      <3>4. seen' \in [Services -> 0..(SettleWait + 1)]
        BY <2>1, <2>4, <2>5, <2>6
      <3> QED
        BY <2>0, <2>1, <2>2, <3>1, <3>2, <3>3, <3>4 DEF IInv, TypeOK, SystemdTypeOK, Phases
    <2>9. BudgetSpent'
      <3>1. ASSUME NEW u \in stalled
            PROVE  seen'[u] > SettleWait
        BY <2>3, <2>6, <3>1 DEF IInv, TypeOK, BudgetSpent
      <3>2. ASSUME NEW u \in Unsettled(known), Spent(u) = SettleWait
            PROVE  seen'[u] > SettleWait
        BY <2>5, <3>2
      <3> QED
        BY <2>1, <3>1, <3>2 DEF BudgetSpent
    <2>10. Charged'
      <3>1. ASSUME NEW u \in Services
            PROVE  Spent(u)' <= seen'[u]
        <4>1. CASE u \in Unsettled(known)
          BY <2>3, <2>4, <2>5, <4>1
        <4>2. CASE u \notin Unsettled(known)
          <5>1. Spent(u)' \in Nat /\ Spent(u)' <= Spent(u) /\ seen'[u] = seen[u]
            BY <2>6, <4>2
          <5> QED
            BY <2>3, <2>4, <5>1
        <4> QED
          BY <4>1, <4>2
      <3>2. ASSUME NEW u \in Services, from'[u] # Off
            PROVE  Spent(u)' < seen'[u]
        <4>1. CASE u \in Unsettled(known)
          BY <2>5, <4>1
        <4>2. CASE u \notin Unsettled(known)
          <5>1. from'[u] = from[u] /\ u \notin cleared /\ seen'[u] = seen[u]
            BY <2>6, <3>2, <4>2
          <5>2. u \in stalled
            BY <2>3, <3>2, <5>1
          <5>3. seen[u] > SettleWait
            BY <5>2 DEF IInv, BudgetSpent
          <5>4. Spent(u)' = Spent(u)
            BY <2>1, <5>1 DEF Spent
          <5> QED
            BY <2>3, <2>4, <5>1, <5>3, <5>4
        <4> QED
          BY <4>1, <4>2
      <3> QED
        BY <3>1, <3>2 DEF Charged
    <2>11. CheckedMeansRan' /\ JobsFollowed'
      BY <2>1, <2>3 DEF IInv, CheckedMeansRan, JobsFollowed, Running
    <2>12. OkMeansVerified' /\ HasResult' /\ NothingFollowed' /\ BetweenCalls' /\ AllAccountedFor'
      BY <2>1, <2>2 DEF IInv, OkMeansVerified, HasResult, NothingFollowed, BetweenCalls,
                        AllAccountedFor
    <2> QED
      BY <2>8, <2>9, <2>10, <2>11, <2>12 DEF IInv
  <1> QED
    BY <1>1, <1>2

\* The pause between two polls.
LEMMA SleepKeeps ==
  ASSUME IInv, Sleep
  PROVE  IInv'
  <1>1. /\ pc = "sleep" /\ pc' = "jobs"
        /\ from' = [u \in Services |-> Ticked(from[u])]
        /\ UNCHANGED <<active, job, upsets, verb, enqueue, done, stalled, cleared,
                       accrued, result, ended, seen, final, faults>>
    BY DEF Sleep, history, systemd
  <1>2. ASSUME NEW u \in Services
        PROVE  /\ from'[u] \in {Off} \cup 0..SettleWait
               /\ from'[u] = Off <=> from[u] = Off
               /\ Spent(u)' <= Spent(u) + 1
               /\ from[u] = Off => Spent(u)' = Spent(u)
    <2>1. accrued'[u] = accrued[u] /\ from'[u] = Ticked(from[u])
      BY <1>1
    <2> QED
      BY <2>1, SleepCharges DEF IInv
  <1>3. TypeOK'
    <2>1. from' \in [Services -> {Off} \cup 0..SettleWait]
      BY <1>1, <1>2
    <2> QED
      BY <1>1, <1>2, <2>1 DEF IInv, TypeOK, SystemdTypeOK, Phases
  <1>4. Charged'
    <2>1. ASSUME NEW u \in Services
          PROVE  Spent(u)' <= seen'[u]
      <3>1. Spent(u)' \in Nat /\ Spent(u) \in Nat /\ seen[u] \in Nat
        <4>1. accrued'[u] \in 0..SettleWait
          BY <1>3 DEF TypeOK
        <4> QED
          BY <1>2, <4>1, SpentWithinBudget, LifecycleAssumption DEF Spent, IInv, TypeOK
      <3>2. seen'[u] = seen[u]
        BY <1>1
      <3>3. CASE from[u] = Off
        BY <1>2, <3>2, <3>3 DEF IInv, Charged
      <3>4. CASE from[u] # Off
        <4>1. Spent(u) < seen[u]
          BY <1>1, <3>4 DEF IInv, Charged
        <4> QED
          BY <1>2, <3>1, <3>2, <4>1
      <3> QED
        BY <3>3, <3>4
    <2> QED
      BY <1>1, <2>1 DEF Charged
  <1>5. JobsFollowed' /\ CheckedMeansRan'
    BY <1>1 DEF IInv, JobsFollowed, CheckedMeansRan, Running
  <1>6. /\ BudgetSpent' /\ OkMeansVerified' /\ HasResult' /\ NothingFollowed'
        /\ BetweenCalls' /\ AllAccountedFor'
    BY <1>1 DEF IInv, BudgetSpent, OkMeansVerified, HasResult, NothingFollowed,
                BetweenCalls, AllAccountedFor
  <1> QED
    BY <1>3, <1>4, <1>5, <1>6 DEF IInv

\* Success is claimed when all units are checked off and none is in a bad state.
LEMMA VerifyKeeps ==
  ASSUME IInv, Verify
  PROVE  IInv'
  <1>1. CASE CallFails
    BY <1>1, CallFailsKeeps
  <1>2. CASE ~CallFails
    <2>1. PICK known \in SUBSET enqueue :
             /\ Answers(known, enqueue)
             /\ pc = "verify" /\ pc' = "returned"
             /\ final' = [u \in Services |->
                  IF u \in enqueue \ known THEN "unknown" ELSE active[u]]
             /\ result' = IF known # enqueue THEN "error"
                          ELSE IF stalled = {} /\ \A u \in enqueue : ~Bad(active[u])
                          THEN "ok" ELSE "failed"
             /\ UNCHANGED <<systemd, verb, enqueue, done, stalled, cleared, from, accrued,
                            ended, seen>>
      BY <1>2 DEF Verify, Return
    <2>2. /\ final' \in [Services -> States \cup {"unknown"}]
          /\ faults' \in 0..MaxFaults
      BY <2>1, AnswersCount DEF IInv, TypeOK, SystemdTypeOK
    <2>3. CASE result' \in {"failed", "error"}
      <3>1. /\ done \in SUBSET Services /\ enqueue \in SUBSET Services
            /\ done \cap stalled = {}
            /\ \A u \in Services : from[u] # Off => u \notin done
        BY DEF IInv, TypeOK
      <3>2. Return("failed") \/ Return("error")
        BY <2>1, <2>3 DEF Return
      <3>3. CASE Return("failed")
        BY <2>1, <2>2, <3>1, <3>3, ReturnKeeps
      <3>4. CASE Return("error")
        BY <2>1, <2>2, <3>1, <3>4, ReturnKeeps
      <3> QED
        BY <3>2, <3>3, <3>4
    <2>4. CASE result' = "ok"
      <3>1. /\ known = enqueue /\ stalled = {} /\ enqueue \subseteq Services
            /\ \A u \in enqueue : final'[u] = active[u] /\ ~Bad(active[u])
        BY <2>1, <2>4 DEF IInv, TypeOK
      <3>2. enqueue \subseteq done \cap ended
        BY <2>1, <3>1 DEF IInv, TypeOK, AllAccountedFor, CheckedMeansRan, Running
      <3>3. OkMeansVerified'
        <4>1. ASSUME NEW u \in enqueue
              PROVE  final'[u] \in IF verb = "stop"
                                   THEN {"inactive", "failed", "deactivating", "reloading"}
                                   ELSE {"active", "inactive"}
          <5>1. u \in Services /\ final'[u] = active[u] /\ ~Bad(active[u])
            BY <3>1, <4>1
          <5>2. active[u] \in States
            BY <5>1 DEF IInv, TypeOK, SystemdTypeOK
          <5> QED
            BY <5>1, <5>2 DEF Bad, transitional, States
        <4> QED
          BY <2>1, <3>1, <3>2, <4>1 DEF OkMeansVerified
      <3>4. TypeOK'
        BY <2>1, <2>2, <2>4 DEF IInv, TypeOK, SystemdTypeOK, systemd, Phases, Results
      <3>5. Charged'
        <4>1. ASSUME NEW u \in Services
              PROVE  Spent(u)' = Spent(u) /\ seen'[u] = seen[u]
          BY <2>1 DEF Spent
        <4> QED
          BY <2>1, <4>1 DEF IInv, Charged
      <3>6. BudgetSpent' /\ HasResult'
        BY <2>1, <2>4 DEF IInv, BudgetSpent, HasResult
      <3>7. /\ JobsFollowed' /\ CheckedMeansRan' /\ NothingFollowed' /\ BetweenCalls'
            /\ AllAccountedFor'
        BY <2>1 DEF JobsFollowed, CheckedMeansRan, Running, NothingFollowed, BetweenCalls,
                    AllAccountedFor
      <3> QED
        BY <3>3, <3>4, <3>5, <3>6, <3>7 DEF IInv
    <2> QED
      BY <2>1, <2>3, <2>4
  <1> QED
    BY <1>1, <1>2

\* The jobs that end while the command follows them are noted, whoever acts.
LEMMA WorldKeeps ==
  ASSUME IInv, World
  PROVE  IInv'
  <1>1. /\ SystemdNext
        /\ ended' = IF Running
                    THEN ended \cup {u \in enqueue : job[u] # "none" /\ job'[u] = "none"}
                    ELSE ended
        /\ UNCHANGED <<pc, verb, enqueue, done, stalled, cleared, from, accrued, result,
                       seen, final, faults>>
    BY DEF World, tracker
  <1>2. SystemdTypeOK'
    BY <1>1, SystemdTypes DEF IInv, TypeOK
  <1>3. ended \subseteq ended' /\ ended' \subseteq enqueue
    BY <1>1 DEF IInv, TypeOK
  <1>4. TypeOK'
    BY <1>1, <1>2, <1>3 DEF IInv, TypeOK
  <1>5. Charged'
    <2>1. ASSUME NEW u \in Services
          PROVE  Spent(u)' = Spent(u)
      BY <1>1 DEF Spent
    <2> QED
      BY <1>1, <2>1 DEF IInv, Charged
  <1>6. NothingFollowed'
    BY <1>1 DEF IInv, NothingFollowed, Running
  <1>7. JobsFollowed'
    BY <1>1, <1>3 DEF IInv, JobsFollowed, Running
  <1>8. CheckedMeansRan' /\ OkMeansVerified' /\ BetweenCalls'
    BY <1>1, <1>3 DEF IInv, CheckedMeansRan, OkMeansVerified, BetweenCalls, Running
  <1>9. BudgetSpent' /\ HasResult' /\ AllAccountedFor'
    BY <1>1 DEF IInv, BudgetSpent, HasResult, AllAccountedFor
  <1> QED
    BY <1>4, <1>5, <1>6, <1>7, <1>8, <1>9 DEF IInv

\* A stuttering step changes nothing.
LEMMA StutterKeeps ==
  ASSUME IInv, UNCHANGED vars
  PROVE  IInv'
  <1>1. UNCHANGED <<active, job, upsets, pc, verb, enqueue, done, stalled, cleared, from,
                    accrued, result, ended, seen, final, faults>>
    BY DEF vars, systemd, tracker, history
  <1>2. TypeOK'
    BY <1>1 DEF IInv, TypeOK, SystemdTypeOK
  <1>3. Charged'
    <2>1. ASSUME NEW u \in Services
          PROVE  Spent(u)' = Spent(u)
      BY <1>1 DEF Spent
    <2> QED
      BY <1>1, <2>1 DEF IInv, Charged
  <1>4. /\ NothingFollowed' /\ JobsFollowed' /\ BetweenCalls' /\ AllAccountedFor'
        /\ HasResult' /\ CheckedMeansRan' /\ BudgetSpent' /\ OkMeansVerified'
    BY <1>1 DEF IInv, NothingFollowed, JobsFollowed, BetweenCalls, AllAccountedFor,
                HasResult, Running, CheckedMeansRan, BudgetSpent, OkMeansVerified
  <1> QED
    BY <1>2, <1>3, <1>4 DEF IInv

-----------------------------------------------------------------------------
(* The theorems.                                                            *)

\* What relates the tracker to the jobs in every phase is an invariant: of the
\* selection, the transaction, the poll and everything systemd does meanwhile.
THEOREM Invariance == Spec => []IInv
  <1>1. Init => IInv
    BY InitEstablishes
  <1>2. IInv /\ [Next]_vars => IInv'
    <2> SUFFICES ASSUME IInv, [Next]_vars
                 PROVE  IInv'
      OBVIOUS
    <2>1. CASE Select
      BY <2>1, SelectKeeps
    <2>2. CASE Agree
      BY <2>2, AgreeKeeps
    <2>3. CASE Decline
      BY <2>3, DeclineKeeps
    <2>4. CASE Enqueue
      BY <2>4, EnqueueKeeps
    <2>5. CASE ReadJobs
      BY <2>5, ReadJobsKeeps
    <2>6. CASE ReadStates
      BY <2>6, ReadStatesKeeps
    <2>7. CASE Sleep
      BY <2>7, SleepKeeps
    <2>8. CASE Verify
      BY <2>8, VerifyKeeps
    <2>9. CASE World
      BY <2>9, WorldKeeps
    <2>10. CASE UNCHANGED vars
      BY <2>10, StutterKeeps
    <2> QED
      BY <2>1, <2>2, <2>3, <2>4, <2>5, <2>6, <2>7, <2>8, <2>9, <2>10 DEF Next, Track
  <1> QED
    BY <1>1, <1>2, PTL DEF Spec

\* The types of tracker and observers; no unit is both checked off and given up,
\* and the settle clock runs only for units that are neither.
THEOREM TypeCorrect == Spec => []TypeOK
  <1>1. IInv => TypeOK
    BY DEF IInv
  <1> QED
    BY <1>1, Invariance, PTL

\* A check mark is given only after the job that this command queued has ended,
\* although list-jobs and show are two moments and systemd acts between them.
THEOREM CheckMarksAreEarned == Spec => []CheckedMeansRan
  <1>1. IInv => CheckedMeansRan
    BY DEF IInv
  <1> QED
    BY <1>1, Invariance, PTL

\* A unit is given up only after more polls without a job than the settle budget
\* has, over all its streaks: polls that found it queued were not charged.
THEOREM GivenUpInTime == Spec => []BudgetSpent
  <1>1. IInv => BudgetSpent
    BY DEF IInv
  <1> QED
    BY <1>1, Invariance, PTL

\* Exit status 0 is given only for a transaction that was followed to the end of
\* every job, by a reading that has the state of each unit enqueued: neither
\* active nor activating after a stop, active or inactive after a start or restart.
THEOREM SuccessIsVerified == Spec => []OkMeansVerified
  <1>1. IInv => OkMeansVerified
    BY DEF IInv
  <1> QED
    BY <1>1, Invariance, PTL
=============================================================================
