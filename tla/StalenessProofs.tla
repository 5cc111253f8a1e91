---------------------------- MODULE StalenessProofs ----------------------------
(***************************************************************************)
(* Staleness, for any units, contents and quadlets, every historyCap and   *)
(* every resolution of the clock: what crei.state remembers suffices to    *)
(* tell which processes run an outdated definition, and which one; and     *)
(* what `crei status` concludes from that.                                 *)
(***************************************************************************)
EXTENDS Status, SequenceTheorems, WellFoundedInduction, TLAPS

\* Times are numbers.
LEMMA TimesAreNat == Times \subseteq Nat
  BY StalenessAssumption DEF Times

\* The time systemctl prints is a time not after the real one.
LEMMA PrintedBefore ==
  ASSUME NEW t \in Times
  PROVE  Printed(t) \in Times /\ Printed(t) <= t
  <1>1. t \in Nat /\ t <= MaxClock /\ MaxClock \in Nat /\ Second \in Nat \ {0}
    BY StalenessAssumption DEF Times
  <1>2. t % Second \in 0..(Second - 1) /\ t % Second <= t
    BY <1>1
  <1> QED
    BY <1>1, <1>2 DEF Printed, Times

\* Retained keeps the end of the sequence.
LEMMA RetainedIsEnd ==
  ASSUME NEW v \in Seq(Versions)
  PROVE  /\ Retained(v) \in Seq(Versions)
         /\ Len(Retained(v)) = IF Len(v) <= HistoryCap THEN Len(v) ELSE HistoryCap
         /\ \A i \in 1..Len(Retained(v)) :
              Retained(v)[i] = v[Len(v) - Len(Retained(v)) + i]
  <1>1. Len(v) \in Nat /\ HistoryCap \in Nat
    BY StalenessAssumption
  <1>2. CASE Len(v) <= HistoryCap
    BY <1>1, <1>2 DEF Retained
  <1>3. CASE ~(Len(v) <= HistoryCap)
    <2> DEFINE first == Len(v) - HistoryCap + 1
    <2>1. first \in Int /\ first \in 1..(Len(v) + 1) /\ Retained(v) = SubSeq(v, first, Len(v))
      BY <1>1, <1>3 DEF Retained
    <2>2. \A i \in first..Len(v) : v[i] \in Versions
      BY <1>1, <2>1
    <2> HIDE DEF first
    <2>3. /\ SubSeq(v, first, Len(v)) \in Seq(Versions)
          /\ Len(SubSeq(v, first, Len(v))) =
               IF first <= Len(v) THEN Len(v) - first + 1 ELSE 0
          /\ \A i \in 1..(Len(v) - first + 1) : SubSeq(v, first, Len(v))[i] = v[first + i - 1]
      BY <1>1, <2>1, <2>2, SubSeqProperties
    <2>4. Len(Retained(v)) = HistoryCap /\ Len(v) - first + 1 = HistoryCap
      BY <1>1, <1>3, <2>1, <2>3 DEF first
    <2>5. ASSUME NEW i \in 1..HistoryCap
          PROVE  Retained(v)[i] = v[Len(v) - HistoryCap + i]
      <3>1. first + i - 1 = Len(v) - HistoryCap + i
        BY <1>1, <2>5 DEF first
      <3> QED
        BY <2>1, <2>3, <2>4, <3>1
    <2> QED
      BY <1>3, <2>1, <2>3, <2>4, <2>5
  <1> QED
    BY <1>2, <1>3

\* What a new record and a superseding one consist of.
LEMMA Records ==
  ASSUME NEW want \in Wanted, now \in Times
  PROVE  /\ Fresh(want) \in Files
         /\ Fresh(want).quadlet = want.quadlet /\ Fresh(want).content = want.content
         /\ Fresh(want).at = now /\ Fresh(want).history = <<>>
         /\ \A prev \in Files :
              LET next == Superseding(prev, want)
                  all == Append(prev.history, Latest(prev))
              IN /\ next \in Files
                 /\ next.quadlet = want.quadlet /\ next.content = want.content
                 /\ next.at = now /\ next.history = Retained(all)
                 /\ Latest(prev) \in Versions /\ all \in Seq(Versions)
  <1>1. want.quadlet \in Quadlets /\ want.content \in Contents
    BY DEF Wanted
  <1>2. <<>> \in Seq(Versions)
    OBVIOUS
  <1>3. Fresh(want) \in Files
    BY <1>1, <1>2 DEF Fresh, Files
  <1>4. ASSUME NEW prev \in Files
        PROVE  Latest(prev) \in Versions /\ Append(prev.history, Latest(prev)) \in Seq(Versions)
    <2>1. prev.content \in Contents /\ prev.at \in Times /\ prev.history \in Seq(Versions)
      BY DEF Files
    <2>2. Latest(prev) \in Versions
      BY <2>1 DEF Latest, Versions
    <2> QED
      BY <2>1, <2>2, AppendProperties
  <1>5. ASSUME NEW prev \in Files
        PROVE  LET next == Superseding(prev, want)
                   all == Append(prev.history, Latest(prev))
               IN /\ next \in Files
                  /\ next.quadlet = want.quadlet /\ next.content = want.content
                  /\ next.at = now /\ next.history = Retained(all)
    <2> DEFINE all == Append(prev.history, Latest(prev))
    <2>1. Retained(all) \in Seq(Versions)
      BY <1>4, RetainedIsEnd
    <2> HIDE DEF all
    <2>2. Superseding(prev, want) =
            [quadlet |-> want.quadlet, content |-> want.content, at |-> now,
             history |-> Retained(all)]
      BY DEF Superseding, Fresh, all
    <2> QED
      BY <1>1, <2>1, <2>2 DEF Files, all
  <1> QED
    BY <1>3, <1>4, <1>5 DEF Fresh

-----------------------------------------------------------------------------
(* What one step does to a record, a log and a process.                     *)

\* The three things an apply does to the record of a file that it keeps.
Carried(u) == record[u] # NoFile /\ record'[u] = record[u] /\ log'[u] = log[u]

Begun(u, want) ==
  /\ record[u] = NoFile \/ record[u].quadlet # want.quadlet
  /\ record'[u] = Fresh(want)
  /\ log'[u] = <<Latest(Fresh(want))>>

Superseded(u, want) ==
  /\ record[u] # NoFile
  /\ record[u].quadlet = want.quadlet
  /\ record[u].content # want.content
  /\ record'[u] = Superseding(record[u], want)
  /\ log'[u] = Append(log[u], Latest(record'[u]))

\* A recorded file is either left as it is, begun anew, or superseded.
LEMMA NextRecord ==
  ASSUME TypeOK, RecordState, NEW u \in Units, record'[u] # NoFile
  PROVE  \E want \in Wanted : Carried(u) \/ Begun(u, want) \/ Superseded(u, want)
  <1>1. /\ record'[u] = (IF goal[u] = Gone THEN NoFile ELSE BuildFile(record[u], goal[u]))
        /\ log'[u] = (IF record'[u] = record[u] THEN log[u]
                      ELSE IF record'[u] = NoFile THEN <<>>
                      ELSE IF Begins(u, record'[u]) THEN <<Latest(record'[u])>>
                      ELSE Append(log[u], Latest(record'[u])))
        /\ now \in Times
    BY DEF RecordState, Build, TypeOK
  <1>2. goal[u] # Gone /\ goal[u] \in Wanted /\ record'[u] = BuildFile(record[u], goal[u])
    BY <1>1 DEF TypeOK
  <1>3. Fresh(goal[u]).quadlet = goal[u].quadlet
    BY <1>1, <1>2, Records
  <1>4. CASE record[u] = NoFile \/ record[u].quadlet # goal[u].quadlet
    <2>1. record'[u] = Fresh(goal[u])
      BY <1>2, <1>4 DEF BuildFile
    <2>2. record'[u] # record[u] /\ Begins(u, record'[u])
      BY <1>3, <1>4, <2>1 DEF Begins
    <2> QED
      BY <1>1, <1>2, <1>4, <2>1, <2>2 DEF Begun
  <1>5. CASE /\ record[u] # NoFile /\ record[u].quadlet = goal[u].quadlet
             /\ record[u].content = goal[u].content
    BY <1>1, <1>2, <1>5 DEF BuildFile, Carried
  <1>6. CASE /\ record[u] # NoFile /\ record[u].quadlet = goal[u].quadlet
             /\ record[u].content # goal[u].content
    <2>1. record'[u] = Superseding(record[u], goal[u]) /\ record[u] \in Files
      BY <1>2, <1>6 DEF BuildFile, TypeOK
    <2>2. record'[u].quadlet = goal[u].quadlet /\ record'[u].content = goal[u].content
      BY <1>1, <1>2, <2>1, Records
    <2>3. record'[u] # record[u] /\ ~Begins(u, record'[u])
      BY <1>6, <2>2 DEF Begins
    <2> QED
      BY <1>1, <1>2, <1>6, <2>1, <2>3 DEF Superseded
  <1> QED
    BY <1>4, <1>5, <1>6

\* The time of a step, and the time after it.
LEMMA TickTimes ==
  ASSUME TypeOK, Tick
  PROVE  now \in Times /\ now' \in Times /\ now \in Nat /\ now' = now + 1
  BY StalenessAssumption DEF TypeOK, Tick, Times

\* RecordState keeps the types of records and logs.
LEMMA RecordTypes ==
  ASSUME TypeOK, RecordState, NEW u \in Units
  PROVE  /\ record'[u] # NoFile =>
              record'[u] \in Files /\ Len(record'[u].history) <= HistoryCap
         /\ log'[u] \in Seq(Versions)
  <1>0. now \in Times /\ log[u] \in Seq(Versions)
    BY DEF TypeOK
  <1>1. CASE record'[u] = NoFile
    <2>1. log'[u] = log[u] \/ log'[u] = <<>>
      BY <1>1 DEF RecordState
    <2>2. <<>> \in Seq(Versions)
      OBVIOUS
    <2>3. log'[u] \in Seq(Versions)
      BY <1>0, <2>1, <2>2
    <2> QED
      BY <1>1, <2>3
  <1>2. CASE record'[u] # NoFile
    <2>1. PICK want \in Wanted : Carried(u) \/ Begun(u, want) \/ Superseded(u, want)
      BY <1>2, NextRecord
    <2>2. CASE Carried(u)
      BY <2>2 DEF TypeOK, Carried
    <2>3. CASE Begun(u, want)
      <3>1. Fresh(want) \in Files /\ Fresh(want).history = <<>>
        BY <1>0, Records
      <3>2. Latest(Fresh(want)) \in Versions
        BY <3>1 DEF Files, Latest, Versions
      <3>3. <<Latest(Fresh(want))>> \in Seq(Versions) /\ Len(<<>>) = 0 /\ 0 <= HistoryCap
        BY <3>2, StalenessAssumption
      <3> QED
        BY <2>3, <3>1, <3>3 DEF Begun
    <2>4. CASE Superseded(u, want)
      <3>1. record[u] \in Files
        BY <2>4 DEF TypeOK, Superseded
      <3> DEFINE all == Append(record[u].history, Latest(record[u]))
      <3>2. record'[u] \in Files /\ record'[u].history = Retained(all) /\ all \in Seq(Versions)
        BY <1>0, <2>4, <3>1, Records DEF Superseded
      <3> HIDE DEF all
      <3>3. Len(Retained(all)) <= HistoryCap
        BY <3>2, RetainedIsEnd, StalenessAssumption
      <3>4. Latest(record'[u]) \in Versions
        BY <3>2 DEF Files, Latest, Versions
      <3>5. Append(log[u], Latest(record'[u])) \in Seq(Versions)
        BY <1>0, <3>4, AppendProperties
      <3> QED
        BY <2>4, <3>2, <3>3, <3>5 DEF Superseded
    <2> QED
      BY <2>1, <2>2, <2>3, <2>4
  <1> QED
    BY <1>1, <1>2

\* Every step keeps the types.
LEMMA TypeStep ==
  ASSUME TypeOK, [Next]_vars
  PROVE  TypeOK'
  <1> USE DEF TypeOK
  <1>1. CASE WriteFiles
    <2>1. now' \in Times /\ now \in Times
      BY <1>1, TickTimes DEF WriteFiles
    <2>2. \A u \in Units : Content(desired[u]) \in Contents \cup {Gone}
      BY DEF Content, Wanted
    <2> QED
      BY <1>1, <2>1, <2>2 DEF WriteFiles
  <1>2. CASE RecordState
    <2>1. now' \in Times
      BY <1>2, TickTimes DEF RecordState
    <2>2. record' \in [Units -> Files \cup {NoFile}]
      <3>1. \A u \in Units : record'[u] \in Files \cup {NoFile}
        BY <1>2, RecordTypes
      <3>2. record' = [u \in Units |-> record'[u]]
        BY <1>2 DEF RecordState, Build
      <3> QED
        BY <3>1, <3>2
    <2>3. log' \in [Units -> Seq(Versions)]
      <3>1. \A u \in Units : log'[u] \in Seq(Versions)
        BY <1>2, RecordTypes
      <3>2. log' = [u \in Units |-> log'[u]]
        BY <1>2 DEF RecordState
      <3> QED
        BY <3>1, <3>2
    <2>4. \A u \in Units : record'[u] # NoFile => Len(record'[u].history) <= HistoryCap
      BY <1>2, RecordTypes
    <2> QED
      BY <1>2, <2>1, <2>2, <2>3, <2>4 DEF RecordState
  <1>3. CASE ReloadAfter \/ DaemonReload \/ Abandon
    <2>1. now' \in Times
      BY <1>3, TickTimes DEF ReloadAfter, DaemonReload, Abandon
    <2> QED
      BY <1>3, <2>1 DEF ReloadAfter, DaemonReload, Abandon
  <1>4. CASE LoseState
    <2>1. now' \in Times /\ <<>> \in Seq(Versions)
      BY <1>4, TickTimes DEF LoseState
    <2> QED
      BY <1>4, <2>1 DEF LoseState
  <1>5. ASSUME NEW u \in Units, Edit(u) \/ Tamper(u) \/ Stop(u)
        PROVE  TypeOK'
    <2>1. now' \in Times
      BY <1>5, TickTimes DEF Edit, Tamper, Stop
    <2>2. CASE Edit(u)
      BY <2>1, <2>2 DEF Edit
    <2>3. CASE Tamper(u)
      BY <2>1, <2>3 DEF Tamper
    <2>4. CASE Stop(u)
      BY <2>1, <2>4 DEF Stop
    <2> QED
      BY <1>5, <2>2, <2>3, <2>4
  <1>6. ASSUME NEW u \in Units, Start(u)
        PROVE  TypeOK'
    <2>1. now' \in Times /\ now \in Times
      BY <1>6, TickTimes DEF Start
    <2>2. loaded[u] \in Contents /\ InOrder(u) \in BOOLEAN
      BY <1>6 DEF Start, InOrder
    <2>3. [phase |-> "activating", def |-> loaded[u], began |-> now, entered |-> now,
           sound |-> InOrder(u)] \in Processes
      BY <2>1, <2>2 DEF Processes
    <2> QED
      BY <1>6, <2>1, <2>3 DEF Start
  <1>7. ASSUME NEW u \in Units, Activate(u)
        PROVE  TypeOK'
    <2>1. now' \in Times /\ now \in Times /\ running[u] \in Processes
      BY <1>7, TickTimes DEF Activate
    <2>2. [running[u] EXCEPT !.phase = "active", !.entered = now] \in Processes
      BY <2>1 DEF Processes
    <2> QED
      BY <1>7, <2>1, <2>2 DEF Activate
  <1>8. ASSUME NEW u \in Units, Complete(u)
        PROVE  TypeOK'
    <2>1. now' \in Times /\ running[u] \in Processes
      BY <1>8, TickTimes DEF Complete
    <2>2. [running[u] EXCEPT !.phase = "done"] \in Processes
      BY <2>1 DEF Processes
    <2> QED
      BY <1>8, <2>1, <2>2 DEF Complete
  <1>9. CASE UNCHANGED vars
    BY <1>9 DEF vars
  <1> QED
    BY <1>1, <1>2, <1>3, <1>4, <1>5, <1>6, <1>7, <1>8, <1>9 DEF Next

\* What any step can do to a record: lose it, carry it forward, or, while every
\* process stays as it is, begin or supersede it.
LEMMA RecordStep ==
  ASSUME TypeOK, Next, NEW u \in Units, record'[u] # NoFile
  PROVE  \/ Carried(u)
         \/ running' = running /\ \E want \in Wanted : Begun(u, want) \/ Superseded(u, want)
  <1>1. CASE RecordState
    <2>1. running' = running
      BY <1>1 DEF RecordState
    <2> QED
      BY <1>1, <2>1, NextRecord
  <1>2. CASE LoseState
    BY <1>2 DEF LoseState
  <1>3. CASE record' = record /\ log' = log
    BY <1>3 DEF Carried
  <1> QED
    BY <1>1, <1>2, <1>3
    DEF Next, WriteFiles, ReloadAfter, Abandon, DaemonReload, Edit, Tamper, Start, Activate,
        Complete, Stop

\* Start gives u this process.
Launched(u) ==
  running'[u] =
    [phase |-> "activating", def |-> loaded[u], began |-> now, entered |-> now,
     sound |-> InOrder(u)]

\* The process of u stays, if perhaps its start is over now.
Aged(u) ==
  /\ running[u] # Stopped
  /\ running'[u].def = running[u].def /\ running'[u].began = running[u].began
  /\ running'[u].sound = running[u].sound
  /\ running'[u].entered \in {running[u].entered, now}

\* What any step can do to a process.
LEMMA ProcessStep ==
  ASSUME TypeOK, Next, NEW u \in Units, running'[u] # Stopped
  PROVE  Aged(u) \/ Launched(u)
  <1>1. CASE running'[u] = running[u]
    BY <1>1 DEF Aged
  <1>2. ASSUME NEW v \in Units, Start(v)
        PROVE  running'[u] = running[u] \/ Launched(u)
    <2>1. CASE u = v
      BY <1>2, <2>1 DEF Start, Launched, TypeOK
    <2>2. CASE u # v
      BY <1>2, <2>2 DEF Start
    <2> QED
      BY <2>1, <2>2
  <1>3. ASSUME NEW v \in Units, Stop(v)
        PROVE  running'[u] = running[u]
    BY <1>3 DEF Stop
  <1>4. ASSUME NEW v \in Units, Activate(v) \/ Complete(v)
        PROVE  running'[u] = running[u] \/ Aged(u)
    <2> DEFINE next == running'[v]
    <2>1. CASE u # v
      <3>1. running' = [running EXCEPT ![v] = next] /\ running \in [Units -> Processes \cup {Stopped}]
        BY <1>4 DEF Activate, Complete, TypeOK
      <3> HIDE DEF next
      <3> QED
        BY <2>1, <3>1
    <2>2. CASE u = v
      <3>1. running[u] \in Processes
        BY <1>4, <2>2 DEF Activate, Complete, TypeOK
      <3>2. \/ running'[u] = [running[u] EXCEPT !.phase = "active", !.entered = now]
            \/ running'[u] = [running[u] EXCEPT !.phase = "done"]
        BY <1>4, <2>2 DEF Activate, Complete, TypeOK
      <3>3. running[u] # Stopped
        BY <1>4, <2>2 DEF Activate, Complete
      <3> QED
        BY <3>1, <3>2, <3>3 DEF Aged, Processes
    <2> QED
      BY <2>1, <2>2
  <1>5. CASE running' = running
    BY <1>1, <1>5
  <1> QED
    BY <1>1, <1>2, <1>3, <1>4, <1>5
    DEF Next, WriteFiles, RecordState, ReloadAfter, Abandon, LoseState, DaemonReload, Edit,
        Tamper

\* Every step but a stutter takes a tick.
LEMMA EveryStepTicks ==
  ASSUME TypeOK, Next
  PROVE  now \in Nat /\ now \in Times /\ now' = now + 1
  <1>1. Tick
    BY DEF Next, WriteFiles, RecordState, ReloadAfter, Abandon, LoseState, DaemonReload, Edit,
           Tamper, Start, Activate, Complete, Stop
  <1> QED
    BY <1>1, TickTimes

-----------------------------------------------------------------------------
(* The inductive invariant, part by part.                                   *)

\* The parts of a well-formed record, for the leaves that need only those.
LEMMA Parts ==
  ASSUME TypeOK, NEW u \in Units
  PROVE  /\ log[u] \in Seq(Versions) /\ Len(log[u]) \in Nat
         /\ \A i \in 1..Len(log[u]) : log[u][i].at \in Nat
         /\ record[u] # NoFile =>
              /\ record[u] \in Files /\ record[u].at \in Nat
              /\ record[u].history \in Seq(Versions) /\ Len(record[u].history) \in Nat
         /\ running[u] # Stopped =>
              /\ running[u] \in Processes /\ running[u].began \in Nat
              /\ running[u].entered \in Times /\ running[u].entered \in Nat
  <1>1. log[u] \in Seq(Versions)
    BY DEF TypeOK
  <1>2. \A i \in 1..Len(log[u]) : log[u][i] \in Versions
    BY <1>1
  <1>3. \A v \in Versions : v.at \in Nat
    BY TimesAreNat DEF Versions
  <1>4. ASSUME record[u] # NoFile
        PROVE  /\ record[u] \in Files /\ record[u].at \in Nat
               /\ record[u].history \in Seq(Versions) /\ Len(record[u].history) \in Nat
    <2>1. record[u] \in Files
      BY <1>4 DEF TypeOK
    <2>2. record[u].at \in Times /\ record[u].history \in Seq(Versions)
      BY <2>1 DEF Files
    <2>3. Len(record[u].history) \in Nat
      BY <2>2, LenProperties
    <2> QED
      BY <2>1, <2>2, <2>3, TimesAreNat
  <1>5. ASSUME running[u] # Stopped
        PROVE  /\ running[u] \in Processes /\ running[u].began \in Nat
               /\ running[u].entered \in Times /\ running[u].entered \in Nat
    <2>1. running[u] \in Processes
      BY <1>5 DEF TypeOK
    <2> QED
      BY <2>1, TimesAreNat DEF Processes
  <1> QED
    BY <1>1, <1>2, <1>3, <1>4, <1>5

\* What is new is stamped with the time of the step, which is over after it.
LEMMA PastStep ==
  ASSUME TypeOK, Next, NEW u \in Units, Past(u)
  PROVE  Past(u)'
  <1>1. now \in Nat /\ now \in Times /\ now' = now + 1
    BY EveryStepTicks
  <1>2. ASSUME record'[u] # NoFile
        PROVE  record'[u].at < now'
    <2>1. CASE Carried(u)
      BY <1>1, <2>1, Parts DEF Past, Carried
    <2>2. ASSUME NEW want \in Wanted, Begun(u, want)
          PROVE  record'[u].at < now'
      BY <1>1, <2>2, Records DEF Begun
    <2>3. ASSUME NEW want \in Wanted, Superseded(u, want)
          PROVE  record'[u].at < now'
      <3>1. record[u] \in Files /\ record'[u] = Superseding(record[u], want)
        BY <2>3, Parts DEF Superseded
      <3> QED
        BY <1>1, <3>1, Records
    <2> QED
      BY <1>2, <2>1, <2>2, <2>3, RecordStep
  <1>3. ASSUME running'[u] # Stopped
        PROVE  running'[u].began <= running'[u].entered /\ running'[u].entered < now'
    <2>1. CASE Aged(u)
      <3>1. /\ running[u].began \in Nat /\ running[u].entered \in Nat
            /\ running[u].began <= running[u].entered /\ running[u].entered < now
        BY <2>1, Parts DEF Past, Aged
      <3> QED
        BY <1>1, <2>1, <3>1 DEF Aged
    <2>2. CASE Launched(u)
      BY <1>1, <2>2 DEF Launched
    <2> QED
      BY <1>3, <2>1, <2>2, ProcessStep
  <1> QED
    BY <1>2, <1>3 DEF Past

\* Recording and superseding extend the log at its end; the history stays the
\* end of the log before its last version.
LEMMA HistoryStep ==
  ASSUME TypeOK, Next, NEW u \in Units, Past(u), HistoryTail(u)
  PROVE  HistoryTail(u)'
  <1> SUFFICES ASSUME record'[u] # NoFile
               PROVE  HistoryTail(u)'
    BY DEF HistoryTail
  <1>1. now \in Nat /\ now \in Times
    BY EveryStepTicks
  <1>2. CASE Carried(u)
    BY <1>2 DEF Carried, HistoryTail
  <1>3. ASSUME NEW want \in Wanted, Begun(u, want)
        PROVE  HistoryTail(u)'
    <2>1. /\ log'[u] = <<Latest(record'[u])>> /\ record'[u].history = <<>>
      BY <1>1, <1>3, Records DEF Begun
    <2>2. Len(log'[u]) = 1 /\ log'[u][1] = Latest(record'[u]) /\ Len(record'[u].history) = 0
      BY <2>1
    <2> HIDE <1>3
    <2>3. 0 <= HistoryCap /\ HistoryCap \in Nat
      BY StalenessAssumption
    <2> QED
      BY <2>2, <2>3 DEF HistoryTail, Latest
  <1>4. ASSUME NEW want \in Wanted, Superseded(u, want)
        PROVE  HistoryTail(u)'
    <2> DEFINE n == Len(log[u])
               k == Len(record[u].history)
               all == Append(record[u].history, Latest(record[u]))
               new == Latest(record'[u])
    <2>1. /\ record[u] # NoFile /\ record[u] \in Files
          /\ record'[u] = Superseding(record[u], want) /\ log'[u] = Append(log[u], new)
      BY <1>4, Parts DEF Superseded
    <2>2. /\ record'[u].at = now /\ record'[u].history = Retained(all)
          /\ all \in Seq(Versions)
      BY <1>1, <2>1, Records
    <2>3. /\ n \in Nat /\ k \in Nat /\ log[u] \in Seq(Versions)
          /\ record[u].history \in Seq(Versions)
      BY <2>1, Parts
    <2>4. /\ n > 0 /\ log[u][n] = Latest(record[u])
          /\ k = IF n - 1 <= HistoryCap THEN n - 1 ELSE HistoryCap
          /\ \A i \in 1..k : record[u].history[i] = log[u][n - 1 - k + i]
          /\ \A i, j \in 1..n : i < j => log[u][i].at < log[u][j].at
      BY <2>1 DEF HistoryTail
    <2>5. /\ Len(log'[u]) = n + 1 /\ log'[u][n + 1] = new
          /\ \A i \in 1..n : log'[u][i] = log[u][i]
      BY <2>1, <2>3
    <2> HIDE DEF n, k
    <2>6. /\ Len(all) = k + 1 /\ all[k + 1] = Latest(record[u])
          /\ \A i \in 1..k : all[i] = record[u].history[i]
      <3>1. Latest(record[u]) \in Versions
        BY <1>1, <2>1, Records
      <3> QED
        BY <2>3, <3>1, AppendProperties DEF k
    <2> HIDE DEF all
    <2>7. ASSUME NEW i \in 1..(k + 1)
          PROVE  all[i] = log[u][n - 1 - k + i]
      <3>1. CASE i = k + 1
        <4>1. n - 1 - k + i = n
          BY <2>3, <3>1
        <4> QED
          BY <2>4, <2>6, <3>1, <4>1
      <3>2. CASE i # k + 1
        <4>1. i \in 1..k
          BY <2>3, <3>2
        <4> QED
          BY <2>4, <2>6, <4>1
      <3> QED
        BY <3>1, <3>2
    <2> USE DEF n
    <2>8. new.at = now /\ \A i \in 1..n : log[u][i].at < now
      <3>1. new.at = now
        BY <2>2 DEF Latest
      <3>2. log[u][n].at = record[u].at /\ record[u].at < now /\ record[u].at \in Nat
        BY <2>1, <2>4, Parts DEF Latest, Past
      <3>3. ASSUME NEW i \in 1..n
            PROVE  log[u][i].at < now
        <4>1. log[u][i].at \in Nat /\ (i = n \/ i < n) /\ n \in 1..n
          BY <2>3, <2>4, Parts
        <4>2. log[u][i].at <= log[u][n].at
          BY <2>4, <3>2, <4>1
        <4> QED
          BY <1>1, <3>2, <4>1, <4>2
      <3> QED
        BY <3>1, <3>3
    <2> HIDE DEF n, new
    <2> DEFINE m == Len(Retained(all))
    <2>9. /\ m = IF k + 1 <= HistoryCap THEN k + 1 ELSE HistoryCap
          /\ \A i \in 1..m : Retained(all)[i] = all[k + 1 - m + i]
      <3>1. /\ m = IF Len(all) <= HistoryCap THEN Len(all) ELSE HistoryCap
            /\ \A i \in 1..m : Retained(all)[i] = all[Len(all) - m + i]
        BY <2>2, RetainedIsEnd
      <3>2. Len(all) = k + 1
        BY <2>6
      <3> HIDE DEF m
      <3> QED
        BY <2>3, <3>1, <3>2, StalenessAssumption
    <2> HIDE DEF m
    <2>10. m \in Nat /\ m <= k + 1 /\ m <= n /\ k <= n - 1
      BY <2>3, <2>4, <2>9, StalenessAssumption
    <2>11. ASSUME NEW i \in 1..m
           PROVE  Retained(all)[i] = log'[u][n - m + i]
      <3>1. k + 1 - m + i \in 1..(k + 1)
        BY <2>3, <2>10
      <3>2. n - m + i \in 1..n
        BY <2>3, <2>10
      <3>3. n - 1 - k + (k + 1 - m + i) = n - m + i
        BY <2>3, <2>10
      <3>4. Retained(all)[i] = all[k + 1 - m + i]
        BY <2>9
      <3> QED
        BY <2>5, <2>7, <3>1, <3>2, <3>3, <3>4
    <2>12. m = IF n <= HistoryCap THEN n ELSE HistoryCap
      <3>1. k = IF n - 1 <= HistoryCap THEN n - 1 ELSE HistoryCap
        BY <2>4
      <3>2. m = IF k + 1 <= HistoryCap THEN k + 1 ELSE HistoryCap
        BY <2>9
      <3>3. CASE n - 1 <= HistoryCap
        BY <2>3, <3>1, <3>2, <3>3, StalenessAssumption
      <3>4. CASE ~(n - 1 <= HistoryCap)
        BY <2>3, <3>1, <3>2, <3>4, StalenessAssumption
      <3> QED
        BY <3>3, <3>4
    <2>13. ASSUME NEW i \in 1..(n + 1), NEW j \in 1..(n + 1), i < j
           PROVE  log'[u][i].at < log'[u][j].at
      <3>1. i \in 1..n
        BY <2>3, <2>13
      <3>2. CASE j \in 1..n
        BY <2>4, <2>5, <2>13, <3>1, <3>2
      <3>3. CASE j = n + 1
        BY <2>5, <2>8, <3>1, <3>3
      <3> QED
        BY <2>3, <3>2, <3>3
    <2>14. /\ Len(log'[u]) > 0 /\ log'[u][Len(log'[u])] = Latest(record'[u])
           /\ Len(log'[u]) - 1 = n /\ Len(record'[u].history) = m
      BY <2>2, <2>3, <2>5 DEF new, m
    <2>15. \A i \in 1..m :
             record'[u].history[i] = log'[u][Len(log'[u]) - 1 - m + i]
      BY <2>2, <2>11, <2>14
    <2> QED
      BY <2>5, <2>12, <2>13, <2>14, <2>15 DEF HistoryTail, Latest
  <1> QED
    BY <1>2, <1>3, <1>4, RecordStep

\* A version recorded later than a process began does not matter for it; and a
\* process that begins in order runs the newest version there is.
LEMMA StartedStep ==
  ASSUME TypeOK, Next, NEW u \in Units, Past(u), HistoryTail(u), StartedFrom(u)
  PROVE  StartedFrom(u)'
  <1> SUFFICES ASSUME running'[u] # Stopped, running'[u].sound, record'[u] # NoFile,
                      NEW i \in 1..Len(log'[u]),
                      log'[u][i].at <= running'[u].began,
                      \A j \in 1..Len(log'[u]) : log'[u][j].at <= running'[u].began => j <= i
               PROVE  log'[u][i].content = running'[u].def
    BY DEF StartedFrom
  <1>1. now \in Nat /\ now \in Times
    BY EveryStepTicks
  <1>2. CASE Carried(u) /\ Aged(u)
    BY <1>2 DEF Carried, Aged, StartedFrom
  <1>3. CASE Carried(u) /\ Launched(u)
    <2>1. /\ running'[u].began = now /\ running'[u].def = loaded[u] /\ InOrder(u)
      BY <1>3 DEF Launched
    <2>2. loaded[u] = record[u].content
      BY <2>1 DEF InOrder
    <2>3. record[u] # NoFile /\ log'[u] = log[u]
      BY <1>3 DEF Carried
    <2> DEFINE n == Len(log[u])
    <2>4. n \in Nat /\ n > 0 /\ log[u][n] = Latest(record[u])
      BY <2>3, Parts DEF HistoryTail
    <2>5. log[u][n].content = record[u].content /\ log[u][n].at <= now
      BY <1>1, <2>3, <2>4, Parts DEF Latest, Past
    <2> HIDE DEF n
    <2>6. n \in 1..Len(log'[u]) /\ log'[u][n].at <= running'[u].began /\ i \in 1..n
      BY <2>1, <2>3, <2>4, <2>5 DEF n
    <2>7. n <= i
      BY <2>6
    <2>8. i = n
      BY <2>4, <2>6, <2>7
    <2> QED
      BY <2>1, <2>2, <2>3, <2>5, <2>8
  <1>4. ASSUME NEW want \in Wanted, running' = running, Begun(u, want)
        PROVE  FALSE
    <2>1. running[u] # Stopped /\ running[u].began < now /\ running[u].began \in Nat
      BY <1>1, <1>4, Parts DEF Past
    <2>2. Len(log'[u]) = 1 /\ log'[u][1].at = now
      BY <1>1, <1>4, Records DEF Begun, Latest
    <2> QED
      BY <1>1, <1>4, <2>1, <2>2
  <1>5. ASSUME NEW want \in Wanted, running' = running, Superseded(u, want)
        PROVE  log'[u][i].content = running'[u].def
    <2> DEFINE n == Len(log[u])
               new == Latest(record'[u])
    <2>1. running[u] # Stopped /\ running[u].began < now /\ running[u].began \in Nat
      BY <1>1, <1>5, Parts DEF Past
    <2>2. record[u] # NoFile /\ record'[u].at = now
      BY <1>1, <1>5, Records, Parts DEF Superseded
    <2>3. new.at = now /\ n \in Nat /\ log[u] \in Seq(Versions) /\ log'[u] = Append(log[u], new)
      BY <1>5, <2>2, Parts DEF Superseded, Latest
    <2>4. /\ Len(log'[u]) = n + 1 /\ log'[u][n + 1] = new
          /\ \A j \in 1..n : log'[u][j] = log[u][j]
      BY <2>3
    <2> HIDE DEF n, new
    <2>5. i # n + 1
      BY <1>1, <1>5, <2>1, <2>3, <2>4
    <2>6. i \in 1..n
      BY <2>3, <2>4, <2>5
    <2>7. \A j \in 1..n : log[u][j].at <= running[u].began => j <= i
      BY <1>5, <2>3, <2>4
    <2>8. log[u][i].at <= running[u].began /\ running[u].sound
      BY <1>5, <2>4, <2>6
    <2>9. log[u][i].content = running[u].def
      BY <2>1, <2>2, <2>6, <2>7, <2>8 DEF StartedFrom, n
    <2> QED
      BY <1>5, <2>4, <2>6, <2>9
  <1> QED
    BY <1>2, <1>3, <1>4, <1>5, RecordStep, ProcessStep

-----------------------------------------------------------------------------
(* The theorems.                                                            *)

\* The invariant holds at first.
LEMMA InitIInv ==
  ASSUME Init
  PROVE  IInv
  <1>1. 0 \in Times /\ <<>> \in Seq(Versions)
    BY StalenessAssumption DEF Times
  <1>2. TypeOK
    BY <1>1 DEF Init, TypeOK
  <1>3. \A u \in Units : record[u] = NoFile /\ running[u] = Stopped
    BY DEF Init
  <1> QED
    BY <1>2, <1>3 DEF IInv, Past, HistoryTail, StartedFrom

\* Every step keeps the invariant.
LEMMA StepIInv ==
  ASSUME IInv, [Next]_vars
  PROVE  IInv'
  <1>1. TypeOK'
    BY TypeStep DEF IInv
  <1>2. CASE Next
    <2>1. \A u \in Units : Past(u)' /\ HistoryTail(u)' /\ StartedFrom(u)'
      BY <1>2, PastStep, HistoryStep, StartedStep DEF IInv
    <2> QED
      BY <1>1, <2>1 DEF IInv
  <1>3. CASE UNCHANGED vars
    <2>1. \A u \in Units : Past(u)' /\ HistoryTail(u)' /\ StartedFrom(u)'
      BY <1>3 DEF IInv, vars, Past, HistoryTail, StartedFrom
    <2> QED
      BY <1>1, <2>1 DEF IInv
  <1> QED
    BY <1>2, <1>3

\* The inductive invariant holds of every behaviour of recording, editing,
\* reloading, tampering, starting and stopping, for any number of units.
THEOREM Invariance == Spec => []IInv
  BY InitIInv, StepIInv, PTL DEF Spec

\* Records, logs and processes always have their types, and no history in
\* crei.state exceeds historyCap.
THEOREM TypeCorrect == Spec => []TypeOK
  <1>1. IInv => TypeOK
    BY DEF IInv
  <1> QED
    BY <1>1, Invariance, PTL

\* Under the invariant, a record from before the process says what it runs.
LEMMA NewestIsRunning ==
  ASSUME IInv, NEW u \in Units, running[u] # Stopped, running[u].sound,
         record[u] # NoFile, record[u].at <= running[u].began
  PROVE  running[u].def = record[u].content
  <1> DEFINE n == Len(log[u])
  <1>1. n \in Nat /\ n > 0 /\ log[u][n] = Latest(record[u])
    BY Parts DEF IInv, HistoryTail
  <1>2. log[u][n].at <= running[u].began /\ log[u][n].content = record[u].content
    BY <1>1 DEF Latest
  <1>3. n \in 1..Len(log[u]) /\ \A j \in 1..Len(log[u]) : j <= n
    BY <1>1
  <1>4. StartedFrom(u)
    BY DEF IInv
  <1> HIDE DEF n
  <1> QED
    BY <1>2, <1>3, <1>4 DEF StartedFrom

\* What systemctl prints of the end of a start is a time not after it.
LEMMA SinceIs ==
  ASSUME TypeOK, NEW u \in Units, running[u] # Stopped
  PROVE  Since(u) \in Nat /\ Since(u) <= running[u].entered
  <1>1. running[u].entered \in Times
    BY Parts
  <1> QED
    BY <1>1, PrintedBefore, TimesAreNat DEF Since

\* crei status misses a unit that was synced and loaded when its start began, and
\* now runs something else than the recorded file, only if that was recorded
\* before the start was over.
THEOREM StaleIsComplete == Spec => []StaleComplete
  <1>1. ASSUME IInv
        PROVE  StaleComplete
    <2> SUFFICES ASSUME NEW u \in Units, Up(u), record[u] # NoFile,
                        running[u].sound, running[u].def # record[u].content
                 PROVE  Stale(u) \/ AppliedMeanwhile(u)
      BY DEF StaleComplete
    <2>0. running[u] # Stopped /\ running[u].phase # "activating"
      BY DEF Up
    <2>1. ~(record[u].at <= running[u].began)
      BY <1>1, <2>0, NewestIsRunning
    <2>2. TypeOK
      BY <1>1 DEF IInv
    <2>3. /\ record[u].at \in Nat /\ running[u].began \in Nat /\ running[u].entered \in Nat
          /\ Since(u) \in Nat /\ Since(u) <= running[u].entered
      BY <2>0, <2>2, Parts, SinceIs
    <2> QED
      BY <2>0, <2>1, <2>3 DEF Stale, AppliedMeanwhile
  <1> QED
    BY <1>1, Invariance, PTL

\* An apply that leaves the content of a file alone leaves its time alone, so it
\* makes no running unit stale; one that changes it moves the time forward.
THEOREM AppliedAtCarriedForward == Spec => CarriedForward
  <1>1. ASSUME IInv, Next, NEW u \in Units
        PROVE  TimeFollowsContent(u)
    <2>1. TypeOK /\ Past(u) /\ now \in Times /\ now \in Nat
      BY <1>1, EveryStepTicks DEF IInv
    <2>2. CASE Carried(u)
      BY <2>2 DEF Carried, TimeFollowsContent
    <2>3. ASSUME NEW want \in Wanted, Begun(u, want)
          PROVE  TimeFollowsContent(u)
      BY <2>1, <2>3, Records DEF Begun, TimeFollowsContent
    <2>4. ASSUME NEW want \in Wanted, Superseded(u, want)
          PROVE  TimeFollowsContent(u)
      <3>1. record[u] # NoFile /\ record[u] \in Files /\ record[u].at < now
        BY <2>1, <2>4, Parts DEF Superseded, Past
      <3>2. record'[u].content = want.content /\ record'[u].at = now
        BY <2>1, <2>4, <3>1, Records DEF Superseded
      <3>3. record[u].at \in Nat
        BY <2>1, <3>1, Parts
      <3> QED
        BY <2>1, <2>4, <3>1, <3>2, <3>3 DEF Superseded, TimeFollowsContent
    <2>5. CASE record'[u] = NoFile
      BY <2>5 DEF TimeFollowsContent
    <2> QED
      BY <1>1, <2>1, <2>2, <2>3, <2>4, <2>5, RecordStep
  <1>2. ASSUME UNCHANGED vars, NEW u \in Units
        PROVE  TimeFollowsContent(u)
    BY <1>2 DEF vars, TimeFollowsContent
  <1>3. ASSUME IInv, [Next]_vars
        PROVE  [\A u \in Units : TimeFollowsContent(u)]_vars
    BY <1>1, <1>2, <1>3
  <1> QED
    BY <1>3, Invariance, PTL DEF Spec, CarriedForward

-----------------------------------------------------------------------------
(* What the history answers.                                                *)

\* A set of indices that is not empty has a largest element.
LEMMA Largest ==
  ASSUME NEW n \in Nat, NEW S \in SUBSET (1..n), S # {}
  PROVE  \E i \in S : \A j \in S : j <= i
  <1> DEFINE Down == {n - i : i \in S}
  <1>1. Down \subseteq Nat /\ Down # {}
    <2>1. \A i \in S : n - i \in Nat
      OBVIOUS
    <2>2. PICK i \in S : TRUE
      OBVIOUS
    <2>3. n - i \in Down
      OBVIOUS
    <2> QED
      BY <2>1, <2>3
  <1>2. PICK x \in Down : \A y \in Down : ~(<<y, x>> \in OpToRel(<, Nat))
    <2> HIDE DEF Down
    <2> QED
      BY <1>1, WFMin, NatLessThanWellFounded
  <1>3. \A y \in Down : ~(y < x)
    BY <1>1, <1>2 DEF OpToRel
  <1>4. PICK i \in S : x = n - i
    OBVIOUS
  <1>5. ASSUME NEW j \in S
        PROVE  j <= i
    <2>1. n - j \in Down /\ i \in 1..n /\ j \in 1..n
      OBVIOUS
    <2> QED
      BY <1>3, <1>4, <2>1
  <1> QED
    BY <1>5

\* NewestAt answers with the version at the largest index that is not after t.
LEMMA NewestAtIs ==
  ASSUME NEW v \in Seq(Versions), NEW t \in Nat
  PROVE  /\ (\A i \in 1..Len(v) : ~(v[i].at <= t)) => NewestAt(v, t) = Gone
         /\ \A i \in 1..Len(v) :
              v[i].at <= t /\ (\A j \in 1..Len(v) : v[j].at <= t => j <= i)
              => NewestAt(v, t) = v[i].content
  <1> DEFINE before == {i \in DOMAIN v : v[i].at <= t}
  <1>1. DOMAIN v = 1..Len(v) /\ Len(v) \in Nat
    OBVIOUS
  <1>2. NewestAt(v, t) =
          IF before = {} THEN Gone
          ELSE v[CHOOSE i \in before : \A j \in before : j <= i].content
    BY DEF NewestAt
  <1>3. ASSUME \A i \in 1..Len(v) : ~(v[i].at <= t)
        PROVE  NewestAt(v, t) = Gone
    <2>1. before = {}
      BY <1>1, <1>3
    <2> QED
      BY <1>2, <2>1
  <1>4. ASSUME NEW i \in 1..Len(v), v[i].at <= t,
               \A j \in 1..Len(v) : v[j].at <= t => j <= i
        PROVE  NewestAt(v, t) = v[i].content
    <2>1. i \in before /\ \A j \in before : j <= i /\ j \in Nat
      BY <1>1, <1>4
    <2> HIDE DEF before
    <2>2. \A m \in before : (\A j \in before : j <= m) => m = i
      BY <2>1
    <2>3. (CHOOSE m \in before : \A j \in before : j <= m) = i
      BY <2>1, <2>2
    <2> QED
      BY <1>2, <2>1, <2>3
  <1> QED
    BY <1>3, <1>4

\* The complete log, asked about a time from the record's on.
LEMMA LogIsCurrent ==
  ASSUME IInv, NEW u \in Units, record[u] # NoFile, NEW t \in Nat, record[u].at <= t
  PROVE  NewestAt(log[u], t) = record[u].content
  <1> DEFINE n == Len(log[u])
  <1>1. n \in Nat /\ n > 0 /\ log[u][n] = Latest(record[u]) /\ log[u] \in Seq(Versions)
    BY Parts DEF IInv, HistoryTail
  <1>2. log[u][n].at <= t /\ log[u][n].content = record[u].content
    BY <1>1 DEF Latest
  <1>3. n \in 1..Len(log[u]) /\ \A j \in 1..Len(log[u]) : j <= n
    BY <1>1
  <1> HIDE DEF n
  <1> QED
    BY <1>1, <1>2, <1>3, NewestAtIs

\* The history answers as the log does, or knows nothing because it is cut off.
LEMMA HistoryAnswers ==
  ASSUME IInv, NEW u \in Units, record[u] # NoFile, NEW t \in Nat, record[u].at > t
  PROVE  \/ NewestAt(record[u].history, t) = NewestAt(log[u], t)
         \/ NewestAt(record[u].history, t) = Gone /\ Len(log[u]) > HistoryCap + 1
  <1> DEFINE n == Len(log[u])
             k == Len(record[u].history)
             hist == record[u].history
             before == {i \in 1..k : hist[i].at <= t}
  <1>1. /\ n \in Nat /\ k \in Nat /\ log[u] \in Seq(Versions) /\ hist \in Seq(Versions)
        /\ record[u].at \in Nat /\ \A i \in 1..n : log[u][i].at \in Nat
    BY Parts DEF IInv
  <1>2. /\ n > 0 /\ log[u][n] = Latest(record[u])
        /\ k = IF n - 1 <= HistoryCap THEN n - 1 ELSE HistoryCap
        /\ \A i \in 1..k : hist[i] = log[u][n - 1 - k + i]
        /\ \A i, j \in 1..n : i < j => log[u][i].at < log[u][j].at
    BY DEF IInv, HistoryTail
  <1>3. ~(log[u][n].at <= t)
    BY <1>1, <1>2 DEF Latest
  <1> HIDE DEF n, k, hist
  <1>4. k <= n - 1 /\ \A i \in 1..k : n - 1 - k + i \in 1..(n - 1)
    <2>1. HistoryCap \in Nat
      BY StalenessAssumption
    <2>2. n \in Int /\ k \in Int
      BY <1>1
    <2>3. k <= n - 1
      BY <1>1, <1>2, <2>1
    <2>4. ASSUME NEW i \in 1..k
          PROVE  n - 1 - k + i \in 1..(n - 1)
      BY <2>2, <2>3
    <2> QED
      BY <2>3, <2>4
  <1>5. CASE before = {}
    <2>1. NewestAt(hist, t) = Gone
      BY <1>1, <1>5, NewestAtIs DEF k, hist
    <2>2. CASE k = n - 1
      <3>1. ASSUME NEW i \in 1..n
            PROVE  ~(log[u][i].at <= t)
        <4>1. CASE i = n
          BY <1>3, <4>1
        <4>2. CASE i # n
          <5>1. i \in 1..k /\ n - 1 - k + i = i
            BY <1>1, <2>2, <4>2
          <5>2. hist[i] = log[u][i]
            BY <1>2, <5>1
          <5> QED
            BY <1>5, <5>1, <5>2
        <4> QED
          BY <4>1, <4>2
      <3>2. NewestAt(log[u], t) = Gone
        BY <1>1, <3>1, NewestAtIs DEF n
      <3> QED
        BY <2>1, <3>2 DEF hist
    <2>3. CASE k # n - 1
      <3>1. n > HistoryCap + 1
        BY <1>1, <1>2, <2>3, StalenessAssumption
      <3> QED
        BY <2>1, <3>1 DEF hist, n
    <2> QED
      BY <2>2, <2>3
  <1>6. CASE before # {}
    <2>1. PICK i \in before : \A j \in before : j <= i
      <3>1. before \in SUBSET (1..k)
        OBVIOUS
      <3> HIDE DEF before
      <3> QED
        BY <1>1, <1>6, <3>1, Largest
    <2> DEFINE m == n - 1 - k + i
    <2>2. i \in 1..k /\ hist[i].at <= t /\ \A j \in 1..k : hist[j].at <= t => j <= i
      BY <2>1
    <2>3. m \in 1..n /\ log[u][m] = hist[i] /\ m \in Nat
      <3>1. m \in 1..(n - 1) /\ hist[i] = log[u][m]
        BY <1>2, <1>4, <2>2
      <3>2. 1..(n - 1) \subseteq 1..n /\ 1..n \subseteq Nat
        BY <1>1
      <3> QED
        BY <3>1, <3>2
    <2>4. ASSUME NEW j \in 1..n, log[u][j].at <= t
          PROVE  j <= m
      <3>1. j # n
        BY <1>3, <2>4
      <3>2. CASE j <= n - 1 - k
        BY <1>1, <1>4, <2>2, <3>2
      <3>3. CASE ~(j <= n - 1 - k)
        <4> DEFINE l == j - (n - 1 - k)
        <4>1. l \in 1..k /\ n - 1 - k + l = j
          BY <1>1, <1>4, <3>1, <3>3
        <4>2. hist[l] = log[u][j]
          BY <1>2, <4>1
        <4> HIDE DEF l
        <4>3. l <= i
          BY <2>2, <2>4, <4>1, <4>2
        <4> QED
          BY <1>1, <2>2, <4>1, <4>3
      <3> QED
        BY <3>2, <3>3
    <2> HIDE DEF m
    <2>5. NewestAt(log[u], t) = log[u][m].content
      BY <1>1, <2>2, <2>3, <2>4, NewestAtIs DEF n
    <2>6. NewestAt(hist, t) = hist[i].content
      BY <1>1, <2>2, NewestAtIs DEF k, hist
    <2> QED
      BY <2>3, <2>5, <2>6 DEF hist
  <1> QED
    BY <1>5, <1>6

\* Capping the history loses only what is older than every version it keeps:
\* whatever it answers is what was applied and current at that time.
THEOREM HistoryIsFaithful == Spec => []HistoryFaithful
  <1>1. ASSUME IInv
        PROVE  HistoryFaithful
    <2> SUFFICES ASSUME NEW u \in Units, record[u] # NoFile, NEW t \in 0..now
                 PROVE  LET kept == InEffectAt(record[u], t)
                            full == NewestAt(log[u], t)
                        IN kept = full \/ (kept = Gone /\ Len(log[u]) > HistoryCap + 1)
      BY DEF HistoryFaithful
    <2>1. now \in Nat /\ t \in Nat /\ record[u].at \in Nat
      BY <1>1, Parts, TimesAreNat DEF IInv, TypeOK
    <2>2. CASE record[u].at <= t
      BY <1>1, <2>1, <2>2, LogIsCurrent DEF InEffectAt
    <2>3. CASE record[u].at > t
      <3>1. ~(record[u].at <= t)
        BY <2>1, <2>3
      <3> QED
        BY <1>1, <2>1, <2>3, <3>1, HistoryAnswers DEF InEffectAt
    <2> QED
      BY <2>1, <2>2, <2>3
  <1> QED
    BY <1>1, Invariance, PTL

\* What diff --stale presents as the running config of a unit that was in order
\* when its start began is the definition its process was started from, unless a
\* version came between that and the second of its activation.
THEOREM DiffIsOfRunning == Spec => []DiffShowsRunning
  <1>1. ASSUME IInv
        PROVE  DiffShowsRunning
    <2> SUFFICES ASSUME NEW u \in Units, Up(u), record[u] # NoFile, running[u].sound,
                        \A i \in DOMAIN log[u] :
                          (log[u][i].at <= Since(u)) <=> (log[u][i].at <= running[u].began)
                 PROVE  InEffectAt(record[u], Since(u)) \in {Gone, running[u].def}
      BY DEF DiffShowsRunning
    <2> DEFINE t == Since(u)
               n == Len(log[u])
    <2>0. TypeOK /\ HistoryTail(u) /\ running[u] # Stopped
      BY <1>1 DEF IInv, Up
    <2>1. /\ t \in Nat /\ running[u].began \in Nat
          /\ record[u].at \in Nat /\ n \in Nat /\ log[u] \in Seq(Versions)
          /\ \A i \in 1..n : log[u][i].at \in Nat
      BY <2>0, Parts, SinceIs
    <2>4. \A i \in 1..n : (log[u][i].at <= t) <=> (log[u][i].at <= running[u].began)
      <3>1. DOMAIN log[u] = 1..n
        BY <2>1
      <3> QED
        BY <3>1
    <2>5. n \in 1..n /\ log[u][n].at = record[u].at
      BY <2>0, <2>1 DEF HistoryTail, Latest
    <2> HIDE DEF t, n
    <2>2. CASE record[u].at <= t
      <3>1. record[u].at <= running[u].began
        BY <2>2, <2>4, <2>5
      <3>2. running[u].def = record[u].content
        BY <1>1, <2>0, <3>1, NewestIsRunning
      <3> QED
        BY <2>2, <3>2 DEF InEffectAt, t
    <2>3. CASE record[u].at > t
      <3>1. InEffectAt(record[u], t) = NewestAt(record[u].history, t)
        BY <2>1, <2>3 DEF InEffectAt
      <3>2. \/ NewestAt(record[u].history, t) = NewestAt(log[u], t)
            \/ NewestAt(record[u].history, t) = Gone
        BY <1>1, <2>1, <2>3, HistoryAnswers
      <3>3. NewestAt(log[u], t) \in {Gone, running[u].def}
        <4> DEFINE before == {i \in 1..n : log[u][i].at <= t}
        <4>1. CASE before = {}
          BY <2>1, <4>1, NewestAtIs DEF n
        <4>2. CASE before # {}
          <5>1. PICK i \in before : \A j \in before : j <= i
            <6>1. before \in SUBSET (1..n)
              OBVIOUS
            <6> HIDE DEF before
            <6> QED
              BY <2>1, <4>2, <6>1, Largest
          <5>2. i \in 1..n /\ log[u][i].at <= t /\ \A j \in 1..n : log[u][j].at <= t => j <= i
            BY <5>1
          <5>3. NewestAt(log[u], t) = log[u][i].content
            BY <2>1, <5>2, NewestAtIs DEF n
          <5>4. \A j \in 1..n : log[u][j].at <= running[u].began => j <= i
            BY <2>4, <5>2
          <5>5. log[u][i].at <= running[u].began
            BY <2>4, <5>2
          <5>6. log[u][i].content = running[u].def
            BY <1>1, <2>0, <5>2, <5>4, <5>5 DEF IInv, StartedFrom, n
          <5> QED
            BY <5>3, <5>6
        <4> QED
          BY <4>1, <4>2
      <3> QED
        BY <3>1, <3>2, <3>3 DEF t
    <2> QED
      BY <2>1, <2>2, <2>3
  <1> QED
    BY <1>1, Invariance, PTL

-----------------------------------------------------------------------------
(* What status concludes.                                                   *)

\* The row of a unit depends on what was read about that unit alone, on what
\* could be read at all, and on systemd.
LEMMA RowIsLocal ==
  ASSUME NEW in, NEW other, NEW u,
         in.desired[u] = other.desired[u], in.recorded[u] = other.recorded[u],
         in.disk[u] = other.disk[u], in.evaluates = other.evaluates,
         in.exists = other.exists, in.runtime = other.runtime,
         u \in Shown(in), u \in Shown(other)
  PROVE  ClassifyRows(in)[u] = ClassifyRows(other)[u]
  <1>1. DiskWord(in, u) = DiskWord(other, u)
    BY DEF DiskWord, DesiredWord, OtherWord, Differs
  <1>2. LoadedWord(in, u) = LoadedWord(other, u)
    BY DEF LoadedWord, Known
  <1>3. ShowsStale(in, u) = ShowsStale(other, u)
    BY <1>2 DEF ShowsStale
  <1>4. Owner(in, u) = Owner(other, u)
    BY DEF Owner
  <1>5. RuntimeWord(in, u) = RuntimeWord(other, u)
    BY <1>2 DEF RuntimeWord
  <1> QED
    BY <1>1, <1>2, <1>3, <1>4, <1>5 DEF ClassifyRows

\* What the words of a row say of a file that the project has, when all is well.
LEMMA CleanRow ==
  ASSUME StatusClean(Gathered(TRUE, TRUE)), NEW u \in Units,
         desired[u] # Gone, record[u] # NoFile
  PROVE  /\ record[u].content = desired[u].content /\ ~Stale(u)
         /\ running[u] # Stopped => Up(u)
  <1> DEFINE in == Gathered(TRUE, TRUE)
             row == ClassifyRows(in)[u]
  <1>1. /\ in.desired[u] = desired[u] /\ in.recorded[u] = record[u] /\ in.disk[u] = disk[u]
        /\ in.evaluates = TRUE /\ in.runtime = TRUE
    BY DEF Gathered
  <1>2. u \in Shown(in)
    BY <1>1 DEF Shown
  <1>3. /\ row.disk = DiskWord(in, u) /\ row.loaded = LoadedWord(in, u)
        /\ row.stale = ShowsStale(in, u) /\ row.runtime = RuntimeWord(in, u)
    BY <1>2 DEF ClassifyRows
  <1>4. ~RowIsProblem(row)
    BY <1>2 DEF StatusClean
  <1>5. row.disk \in {"synced", "applied"} /\ ~row.stale
        /\ row.loaded \notin {"reload needed", "not loaded"} /\ row.runtime # "activating"
    BY <1>4 DEF RowIsProblem
  <1> HIDE DEF in, row
  <1>6. record[u].content = disk[u] /\ disk[u] = desired[u].content
    <2>1. DesiredWord(in, u) \in {"synced", "applied"}
      BY <1>1, <1>3, <1>5 DEF DiskWord
    <2>2. disk[u] # Gone
      BY <1>1, <2>1 DEF DesiredWord
    <2>3. ~Differs(in, u)
      BY <1>1, <2>1, <2>2 DEF DesiredWord
    <2>4. disk[u] = desired[u].content
      BY <1>1, <2>1, <2>2, <2>3 DEF DesiredWord
    <2> QED
      BY <1>1, <2>3, <2>4 DEF Differs
  <1>7. LoadedWord(in, u) = "ok"
    BY <1>1, <1>3, <1>5 DEF LoadedWord, Known
  <1>8. ~Stale(u)
    BY <1>1, <1>3, <1>5, <1>7 DEF ShowsStale
  <1>9. ASSUME running[u] # Stopped
        PROVE  Up(u)
    <2>1. RuntimeWord(in, u) = running[u].phase
      BY <1>7, <1>9 DEF RuntimeWord
    <2> QED
      BY <1>3, <1>5, <1>9, <2>1 DEF Up
  <1> QED
    BY <1>6, <1>8, <1>9

\* When status --check passes, every recorded unit whose start began in order runs
\* what the project renders now, unless its record is of the time it was starting
\* (StatusClean, classifyRows).
THEOREM CleanIsCurrent == Spec => []CleanMeansCurrent
  <1>1. ASSUME StaleComplete
        PROVE  CleanMeansCurrent
    <2> SUFFICES ASSUME StatusClean(Gathered(TRUE, TRUE)), NEW u \in Units,
                        running[u] # Stopped, running[u].sound,
                        desired[u] # Gone, record[u] # NoFile
                 PROVE  running[u].def = desired[u].content \/ AppliedMeanwhile(u)
      BY DEF CleanMeansCurrent
    <2>1. record[u].content = desired[u].content /\ ~Stale(u) /\ Up(u)
      BY CleanRow
    <2> QED
      BY <1>1, <2>1 DEF StaleComplete
  <1> QED
    BY <1>1, StaleIsComplete, PTL

\* Naming a file's quadlet on the command line takes nothing that its row depends
\* on away, whichever layers could be read (filterStatusInput).
LEMMA FilterSpares ==
  ASSUME TypeOK, NEW evaluates \in BOOLEAN, NEW runtime \in BOOLEAN, NEW u \in Units,
         NEW q \in KnownQuadlets(Gathered(evaluates, runtime)),
         u \in Shown(Gathered(evaluates, runtime)),
         Owner(Gathered(evaluates, runtime), u) = q,
         LET in == Gathered(evaluates, runtime) IN
           \/ in.desired[u] = Gone \/ in.recorded[u] = NoFile
           \/ in.desired[u].quadlet = in.recorded[u].quadlet
  PROVE  LET in   == Gathered(evaluates, runtime)
             some == View(in, {q})
         IN /\ some.desired[u] = in.desired[u] /\ some.recorded[u] = in.recorded[u]
            /\ some.disk[u] = in.disk[u] /\ some.evaluates = in.evaluates
            /\ some.exists = in.exists /\ some.runtime = in.runtime
  <1> DEFINE in   == Gathered(evaluates, runtime)
             some == FilterStatusInput(in, {q})
             wanted(v) == IF in.desired[v] = Gone \/ in.desired[v].quadlet \notin {q} THEN Gone
                          ELSE in.desired[v]
             kept(v) == IF in.recorded[v] = NoFile \/ in.recorded[v].quadlet \notin {q}
                        THEN NoFile ELSE in.recorded[v]
  <1>1. View(in, {q}) = some
    BY DEF View, Everything
  <1>2. in = [evaluates |-> evaluates,
              desired |-> [v \in Units |-> IF evaluates THEN desired[v] ELSE Gone],
              exists |-> \E v \in Units : record[v] # NoFile, recorded |-> record,
              disk |-> disk, runtime |-> runtime]
    BY DEF Gathered
  <1>3. /\ some.desired[u] = wanted(u) /\ some.recorded[u] = kept(u)
        /\ some.disk[u] = IF wanted(u) = Gone /\ kept(u) = NoFile THEN Gone ELSE in.disk[u]
        /\ some.evaluates = in.evaluates /\ some.exists = in.exists
        /\ some.runtime = in.runtime
    BY <1>2 DEF FilterStatusInput, TypeOK
  <1>4. q # Gone
    <2>1. q \in Quadlets
      <3>1. CASE \E v \in Units : in.desired[v] # Gone /\ q = in.desired[v].quadlet
        <4>1. PICK v \in Units : in.desired[v] # Gone /\ q = in.desired[v].quadlet
          BY <3>1
        <4>2. in.desired[v] = desired[v] /\ desired[v] \in Wanted
          BY <1>2, <4>1 DEF TypeOK
        <4> QED
          BY <4>1, <4>2 DEF Wanted
      <3>2. CASE \E v \in Units : in.recorded[v] # NoFile /\ q = in.recorded[v].quadlet
        <4>1. PICK v \in Units : in.recorded[v] # NoFile /\ q = in.recorded[v].quadlet
          BY <3>2
        <4>2. in.recorded[v] = record[v] /\ record[v] \in Files
          BY <1>2, <4>1 DEF TypeOK
        <4> QED
          BY <4>1, <4>2 DEF Files
      <3> QED
        BY <3>1, <3>2 DEF KnownQuadlets
    <2> QED
      BY <2>1, StalenessAssumption
  <1>5. CASE in.desired[u] # Gone
    <2>1. wanted(u) = in.desired[u] /\ in.desired[u].quadlet = q
      BY <1>5 DEF Owner
    <2>2. kept(u) = in.recorded[u]
      BY <1>5, <2>1
    <2> QED
      BY <1>1, <1>3, <1>5, <2>1, <2>2
  <1>6. CASE in.desired[u] = Gone
    <2>1. in.recorded[u] # NoFile /\ in.recorded[u].quadlet = q
      BY <1>4, <1>6 DEF Owner
    <2>2. kept(u) = in.recorded[u] /\ wanted(u) = Gone
      BY <1>6, <2>1
    <2> QED
      BY <1>1, <1>3, <1>6, <2>1, <2>2
  <1> QED
    BY <1>5, <1>6

\* A file that is not recorded for one quadlet and rendered by another has the
\* same row whether its quadlet is named on the command line or not, in every state
\* that apply, edits, tampering and losses lead to.
THEOREM FilterIsFaithful == Spec => []FilterAgrees
  <1>1. ASSUME TypeOK
        PROVE  FilterAgrees
    <2> SUFFICES ASSUME NEW evaluates \in BOOLEAN, NEW runtime \in BOOLEAN,
                        NEW q \in KnownQuadlets(Gathered(evaluates, runtime)),
                        NEW u \in Shown(Gathered(evaluates, runtime)),
                        LET in == Gathered(evaluates, runtime) IN
                          /\ \/ in.desired[u] = Gone \/ in.recorded[u] = NoFile
                             \/ in.desired[u].quadlet = in.recorded[u].quadlet
                          /\ Owner(in, u) = q
                 PROVE  LET in == Gathered(evaluates, runtime) IN
                        /\ u \in Shown(View(in, {q}))
                        /\ ClassifyRows(View(in, {q}))[u] = ClassifyRows(in)[u]
      BY DEF FilterAgrees, ClassifyRows
    <2> DEFINE in   == Gathered(evaluates, runtime)
               some == View(in, {q})
    <2>1. u \in Units
      BY DEF Shown
    <2>2. /\ some.desired[u] = in.desired[u] /\ some.recorded[u] = in.recorded[u]
          /\ some.disk[u] = in.disk[u] /\ some.evaluates = in.evaluates
          /\ some.exists = in.exists /\ some.runtime = in.runtime
      BY <1>1, <2>1, FilterSpares
    <2> HIDE DEF in, some
    <2>3. u \in Shown(in)
      BY DEF in
    <2>4. u \in Shown(some)
      BY <2>1, <2>2, <2>3 DEF Shown
    <2> QED
      BY <2>2, <2>3, <2>4, RowIsLocal DEF in, some
  <1> QED
    BY <1>1, TypeCorrect, PTL
=============================================================================
