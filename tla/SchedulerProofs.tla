--------------------------- MODULE SchedulerProofs ---------------------------
(***************************************************************************)
(* Type correctness of the scheduler, for every set of tasks and all       *)
(* intervals, delays and bounds.                                           *)
(***************************************************************************)
EXTENDS Scheduler, TLAPS

\* A tick that the loop has not looked at leaves room for one more run of every
\* task: Tick waits for that, and until CheckAndRunTasks runs only end.
RoomForRuns == ticked => \A o \in Objects : runs[o] < MaxRuns

SchedInductive == SchedTypeOK /\ RoomForRuns

\* The table, the objects and the loop are empty and idle at first.
LEMMA InitSched == SchedInit => SchedInductive
  <1> SUFFICES ASSUME SchedInit PROVE SchedInductive
    OBVIOUS
  <1>1. /\ enabled \in [Objects -> BOOLEAN]
        /\ ticked \in BOOLEAN /\ running \in BOOLEAN
        /\ cancelled \in BOOLEAN /\ loop \in BOOLEAN
    BY Zenon DEF SchedInit
  <1>2. /\ tasks \in [TaskIDs -> Objects \cup {NoTask}]
        /\ due \in [Objects -> LongPast .. (IF Interval > RetryDelay THEN Interval
                                           ELSE RetryDelay)]
        /\ retryCount \in [Objects -> 0 .. MaxRetries]
        /\ runs \in [Objects -> 0 .. MaxRuns]
    BY SchedulerAssumption DEF SchedInit, LongPast
  <1>3. RoomForRuns
    BY DEF SchedInit, RoomForRuns
  <1> QED
    BY <1>1, <1>2, <1>3 DEF SchedInductive, SchedTypeOK

\* AddTask, RemoveTask, EnableTask and DisableTask.
LEMMA TablePreserves ==
  ASSUME SchedInductive, TableNext
  PROVE  SchedInductive'
  <1> USE SchedulerAssumption
      DEF SchedInductive, SchedTypeOK, RoomForRuns, LongPast, objectVars,
          loopVars
  <1>1. ASSUME NEW i \in TaskIDs, NEW o \in Objects, AddTask(i, o)
        PROVE  SchedInductive'
    BY <1>1 DEF AddTask
  <1>2. ASSUME NEW i \in TaskIDs, RemoveTask(i)
        PROVE  SchedInductive'
    BY <1>2 DEF RemoveTask
  <1>3. ASSUME NEW i \in TaskIDs, NEW value \in BOOLEAN, SetEnabled(i, value)
        PROVE  SchedInductive'
    BY <1>3 DEF SetEnabled
  <1> QED
    BY <1>1, <1>2, <1>3 DEF TableNext

\* Start, Stop, the ticker and checkAndRunTasks.
LEMMA LoopPreserves ==
  ASSUME SchedInductive, Start \/ Stop \/ LoopEnd \/ Tick \/ CheckAndRunTasks
  PROVE  SchedInductive'
  <1> USE SchedulerAssumption
      DEF SchedInductive, SchedTypeOK, RoomForRuns, LongPast, objectVars
  <1>1. CASE Start \/ Stop \/ LoopEnd
    <2>1. /\ ticked' \in BOOLEAN /\ running' \in BOOLEAN
          /\ cancelled' \in BOOLEAN /\ loop' \in BOOLEAN
      BY <1>1, Zenon DEF Start, Stop, LoopEnd
    <2>2. UNCHANGED <<tasks, due, enabled, retryCount, runs>> /\ (ticked' => ticked)
      BY <1>1 DEF Start, Stop, LoopEnd
    <2> QED
      BY <2>1, <2>2
  <1>2. CASE Tick
    <2>1. ticked' \in BOOLEAN
      BY <1>2, Zenon DEF Tick
    <2>2. due' \in [Objects -> LongPast .. (IF Interval > RetryDelay THEN Interval
                                           ELSE RetryDelay)]
      BY <1>2 DEF Tick
    <2>3. RoomForRuns'
      BY <1>2 DEF Tick
    <2> QED
      BY <1>2, <2>1, <2>2, <2>3 DEF Tick
  <1>3. CASE CheckAndRunTasks
    <2>1. ticked' \in BOOLEAN
      BY <1>3, Zenon DEF CheckAndRunTasks
    <2>2. runs' \in [Objects -> 0 .. MaxRuns]
      BY <1>3 DEF CheckAndRunTasks, Due
    <2> QED
      BY <1>3, <2>1, <2>2 DEF CheckAndRunTasks
  <1> QED
    BY <1>1, <1>2, <1>3

\* A run reports success or failure.
LEMMA RunPreserves ==
  ASSUME SchedInductive, NEW o \in Objects, RunNext(o)
  PROVE  SchedInductive'
  <1> USE SchedulerAssumption
      DEF SchedInductive, SchedTypeOK, RoomForRuns, LongPast, loopVars
  <1>1. CASE RunSucceeds(o)
    BY <1>1 DEF RunSucceeds
  <1>2. CASE RunFails(o)
    BY <1>2 DEF RunFails
  <1> QED
    BY <1>1, <1>2 DEF RunNext

\* The two facts hold in every reachable state.
LEMMA SchedInductiveHolds == SchedSpec => []SchedInductive
  <1>1. SchedInductive /\ [SchedNext]_schedVars => SchedInductive'
    <2> SUFFICES ASSUME SchedInductive, [SchedNext]_schedVars PROVE SchedInductive'
      OBVIOUS
    <2>1. CASE SchedNext
      BY <2>1, TablePreserves, LoopPreserves, RunPreserves DEF SchedNext
    <2>2. CASE UNCHANGED schedVars
      BY <2>2 DEF schedVars, objectVars, loopVars, SchedInductive, SchedTypeOK,
                  RoomForRuns
    <2> QED
      BY <2>1, <2>2
  <1> QED
    BY <1>1, InitSched, PTL DEF SchedSpec

\* Every reachable state of the scheduler is well typed: no delay is longer than the
\* longer of the two there are, no task has more than MaxRetries retries behind it,
\* and none has more runs than the bound.
THEOREM SchedTypeCorrect == SchedSpec => []SchedTypeOK
  BY SchedInductiveHolds, PTL DEF SchedInductive
=============================================================================
