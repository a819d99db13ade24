------------------------------ MODULE Scheduler ------------------------------
(***************************************************************************)
(* The backup scheduler (internal/scheduler): the task table, the loop     *)
(* that looks at it once a minute, and the goroutines that run the backups *)
(* outside the lock and report back under it.                              *)
(*                                                                         *)
(* A task is a heap object: RemoveTask takes it out of the table while a   *)
(* run may still hold a pointer to it, and AddTask under the same ID makes *)
(* another one.  Time is counted in minutes and relative to now, so no     *)
(* clock has to be bounded: due[o] is NextRun - now, down to "long past".  *)
(* Runs of the same object differ in nothing but how they end, so they are *)
(* counted.                                                                *)
(***************************************************************************)
EXTENDS Integers

CONSTANTS TaskIDs,
          Objects,     \* BackupTask objects; one that nothing refers to is reused
          Interval,    \* the tasks' interval
          RetryDelay,  \* the five minutes until a retry
          MaxRetries,  \* the tasks' MaxRetries
          MaxRuns,     \* bound on the unfinished runs of one object
          NoTask

ASSUME SchedulerAssumption == /\ Interval \in Nat \ {0}
                              /\ RetryDelay \in Nat \ {0}
                              /\ MaxRetries \in Nat
                              /\ MaxRuns \in Nat \ {0}
                              /\ NoTask \notin Objects

VARIABLES tasks,       \* ID -> object, or NoTask
          due,         \* object -> minutes until NextRun
          enabled,     \* object -> Enabled
          retryCount,  \* object -> RetryCount
          runs,        \* object -> number of runTask goroutines on it
          ticked,      \* has the ticker fired and the loop not looked yet?
          running,     \* Scheduler.running
          cancelled,   \* has ctx been cancelled?
          loop         \* is the loop alive?

objectVars == <<due, enabled, retryCount, runs>>
loopVars == <<ticked, running, cancelled, loop>>
schedVars == <<tasks, objectVars, loopVars>>

LongPast == -2

InTable(o) == \E i \in TaskIDs : tasks[i] = o

SchedInit ==
    /\ tasks = [i \in TaskIDs |-> NoTask]
    /\ due = [o \in Objects |-> 0]
    /\ enabled = [o \in Objects |-> FALSE]
    /\ retryCount = [o \in Objects |-> 0]
    /\ runs = [o \in Objects |-> 0]
    /\ ticked = FALSE
    /\ running = FALSE
    /\ cancelled = FALSE
    /\ loop = FALSE

-----------------------------------------------------------------------------
(* The task table *)

AddTask(i, o) ==
    /\ tasks[i] = NoTask
    /\ ~InTable(o) /\ runs[o] = 0
    /\ tasks' = [tasks EXCEPT ![i] = o]
    /\ due' = [due EXCEPT ![o] = Interval]
    /\ enabled' = [enabled EXCEPT ![o] = TRUE]
    /\ retryCount' = [retryCount EXCEPT ![o] = 0]
    /\ UNCHANGED <<runs, loopVars>>

RemoveTask(i) ==
    /\ tasks[i] # NoTask
    /\ tasks' = [tasks EXCEPT ![i] = NoTask]
    /\ UNCHANGED <<objectVars, loopVars>>

\* EnableTask and DisableTask.
SetEnabled(i, value) ==
    /\ tasks[i] # NoTask
    /\ enabled' = [enabled EXCEPT ![tasks[i]] = value]
    /\ UNCHANGED <<tasks, due, retryCount, runs, loopVars>>

-----------------------------------------------------------------------------
(* The loop *)

\* The context is made once, in NewScheduler: a loop started after Stop finds it
\* cancelled and ends.
Start ==
    /\ ~running
    /\ running' = TRUE
    /\ loop' = TRUE
    /\ UNCHANGED <<tasks, objectVars, ticked, cancelled>>

Stop ==
    /\ cancelled' = TRUE
    /\ running' = FALSE
    /\ UNCHANGED <<tasks, objectVars, ticked, loop>>

LoopEnd ==
    /\ loop
    /\ cancelled
    /\ loop' = FALSE
    /\ ticked' = FALSE
    /\ UNCHANGED <<tasks, objectVars, running, cancelled>>

\* A minute passes.  The loop looks at a tick before the next one, and no object
\* has more than MaxRuns unfinished runs.
Tick ==
    /\ ~ticked
    /\ \A o \in Objects : runs[o] < MaxRuns
    /\ ticked' = loop
    /\ due' = [o \in Objects |-> IF due[o] = LongPast THEN LongPast ELSE due[o] - 1]
    /\ UNCHANGED <<tasks, enabled, retryCount, runs, running, cancelled, loop>>

\* Fault: a task is due only in the minute after its NextRun.
DueExactly(o) == InTable(o) /\ enabled[o] /\ due[o] = -1

\* now.After(task.NextRun)
Due(o) == InTable(o) /\ enabled[o] /\ due[o] < 0

\* checkAndRunTasks: NextRun is left as it is until the run reports back.  A tick
\* that is there together with the cancelled context may still be taken.
CheckAndRunTasks ==
    /\ ticked
    /\ ticked' = FALSE
    /\ runs' = [o \in Objects |-> IF Due(o) THEN runs[o] + 1 ELSE runs[o]]
    /\ UNCHANGED <<tasks, due, enabled, retryCount, running, cancelled, loop>>

-----------------------------------------------------------------------------
(* runTask, after backupFunc has returned *)

RunSucceeds(o) ==
    /\ runs[o] > 0
    /\ runs' = [runs EXCEPT ![o] = @ - 1]
    /\ due' = [due EXCEPT ![o] = Interval]
    /\ retryCount' = [retryCount EXCEPT ![o] = 0]
    /\ UNCHANGED <<tasks, enabled, loopVars>>

\* Fault: the retry's delay is added to the interval.
RunFailsLate(o) ==
    /\ runs[o] > 0
    /\ runs' = [runs EXCEPT ![o] = @ - 1]
    /\ due' = [due EXCEPT ![o] = Interval + RetryDelay]
    /\ retryCount' = [retryCount EXCEPT
                        ![o] = IF @ + 1 < MaxRetries THEN @ + 1 ELSE 0]
    /\ UNCHANGED <<tasks, enabled, loopVars>>

RunFails(o) ==
    /\ runs[o] > 0
    /\ runs' = [runs EXCEPT ![o] = @ - 1]
    /\ IF retryCount[o] + 1 < MaxRetries
       THEN /\ due' = [due EXCEPT ![o] = RetryDelay]
            /\ retryCount' = [retryCount EXCEPT ![o] = @ + 1]
       ELSE /\ due' = [due EXCEPT ![o] = Interval]
            /\ retryCount' = [retryCount EXCEPT ![o] = 0]
    /\ UNCHANGED <<tasks, enabled, loopVars>>

-----------------------------------------------------------------------------
TableNext ==
    \/ \E i \in TaskIDs, o \in Objects : AddTask(i, o)
    \/ \E i \in TaskIDs : RemoveTask(i)
    \/ \E i \in TaskIDs, value \in BOOLEAN : SetEnabled(i, value)

RunNext(o) == RunSucceeds(o) \/ RunFails(o)

SchedNext ==
    \/ TableNext
    \/ Start
    \/ Stop
    \/ LoopEnd
    \/ Tick
    \/ CheckAndRunTasks
    \/ \E o \in Objects : RunNext(o)

SchedSpec == SchedInit /\ [][SchedNext]_schedVars

\* Time passes, the loop takes its ticks, and a backup ends in the end.
SchedFairness ==
    /\ WF_schedVars(Tick)
    /\ WF_schedVars(CheckAndRunTasks)
    /\ \A o \in Objects : WF_schedVars(RunNext(o))

FairSchedSpec == SchedSpec /\ SchedFairness

-----------------------------------------------------------------------------
(* Properties *)

\* Type correctness; no delay is longer than the longer of the two there are, and no
\* task has more retries behind it than MaxRetries.
SchedTypeOK ==
    /\ tasks \in [TaskIDs -> Objects \cup {NoTask}]
    /\ due \in [Objects -> LongPast .. (IF Interval > RetryDelay THEN Interval
                                       ELSE RetryDelay)]
    /\ enabled \in [Objects -> BOOLEAN]
    /\ retryCount \in [Objects -> 0 .. MaxRetries]
    /\ runs \in [Objects -> 0 .. MaxRuns]
    /\ ticked \in BOOLEAN /\ running \in BOOLEAN
    /\ cancelled \in BOOLEAN /\ loop \in BOOLEAN

\* A started scheduler gets round to every task: one that is in the table and
\* enabled is run, unless it is disabled or removed or the scheduler is stopped
\* first.
TasksRun ==
    \A o \in Objects :
        InTable(o) /\ enabled[o] /\ loop
          ~> runs[o] > 0 \/ ~InTable(o) \/ ~enabled[o] \/ cancelled
=============================================================================
