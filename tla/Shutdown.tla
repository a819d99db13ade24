------------------------------- MODULE Shutdown -------------------------------
(***************************************************************************)
(* The shutdown manager (internal/shutdown): hooks are registered in the   *)
(* order of their priorities; Shutdown copies the list and goes through    *)
(* it, running each hook in a goroutine and waiting for it or for its      *)
(* timeout.                                                                *)
(*                                                                         *)
(* The goroutine reads the loop variable "hook" when it starts, not when   *)
(* it is made: the module's go directive is 1.21, so the loop has one      *)
(* variable for all its turns.  A goroutine whose turn is over before it   *)
(* starts (once the manager's own timeout has passed, the hook's context   *)
(* is done from the beginning) runs the hook of a later turn.              *)
(***************************************************************************)
EXTENDS Integers, Sequences, SequencesExt

CONSTANTS Hooks,
          Priorities

ASSUME PrioritiesAreInts == Priorities \subseteq Int

VARIABLES hooks,       \* Manager.hooks
          priority,    \* hook -> its Priority, once it is registered
          registered,  \* auxiliary: the hooks in the order of their registration
          phase,       \* "open", "run" (close(m.shutdown) done), "done" or "crashed"
          plan,        \* Shutdown's copy of the hooks
          turn,        \* the loop's turn: 0 before the first, hook = plan[turn]
          waiting,     \* is the loop in its select?
          outcome,     \* turn -> how the select ended
          goroutine,   \* turn -> control state of the goroutine it made
          calls,       \* turn -> the position in plan of the hook it calls
          listener,    \* control state of ListenAndWait
          direct       \* has Shutdown been called other than by ListenAndWait?

callVars == <<listener, direct>>
shutdownVars == <<hooks, priority, registered, phase, plan, turn, waiting,
                  outcome, goroutine, calls, callVars>>

Turns == 1 .. Len(plan)

ShutdownInit ==
    /\ hooks = <<>>
    /\ priority = [h \in Hooks |-> 0]
    /\ registered = <<>>
    /\ phase = "open"
    /\ plan = <<>>
    /\ turn = 0
    /\ waiting = FALSE
    /\ outcome = <<>>
    /\ goroutine = <<>>
    /\ calls = <<>>
    /\ listener = "listening"
    /\ direct = FALSE

\* Fault: a hook goes before those of its own priority.
RegisterHookFirst(h, p) ==
    /\ phase # "crashed"
    /\ h \notin ToSet(registered)
    /\ registered' = Append(registered, h)
    /\ priority' = [priority EXCEPT ![h] = p]
    /\ LET later == {i \in 1 .. Len(hooks) : p <= priority[hooks[i]]}
       IN  hooks' = IF later = {} THEN Append(hooks, h)
                    ELSE InsertAt(hooks, Min(later), h)
    /\ UNCHANGED <<phase, plan, turn, waiting, outcome, goroutine, calls, callVars>>

\* RegisterHook: before the first hook with a greater priority, or at the end.
\* It may also be called while Shutdown is at work on its copy.
RegisterHook(h, p) ==
    /\ phase # "crashed"
    /\ h \notin ToSet(registered)
    /\ registered' = Append(registered, h)
    /\ priority' = [priority EXCEPT ![h] = p]
    /\ LET later == {i \in 1 .. Len(hooks) : p < priority[hooks[i]]}
       IN  hooks' = IF later = {} THEN Append(hooks, h)
                    ELSE InsertAt(hooks, Min(later), h)
    /\ UNCHANGED <<phase, plan, turn, waiting, outcome, goroutine, calls, callVars>>

\* ListenAndWait receives a signal and marks the process as degraded (Health).
Signal ==
    /\ phase # "crashed"
    /\ listener = "listening"
    /\ listener' = "marked"
    /\ UNCHANGED <<hooks, priority, registered, phase, plan, turn, waiting, outcome,
                   goroutine, calls, direct>>

\* Shutdown is called by ListenAndWait, or by somebody else.
Caller ==
    \/ listener = "marked" /\ listener' = "waiting" /\ UNCHANGED direct
    \/ ~direct /\ direct' = TRUE /\ UNCHANGED listener

\* The first call closes the channel and copies the hooks.
ShutdownBegin ==
    /\ phase = "open"
    /\ Caller
    /\ phase' = "run"
    /\ plan' = hooks
    /\ outcome' = [i \in 1 .. Len(hooks) |-> "none"]
    /\ goroutine' = [i \in 1 .. Len(hooks) |-> "none"]
    /\ calls' = [i \in 1 .. Len(hooks) |-> 0]
    /\ UNCHANGED <<hooks, priority, registered, turn, waiting>>

\* Fault: a call that finds the channel closed skips the hooks and closes m.done.
ShutdownAgainIgnored ==
    /\ phase \in {"run", "done"}
    /\ Caller
    /\ phase' = "done"
    /\ UNCHANGED <<hooks, priority, registered, plan, turn, waiting, outcome,
                   goroutine, calls>>

\* A second call closes a closed channel, which panics: the process is gone.
ShutdownAgain ==
    /\ phase \in {"run", "done"}
    /\ Caller
    /\ phase' = "crashed"
    /\ UNCHANGED <<hooks, priority, registered, plan, turn, waiting, outcome,
                   goroutine, calls>>

\* Fault: the loop goes on after the last hook.
NextTurnPastEnd ==
    /\ phase = "run"
    /\ ~waiting
    /\ turn <= Len(plan)
    /\ turn' = turn + 1
    /\ waiting' = TRUE
    /\ goroutine' = [goroutine EXCEPT ![turn + 1] = "ready"]
    /\ UNCHANGED <<hooks, priority, registered, phase, plan, outcome, calls, callVars>>

\* The next turn of the loop makes a goroutine.
NextTurn ==
    /\ phase = "run"
    /\ ~waiting
    /\ turn < Len(plan)
    /\ turn' = turn + 1
    /\ waiting' = TRUE
    /\ goroutine' = [goroutine EXCEPT ![turn + 1] = "ready"]
    /\ UNCHANGED <<hooks, priority, registered, phase, plan, outcome, calls, callVars>>

\* The goroutine calls hook.Func, whichever hook that is by now.
HookStart(i) ==
    /\ phase # "crashed"
    /\ goroutine[i] = "ready"
    /\ goroutine' = [goroutine EXCEPT ![i] = "running"]
    /\ calls' = [calls EXCEPT ![i] = turn]
    /\ UNCHANGED <<hooks, priority, registered, phase, plan, turn, waiting, outcome, callVars>>

\* hook.Func returns; its error waits in the turn's channel.
HookReturn(i) ==
    /\ phase # "crashed"
    /\ goroutine[i] = "running"
    /\ \E result \in {"ok", "error"} :
          goroutine' = [goroutine EXCEPT ![i] = result]
    /\ UNCHANGED <<hooks, priority, registered, phase, plan, turn, waiting,
                   outcome, calls, callVars>>

\* Fault: one channel for all turns, so a late result counts for the current one.
TurnDoneShared ==
    /\ phase = "run"
    /\ waiting
    /\ \E i \in Turns :
          /\ goroutine[i] \in {"ok", "error"}
          /\ outcome' = [outcome EXCEPT ![turn] = goroutine[i]]
    /\ waiting' = FALSE
    /\ UNCHANGED <<hooks, priority, registered, phase, plan, turn, goroutine, calls, callVars>>

\* The two cases of the select.
TurnDone ==
    /\ phase = "run"
    /\ waiting
    /\ goroutine[turn] \in {"ok", "error"}
    /\ outcome' = [outcome EXCEPT ![turn] = goroutine[turn]]
    /\ waiting' = FALSE
    /\ UNCHANGED <<hooks, priority, registered, phase, plan, turn, goroutine, calls, callVars>>

\* Fault: the select has no case for the hook's context.
TurnNoTimeout ==
    /\ phase = "run"
    /\ waiting
    /\ goroutine[turn] = "error"
    /\ outcome' = [outcome EXCEPT ![turn] = "timeout"]
    /\ waiting' = FALSE
    /\ UNCHANGED <<hooks, priority, registered, phase, plan, turn, goroutine, calls, callVars>>

TurnTimeout ==
    /\ phase = "run"
    /\ waiting
    /\ outcome' = [outcome EXCEPT ![turn] = "timeout"]
    /\ waiting' = FALSE
    /\ UNCHANGED <<hooks, priority, registered, phase, plan, turn, goroutine, calls, callVars>>

\* close(m.done)
ShutdownEnd ==
    /\ phase = "run"
    /\ ~waiting
    /\ turn = Len(plan)
    /\ phase' = "done"
    /\ UNCHANGED <<hooks, priority, registered, plan, turn, waiting, outcome,
                   goroutine, calls, callVars>>

\* <-m.done in ListenAndWait
ListenReturn ==
    /\ phase = "done"
    /\ listener = "waiting"
    /\ listener' = "returned"
    /\ UNCHANGED <<hooks, priority, registered, phase, plan, turn, waiting, outcome,
                   goroutine, calls, direct>>

GoroutineNext == \E i \in Turns : HookStart(i) \/ HookReturn(i)

LoopNext == NextTurn \/ TurnDone \/ TurnTimeout \/ ShutdownEnd

ShutdownNext ==
    \/ \E h \in Hooks, p \in Priorities : RegisterHook(h, p)
    \/ Signal
    \/ ShutdownBegin
    \/ ShutdownAgain
    \/ ListenReturn
    \/ LoopNext
    \/ GoroutineNext

ShutdownSpec == ShutdownInit /\ [][ShutdownNext]_shutdownVars

\* The loop runs and timeouts fire; a hook need not return.
FairShutdownSpec == ShutdownSpec /\ WF_shutdownVars(LoopNext \/ ListenReturn)

-----------------------------------------------------------------------------
(* Properties *)

\* Type correctness of the manager and of Shutdown's local state.
ShutdownTypeOK ==
    /\ hooks \in Seq(Hooks) /\ registered \in Seq(Hooks) /\ plan \in Seq(Hooks)
    /\ priority \in [Hooks -> Priorities \cup {0}]
    /\ phase \in {"open", "run", "done", "crashed"}
    /\ turn \in 0 .. Len(plan)
    /\ waiting \in BOOLEAN
    /\ outcome \in [Turns -> {"none", "ok", "error", "timeout"}]
    /\ goroutine \in [Turns -> {"none", "ready", "running", "ok", "error"}]
    /\ calls \in [Turns -> 0 .. Len(plan)]
    /\ listener \in {"listening", "marked", "waiting", "returned"}
    /\ direct \in BOOLEAN

\* The order hooks are promised: by priority, and hooks of the same priority in the
\* order they were registered.
Ahead(g, h) ==
    \/ priority[g] < priority[h]
    \/ /\ priority[g] = priority[h]
       /\ \E k, l \in 1 .. Len(registered) :
             k < l /\ registered[k] = g /\ registered[l] = h

\* No hook is called, by its own goroutine or by a belated one, before the turns of
\* all hooks ahead of it are over, however RegisterHook was called before and
\* whatever it inserts while Shutdown is at work on its copy.
PriorityOrderKept ==
    \A i \in Turns : calls[i] # 0 =>
        \A k \in Turns : Ahead(plan[k], plan[calls[i]]) => outcome[k] # "none"

\* A turn that is logged as completed or failed is one whose own hook returned:
\* what a goroutine reports after its turn has timed out is not taken for the
\* result of another hook.
OutcomeIsOwn ==
    \A i \in Turns :
        outcome[i] \in {"ok", "error"} => calls[i] = i /\ goroutine[i] = outcome[i]

\* ListenAndWait returns only when every hook of Shutdown's list has had its turn
\* to the end; what it leaves running is a hook that timed out, or a goroutine that
\* had not started by then.
ReturnedIsOver ==
    listener = "returned" => \A i \in Turns :
        /\ outcome[i] # "none"
        /\ goroutine[i] \in {"ready", "running"} => outcome[i] = "timeout"

\* Shutdown, once begun, ends and ListenAndWait, if it is the caller, returns although
\* hooks hang, unless a second call of Shutdown makes the process panic.
ShutdownCompletes ==
    phase = "run" \/ listener = "waiting"
      ~> phase = "crashed" \/ (phase = "done" /\ listener # "waiting")
=============================================================================
