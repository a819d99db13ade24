----------------------------- MODULE MCServices -----------------------------
(* Scheduler, Shutdown and RateLimit for TLC.  They share no state, and neither   *)
(* do the two limiters of RateLimit, so each behaviour is one of one of them:     *)
(* part says of which.                                                            *)
EXTENDS Scheduler, Shutdown, RateLimit

VARIABLE part

vars == <<part, schedVars, shutdownVars, limitVars>>

\* Hooks are interchangeable and registered once, so they may be numbered in the
\* order of their registration.
InOrder == \A i \in 1 .. Len(registered) : registered[i] = i

Init ==
    /\ part \in {"scheduler", "shutdown", "limiter", "resources"}
    /\ SchedInit /\ ShutdownInit /\ LimitInit

Next ==
    /\ UNCHANGED part
    /\ \/ /\ part = "scheduler" /\ SchedNext
          /\ UNCHANGED <<shutdownVars, limitVars>>
       \/ /\ part = "shutdown" /\ ShutdownNext /\ InOrder'
          /\ UNCHANGED <<schedVars, limitVars>>
       \/ /\ part = "limiter" /\ LimiterNext
          /\ UNCHANGED <<schedVars, shutdownVars>>
       \/ /\ part = "resources" /\ ResourceNext
          /\ UNCHANGED <<schedVars, shutdownVars>>

\* What a step of one part leaves alone.
OnlySched == part = "scheduler" /\ UNCHANGED <<part, shutdownVars, limitVars>>
OnlyShutdown == part = "shutdown" /\ UNCHANGED <<part, schedVars, limitVars>>

\* Time passes, the scheduler's loop takes its ticks and its backups end; Shutdown's
\* loop runs and its timeouts fire.
Fairness ==
    /\ WF_vars(Tick /\ OnlySched)
    /\ WF_vars(CheckAndRunTasks /\ OnlySched)
    /\ \A o \in Objects : WF_vars(RunNext(o) /\ OnlySched)
    /\ WF_vars((LoopNext \/ ListenReturn) /\ OnlyShutdown)

Spec == Init /\ [][Next]_vars /\ Fairness
=============================================================================
