---------------------------- MODULE MetricsServer ----------------------------
(***************************************************************************)
(* Start and Stop of the metrics, health and profiling servers             *)
(* (internal/monitoring/server.go).  Each server is an http.Server: its    *)
(* ListenAndServe and Shutdown are modelled from the way they are used.    *)
(***************************************************************************)
EXTENDS Integers, Sequences, FiniteSets

Servers == {"metrics", "health", "profiling"}

VARIABLES enabled,    \* the servers NewMetricsServer has made
          server,     \* server -> state of its listener
          active,     \* the servers with a request in progress
          stop,       \* control state of Stop: "no", "wait", "ok" or "error"
          stopper,    \* server -> control state of the goroutine that stops it
          result,     \* server -> the error it has to send
          errChan,    \* the channel of capacity 3
          received,   \* results Stop has received
          ctxDone     \* is the context of Stop done?

serverVars == <<enabled, server, active, stop, stopper, result, errChan, received, ctxDone>>

\* NewMetricsServer: the profiling server is optional.
ServerInit ==
    /\ enabled \in {Servers, Servers \ {"profiling"}}
    /\ server = [s \in Servers |-> "new"]
    /\ active = {}
    /\ stop = "no"
    /\ stopper = [s \in Servers |-> "none"]
    /\ result = [s \in Servers |-> "none"]
    /\ errChan = <<>>
    /\ received = 0
    /\ ctxDone = FALSE

\* A server whose Shutdown has been called.
InShutdown(s) == stopper[s] \in {"drain", "send", "ended"}

\* Fault: a goroutine is made also for the server that does not exist.
StartAll ==
    /\ \A s \in Servers : server[s] = "new"
    /\ server' = [s \in Servers |-> "starting"]
    /\ UNCHANGED <<enabled, active, stop, stopper, result, errChan, received, ctxDone>>

\* Start: a goroutine for each server that exists.
Start ==
    /\ \A s \in Servers : server[s] = "new"
    /\ server' = [s \in Servers |-> IF s \in enabled THEN "starting" ELSE "new"]
    /\ UNCHANGED <<enabled, active, stop, stopper, result, errChan, received, ctxDone>>

\* The port may be taken; a server that was shut down before does not listen.
ListenAndServe(s) ==
    /\ server[s] = "starting"
    /\ \E next \in IF InShutdown(s) THEN {"closed"} ELSE {"serving", "failed"} :
          server' = [server EXCEPT ![s] = next]
    /\ UNCHANGED <<enabled, active, stop, stopper, result, errChan, received, ctxDone>>

Accept(s) ==
    /\ server[s] = "serving"
    /\ active' = active \cup {s}
    /\ UNCHANGED <<enabled, server, stop, stopper, result, errChan, received, ctxDone>>

Respond(s) ==
    /\ active' = active \ {s}
    /\ UNCHANGED <<enabled, server, stop, stopper, result, errChan, received, ctxDone>>

-----------------------------------------------------------------------------
\* Stop makes three goroutines and waits for them.
Stop ==
    /\ stop = "no"
    /\ stop' = "wait"
    /\ stopper' = [s \in Servers |-> "ready"]
    /\ UNCHANGED <<enabled, server, active, result, errChan, received, ctxDone>>

\* Shutdown closes the listener; a server that was not made has nothing to stop.
StopperBegin(s) ==
    /\ stopper[s] = "ready"
    /\ stopper' = [stopper EXCEPT ![s] = IF s \in enabled THEN "drain" ELSE "send"]
    /\ result' = [result EXCEPT ![s] = "nil"]
    /\ server' = [server EXCEPT ![s] = IF s \in enabled /\ @ = "serving"
                                       THEN "closed" ELSE @]
    /\ UNCHANGED <<enabled, active, stop, errChan, received, ctxDone>>

\* It returns nil once no request is in progress, or else the error of the context;
\* when both have come true it may be either.
StopperDrained(s) ==
    /\ stopper[s] = "drain"
    /\ s \notin active
    /\ stopper' = [stopper EXCEPT ![s] = "send"]
    /\ UNCHANGED <<enabled, server, active, stop, result, errChan, received, ctxDone>>

StopperTimeout(s) ==
    /\ stopper[s] = "drain"
    /\ ctxDone
    /\ stopper' = [stopper EXCEPT ![s] = "send"]
    /\ result' = [result EXCEPT ![s] = "error"]
    /\ UNCHANGED <<enabled, server, active, stop, errChan, received, ctxDone>>

\* Fault: a channel that holds one result only.
StopperSendOne(s) ==
    /\ stopper[s] = "send"
    /\ Len(errChan) < 1
    /\ errChan' = Append(errChan, result[s])
    /\ stopper' = [stopper EXCEPT ![s] = "ended"]
    /\ UNCHANGED <<enabled, server, active, stop, result, received, ctxDone>>

StopperSend(s) ==
    /\ stopper[s] = "send"
    /\ Len(errChan) < 3
    /\ errChan' = Append(errChan, result[s])
    /\ stopper' = [stopper EXCEPT ![s] = "ended"]
    /\ UNCHANGED <<enabled, server, active, stop, result, received, ctxDone>>

\* Fault: the loop takes two results.
StopReceiveTwo ==
    /\ stop = "wait"
    /\ errChan # <<>>
    /\ errChan' = Tail(errChan)
    /\ received' = received + 1
    /\ stop' = IF Head(errChan) = "error" THEN "error"
               ELSE IF received' = 2 THEN "ok" ELSE "wait"
    /\ UNCHANGED <<enabled, server, active, stopper, result, ctxDone>>

\* Three results, or up to the first error, which is returned at once.
StopReceive ==
    /\ stop = "wait"
    /\ errChan # <<>>
    /\ errChan' = Tail(errChan)
    /\ received' = received + 1
    /\ stop' = IF Head(errChan) = "error" THEN "error"
               ELSE IF received' = 3 THEN "ok" ELSE "wait"
    /\ UNCHANGED <<enabled, server, active, stopper, result, ctxDone>>

\* The context Stop was called with ends (a shutdown hook's has a timeout).
CtxDone ==
    /\ stop # "no"
    /\ ~ctxDone
    /\ ctxDone' = TRUE
    /\ UNCHANGED <<enabled, server, active, stop, stopper, result, errChan, received>>

StopperNext(s) ==
    \/ StopperBegin(s)
    \/ StopperDrained(s)
    \/ StopperTimeout(s)
    \/ StopperSend(s)

ServerNext ==
    \/ Start
    \/ \E s \in Servers : ListenAndServe(s) \/ Accept(s) \/ Respond(s) \/ StopperNext(s)
    \/ Stop
    \/ StopReceive
    \/ CtxDone

ServerSpec == ServerInit /\ [][ServerNext]_serverVars

\* The goroutines of Stop run, and its context has a deadline.
StopStep == StopReceive \/ CtxDone \/ \E s \in Servers : StopperNext(s)

-----------------------------------------------------------------------------
(* Properties *)

\* Type correctness; no server that was not made has a request, and the channel holds
\* all results.
ServerTypeOK ==
    /\ enabled \subseteq Servers /\ active \subseteq enabled
    /\ server \in [Servers -> {"new", "starting", "serving", "failed", "closed"}]
    /\ stop \in {"no", "wait", "ok", "error"}
    /\ stopper \in [Servers -> {"none", "ready", "drain", "send", "ended"}]
    /\ result \in [Servers -> {"none", "nil", "error"}]
    /\ errChan \in Seq({"nil", "error"}) /\ Len(errChan) <= 3 /\ received \in 0 .. 3

\* Stop that returns nil has stopped them all: no server accepts or is working on a
\* request, and none ever will, not even one whose goroutine was made by Start and
\* had not got to listen yet.
StoppedIsDown ==
    stop = "ok" =>
        /\ active = {}
        /\ \A s \in Servers : server[s] # "serving" /\ (s \in enabled => InShutdown(s))

\* Stop returns, and all of its goroutines end, also those whose result nobody
\* receives because Stop has returned at the first error.
StopEnds ==
    stop = "wait" ~> /\ stop \in {"ok", "error"}
                     /\ \A s \in Servers : stopper[s] = "ended"
=============================================================================
