-------------------------------- MODULE Health --------------------------------
(***************************************************************************)
(* The health checkers of one process (internal/monitoring/health.go): the *)
(* global checker, made on first use or by InitHealthChecker; the objects  *)
(* that look it up when they are made and keep the pointer (the shutdown   *)
(* manager, the metrics server, the API server, and any component that     *)
(* reports its state); and the requests the two servers answer from it.    *)
(*                                                                         *)
(* GetHealthChecker takes no lock: its test, its assignment and its return *)
(* are steps of their own.                                                 *)
(***************************************************************************)
EXTENDS Integers, Sequences, FiniteSets, Functions

CONSTANTS Components,  \* names components report under, "shutdown" one of them
          NoAnswer

ASSUME ComponentsAssumption == IsFiniteSet(Components) /\ "shutdown" \in Components

Statuses == {"healthy", "degraded", "unhealthy"}

Holders == {"manager", "server", "api", "reporter"}

VARIABLES checkers,     \* the checkers made so far: component -> status, or "none"
          global,       \* globalHealthChecker, 0 for nil
          lookup,       \* holder -> control state in GetHealthChecker
          held,         \* holder -> the checker it keeps, 0 before
          initialised,  \* has InitHealthChecker been called?
          marked,       \* has ListenAndWait marked the shutdown?
          overwritten,  \* auxiliary: has a global checker been replaced by another?
          answer        \* the answer just given to a request

healthVars == <<checkers, global, lookup, held, initialised, marked,
                overwritten, answer>>

HealthInit ==
    /\ checkers = <<>>
    /\ global = 0
    /\ lookup = [h \in Holders |-> "test"]
    /\ held = [h \in Holders |-> 0]
    /\ initialised = FALSE
    /\ marked = FALSE
    /\ overwritten = FALSE
    /\ answer = NoAnswer

\* A new checker, with no components, becomes the global one.
NewHealthChecker ==
    /\ checkers' = Append(checkers, [c \in Components |-> "none"])
    /\ global' = Len(checkers) + 1
    /\ overwritten' = (overwritten \/ global # 0)

\* At most one call, by a main function.
InitHealthChecker ==
    /\ ~initialised
    /\ initialised' = TRUE
    /\ NewHealthChecker
    /\ answer' = NoAnswer
    /\ UNCHANGED <<lookup, held, marked>>

\* Fault: the lookup relies on InitHealthChecker having been called.
LookupTestNothing(h) ==
    /\ lookup[h] = "test"
    /\ lookup' = [lookup EXCEPT ![h] = "return"]
    /\ answer' = NoAnswer
    /\ UNCHANGED <<checkers, global, held, initialised, marked, overwritten>>

\* if globalHealthChecker == nil
LookupTest(h) ==
    /\ lookup[h] = "test"
    /\ lookup' = [lookup EXCEPT ![h] = IF global = 0 THEN "make" ELSE "return"]
    /\ answer' = NoAnswer
    /\ UNCHANGED <<checkers, global, held, initialised, marked, overwritten>>

LookupMake(h) ==
    /\ lookup[h] = "make"
    /\ lookup' = [lookup EXCEPT ![h] = "return"]
    /\ NewHealthChecker
    /\ answer' = NoAnswer
    /\ UNCHANGED <<held, initialised, marked>>

\* return globalHealthChecker, read again; the caller keeps it.
LookupReturn(h) ==
    /\ lookup[h] = "return"
    /\ lookup' = [lookup EXCEPT ![h] = "done"]
    /\ held' = [held EXCEPT ![h] = global]
    /\ answer' = NoAnswer
    /\ UNCHANGED <<checkers, global, initialised, marked, overwritten>>

\* Fault: a report of one component replaces the whole table.
RegisterComponentAlone(h, c, s) ==
    checkers' = [checkers EXCEPT ![held[h]] =
                    [d \in Components |-> IF d = c THEN s ELSE "none"]]

\* RegisterComponent, under the checker's lock; UpdateComponent is the same.
RegisterComponent(h, c, s) == checkers' = [checkers EXCEPT ![held[h]][c] = s]

\* ListenAndWait has received a signal.
MarkShutdown ==
    /\ lookup["manager"] = "done"
    /\ ~marked
    /\ marked' = TRUE
    /\ RegisterComponent("manager", "shutdown", "degraded")
    /\ answer' = NoAnswer
    /\ UNCHANGED <<global, lookup, held, initialised, overwritten>>

\* Another component reports its state.
Report(c, s) ==
    /\ lookup["reporter"] = "done"
    /\ RegisterComponent("reporter", c, s)
    /\ answer' = NoAnswer
    /\ UNCHANGED <<global, lookup, held, initialised, marked, overwritten>>

-----------------------------------------------------------------------------
(* Requests.  The loop of GetHealth reads the components in any order.     *)

\* Fault: the status of the component read last stands.
WorseLast(overall, s) ==
    IF overall = "unhealthy" THEN overall
    ELSE IF s \in {"unhealthy", "degraded", "healthy"} THEN s ELSE overall

\* One turn of the loop, which stops at an unhealthy component.
Worse(overall, s) ==
    IF overall = "unhealthy" THEN overall
    ELSE IF s = "unhealthy" THEN "unhealthy"
    ELSE IF s = "degraded" /\ overall = "healthy" THEN "degraded" ELSE overall

GetHealth(components, order) ==
    LET overall[i \in 0 .. Len(order)] ==
            IF i = 0 THEN "healthy" ELSE Worse(overall[i - 1], components[order[i]])
    IN  overall[Len(order)]

HTTPHandler(status) == IF status = "unhealthy" THEN 503 ELSE 200

ReadinessHandler(status) == IF status = "healthy" THEN 200 ELSE 503

\* The metrics server answers /health and /ready, the API server its status page,
\* which shows the status itself.
Request(by, path) ==
    /\ lookup[by] = "done"
    /\ answer = NoAnswer
    /\ \E order \in Bijection(1 .. Cardinality(Components), Components) :
          LET status == GetHealth(checkers[held[by]], order)
          IN  answer' = [by |-> by, path |-> path,
                         says |-> CASE path = "/health" -> HTTPHandler(status)
                                    [] path = "/ready" -> ReadinessHandler(status)
                                    [] path = "/live" -> 200
                                    [] path = "/status" -> status]
    /\ UNCHANGED <<checkers, global, lookup, held, initialised, marked, overwritten>>

Paths == [server |-> {"/health", "/ready", "/live"}, api |-> {"/status"}]

HealthNext ==
    \/ InitHealthChecker
    \/ \E h \in Holders : LookupTest(h) \/ LookupMake(h) \/ LookupReturn(h)
    \/ MarkShutdown
    \/ \E c \in Components \ {"shutdown"}, s \in Statuses : Report(c, s)
    \/ \E by \in DOMAIN Paths : \E path \in Paths[by] : Request(by, path)

HealthSpec == HealthInit /\ [][HealthNext]_healthVars

-----------------------------------------------------------------------------
(* Properties *)

\* Type correctness; whoever has looked the checker up keeps one, never nil.
HealthTypeOK ==
    /\ checkers \in Seq([Components -> Statuses \cup {"none"}])
    /\ global \in 0 .. Len(checkers)
    /\ lookup \in [Holders -> {"test", "make", "return", "done"}]
    /\ held \in [Holders -> 0 .. Len(checkers)]
    /\ \A h \in Holders : lookup[h] = "done" => held[h] # 0

\* An answer of a server about the checker it keeps.
Reported == {checkers[held[answer.by]][c] : c \in Components}

\* What the endpoints say is decided by the worst component, in whatever order the
\* loop of GetHealth meets them and although it stops early: /health fails exactly
\* if one is unhealthy, /ready exactly if one is unhealthy or degraded, and the API's
\* status is the worst one.
AnswersAreWorst ==
    answer # NoAnswer =>
        CASE answer.path = "/health" -> answer.says = 503 <=> "unhealthy" \in Reported
          [] answer.path = "/ready" ->
                answer.says = 503 <=> Reported \cap {"unhealthy", "degraded"} # {}
          [] answer.path = "/status" ->
                /\ answer.says = "unhealthy" <=> "unhealthy" \in Reported
                /\ answer.says = "healthy" <=>
                      Reported \cap {"unhealthy", "degraded"} = {}
          [] OTHER -> TRUE

\* Once ListenAndWait has caught a signal the process is never ready again, whatever
\* other components report, and the API never calls it healthy: the manager and the
\* servers keep the same checker, provided that no checker in use has been replaced,
\* by a racing first lookup or a late InitHealthChecker.
NotReadyInShutdown ==
    marked /\ ~overwritten /\ answer # NoAnswer =>
        /\ answer.path = "/ready" => answer.says = 503
        /\ answer.path = "/status" => answer.says # "healthy"
=============================================================================
