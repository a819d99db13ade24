---------------------------- MODULE MCMonitoring ----------------------------
(* Health, MetricsServer and Metrics for TLC.  They share no state, so each       *)
(* behaviour is one of one of them: part says of which.                           *)
EXTENDS Health, MetricsServer, Metrics

VARIABLE part

vars == <<part, healthVars, serverVars, metricVars>>

Init ==
    /\ part \in {"health", "servers", "metrics"}
    /\ HealthInit /\ ServerInit /\ MetricInit
    /\ part # "servers" => enabled = Servers

Next ==
    /\ UNCHANGED part
    /\ \/ part = "health" /\ HealthNext /\ UNCHANGED <<serverVars, metricVars>>
       \/ part = "servers" /\ ServerNext /\ UNCHANGED <<healthVars, metricVars>>
       \/ part = "metrics" /\ MetricNext /\ UNCHANGED <<healthVars, serverVars>>

\* The goroutines of Stop run, and its context has a deadline.
Fairness ==
    WF_vars(part = "servers" /\ StopStep /\ UNCHANGED <<part, healthVars, metricVars>>)

Spec == Init /\ [][Next]_vars /\ Fairness
=============================================================================
