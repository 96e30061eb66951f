------------------------------ MODULE MCMetrics ------------------------------
\* Model-checking instance of the collection and of the retention of metrics.
\* The two share no variable, so a behaviour is one of either, the other standing
\* still; the fairness is that of the collector.
EXTENDS Retention, Collector

VARIABLE part

MetricsInit == Init /\ CollectorInit /\ part \in {"collector", "retention"}

MetricsNext ==
    \/ part = "collector" /\ CollectorNext /\ UNCHANGED <<vars, part>>
    \/ part = "retention" /\ Next /\ UNCHANGED <<collectorVars, part>>

MetricsSpec ==
    MetricsInit /\ [][MetricsNext]_<<vars, collectorVars, part>> /\ Fairness
=============================================================================
