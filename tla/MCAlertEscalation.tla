-------------------------- MODULE MCAlertEscalation --------------------------
\* Model-checking instance of AlertEscalation: an escalation row, and one that a
\* PUT has left without retries.
EXTENDS AlertEscalation

MCRow ==
    {[level |-> "warning", after |-> 0, retry |-> 1],
     [level |-> "warning", after |-> 0, retry |-> 0]}
=============================================================================
