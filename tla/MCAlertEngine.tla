---------------------------- MODULE MCAlertEngine ----------------------------
\* Model-checking instance of AlertEngine: two rules on one metric and level.
EXTENDS AlertEngine

MCRule ==
    {[metric |-> "cpu", operator |-> "gte", threshold |-> 1, level |-> "warning"],
     [metric |-> "cpu", operator |-> "gt", threshold |-> 1, level |-> "warning"]}
=============================================================================
