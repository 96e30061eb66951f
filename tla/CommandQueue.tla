---------------------------- MODULE CommandQueue ----------------------------
(***************************************************************************)
(* What the remote tasks of a host promise, without tables, handlers and   *)
(* messages: tasks are submitted one after the other, each is run at most  *)
(* once and never before an older one that is still run at all, and what   *)
(* the task page shows as an outcome is the outcome of that run.  A task   *)
(* may be passed over (canceled, deleted, lost on its way to the agent),   *)
(* and a shown outcome may be covered again by a late cancellation or a    *)
(* late answer to an older poll.  TaskDispatch implements it.              *)
(***************************************************************************)
EXTENDS Integers, Sequences

CONSTANT Task  \* tasks, numbered in the order of their creation

VARIABLES
    submitted, \* tasks that exist
    ran,       \* tasks in the order in which they were run
    result,    \* how the run of each task ended, "none" before
    shown      \* the outcome on the page, "none" while there is none

queueVars == <<submitted, ran, result, shown>>

Results == {"success", "failed"}

Init ==
    /\ submitted = {}
    /\ ran = <<>>
    /\ result = [t \in Task |-> "none"]
    /\ shown = [t \in Task |-> "none"]

Submit(t) ==
    /\ t \notin submitted /\ \A u \in Task : u < t => u \in submitted
    /\ submitted' = submitted \cup {t}
    /\ UNCHANGED <<ran, result, shown>>

Run(t, v) ==
    /\ t \in submitted
    /\ \A i \in DOMAIN ran : ran[i] < t
    /\ ran' = Append(ran, t)
    /\ result' = [result EXCEPT ![t] = v]
    /\ UNCHANGED <<submitted, shown>>

Show(t) ==
    /\ \E i \in DOMAIN ran : ran[i] = t
    /\ shown' = [shown EXCEPT ![t] = result[t]]
    /\ UNCHANGED <<submitted, ran, result>>

Cover(t) ==
    /\ shown' = [shown EXCEPT ![t] = "none"]
    /\ UNCHANGED <<submitted, ran, result>>

Next ==
    \E t \in Task :
        \/ Submit(t) \/ Show(t) \/ Cover(t)
        \/ \E v \in Results : Run(t, v)

Spec == Init /\ [][Next]_queueVars

=============================================================================
