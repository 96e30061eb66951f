----------------------------- MODULE TaskDispatch -----------------------------
(***************************************************************************)
(* Remote tasks of one host: the tasks table and the handlers that read    *)
(* and write it (server/controllers/tasks.go, and the ones that create     *)
(* tasks), on any number of server nodes, and the agent that polls, runs   *)
(* and reports (agent/common/agent.go, agent/common/task.go).              *)
(*                                                                         *)
(* A handler is a sequence of separate SQL statements, each one an action  *)
(* here; statements of other handlers may come in between.  The agent is   *)
(* one goroutine with one request under way at a time, but it gives up on  *)
(* a request after 15 seconds while the handler goes on, so the server may *)
(* still work on several of its requests.                                  *)
(***************************************************************************)
EXTENDS Integers, Sequences, FiniteSets

CONSTANTS
    MaxTasks,  \* bound on tasks created
    Slot,      \* handlers that may be under way at once
    None

ASSUME TaskAssumption ==
    /\ MaxTasks \in Nat
    /\ None \notin Nat /\ None \notin Slot

\* Tasks are numbered in the order of created_at.
Task == 1 .. MaxTasks

Outcome == {"success", "failed"}

VARIABLES
    status,   \* status[t], "none" before the row exists
    deleted,  \* soft-deleted rows: invisible to every later statement
    handler,  \* handler[h]: the request slot h serves and where it is
    agent,    \* what the agent is doing
    executed, \* history: the tasks the agent has run, in order
    outcome   \* history: how the agent's run of each task ended

vars == <<status, deleted, handler, agent, executed, outcome>>

Free == [op |-> "free", at |-> "done", task |-> None, val |-> "none"]

Handlers ==
    [op : {"free", "next", "result", "cancel"},
     at : {"select", "update", "reply", "done"},
     task : Task \cup {None},
     val : Outcome \cup {"none"}]

Idle == [at |-> "idle", slot |-> None, task |-> None]

Agents ==
    [at : {"idle", "polling", "running", "finished", "reporting"},
     slot : Slot \cup {None},
     task : Task \cup {None}]

TypeOK ==
    /\ status \in [Task -> {"none", "pending", "running", "canceled"} \cup Outcome]
    /\ deleted \subseteq Task
    /\ handler \in [Slot -> Handlers]
    /\ agent \in Agents
    /\ executed \in Seq(Task)
    /\ outcome \in [Task -> Outcome \cup {"none"}]

Init ==
    /\ status = [t \in Task |-> "none"]
    /\ deleted = {}
    /\ handler = [h \in Slot |-> Free]
    /\ agent = Idle
    /\ executed = <<>>
    /\ outcome = [t \in Task |-> "none"]

Visible(t) == status[t] # "none" /\ t \notin deleted

Executed(t) == \E i \in DOMAIN executed : executed[i] = t

\* UPDATE tasks SET status = s WHERE id = t: no condition on the old status,
\* and no row when it has been soft-deleted.
UpdateStatus(t, s) ==
    status' = IF Visible(t) THEN [status EXCEPT ![t] = s] ELSE status

Serve(h, op, t, v) ==
    handler' = [handler EXCEPT ![h] = [op |-> op, at |-> "select", task |-> t, val |-> v]]

-----------------------------------------------------------------------------
\* Administration.

\* TasksHandler POST, FlushCachesHandler and the tool calls that queue a command.
CreateTask(t) ==
    /\ status[t] = "none" /\ \A u \in Task : u < t => status[u] # "none"
    /\ status' = [status EXCEPT ![t] = "pending"]
    /\ UNCHANGED <<deleted, handler, agent, executed, outcome>>

DeleteTask(t) ==
    /\ Visible(t)
    /\ deleted' = deleted \cup {t}
    /\ UNCHANGED <<status, handler, agent, executed, outcome>>

CancelRequest(h, t) ==
    /\ handler[h].op = "free" /\ Visible(t)
    /\ Serve(h, "cancel", t, "none")
    /\ UNCHANGED <<status, deleted, agent, executed, outcome>>

\* TaskDetailHandler PUT reads the row, checks for "pending", then writes.
CancelSelect(h) ==
    /\ handler[h].op = "cancel" /\ handler[h].at = "select"
    /\ handler' = [handler EXCEPT ![h] =
          IF Visible(@.task) /\ status[@.task] = "pending"
          THEN [@ EXCEPT !.at = "update"] ELSE Free]
    /\ UNCHANGED <<status, deleted, agent, executed, outcome>>

CancelUpdate(h) ==
    /\ handler[h].op = "cancel" /\ handler[h].at = "update"
    /\ UpdateStatus(handler[h].task, "canceled")
    /\ handler' = [handler EXCEPT ![h] = Free]
    /\ UNCHANGED <<deleted, agent, executed, outcome>>

-----------------------------------------------------------------------------
\* AgentTaskHandler, GET next.

\* Mutant: the query also finds canceled tasks.
PendingOrCanceled == {t \in Task : Visible(t) /\ status[t] \in {"pending", "canceled"}}

Pending == {t \in Task : Visible(t) /\ status[t] = "pending"}

\* Mutant: newest task first.
PollSelectNewest(h) ==
    /\ handler[h].op = "next" /\ handler[h].at = "select"
    /\ \/ /\ Pending = {}
          /\ handler' = [handler EXCEPT ![h].at = "reply"]
       \/ \E t \in Pending :
             /\ \A u \in Pending : t >= u
             /\ handler' = [handler EXCEPT ![h].at = "update", ![h].task = t]
    /\ UNCHANGED <<status, deleted, agent, executed, outcome>>

PollSelect(h) ==
    /\ handler[h].op = "next" /\ handler[h].at = "select"
    /\ \/ /\ Pending = {}
          /\ handler' = [handler EXCEPT ![h].at = "reply"]
       \/ \E t \in Pending :
             /\ \A u \in Pending : t <= u
             /\ handler' = [handler EXCEPT ![h].at = "update", ![h].task = t]
    /\ UNCHANGED <<status, deleted, agent, executed, outcome>>

\* Mutant: the task is handed out without being marked.
PollUpdateOmitted(h) ==
    /\ handler[h].op = "next" /\ handler[h].at = "update"
    /\ handler' = [handler EXCEPT ![h].at = "reply"]
    /\ UNCHANGED <<status, deleted, agent, executed, outcome>>

PollUpdate(h) ==
    /\ handler[h].op = "next" /\ handler[h].at = "update"
    /\ UpdateStatus(handler[h].task, "running")
    /\ handler' = [handler EXCEPT ![h].at = "reply"]
    /\ UNCHANGED <<deleted, agent, executed, outcome>>

-----------------------------------------------------------------------------
\* AgentTaskHandler, POST result.

ResultSelect(h) ==
    /\ handler[h].op = "result" /\ handler[h].at = "select"
    /\ handler' = [handler EXCEPT ![h].at =
                      IF Visible(handler[h].task) THEN "update" ELSE "reply"]
    /\ UNCHANGED <<status, deleted, agent, executed, outcome>>

\* Mutant: any result counts as a success.
ResultUpdateOptimistic(h) ==
    /\ handler[h].op = "result" /\ handler[h].at = "update"
    /\ UpdateStatus(handler[h].task, "success")
    /\ handler' = [handler EXCEPT ![h].at = "reply"]
    /\ UNCHANGED <<deleted, agent, executed, outcome>>

ResultUpdate(h) ==
    /\ handler[h].op = "result" /\ handler[h].at = "update"
    /\ UpdateStatus(handler[h].task, handler[h].val)
    /\ handler' = [handler EXCEPT ![h].at = "reply"]
    /\ UNCHANGED <<deleted, agent, executed, outcome>>

-----------------------------------------------------------------------------
\* The agent.

PollRequest(h) ==
    /\ agent.at = "idle" /\ handler[h].op = "free"
    /\ Serve(h, "next", None, "none")
    /\ agent' = [at |-> "polling", slot |-> h, task |-> None]
    /\ UNCHANGED <<status, deleted, executed, outcome>>

\* The handler answers.  Only the agent still waiting for this very request
\* sees the answer.
Reply(h) ==
    /\ handler[h].op \in {"next", "result"} /\ handler[h].at = "reply"
    /\ handler' = [handler EXCEPT ![h] = Free]
    /\ agent' = IF agent.slot # h THEN agent
                ELSE IF handler[h].op = "next" /\ handler[h].task # None
                     THEN [at |-> "running", slot |-> None, task |-> handler[h].task]
                     ELSE Idle
    /\ UNCHANGED <<status, deleted, executed, outcome>>

\* runTask: shell and flush_caches are executed, another type fails at once.
RunTask(v) ==
    /\ agent.at = "running"
    /\ executed' = Append(executed, agent.task)
    /\ outcome' = [outcome EXCEPT ![agent.task] = v]
    /\ agent' = [agent EXCEPT !.at = "finished"]
    /\ UNCHANGED <<status, deleted, handler>>

ReportRequest(h) ==
    /\ agent.at = "finished" /\ handler[h].op = "free"
    /\ Serve(h, "result", agent.task, outcome[agent.task])
    /\ agent' = [agent EXCEPT !.at = "reporting", !.slot = h]
    /\ UNCHANGED <<status, deleted, executed, outcome>>

\* The request times out or the connection breaks: the agent goes back to its
\* loop and never repeats the request, while the handler goes on.
GiveUp ==
    /\ agent.at \in {"polling", "reporting"}
    /\ agent' = Idle
    /\ UNCHANGED <<status, deleted, handler, executed, outcome>>

\* The request never arrives, or its server dies between two statements: the
\* statements that were still to come are not done, and no answer comes.
HandlerLost(h) ==
    /\ handler[h].op # "free"
    /\ handler' = [handler EXCEPT ![h] = Free]
    /\ agent' = IF agent.slot = h THEN Idle ELSE agent
    /\ UNCHANGED <<status, deleted, executed, outcome>>

\* The agent process dies and is started again.
AgentRestart ==
    /\ agent # Idle
    /\ agent' = Idle
    /\ UNCHANGED <<status, deleted, handler, executed, outcome>>

-----------------------------------------------------------------------------

HandlerStep(h) ==
    \/ CancelSelect(h) \/ CancelUpdate(h)
    \/ PollSelect(h) \/ PollUpdate(h)
    \/ ResultSelect(h) \/ ResultUpdate(h)
    \/ Reply(h)

Next ==
    \/ \E t \in Task : CreateTask(t) \/ DeleteTask(t)
    \/ \E h \in Slot : \/ \E t \in Task : CancelRequest(h, t)
                       \/ HandlerStep(h)
                       \/ PollRequest(h)
                       \/ ReportRequest(h)
                       \/ HandlerLost(h)
    \/ \E v \in Outcome : RunTask(v)
    \/ GiveUp
    \/ AgentRestart

\* Handlers run to their end and the agent's loop goes on (strong fairness: the
\* real server has no limit on handlers, so a busy slot never keeps a request
\* out for good).  Not every poll is lost on its way or by a dying server.
Fairness ==
    /\ \A h \in Slot : WF_vars(HandlerStep(h))
    /\ WF_vars(\E v \in Outcome : RunTask(v))
    /\ SF_vars(\E h \in Slot : PollRequest(h))
    /\ SF_vars(\E h \in Slot : ReportRequest(h))
    /\ SF_vars(\E h \in Slot : PollSelect(h))
    /\ SF_vars(\E h \in Slot : PollUpdate(h))

Spec == Init /\ [][Next]_vars /\ Fairness

-----------------------------------------------------------------------------
\* Properties.

\* The table and the agent, seen as a queue.
Queue == INSTANCE CommandQueue WITH
    submitted <- {t \in Task : status[t] # "none"},
    ran <- executed,
    result <- outcome,
    shown <- [t \in Task |-> IF status[t] \in Outcome THEN status[t] ELSE "none"]

\* The handlers, their separate statements and the agent together implement the
\* queue: every step of theirs is one of its steps or none, through repeated and
\* abandoned polls, late results, cancellations, losses and restarts.
ImplementsQueue == Queue!Spec

\* No task is run twice: not when a poll times out and is repeated while its
\* handler is still between SELECT and UPDATE, not after an agent restart, a
\* cancellation or a late result.
AtMostOnce ==
    \A i, j \in DOMAIN executed : executed[i] = executed[j] => i = j

\* Tasks of a host run in the order in which they were created.
InCreationOrder ==
    \A i, j \in DOMAIN executed : i < j => executed[i] < executed[j]

\* A finished status in the table is the outcome of the agent's own run.
ResultIsReal ==
    \A t \in Task : status[t] \in Outcome => Executed(t) /\ outcome[t] = status[t]

\* No request that could still change or run t is under way.
Untouched(t) ==
    /\ \A h \in Slot : handler[h].task # t \/ handler[h].op = "cancel"
    /\ agent.task # t

\* A cancellation that no poll had overtaken is final: from then on the task is
\* neither handed out, nor run, nor finished.
CleanCancelIsFinal ==
    [][\A t \in Task : status[t] = "canceled" /\ Untouched(t)
          => /\ status'[t] = "canceled" /\ Untouched(t)'
             /\ (Executed(t)' <=> Executed(t))]_vars

\* A pending task leaves the queue: each poll takes the oldest, so later tasks,
\* timeouts and restarts cannot keep it there.
PendingIsTaken ==
    \A t \in Task : status[t] = "pending" ~> status[t] # "pending" \/ t \in deleted

=============================================================================
