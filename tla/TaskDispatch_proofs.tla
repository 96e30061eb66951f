-------------------------- MODULE TaskDispatch_proofs --------------------------
(***************************************************************************)
(* Proofs about the dispatch of tasks, for any number of tasks and of      *)
(* handlers under way at once.                                             *)
(***************************************************************************)
EXTENDS TaskDispatch, TLAPS

\* An update of the table changes at most one status.
LEMMA UpdateFact ==
  ASSUME TypeOK, NEW t \in Task, NEW s, UpdateStatus(t, s)
  PROVE  \A u \in Task : status'[u] = IF u = t /\ Visible(t) THEN s ELSE status[u]
  BY DEF UpdateStatus, TypeOK

-----------------------------------------------------------------------------

\* What each step of the agent and of a handler holds: the type of a result
\* depends on it.
ShapeInv ==
    /\ agent.at = "idle" => agent = Idle
    /\ agent.at = "polling" =>
          agent.task = None /\ agent.slot \in Slot /\ handler[agent.slot].op = "next"
    /\ agent.at = "reporting" =>
          agent.task \in Task /\ agent.slot \in Slot /\ handler[agent.slot].op = "result"
    /\ agent.at \in {"running", "finished"} => agent.task \in Task /\ agent.slot = None
    /\ agent.at = "finished" => outcome[agent.task] \in Outcome
    /\ \A h \in Slot :
          /\ handler[h].op \in {"result", "cancel"} => handler[h].task \in Task
          /\ handler[h].op = "result" => handler[h].val \in Outcome
          /\ handler[h].op = "next" /\ handler[h].at = "select" => handler[h].task = None
          /\ handler[h].op = "next" /\ handler[h].at = "update" => handler[h].task \in Task

TypeInv == TypeOK /\ ShapeInv

\* Every step keeps types and shapes.
LEMMA TypeStep == TypeInv /\ [Next]_vars => TypeInv'
  <1> SUFFICES ASSUME TypeOK, ShapeInv, [Next]_vars PROVE TypeOK' /\ ShapeInv'
    BY DEF TypeInv
  <1> USE TaskAssumption
  <1>0. Free \in Handlers /\ Idle \in Agents /\ Free.op = "free"
    BY DEF Free, Handlers, Idle, Agents
  <1>1. ASSUME NEW t \in Task, CreateTask(t) \/ DeleteTask(t) PROVE TypeOK' /\ ShapeInv'
    BY <1>1 DEF CreateTask, DeleteTask, TypeOK, ShapeInv
  <1>2. ASSUME NEW h \in Slot, NEW t \in Task, CancelRequest(h, t) PROVE TypeOK' /\ ShapeInv'
    <2>1. TypeOK'  BY <1>2 DEF CancelRequest, Serve, Handlers, TypeOK
    <2>2. ShapeInv'  BY <1>2 DEF CancelRequest, Serve, TypeOK, ShapeInv
    <2>3. QED  BY <2>1, <2>2
  <1>3. ASSUME NEW h \in Slot, CancelSelect(h) PROVE TypeOK' /\ ShapeInv'
    <2>1. TypeOK'  BY <1>0, <1>3 DEF CancelSelect, Handlers, TypeOK
    <2>2. \/ handler' = [handler EXCEPT ![h] = Free]
          \/ handler' = [handler EXCEPT ![h].at = "update"]
      BY <1>3 DEF CancelSelect, TypeOK
    <2>3. ShapeInv'  BY <1>0, <1>3, <2>2 DEF CancelSelect, TypeOK, ShapeInv, Handlers
    <2>4. QED  BY <2>1, <2>3
  <1>4. ASSUME NEW h \in Slot, CancelUpdate(h) PROVE TypeOK' /\ ShapeInv'
    <2>1. TypeOK'  BY <1>0, <1>4 DEF CancelUpdate, UpdateStatus, TypeOK
    <2>2. ShapeInv'  BY <1>0, <1>4 DEF CancelUpdate, TypeOK, ShapeInv
    <2>3. QED  BY <2>1, <2>2
  <1>5. ASSUME NEW h \in Slot, PollSelect(h) PROVE TypeOK' /\ ShapeInv'
    <2>1. TypeOK'  BY <1>5 DEF PollSelect, Pending, Handlers, TypeOK
    <2>2. ASSUME handler' = [handler EXCEPT ![h].at = "reply"] PROVE ShapeInv'
      <3>1. /\ handler'[h].op = "next" /\ handler'[h].at = "reply"
            /\ \A g \in Slot : g # h => handler'[g] = handler[g]
        BY <1>5, <2>2 DEF PollSelect, TypeOK, Handlers
      <3>2. handler[h].op = "next" /\ UNCHANGED <<agent, outcome>>
        BY <1>5 DEF PollSelect
      <3>3. QED  BY <3>1, <3>2 DEF ShapeInv
    <2>3. ASSUME NEW t \in Task,
                 handler' = [handler EXCEPT ![h].at = "update", ![h].task = t]
          PROVE  ShapeInv'
      <3>1. /\ handler'[h].op = "next" /\ handler'[h].at = "update" /\ handler'[h].task = t
            /\ \A g \in Slot : g # h => handler'[g] = handler[g]
        BY <1>5, <2>3 DEF PollSelect, TypeOK, Handlers
      <3>2. handler[h].op = "next" /\ UNCHANGED <<agent, outcome>>
        BY <1>5 DEF PollSelect
      <3>3. QED  BY <3>1, <3>2 DEF ShapeInv
    <2>4. \/ handler' = [handler EXCEPT ![h].at = "reply"]
          \/ \E t \in Task :
                handler' = [handler EXCEPT ![h].at = "update", ![h].task = t]
      BY <1>5 DEF PollSelect, Pending
    <2>5. QED  BY <2>1, <2>2, <2>3, <2>4
  <1>6. ASSUME NEW h \in Slot, PollUpdate(h) PROVE TypeOK' /\ ShapeInv'
    <2>1. TypeOK'  BY <1>6 DEF PollUpdate, UpdateStatus, Handlers, TypeOK
    <2>2. ShapeInv'  BY <1>6 DEF PollUpdate, TypeOK, ShapeInv, Handlers
    <2>3. QED  BY <2>1, <2>2
  <1>7. ASSUME NEW h \in Slot, ResultSelect(h) PROVE TypeOK' /\ ShapeInv'
    <2>1. TypeOK'  BY <1>7 DEF ResultSelect, Handlers, TypeOK
    <2>2. ShapeInv'  BY <1>7 DEF ResultSelect, TypeOK, ShapeInv, Handlers
    <2>3. QED  BY <2>1, <2>2
  <1>8. ASSUME NEW h \in Slot, ResultUpdate(h) PROVE TypeOK' /\ ShapeInv'
    <2>1. TypeOK'  BY <1>8 DEF ResultUpdate, UpdateStatus, Handlers, TypeOK
    <2>2. ShapeInv'  BY <1>8 DEF ResultUpdate, TypeOK, ShapeInv, Handlers
    <2>3. QED  BY <2>1, <2>2
  <1>9. ASSUME NEW h \in Slot, Reply(h) PROVE TypeOK' /\ ShapeInv'
    <2>1. handler[h] \in Handlers  BY DEF TypeOK
    <2>2. TypeOK'  BY <1>0, <1>9, <2>1 DEF Reply, Handlers, Agents, TypeOK
    <2>3. ShapeInv'
      <3>1. CASE agent.slot # h
        BY <1>0, <1>9, <3>1 DEF Reply, TypeOK, ShapeInv
      <3>2. CASE agent.slot = h
        BY <1>0, <1>9, <2>1, <3>2 DEF Reply, TypeOK, ShapeInv, Idle, Handlers
      <3>3. QED  BY <3>1, <3>2
    <2>4. QED  BY <2>2, <2>3
  <1>10. ASSUME NEW h \in Slot, PollRequest(h) PROVE TypeOK' /\ ShapeInv'
    <2>1. TypeOK'  BY <1>10 DEF PollRequest, Serve, Handlers, Agents, TypeOK
    <2>2. ShapeInv'  BY <1>10 DEF PollRequest, Serve, TypeOK, ShapeInv
    <2>3. QED  BY <2>1, <2>2
  <1>11. ASSUME NEW h \in Slot, ReportRequest(h) PROVE TypeOK' /\ ShapeInv'
    <2>1. agent.task \in Task /\ outcome[agent.task] \in Outcome
      BY <1>11 DEF ReportRequest, ShapeInv, TypeOK
    <2>2. TypeOK'  BY <1>11, <2>1 DEF ReportRequest, Serve, Handlers, Agents, TypeOK
    <2>3. ShapeInv'  BY <1>11, <2>1 DEF ReportRequest, Serve, TypeOK, ShapeInv, Agents
    <2>4. QED  BY <2>2, <2>3
  <1>12. ASSUME NEW v \in Outcome, RunTask(v) PROVE TypeOK' /\ ShapeInv'
    <2>1. agent.task \in Task
      BY <1>12 DEF RunTask, ShapeInv
    <2>2. TypeOK'  BY <1>12, <2>1 DEF RunTask, Agents, TypeOK
    <2>3. ShapeInv'  BY <1>12, <2>1 DEF RunTask, TypeOK, ShapeInv, Agents
    <2>4. QED  BY <2>2, <2>3
  <1>13. CASE GiveUp
    BY <1>0, <1>13 DEF GiveUp, TypeOK, ShapeInv, Idle
  <1>14. CASE AgentRestart
    BY <1>0, <1>14 DEF AgentRestart, TypeOK, ShapeInv, Idle
  <1>15. CASE UNCHANGED vars
    BY <1>15 DEF vars, TypeOK, ShapeInv
  <1>16. ASSUME NEW h \in Slot, HandlerLost(h) PROVE TypeOK' /\ ShapeInv'
    <2>1. TypeOK'  BY <1>0, <1>16 DEF HandlerLost, TypeOK
    <2>2. ShapeInv'  BY <1>0, <1>16 DEF HandlerLost, TypeOK, ShapeInv, Idle
    <2>3. QED  BY <2>1, <2>2
  <1>17. QED
    BY <1>1, <1>2, <1>3, <1>4, <1>5, <1>6, <1>7, <1>8, <1>9, <1>10, <1>11, <1>12,
       <1>13, <1>14, <1>15, <1>16
    DEF Next, HandlerStep

\* Type correctness of the dispatch, for any number of tasks and handlers.
THEOREM TypeCorrect == Spec => []TypeInv
  <1>1. Init => TypeInv
    BY TaskAssumption
    DEF Init, TypeInv, TypeOK, ShapeInv, Free, Handlers, Idle, Agents
  <1>2. QED  BY <1>1, TypeStep, PTL DEF Spec

-----------------------------------------------------------------------------
\* Order.  A task that waits to be handed out never comes back once it has left
\* the queue, and tasks leave it oldest first.

Waiting == {u \in Task : status[u] = "none" \/ u \in Pending}

\* Tasks are created in order.
PrefixInv ==
    \A t, u \in Task : status[u] = "none" /\ status[t] # "none" => t < u

\* All the agent has run is older than t.
Ahead(t) == \A i \in DOMAIN executed : executed[i] < t

\* The task of the poll the agent waits for, or of the one it runs, is newer
\* than all it has run and older than all that still wait.
OrderInv ==
    /\ PrefixInv
    /\ InCreationOrder
    /\ \A u \in Waiting : Ahead(u)
    /\ agent.at = "polling" /\ handler[agent.slot].task # None =>
          /\ handler[agent.slot].task \in Task
          /\ status[handler[agent.slot].task] # "none"
          /\ Ahead(handler[agent.slot].task)
          /\ handler[agent.slot].at = "update" =>
                \A u \in Waiting : handler[agent.slot].task <= u
          /\ handler[agent.slot].at # "update" =>
                \A u \in Waiting : handler[agent.slot].task < u
    /\ agent.at = "running" =>
          /\ Ahead(agent.task)
          /\ \A u \in Waiting : agent.task < u

\* A status only leaves "none" for "pending" and never comes back to either.
LEMMA QueueStep ==
  ASSUME TypeInv, PrefixInv, [Next]_vars
  PROVE  /\ PrefixInv'
         /\ Waiting' \subseteq Waiting
         /\ \A t \in Task : status[t] # "none" => status'[t] # "none"
  <1> DEFINE Moved == {"running", "canceled"} \cup Outcome
  <1> USE TaskAssumption DEF TypeInv, Task
  <1>1. \/ UNCHANGED status /\ deleted \subseteq deleted'
        \/ \E t \in Task : CreateTask(t)
        \/ \E t \in Task, s \in Moved : UpdateStatus(t, s) /\ UNCHANGED deleted
    <2>1. ASSUME NEW h \in Slot, CancelUpdate(h) \/ PollUpdate(h) \/ ResultUpdate(h)
          PROVE  \E t \in Task, s \in Moved : UpdateStatus(t, s) /\ UNCHANGED deleted
      BY <2>1 DEF CancelUpdate, PollUpdate, ResultUpdate, ShapeInv
    <2>2. ASSUME NEW h \in Slot,
                 \/ CancelSelect(h) \/ PollSelect(h) \/ ResultSelect(h) \/ Reply(h)
                 \/ PollRequest(h) \/ ReportRequest(h) \/ HandlerLost(h)
          PROVE  UNCHANGED <<status, deleted>>
      BY <2>2 DEF CancelSelect, PollSelect, ResultSelect, Reply, PollRequest,
                  ReportRequest, HandlerLost
    <2>3. ASSUME NEW h \in Slot, NEW t \in Task, CancelRequest(h, t)
          PROVE  UNCHANGED <<status, deleted>>
      BY <2>3 DEF CancelRequest
    <2>4. ASSUME NEW t \in Task, DeleteTask(t)
          PROVE  UNCHANGED status /\ deleted \subseteq deleted'
      BY <2>4 DEF DeleteTask
    <2>5. ASSUME NEW v \in Outcome, RunTask(v) PROVE UNCHANGED <<status, deleted>>
      BY <2>5 DEF RunTask
    <2>6. GiveUp \/ AgentRestart \/ UNCHANGED vars => UNCHANGED <<status, deleted>>
      BY DEF GiveUp, AgentRestart, vars
    <2>7. QED
      BY <2>1, <2>2, <2>3, <2>4, <2>5, <2>6 DEF Next, HandlerStep
  <1>2. CASE UNCHANGED status /\ deleted \subseteq deleted'
    BY <1>2 DEF PrefixInv, Waiting, Pending, Visible
  <1>3. ASSUME NEW t \in Task, CreateTask(t)
        PROVE  /\ PrefixInv'
               /\ Waiting' \subseteq Waiting
               /\ \A u \in Task : status[u] # "none" => status'[u] # "none"
    <2>1. /\ status[t] = "none" /\ status'[t] = "pending"
          /\ \A u \in Task : u # t => status'[u] = status[u]
          /\ deleted' = deleted
      BY <1>3 DEF CreateTask, TypeOK
    <2>2. PrefixInv'
      BY <1>3, <2>1 DEF CreateTask, PrefixInv
    <2>3. QED  BY <2>1, <2>2 DEF Waiting, Pending, Visible
  <1>4. ASSUME NEW t \in Task, NEW s \in Moved, UpdateStatus(t, s), UNCHANGED deleted
        PROVE  /\ PrefixInv'
               /\ Waiting' \subseteq Waiting
               /\ \A u \in Task : status[u] # "none" => status'[u] # "none"
    <2>1. \A u \in Task : status'[u] = IF u = t /\ Visible(t) THEN s ELSE status[u]
      BY <1>4, UpdateFact
    <2>2. s # "none" /\ s # "pending"
      BY DEF Outcome
    <2>3. QED
      BY <1>4, <2>1, <2>2 DEF PrefixInv, Waiting, Pending, Visible
  <1>5. QED  BY <1>1, <1>2, <1>3, <1>4

\* A step that changes neither the agent, nor what it has run, nor the request it
\* waits for, keeps the order; so does one after which it has none.
LEMMA OrderFrame ==
  ASSUME TypeInv, OrderInv, [Next]_vars, UNCHANGED executed,
         \/ agent'.at \notin {"polling", "running"}
         \/ /\ UNCHANGED agent
            /\ agent.at = "polling" => handler'[agent.slot] = handler[agent.slot]
  PROVE  OrderInv'
  <1>1. /\ PrefixInv'
        /\ Waiting' \subseteq Waiting
        /\ \A t \in Task : status[t] # "none" => status'[t] # "none"
    BY QueueStep DEF OrderInv
  <1>2. \A t : Ahead(t) => Ahead(t)'
    BY DEF Ahead
  <1>3. InCreationOrder' /\ \A u \in Waiting' : Ahead(u)'
    BY <1>1, <1>2 DEF OrderInv, InCreationOrder
  <1>4. QED
    BY <1>1, <1>2, <1>3 DEF OrderInv

\* Every step keeps the order.
LEMMA OrderStep == TypeInv /\ OrderInv /\ [Next]_vars => OrderInv'
  <1> SUFFICES ASSUME TypeInv, OrderInv, [Next]_vars PROVE OrderInv'
    OBVIOUS
  <1> USE TaskAssumption DEF TypeInv
  <1>0. Free.op = "free" /\ Idle.at = "idle" /\ Idle.slot = None
    BY DEF Free, Idle
  <1>a. /\ PrefixInv'
        /\ Waiting' \subseteq Waiting
        /\ \A t \in Task : status[t] # "none" => status'[t] # "none"
    BY QueueStep DEF OrderInv
  <1>1. ASSUME NEW t \in Task, CreateTask(t) \/ DeleteTask(t) PROVE OrderInv'
    <2>1. UNCHANGED <<agent, executed, handler>>  BY <1>1 DEF CreateTask, DeleteTask
    <2>2. QED  BY <2>1, OrderFrame
  \* Requests of others than the agent's poll.
  <1>2. ASSUME NEW h \in Slot,
               \/ \E t \in Task : CancelRequest(h, t)
               \/ CancelSelect(h) \/ CancelUpdate(h) \/ ResultSelect(h) \/ ResultUpdate(h)
        PROVE  OrderInv'
    <2>1. /\ UNCHANGED <<agent, executed>> /\ handler[h].op # "next"
          /\ \A g \in Slot : g # h => handler'[g] = handler[g]
      BY <1>2 DEF CancelRequest, Serve, CancelSelect, CancelUpdate, ResultSelect,
                  ResultUpdate, TypeOK
    <2>2. agent.at = "polling" => handler'[agent.slot] = handler[agent.slot]
      BY <2>1 DEF ShapeInv
    <2>3. QED  BY <2>1, <2>2, OrderFrame
  <1>3. ASSUME NEW h \in Slot, PollSelect(h) \/ PollUpdate(h), agent.slot # h
        PROVE  OrderInv'
    <2>1. UNCHANGED <<agent, executed>> /\ \A g \in Slot : g # h => handler'[g] = handler[g]
      BY <1>3 DEF PollSelect, PollUpdate, TypeOK
    <2>2. agent.at = "polling" => handler'[agent.slot] = handler[agent.slot]
      BY <1>3, <2>1 DEF ShapeInv
    <2>3. QED  BY <2>1, <2>2, OrderFrame
  <1>4. ASSUME NEW h \in Slot, PollSelect(h), agent.slot = h PROVE OrderInv'
    <2>1. /\ UNCHANGED <<agent, executed, status, deleted>>
          /\ handler[h].op = "next" /\ handler[h].at = "select" /\ handler[h].task = None
      BY <1>4 DEF PollSelect, ShapeInv
    <2>2. agent.at \in {"idle", "polling", "running", "finished", "reporting"}
      BY DEF TypeOK, Agents
    <2>3. agent.at = "polling"
      BY <1>4, <2>1, <2>2 DEF ShapeInv, Idle
    <2>4. InCreationOrder' /\ \A u \in Waiting' : Ahead(u)'
      BY <1>a, <2>1 DEF OrderInv, InCreationOrder, Ahead
    <2>5. CASE handler' = [handler EXCEPT ![h].at = "reply"]
      <3>1. handler'[h].task = None  BY <2>1, <2>5 DEF TypeOK, Handlers
      <3>2. QED  BY <1>4, <1>a, <2>1, <2>3, <2>4, <3>1 DEF OrderInv
    <2>6. ASSUME NEW t \in Pending, \A u \in Pending : t <= u,
                 handler' = [handler EXCEPT ![h].at = "update", ![h].task = t]
          PROVE  OrderInv'
      <3>1. handler'[h].at = "update" /\ handler'[h].task = t
        BY <2>6 DEF TypeOK, Handlers
      <3>2. t \in Task /\ t \in Waiting /\ status'[t] # "none"
        BY <2>1 DEF Pending, Visible, Waiting
      <3>3. \A u \in Waiting' : t <= u
        <4>1. \A u \in Task : status[u] = "none" => t < u
          BY <2>1, <3>2 DEF OrderInv, PrefixInv
        <4>2. QED  BY <1>a, <2>6, <3>2, <4>1 DEF Waiting, Task
      <3>4. Ahead(t)'
        BY <2>1, <3>2 DEF OrderInv, Ahead
      <3>5. QED  BY <1>4, <1>a, <2>1, <2>3, <2>4, <3>1, <3>2, <3>3, <3>4 DEF OrderInv
    <2>7. QED  BY <1>4, <2>5, <2>6 DEF PollSelect
  <1>5. ASSUME NEW h \in Slot, PollUpdate(h), agent.slot = h PROVE OrderInv'
    <2> DEFINE t == handler[h].task
    <2>1. /\ UNCHANGED <<agent, executed, deleted>> /\ UpdateStatus(t, "running")
          /\ handler[h].op = "next" /\ handler[h].at = "update" /\ t \in Task
          /\ handler'[h].at = "reply" /\ handler'[h].task = t
      BY <1>5 DEF PollUpdate, ShapeInv, TypeOK, Handlers
    <2>2. agent.at \in {"idle", "polling", "running", "finished", "reporting"}
      BY DEF TypeOK, Agents
    <2>3. agent.at = "polling"
      BY <1>5, <2>1, <2>2 DEF ShapeInv, Idle
    <2>4. InCreationOrder' /\ \A u \in Waiting' : Ahead(u)'
      BY <1>a, <2>1 DEF OrderInv, InCreationOrder, Ahead
    <2>5. t # None /\ t \in Nat
      BY <2>1 DEF Task
    <2>6. /\ status[t] # "none" /\ Ahead(t)
          /\ \A u \in Waiting : t <= u
      BY <1>5, <2>1, <2>3, <2>5 DEF OrderInv
    <2>7. t \notin Waiting'
      <3>1. status'[t] = IF Visible(t) THEN "running" ELSE status[t]
        BY <2>1, UpdateFact
      <3>2. QED  BY <2>1, <2>6, <3>1 DEF Waiting, Pending, Visible
    <2>8. \A u \in Waiting' : t < u
      BY <1>a, <2>1, <2>6, <2>7 DEF Waiting, Task
    <2>9. Ahead(t)' /\ status'[t] # "none"
      BY <1>a, <2>1, <2>6 DEF Ahead
    <2>10. QED
      BY <1>5, <1>a, <2>1, <2>3, <2>4, <2>8, <2>9 DEF OrderInv
  <1>6. ASSUME NEW h \in Slot, Reply(h) PROVE OrderInv'
    <2>1. UNCHANGED <<executed, status, deleted>>
          /\ \A g \in Slot : g # h => handler'[g] = handler[g]
      BY <1>6 DEF Reply, TypeOK
    <2>2. CASE agent.slot # h
      <3>1. UNCHANGED agent  BY <1>6, <2>2 DEF Reply
      <3>2. agent.at = "polling" => handler'[agent.slot] = handler[agent.slot]
        BY <2>1, <2>2 DEF ShapeInv
      <3>3. QED  BY <2>1, <3>1, <3>2, OrderFrame
    <2>3. CASE agent.slot = h /\ handler[h].op = "next" /\ handler[h].task # None
      <3>1. /\ agent'.at = "running" /\ agent'.task = handler[h].task
            /\ handler[h].at = "reply"
        BY <1>6, <2>3 DEF Reply
      <3>2. agent.at = "polling"
        <4>1. agent.at \in {"idle", "polling", "running", "finished", "reporting"}
          BY DEF TypeOK, Agents
        <4>2. QED  BY <2>3, <4>1 DEF ShapeInv, Idle
      <3>3. InCreationOrder' /\ \A u \in Waiting' : Ahead(u)'
        BY <1>a, <2>1 DEF OrderInv, InCreationOrder, Ahead
      <3>4. Ahead(handler[h].task) /\ \A u \in Waiting : handler[h].task < u
        BY <2>3, <3>1, <3>2 DEF OrderInv
      <3>5. Ahead(agent.task)' /\ \A u \in Waiting' : agent'.task < u
        BY <1>a, <2>1, <3>1, <3>4 DEF Ahead
      <3>6. QED  BY <1>a, <3>1, <3>3, <3>5 DEF OrderInv, Ahead
    <2>4. CASE agent.slot = h /\ ~(handler[h].op = "next" /\ handler[h].task # None)
      <3>1. agent'.at \notin {"polling", "running"}
        BY <1>0, <1>6, <2>4 DEF Reply
      <3>2. QED  BY <2>1, <3>1, OrderFrame
    <2>5. QED  BY <2>2, <2>3, <2>4
  <1>7. ASSUME NEW h \in Slot, PollRequest(h) PROVE OrderInv'
    <2>1. /\ UNCHANGED executed /\ agent'.at = "polling" /\ agent'.slot = h
          /\ handler'[h].task = None
      BY <1>7 DEF PollRequest, Serve, TypeOK
    <2>2. InCreationOrder' /\ \A u \in Waiting' : Ahead(u)'
      BY <1>a, <2>1 DEF OrderInv, InCreationOrder, Ahead
    <2>3. QED  BY <1>a, <2>1, <2>2 DEF OrderInv
  <1>8. ASSUME NEW h \in Slot, ReportRequest(h) PROVE OrderInv'
    <2>1. UNCHANGED executed /\ agent'.at = "reporting"
      BY <1>8 DEF ReportRequest, TypeOK, Agents
    <2>2. QED  BY <2>1, OrderFrame
  <1>9. ASSUME NEW h \in Slot, HandlerLost(h) PROVE OrderInv'
    <2>1. UNCHANGED executed /\ \A g \in Slot : g # h => handler'[g] = handler[g]
      BY <1>9 DEF HandlerLost, TypeOK
    <2>2. \/ agent'.at \notin {"polling", "running"}
          \/ UNCHANGED agent /\ agent.slot # h
      BY <1>0, <1>9 DEF HandlerLost
    <2>3. agent.slot # h /\ agent.at = "polling" => handler'[agent.slot] = handler[agent.slot]
      BY <2>1 DEF ShapeInv
    <2>4. QED  BY <2>1, <2>2, <2>3, OrderFrame
  <1>10. ASSUME NEW v \in Outcome, RunTask(v) PROVE OrderInv'
    <2>1. /\ executed' = Append(executed, agent.task) /\ agent.at = "running"
          /\ agent'.at = "finished" /\ UNCHANGED <<status, deleted>>
          /\ agent.task \in Task /\ executed \in Seq(Task)
      BY <1>10 DEF RunTask, ShapeInv, TypeOK, Agents
    <2>2. Ahead(agent.task) /\ \A u \in Waiting : agent.task < u
      BY <2>1 DEF OrderInv
    <2>3. /\ Len(executed') = Len(executed) + 1
          /\ executed'[Len(executed) + 1] = agent.task
          /\ \A i \in 1 .. Len(executed) : executed'[i] = executed[i]
          /\ DOMAIN executed = 1 .. Len(executed) /\ DOMAIN executed' = 1 .. Len(executed')
          /\ Len(executed) \in Nat
      BY <2>1
    <2>4. InCreationOrder'
      BY <2>2, <2>3 DEF OrderInv, InCreationOrder, Ahead
    <2>5. \A u \in Waiting' : Ahead(u)'
      BY <1>a, <2>2, <2>3 DEF OrderInv, Ahead
    <2>6. QED  BY <1>a, <2>1, <2>4, <2>5 DEF OrderInv
  <1>11. CASE GiveUp \/ AgentRestart
    <2>1. UNCHANGED executed /\ agent' = Idle  BY <1>11 DEF GiveUp, AgentRestart
    <2>2. QED  BY <1>0, <2>1, OrderFrame
  <1>12. CASE UNCHANGED vars
    BY <1>12, OrderFrame DEF vars
  <1>13. QED
    BY <1>1, <1>2, <1>3, <1>4, <1>5, <1>6, <1>7, <1>8, <1>9, <1>10, <1>11, <1>12
    DEF Next, HandlerStep

\* The tasks of a host run in the order of their creation, whatever polls time
\* out, are repeated or overtake each other, and however servers and agent die.
THEOREM OrderInvariant == Spec => []InCreationOrder
  <1>1. Init => OrderInv
    BY DEF Init, OrderInv, PrefixInv, InCreationOrder, Waiting, Pending, Ahead, Idle
  <1>2. QED
    <2>1. OrderInv => InCreationOrder  BY DEF OrderInv
    <2>2. QED  BY <1>1, <2>1, TypeCorrect, OrderStep, PTL DEF Spec

\* An ordered history has no repetition: no task runs twice.
THEOREM RunsAtMostOnce == Spec => []AtMostOnce
  <1>1. TypeOK /\ InCreationOrder => AtMostOnce
    BY DEF TypeOK, InCreationOrder, AtMostOnce, Task
  <1>2. TypeInv => TypeOK  BY DEF TypeInv
  <1>3. QED  BY <1>1, <1>2, TypeCorrect, OrderInvariant, PTL

-----------------------------------------------------------------------------
\* Results.

\* What a result request carries is the outcome of a run that did take place.
ResultInv ==
    /\ ResultIsReal
    /\ agent.at = "finished" => Executed(agent.task)
    /\ \A h \in Slot : handler[h].op = "result" =>
          Executed(handler[h].task) /\ handler[h].val = outcome[handler[h].task]

\* A step that writes no result and runs nothing keeps the results real.
LEMMA ResultFrame ==
  ASSUME TypeInv, ResultInv, UNCHANGED <<executed, outcome>>,
         \A t \in Task : status'[t] \in Outcome => status'[t] = status[t],
         agent'.at = "finished" => UNCHANGED agent,
         \A h \in Slot : handler'[h].op = "result" =>
            /\ handler[h].op = "result"
            /\ handler'[h].task = handler[h].task /\ handler'[h].val = handler[h].val
  PROVE  ResultInv'
  <1>1. \A t : Executed(t)' = Executed(t)  BY DEF Executed
  <1>2. ResultIsReal'  BY <1>1 DEF ResultInv, ResultIsReal
  <1>3. QED  BY <1>1, <1>2 DEF ResultInv

\* Every step keeps the results real.
LEMMA ResultStep == TypeInv /\ OrderInv /\ ResultInv /\ [Next]_vars => ResultInv'
  <1> SUFFICES ASSUME TypeInv, OrderInv, ResultInv, [Next]_vars PROVE ResultInv'
    OBVIOUS
  <1> USE TaskAssumption DEF TypeInv
  <1>0. Free.op = "free" /\ Idle.at = "idle"
    BY DEF Free, Idle
  <1>1. ASSUME NEW t \in Task, CreateTask(t) \/ DeleteTask(t) PROVE ResultInv'
    <2>1. \A u \in Task : status'[u] \in Outcome => status'[u] = status[u]
      BY <1>1 DEF CreateTask, DeleteTask, TypeOK, Outcome
    <2>2. QED  BY <1>1, <2>1, ResultFrame DEF CreateTask, DeleteTask
  <1>2. ASSUME NEW h \in Slot, NEW t \in Task, CancelRequest(h, t) PROVE ResultInv'
    <2>1. \A g \in Slot : handler'[g].op = "result" => handler'[g] = handler[g]
      BY <1>2 DEF CancelRequest, Serve, TypeOK
    <2>2. QED  BY <1>2, <2>1, ResultFrame DEF CancelRequest
  <1>3. ASSUME NEW h \in Slot, CancelSelect(h) \/ HandlerLost(h) \/ PollRequest(h)
        PROVE  ResultInv'
    <2>1. \A g \in Slot : handler'[g].op = "result" => handler'[g] = handler[g]
      <3>1. CASE CancelSelect(h)
        BY <1>0, <3>1 DEF CancelSelect, TypeOK, Handlers
      <3>2. CASE HandlerLost(h)
        BY <1>0, <3>2 DEF HandlerLost, TypeOK
      <3>3. CASE PollRequest(h)
        BY <3>3 DEF PollRequest, Serve, TypeOK
      <3>4. QED  BY <1>3, <3>1, <3>2, <3>3
    <2>2. UNCHANGED <<status, executed, outcome>> /\ (agent'.at = "finished" => UNCHANGED agent)
      BY <1>0, <1>3 DEF CancelSelect, HandlerLost, PollRequest
    <2>3. QED  BY <2>1, <2>2, ResultFrame
  <1>4. ASSUME NEW h \in Slot, CancelUpdate(h) \/ PollUpdate(h) PROVE ResultInv'
    <2>1. PICK s \in {"canceled", "running"} : UpdateStatus(handler[h].task, s)
      BY <1>4 DEF CancelUpdate, PollUpdate
    <2>2. handler[h].task \in Task
      BY <1>4 DEF CancelUpdate, PollUpdate, ShapeInv
    <2>3. \A u \in Task : status'[u] \in Outcome => status'[u] = status[u]
      BY <2>1, <2>2, UpdateFact DEF Outcome
    <2>4. \A g \in Slot : handler'[g].op = "result" => handler'[g] = handler[g]
      BY <1>0, <1>4 DEF CancelUpdate, PollUpdate, TypeOK, Handlers
    <2>5. UNCHANGED <<agent, executed, outcome>>
      BY <1>4 DEF CancelUpdate, PollUpdate
    <2>6. QED  BY <2>3, <2>4, <2>5, ResultFrame
  <1>5. ASSUME NEW h \in Slot, PollSelect(h) PROVE ResultInv'
    <2>1. handler[h].op = "next" /\ UNCHANGED <<status, agent, executed, outcome>>
      BY <1>5 DEF PollSelect
    <2>2. \A g \in Slot : handler'[g].op = handler[g].op /\ (g # h => handler'[g] = handler[g])
      BY <1>5 DEF PollSelect, TypeOK, Handlers
    <2>3. QED  BY <2>1, <2>2, ResultFrame
  <1>6. ASSUME NEW h \in Slot, ResultSelect(h) PROVE ResultInv'
    <2>1. \A g \in Slot : /\ handler'[g].op = handler[g].op
                         /\ handler'[g].task = handler[g].task
                         /\ handler'[g].val = handler[g].val
      BY <1>6 DEF ResultSelect, TypeOK, Handlers
    <2>2. QED  BY <1>6, <2>1, ResultFrame DEF ResultSelect
  <1>7. ASSUME NEW h \in Slot, ResultUpdate(h) PROVE ResultInv'
    <2> DEFINE t == handler[h].task
    <2>1. /\ UNCHANGED <<agent, executed, outcome>>
          /\ UpdateStatus(t, handler[h].val) /\ t \in Task
          /\ Executed(t) /\ handler[h].val = outcome[t]
      BY <1>7 DEF ResultUpdate, ShapeInv, ResultInv
    <2>2. \A u : Executed(u)' = Executed(u)
      BY <2>1 DEF Executed
    <2>3. ResultIsReal'
      BY <2>1, <2>2, UpdateFact DEF ResultInv, ResultIsReal
    <2>4. \A g \in Slot : /\ handler'[g].op = handler[g].op
                         /\ handler'[g].task = handler[g].task
                         /\ handler'[g].val = handler[g].val
      BY <1>7 DEF ResultUpdate, TypeOK, Handlers
    <2>5. QED  BY <2>1, <2>2, <2>3, <2>4 DEF ResultInv
  <1>8. ASSUME NEW h \in Slot, Reply(h) PROVE ResultInv'
    <2>1. \A g \in Slot : handler'[g].op = "result" => handler'[g] = handler[g]
      BY <1>0, <1>8 DEF Reply, TypeOK
    <2>2. UNCHANGED <<status, executed, outcome>> /\ (agent'.at = "finished" => UNCHANGED agent)
      BY <1>0, <1>8 DEF Reply
    <2>3. QED  BY <2>1, <2>2, ResultFrame
  <1>9. ASSUME NEW h \in Slot, ReportRequest(h) PROVE ResultInv'
    <2>1. /\ UNCHANGED <<status, executed, outcome>> /\ agent'.at = "reporting"
          /\ agent.at = "finished" /\ Executed(agent.task)
      BY <1>9 DEF ReportRequest, TypeOK, Agents, ResultInv
    <2>2. /\ handler'[h].task = agent.task /\ handler'[h].val = outcome[agent.task]
          /\ \A g \in Slot : g # h => handler'[g] = handler[g]
      BY <1>9 DEF ReportRequest, Serve, TypeOK
    <2>3. \A u : Executed(u)' = Executed(u)
      BY <2>1 DEF Executed
    <2>4. QED  BY <2>1, <2>2, <2>3 DEF ResultInv, ResultIsReal
  <1>10. ASSUME NEW v \in Outcome, RunTask(v) PROVE ResultInv'
    <2> DEFINE t == agent.task
    <2>1. /\ executed' = Append(executed, t) /\ UNCHANGED <<status, handler>>
          /\ t \in Task /\ executed \in Seq(Task) /\ agent'.task = t
      BY <1>10 DEF RunTask, ShapeInv, TypeOK, Agents
    <2>2. \A u : Executed(u)' <=> Executed(u) \/ u = t
      BY <2>1 DEF Executed
    <2>3. ~Executed(t)
      BY <1>10, <2>1 DEF RunTask, OrderInv, Ahead, Executed, Task
    <2>4. \A u \in Task : u # t => outcome'[u] = outcome[u]
      BY <1>10, <2>1 DEF RunTask, TypeOK
    <2>5. ResultIsReal'
      BY <2>1, <2>2, <2>3, <2>4 DEF ResultInv, ResultIsReal
    <2>6. \A h \in Slot : handler[h].op = "result" => handler[h].task \in Task
      BY DEF ShapeInv
    <2>7. QED  BY <2>1, <2>2, <2>3, <2>4, <2>5, <2>6 DEF ResultInv
  <1>11. CASE GiveUp \/ AgentRestart
    BY <1>0, <1>11, ResultFrame DEF GiveUp, AgentRestart
  <1>12. CASE UNCHANGED vars
    BY <1>12, ResultFrame DEF vars
  <1>13. QED
    BY <1>1, <1>2, <1>3, <1>4, <1>5, <1>6, <1>7, <1>8, <1>9, <1>10, <1>11, <1>12
    DEF Next, HandlerStep

\* A finished status in the table is always the outcome of the agent's own and
\* only run of the task, whatever requests were overtaken on the way.
THEOREM ResultInvariant == Spec => []ResultIsReal
  <1>1. Init => OrderInv /\ ResultInv
    BY DEF Init, OrderInv, PrefixInv, InCreationOrder, Waiting, Pending, Ahead, Idle,
           ResultInv, ResultIsReal, Free, Outcome
  <1>2. ResultInv => ResultIsReal  BY DEF ResultInv
  <1>3. QED  BY <1>1, <1>2, TypeCorrect, OrderStep, ResultStep, PTL DEF Spec

-----------------------------------------------------------------------------
\* Cancellation.

\* A canceled task that no poll, report or run holds: no step touches it.
LEMMA CancelStep ==
  ASSUME TypeInv, [Next]_vars, NEW t \in Task, status[t] = "canceled", Untouched(t)
  PROVE  status'[t] = "canceled" /\ Untouched(t)' /\ (Executed(t)' <=> Executed(t))
  <1> DEFINE Goal == status'[t] = "canceled" /\ Untouched(t)' /\ (Executed(t)' <=> Executed(t))
  <1> USE TaskAssumption DEF TypeInv, Task
  <1>0. Free.task = None /\ Idle.task = None /\ None # t
    BY DEF Free, Idle
  <1>1. ASSUME NEW u \in Task, CreateTask(u) \/ DeleteTask(u) PROVE Goal
    BY <1>1 DEF CreateTask, DeleteTask, TypeOK, Untouched, Executed
  <1>2. ASSUME NEW h \in Slot, NEW u \in Task, CancelRequest(h, u) PROVE Goal
    BY <1>2 DEF CancelRequest, Serve, TypeOK, Untouched, Executed
  <1>3. ASSUME NEW h \in Slot, CancelSelect(h) PROVE Goal
    BY <1>0, <1>3 DEF CancelSelect, TypeOK, Handlers, Untouched, Executed
  <1>4. ASSUME NEW h \in Slot, CancelUpdate(h) PROVE Goal
    <2>1. status'[t] = "canceled"
      BY <1>4 DEF CancelUpdate, UpdateStatus, TypeOK
    <2>2. QED  BY <1>0, <1>4, <2>1 DEF CancelUpdate, TypeOK, Untouched, Executed
  <1>5. ASSUME NEW h \in Slot, PollSelect(h) PROVE Goal
    <2>1. t \notin Pending  BY DEF Pending
    <2>2. handler[h].op = "next" /\ handler[h].task # t
          /\ UNCHANGED <<status, agent, executed>>
      BY <1>5 DEF PollSelect, Untouched
    <2>3. /\ handler'[h].task # t
          /\ \A g \in Slot : g # h => handler'[g] = handler[g]
      BY <1>5, <2>1, <2>2 DEF PollSelect, TypeOK, Handlers
    <2>4. QED  BY <2>2, <2>3 DEF Untouched, Executed
  <1>6. ASSUME NEW h \in Slot, PollUpdate(h) \/ ResultUpdate(h) PROVE Goal
    <2>1. handler[h].task # t
      BY <1>6 DEF PollUpdate, ResultUpdate, Untouched
    <2>2. status'[t] = "canceled"
      BY <1>6, <2>1 DEF PollUpdate, ResultUpdate, UpdateStatus, TypeOK
    <2>3. UNCHANGED <<agent, executed>> /\ handler' = [handler EXCEPT ![h].at = "reply"]
      BY <1>6 DEF PollUpdate, ResultUpdate
    <2>4. \A g \in Slot : handler'[g].task = handler[g].task /\ handler'[g].op = handler[g].op
      BY <2>3 DEF TypeOK, Handlers
    <2>5. QED  BY <2>2, <2>3, <2>4 DEF Untouched, Executed
  <1>7. ASSUME NEW h \in Slot, ResultSelect(h) PROVE Goal
    <2>1. \A g \in Slot : handler'[g].task = handler[g].task /\ handler'[g].op = handler[g].op
      BY <1>7 DEF ResultSelect, TypeOK, Handlers
    <2>2. QED  BY <1>7, <2>1 DEF ResultSelect, Untouched, Executed
  <1>8. ASSUME NEW h \in Slot, Reply(h) \/ HandlerLost(h) PROVE Goal
    <2>1. UNCHANGED <<status, executed>> /\ handler' = [handler EXCEPT ![h] = Free]
      BY <1>8 DEF Reply, HandlerLost
    <2>2. agent'.task # t
      BY <1>0, <1>8 DEF Reply, HandlerLost, Untouched
    <2>3. QED  BY <1>0, <2>1, <2>2 DEF Untouched, Executed, TypeOK
  <1>9. ASSUME NEW h \in Slot, PollRequest(h) \/ ReportRequest(h) PROVE Goal
    <2>1. PICK op, u, v :
            /\ op \in {"next", "result"}
            /\ Serve(h, op, u, v) /\ u # t
            /\ UNCHANGED <<status, executed>>
      BY <1>0, <1>9 DEF PollRequest, ReportRequest, Untouched
    <2>2. agent'.task # t
      <3>1. CASE PollRequest(h)  BY <1>0, <3>1 DEF PollRequest
      <3>2. CASE ReportRequest(h)
        BY <3>2 DEF ReportRequest, Untouched, TypeOK, Agents
      <3>3. QED  BY <1>9, <3>1, <3>2
    <2>3. QED  BY <2>1, <2>2 DEF Serve, TypeOK, Untouched, Executed
  <1>10. ASSUME NEW v \in Outcome, RunTask(v) PROVE Goal
    <2>1. agent.task \in Task /\ agent.task # t /\ executed \in Seq(Task)
      BY <1>10 DEF RunTask, ShapeInv, TypeOK, Untouched
    <2>2. Executed(t)' <=> Executed(t)
      <3>1. executed' = Append(executed, agent.task)  BY <1>10 DEF RunTask
      <3>2. /\ DOMAIN executed = 1 .. Len(executed) /\ Len(executed) \in Nat
            /\ DOMAIN executed' = 1 .. Len(executed) + 1
            /\ executed'[Len(executed) + 1] = agent.task
            /\ \A i \in 1 .. Len(executed) : executed'[i] = executed[i]
        BY <2>1, <3>1
      <3>3. QED  BY <2>1, <3>2 DEF Executed
    <2>3. QED  BY <1>10, <2>1, <2>2 DEF RunTask, Untouched, TypeOK, Agents
  <1>11. CASE GiveUp \/ AgentRestart
    BY <1>0, <1>11 DEF GiveUp, AgentRestart, Untouched, Executed
  <1>12. CASE UNCHANGED vars
    BY <1>12 DEF vars, Untouched, Executed
  <1>13. QED
    BY <1>1, <1>2, <1>3, <1>4, <1>5, <1>6, <1>7, <1>8, <1>9, <1>10, <1>11, <1>12
    DEF Next, HandlerStep

\* A cancellation no poll has overtaken is final.
THEOREM CleanCancel == Spec => CleanCancelIsFinal
  <1>1. TypeInv /\ [Next]_vars =>
          [\A t \in Task : status[t] = "canceled" /\ Untouched(t)
              => /\ status'[t] = "canceled" /\ Untouched(t)'
                 /\ (Executed(t)' <=> Executed(t))]_vars
    BY CancelStep
  <1>2. QED  BY <1>1, TypeCorrect, PTL DEF Spec, CleanCancelIsFinal

-----------------------------------------------------------------------------
\* Refinement.

\* What the queue shows of the table.
Submitted == {t \in Task : status[t] # "none"}
Shown == [t \in Task |-> IF status[t] \in Outcome THEN status[t] ELSE "none"]

\* A step that runs nothing and leaves every status alone is no step of the queue.
LEMMA QueueStutter ==
  ASSUME UNCHANGED <<status, executed, outcome>>
  PROVE  UNCHANGED Queue!queueVars
  BY DEF Queue!queueVars

\* An update to a status that is no outcome covers what was shown, if anything.
LEMMA QueueCover ==
  ASSUME TypeOK, NEW t \in Task, NEW s \in {"running", "canceled"}, UpdateStatus(t, s),
         UNCHANGED <<executed, outcome>>
  PROVE  Queue!Cover(t) \/ UNCHANGED Queue!queueVars
  <1>1. CASE ~Visible(t)
    BY <1>1, QueueStutter DEF UpdateStatus
  <1>2. CASE Visible(t)
    <2>1. \A u \in Task : status'[u] = IF u = t THEN s ELSE status[u]
      BY <1>2, UpdateFact
    <2>2. Submitted' = Submitted
      BY <1>2, <2>1 DEF Submitted, Visible
    <2>3. Shown' = [Shown EXCEPT ![t] = "none"]
      BY <2>1 DEF Shown, Outcome
    <2>4. QED  BY <2>2, <2>3 DEF Queue!Cover, Submitted, Shown
  <1>3. QED  BY <1>1, <1>2

\* Each step of handlers and agent is a step of the queue or none.
LEMMA QueueSimulation ==
  TypeInv /\ OrderInv /\ ResultInv /\ [Next]_vars => [Queue!Next]_(Queue!queueVars)
  <1> SUFFICES ASSUME TypeOK, ShapeInv, OrderInv, ResultInv, [Next]_vars
               PROVE  Queue!Next \/ UNCHANGED Queue!queueVars
    BY DEF TypeInv
  <1>1. ASSUME NEW t \in Task, CreateTask(t) PROVE Queue!Submit(t)
    <2>1. \A u \in Task : status'[u] = IF u = t THEN "pending" ELSE status[u]
      BY <1>1 DEF CreateTask, TypeOK
    <2>2. Submitted' = Submitted \cup {t}  BY <2>1 DEF Submitted
    <2>3. Shown' = Shown
      <3>1. status[t] = "none"  BY <1>1 DEF CreateTask
      <3>2. QED  BY <2>1, <3>1 DEF Shown, Outcome
    <2>4. QED  BY <1>1, <2>2, <2>3 DEF Queue!Submit, CreateTask, Submitted, Shown
  <1>2. ASSUME NEW h \in Slot, CancelUpdate(h) PROVE Queue!Next \/ UNCHANGED Queue!queueVars
    <2>1. PICK t \in Task : t = handler[h].task  BY <1>2 DEF CancelUpdate, ShapeInv
    <2>2. Queue!Cover(t) \/ UNCHANGED Queue!queueVars
      BY <1>2, <2>1, QueueCover DEF CancelUpdate
    <2>3. QED  BY <2>2 DEF Queue!Next
  <1>3. ASSUME NEW h \in Slot, PollUpdate(h) PROVE Queue!Next \/ UNCHANGED Queue!queueVars
    <2>1. PICK t \in Task : t = handler[h].task  BY <1>3 DEF PollUpdate, ShapeInv
    <2>2. Queue!Cover(t) \/ UNCHANGED Queue!queueVars
      BY <1>3, <2>1, QueueCover DEF PollUpdate
    <2>3. QED  BY <2>2 DEF Queue!Next
  <1>4. ASSUME NEW h \in Slot, ResultUpdate(h) PROVE Queue!Next \/ UNCHANGED Queue!queueVars
    <2>0. PICK t \in Task : t = handler[h].task  BY <1>4 DEF ResultUpdate, ShapeInv
    <2>1. handler[h].val \in Outcome  BY <1>4 DEF ResultUpdate, ShapeInv
    <2>2. Executed(t) /\ handler[h].val = outcome[t]  BY <1>4, <2>0 DEF ResultUpdate, ResultInv
    <2>3. CASE ~Visible(t)
      BY <1>4, <2>0, <2>3, QueueStutter DEF ResultUpdate, UpdateStatus
    <2>4. CASE Visible(t)
      <3>1. UpdateStatus(t, handler[h].val)  BY <1>4, <2>0 DEF ResultUpdate
      <3>2. \A u \in Task : status'[u] = IF u = t THEN outcome[t] ELSE status[u]
        BY <2>1, <2>2, <2>4, <3>1, UpdateFact
      <3>3. Submitted' = Submitted
        BY <2>1, <2>2, <2>4, <3>2 DEF Submitted, Visible, Outcome
      <3>4. Shown' = [Shown EXCEPT ![t] = outcome[t]]
        BY <2>1, <2>2, <3>2 DEF Shown
      <3>5. Queue!Show(t)
        BY <1>4, <2>2, <3>3, <3>4 DEF ResultUpdate, Queue!Show, Executed, Submitted, Shown
      <3>6. QED  BY <3>5 DEF Queue!Next
    <2>5. QED  BY <2>3, <2>4
  <1>5. ASSUME NEW v \in Outcome, RunTask(v) PROVE Queue!Run(agent.task, v)
    <2>1. agent.task \in Task  BY <1>5 DEF RunTask, ShapeInv
    <2>2. agent.task \notin Waiting
      BY <1>5, <2>1, TaskAssumption DEF RunTask, OrderInv, Task
    <2>3. status[agent.task] # "none" /\ Ahead(agent.task)
      BY <1>5, <2>1, <2>2 DEF RunTask, OrderInv, Waiting
    <2>4. QED
      BY <1>5, <2>1, <2>3 DEF RunTask, Queue!Run, Ahead
  <1>6. ASSUME NEW h \in Slot, NEW t \in Task, CancelRequest(h, t)
        PROVE  UNCHANGED Queue!queueVars
    BY <1>6, QueueStutter DEF CancelRequest
  <1>7. ASSUME NEW h \in Slot,
               \/ CancelSelect(h) \/ PollSelect(h) \/ ResultSelect(h) \/ Reply(h)
               \/ PollRequest(h) \/ ReportRequest(h) \/ HandlerLost(h)
        PROVE  UNCHANGED Queue!queueVars
    BY <1>7, QueueStutter
    DEF CancelSelect, PollSelect, ResultSelect, Reply, PollRequest, ReportRequest, HandlerLost
  <1>8. ASSUME \/ \E t \in Task : DeleteTask(t)
               \/ GiveUp \/ AgentRestart \/ UNCHANGED vars
        PROVE  UNCHANGED Queue!queueVars
    BY <1>8, QueueStutter DEF DeleteTask, GiveUp, AgentRestart, vars
  <1>9. QED
    <2>1. ASSUME NEW t \in Task, CreateTask(t) PROVE Queue!Next
      BY <1>1, <2>1 DEF Queue!Next
    <2>2. ASSUME NEW v \in Outcome, RunTask(v) PROVE Queue!Next
      <3>1. PICK t \in Task : t = agent.task  BY <2>2 DEF RunTask, ShapeInv
      <3>2. Queue!Run(t, v)  BY <1>5, <2>2, <3>1
      <3>3. v \in Queue!Results  BY DEF Queue!Results, Outcome
      <3>4. QED  BY <3>2, <3>3 DEF Queue!Next
    <2>3. QED
      BY <1>2, <1>3, <1>4, <1>6, <1>7, <1>8, <2>1, <2>2 DEF Next, HandlerStep

\* Handlers, table and agent implement the queue of commands: whatever is lost,
\* late, repeated or restarted, only the steps of the queue are seen.
THEOREM QueueImplemented == Spec => ImplementsQueue
  <1>1. Init => OrderInv /\ ResultInv
    BY DEF Init, OrderInv, PrefixInv, InCreationOrder, Waiting, Pending, Ahead, Idle,
           ResultInv, ResultIsReal, Free, Outcome
  <1>2. Init => Queue!Init
    BY DEF Init, Queue!Init, Outcome
  <1>3. QED
    BY <1>1, <1>2, TypeCorrect, OrderStep, ResultStep, QueueSimulation, PTL
    DEF Spec, ImplementsQueue, Queue!Spec

=============================================================================
