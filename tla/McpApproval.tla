----------------------------- MODULE McpApproval -----------------------------
(***************************************************************************)
(* Tool calls proposed by the AI assistant and their approval              *)
(* (server/controllers/mcp.go, server/services/mcp_service.go and          *)
(* server/services/mcp_tools.go).                                          *)
(*                                                                         *)
(* A call of a tool that changes a host waits for an administrator in a    *)
(* table in the memory of the server process that took the proposal; once  *)
(* approved, a goroutine queues the command as a task (module              *)
(* TaskDispatch).  Administrators act on the ids their last list showed.   *)
(* All requests are of one tenant: every operation filters by tenant.      *)
(***************************************************************************)
EXTENDS Integers, FiniteSets

CONSTANTS
    Server,     \* server processes; a request may reach any of them
    Admin,      \* administrators, each with a page of pending approvals
    Request,    \* the proposals
    Tool,       \* the tools they use
    MaxRestart, \* bound on restarts
    None

ASSUME McpAssumption ==
    /\ IsFiniteSet(Request) /\ None \notin Request /\ None \notin Server
    /\ MaxRestart \in Nat

\* toolDefs: what may change a host needs approval, ...
UnsafeTools == {"execute_command", "flush_caches"}

\* ... and ExecuteTool carries out these.
ReadTools == {"list_hosts", "get_host_status", "get_recent_alerts", "generate_report"}

\* Ids are taken from a counter that starts at 0 with the process.
Id == 0 .. Cardinality(Request)

VARIABLES
    approvals,      \* approvals[s][id]: the request stored there, or None
    nextApprovalID,
    answer,         \* answer[r]: what the proposer was told
    status,         \* status[r]: Status of the approval record
    executedAt,     \* executedAt[r]: nil, or whether the cleanup age has passed
    goroutine,      \* goroutine[r]: where executeApproval is
    page,           \* page[a][id]: the request administrator a sees under id
    source,         \* source[a]: the process that made page[a], None when it has ended
    tasks,          \* history: tasks queued for r
    restarts

record == <<answer, status>>
vars == <<approvals, nextApprovalID, record, executedAt, goroutine, page, source,
          tasks, restarts>>

Table == [Id -> Request \cup {None}]
Empty == [id \in Id |-> None]

TypeOK ==
    /\ approvals \in [Server -> Table]
    /\ nextApprovalID \in [Server -> Id]
    /\ answer \in [Request -> {"none", "refused", "executed", "needs_approval"}]
    /\ status \in [Request -> {"none", "pending", "approved", "rejected"}]
    /\ executedAt \in [Request -> {"nil", "recent", "old"}]
    /\ goroutine \in [Request -> {"none", "started", "submitted"}]
    /\ page \in [Admin -> Table]
    /\ source \in [Admin -> Server \cup {None}]
    /\ tasks \in [Request -> Nat]
    /\ restarts \in 0 .. MaxRestart

Stored(s, r) == \E id \in Id : approvals[s][id] = r

Live(r) == \E s \in Server : Stored(s, r)

-----------------------------------------------------------------------------
\* Proposals.

\* ValidateToolCall refuses an unknown tool, a dangerous command or bad arguments.
ProposalRefused(r) ==
    /\ answer[r] = "none"
    /\ answer' = [answer EXCEPT ![r] = "refused"]
    /\ UNCHANGED <<approvals, nextApprovalID, status, executedAt, goroutine, page,
                   source, tasks, restarts>>

\* A tool marked safe goes to ExecuteTool at once, which knows fewer of them.
ExecuteTool(r, t) ==
    /\ answer[r] = "none" /\ t \notin UnsafeTools
    /\ answer' = [answer EXCEPT ![r] = IF t \in ReadTools THEN "executed" ELSE "refused"]
    /\ UNCHANGED <<approvals, nextApprovalID, status, executedAt, goroutine, page,
                   source, tasks, restarts>>

\* Mutant: the id is the number of approvals in the table.
CreateApprovalReusingIds(s, r, t) ==
    /\ answer[r] = "none" /\ t \in UnsafeTools
    /\ answer' = [answer EXCEPT ![r] = "needs_approval"]
    /\ status' = [status EXCEPT ![r] = "pending"]
    /\ approvals' = [approvals EXCEPT ![s][Cardinality({q \in Request : Stored(s, q)})] = r]
    /\ UNCHANGED <<nextApprovalID, executedAt, goroutine, page, source, tasks, restarts>>

\* Mutant: the counter is advanced twice.
CreateApprovalSkippingIds(s, r, t) ==
    /\ answer[r] = "none" /\ t \in UnsafeTools
    /\ answer' = [answer EXCEPT ![r] = "needs_approval"]
    /\ status' = [status EXCEPT ![r] = "pending"]
    /\ approvals' = [approvals EXCEPT ![s][nextApprovalID[s]] = r]
    /\ nextApprovalID' = [nextApprovalID EXCEPT ![s] = @ + 2]
    /\ UNCHANGED <<executedAt, goroutine, page, source, tasks, restarts>>

CreateApproval(s, r, t) ==
    /\ answer[r] = "none" /\ t \in UnsafeTools
    /\ answer' = [answer EXCEPT ![r] = "needs_approval"]
    /\ status' = [status EXCEPT ![r] = "pending"]
    /\ approvals' = [approvals EXCEPT ![s][nextApprovalID[s]] = r]
    /\ nextApprovalID' = [nextApprovalID EXCEPT ![s] = @ + 1]
    /\ UNCHANGED <<executedAt, goroutine, page, source, tasks, restarts>>

-----------------------------------------------------------------------------
\* Decisions.

GetPendingApprovals(s, a) ==
    /\ page' = [page EXCEPT ![a] =
          [id \in Id |-> IF approvals[s][id] # None /\ status[approvals[s][id]] = "pending"
                         THEN approvals[s][id] ELSE None]]
    /\ source' = [source EXCEPT ![a] = s]
    /\ UNCHANGED <<approvals, nextApprovalID, record, executedAt, goroutine, tasks,
                   restarts>>

\* Mutant: an approval that has been decided may be decided again.
DecidableAgain(s, a, id) == page[a][id] # None /\ approvals[s][id] # None

\* The administrator clicks a row of the page; the server that gets the request
\* looks the id up in its own table.
Decidable(s, a, id) ==
    /\ page[a][id] # None
    /\ approvals[s][id] # None /\ status[approvals[s][id]] = "pending"

Approve(s, a, id) ==
    /\ Decidable(s, a, id)
    /\ LET r == approvals[s][id]
       IN  /\ status' = [status EXCEPT ![r] = "approved"]
           /\ goroutine' = [goroutine EXCEPT ![r] = "started"]
    /\ UNCHANGED <<approvals, nextApprovalID, answer, executedAt, page, source, tasks,
                   restarts>>

\* Mutant: a rejection starts the execution as well.
RejectExecutes(s, a, id) ==
    /\ Decidable(s, a, id)
    /\ status' = [status EXCEPT ![approvals[s][id]] = "rejected"]
    /\ goroutine' = [goroutine EXCEPT ![approvals[s][id]] = "started"]
    /\ UNCHANGED <<approvals, nextApprovalID, answer, executedAt, page, source, tasks,
                   restarts>>

Reject(s, a, id) ==
    /\ Decidable(s, a, id)
    /\ status' = [status EXCEPT ![approvals[s][id]] = "rejected"]
    /\ UNCHANGED <<approvals, nextApprovalID, answer, executedAt, goroutine, page, source,
                   tasks, restarts>>

-----------------------------------------------------------------------------
\* executeApproval.

\* The host is found and the task created, or the result says why not; the
\* status stays "approved" either way.
Submit(r) ==
    /\ goroutine[r] = "started"
    /\ goroutine' = [goroutine EXCEPT ![r] = "submitted"]
    /\ \/ tasks' = [tasks EXCEPT ![r] = @ + 1]
       \/ UNCHANGED tasks
    /\ UNCHANGED <<approvals, nextApprovalID, record, executedAt, page, source, restarts>>

\* Mutant: the time of execution is not written back.
FinishWithoutTime(r) ==
    /\ goroutine[r] = "submitted"
    /\ goroutine' = [goroutine EXCEPT ![r] = "none"]
    /\ UNCHANGED <<approvals, nextApprovalID, record, executedAt, page, source, tasks,
                   restarts>>

\* The deferred function sets ExecutedAt and writes the record back.
Finish(r) ==
    /\ goroutine[r] = "submitted"
    /\ goroutine' = [goroutine EXCEPT ![r] = "none"]
    /\ executedAt' = [executedAt EXCEPT ![r] = "recent"]
    /\ UNCHANGED <<approvals, nextApprovalID, record, page, source, tasks, restarts>>

\* Ten minutes go by.
GrowOld(r) ==
    /\ executedAt[r] = "recent"
    /\ executedAt' = [executedAt EXCEPT ![r] = "old"]
    /\ UNCHANGED <<approvals, nextApprovalID, record, goroutine, page, source, tasks,
                   restarts>>

-----------------------------------------------------------------------------

Completed(r) == status[r] # "pending" /\ executedAt[r] = "old"

RemoveCompletedApprovals(s) ==
    /\ approvals' = [approvals EXCEPT ![s] =
          [id \in Id |-> IF @[id] # None /\ Completed(@[id]) THEN None ELSE @[id]]]
    /\ UNCHANGED <<nextApprovalID, record, executedAt, goroutine, page, source, tasks,
                   restarts>>

\* The process ends and starts again: table, counter and goroutines are gone.
Restart(s) ==
    /\ restarts < MaxRestart
    /\ restarts' = restarts + 1
    /\ approvals' = [approvals EXCEPT ![s] = Empty]
    /\ nextApprovalID' = [nextApprovalID EXCEPT ![s] = 0]
    /\ goroutine' = [r \in Request |-> IF Stored(s, r) THEN "none" ELSE goroutine[r]]
    /\ source' = [a \in Admin |-> IF source[a] = s THEN None ELSE source[a]]
    /\ UNCHANGED <<record, executedAt, page, tasks>>

-----------------------------------------------------------------------------

Init ==
    /\ approvals = [s \in Server |-> Empty]
    /\ nextApprovalID = [s \in Server |-> 0]
    /\ answer = [r \in Request |-> "none"]
    /\ status = [r \in Request |-> "none"]
    /\ executedAt = [r \in Request |-> "nil"]
    /\ goroutine = [r \in Request |-> "none"]
    /\ page = [a \in Admin |-> Empty]
    /\ source = [a \in Admin |-> None]
    /\ tasks = [r \in Request |-> 0]
    /\ restarts = 0

Next ==
    \/ \E r \in Request : \/ ProposalRefused(r)
                          \/ \E t \in Tool : ExecuteTool(r, t)
                          \/ \E s \in Server, t \in Tool : CreateApproval(s, r, t)
                          \/ Submit(r) \/ Finish(r) \/ GrowOld(r)
    \/ \E s \in Server, a \in Admin : \/ GetPendingApprovals(s, a)
                                      \/ \E id \in Id : Approve(s, a, id) \/ Reject(s, a, id)
    \/ \E s \in Server : RemoveCompletedApprovals(s) \/ Restart(s)

\* Goroutines run to their end, time goes on and the cleanup timer fires.  No
\* administrator need ever decide.
Fairness ==
    /\ \A r \in Request : WF_vars(Submit(r)) /\ WF_vars(Finish(r)) /\ WF_vars(GrowOld(r))
    /\ \A s \in Server : WF_vars(RemoveCompletedApprovals(s))

Spec == Init /\ [][Next]_vars /\ Fairness

-----------------------------------------------------------------------------
\* Properties.

\* No proposal queues its command twice, however many administrators approve it.
QueuedOnce == \A r \in Request : tasks[r] <= 1

\* A command is queued only for a call that was approved and not rejected.
OnlyApprovedRun == \A r \in Request : tasks[r] > 0 => status[r] = "approved"

\* An approved call is carried out, or the process ends, and then it leaves the table.
ApprovedIsCarriedOut ==
    \A r \in Request : status[r] = "approved" ~> ~ Live(r)

\* Calls that change a host have to be approved by a human: an administrator
\* approves the call that the page shows under the id.  An id is looked up in the
\* table of whichever process gets the request, where it may stand for another
\* call than in the process that listed it.
ClickDecidesShown ==
    [][\A s \in Server, a \in Admin, id \in Id :
          Approve(s, a, id) => approvals[s][id] = page[a][id]]_vars

\* What holds of that is the part within one process: an id on an administrator's
\* page stands for the same call there for as long as the process that listed it
\* lives, whatever has been decided, cleaned up and proposed since.  At another
\* server, or after a restart, it may stand for another call.
PageStaysTrue ==
    \A a \in Admin, id \in Id :
        source[a] # None /\ page[a][id] # None /\ approvals[source[a]][id] # None
            => approvals[source[a]][id] = page[a][id]

=============================================================================
