-------------------------- MODULE McpApproval_proofs --------------------------
(***************************************************************************)
(* Proofs about the approval of tool calls, for any numbers of servers,    *)
(* administrators, proposals and restarts.                                 *)
(***************************************************************************)
EXTENDS McpApproval, FiniteSetTheorems, TLAPS

-----------------------------------------------------------------------------
\* Ids.  The counter of a process never passes the number of proposals, because
\* each id is used up by a proposal that was answered.

Answered == {r \in Request : answer[r] # "none"}

CountInv ==
    /\ \A s \in Server : nextApprovalID[s] <= Cardinality(Answered)
    /\ \A s \in Server, id \in Id : approvals[s][id] # None => id < nextApprovalID[s]

\* The number of answered proposals.
LEMMA AnsweredFinite ==
  /\ IsFiniteSet(Answered) /\ Cardinality(Answered) \in Nat
  /\ Cardinality(Request) \in Nat /\ Cardinality(Answered) <= Cardinality(Request)
  <1>1. IsFiniteSet(Request)  BY McpAssumption
  <1>2. Answered \in SUBSET Request  BY DEF Answered
  <1>3. QED  BY <1>1, <1>2, FS_Subset, FS_CardinalityType

\* A proposal that is answered adds one to it.
LEMMA AnsweredGrows ==
  ASSUME TypeOK, NEW r \in Request, NEW v, answer[r] = "none", v # "none",
         answer' = [answer EXCEPT ![r] = v]
  PROVE  /\ Cardinality(Answered') = Cardinality(Answered) + 1
         /\ Cardinality(Answered) + 1 <= Cardinality(Request)
  <1>1. Answered' = Answered \cup {r} /\ r \notin Answered
    BY DEF Answered, TypeOK
  <1>2. IsFiniteSet(Answered) /\ Cardinality(Answered) \in Nat
    BY AnsweredFinite
  <1>3. Cardinality(Answered') = Cardinality(Answered) + 1
    BY <1>1, <1>2, FS_AddElement
  <1>4. Answered' \in SUBSET Request  BY DEF Answered
  <1>5. Cardinality(Answered') <= Cardinality(Request)
    BY <1>4, FS_Subset, McpAssumption
  <1>6. QED  BY <1>3, <1>5

\* Ids are the numbers up to the number of proposals.
LEMMA IdFacts ==
  /\ 0 \in Id
  /\ \A i \in Id : i \in Nat
  /\ \A i \in Nat : i <= Cardinality(Request) => i \in Id
  BY AnsweredFinite DEF Id

\* Every step keeps the types, given that the counters are within bounds.
LEMMA TypeStep == TypeOK /\ CountInv /\ [Next]_vars => TypeOK'
  <1> SUFFICES ASSUME TypeOK, CountInv, [Next]_vars PROVE TypeOK'
    OBVIOUS
  <1> USE IdFacts DEF TypeOK, record, Table
  <1>1. ASSUME NEW r \in Request, ProposalRefused(r) PROVE TypeOK'
    BY <1>1 DEF ProposalRefused
  <1>2. ASSUME NEW r \in Request, NEW t \in Tool, ExecuteTool(r, t) PROVE TypeOK'
    BY <1>2 DEF ExecuteTool
  <1>3. ASSUME NEW s \in Server, NEW r \in Request, NEW t \in Tool, CreateApproval(s, r, t)
        PROVE  TypeOK'
    <2>1. Cardinality(Answered) + 1 <= Cardinality(Request)
      BY <1>3, AnsweredGrows DEF CreateApproval
    <2>2. nextApprovalID[s] + 1 \in Id
      BY <2>1, AnsweredFinite DEF CountInv
    <2>3. approvals' \in [Server -> Table]
      BY <1>3 DEF CreateApproval
    <2>4. nextApprovalID' \in [Server -> Id]
      BY <1>3, <2>2 DEF CreateApproval
    <2>5. QED  BY <1>3, <2>3, <2>4 DEF CreateApproval
  <1>4. ASSUME NEW r \in Request, Submit(r) PROVE TypeOK'
    BY <1>4 DEF Submit
  <1>5. ASSUME NEW r \in Request, Finish(r) PROVE TypeOK'
    BY <1>5 DEF Finish
  <1>6. ASSUME NEW r \in Request, GrowOld(r) PROVE TypeOK'
    BY <1>6 DEF GrowOld
  <1>7. ASSUME NEW s \in Server, NEW a \in Admin, GetPendingApprovals(s, a) PROVE TypeOK'
    BY <1>7 DEF GetPendingApprovals
  <1>8. ASSUME NEW s \in Server, NEW a \in Admin, NEW id \in Id, Approve(s, a, id) PROVE TypeOK'
    BY <1>8 DEF Approve
  <1>9. ASSUME NEW s \in Server, NEW a \in Admin, NEW id \in Id, Reject(s, a, id) PROVE TypeOK'
    BY <1>9 DEF Reject
  <1>10. ASSUME NEW s \in Server, RemoveCompletedApprovals(s) PROVE TypeOK'
    BY <1>10 DEF RemoveCompletedApprovals
  <1>11. ASSUME NEW s \in Server, Restart(s) PROVE TypeOK'
    <2>1. restarts' \in 0 .. MaxRestart
      BY <1>11, McpAssumption DEF Restart
    <2>2. QED  BY <1>11, <2>1 DEF Restart, Empty
  <1>12. CASE UNCHANGED vars
    BY <1>12 DEF vars
  <1>13. QED
    BY <1>1, <1>2, <1>3, <1>4, <1>5, <1>6, <1>7, <1>8, <1>9, <1>10, <1>11, <1>12 DEF Next

\* Every step keeps the counters within bounds.
LEMMA CountStep == TypeOK /\ CountInv /\ [Next]_vars => CountInv'
  <1> SUFFICES ASSUME TypeOK, CountInv, [Next]_vars PROVE CountInv'
    OBVIOUS
  <1>a. Cardinality(Answered) \in Nat /\ \A s \in Server : nextApprovalID[s] \in Nat
    BY AnsweredFinite, IdFacts DEF TypeOK
  <1>b. ASSUME UNCHANGED <<approvals, nextApprovalID>>,
               Answered' = Answered \/ Cardinality(Answered') = Cardinality(Answered) + 1
        PROVE  CountInv'
    BY <1>a, <1>b DEF CountInv
  <1>1. ASSUME NEW r \in Request, NEW t \in Tool, ProposalRefused(r) \/ ExecuteTool(r, t)
        PROVE  CountInv'
    <2>1. PICK v \in {"refused", "executed"} : answer' = [answer EXCEPT ![r] = v]
      BY <1>1 DEF ProposalRefused, ExecuteTool
    <2>2. answer[r] = "none" /\ UNCHANGED <<approvals, nextApprovalID>>
      BY <1>1 DEF ProposalRefused, ExecuteTool
    <2>3. QED  BY <2>1, <2>2, <1>b, AnsweredGrows
  <1>2. ASSUME NEW r \in Request, ProposalRefused(r) PROVE CountInv'
    <2>1. answer[r] = "none" /\ UNCHANGED <<approvals, nextApprovalID>>
             /\ answer' = [answer EXCEPT ![r] = "refused"]
      BY <1>2 DEF ProposalRefused
    <2>2. QED  BY <2>1, <1>b, AnsweredGrows
  <1>3. ASSUME NEW s \in Server, NEW r \in Request, NEW t \in Tool, CreateApproval(s, r, t)
        PROVE  CountInv'
    <2>1. Cardinality(Answered') = Cardinality(Answered) + 1
      BY <1>3, AnsweredGrows DEF CreateApproval
    <2>2. \A q \in Server : nextApprovalID'[q] \in Nat /\ nextApprovalID[q] <= nextApprovalID'[q]
                             /\ nextApprovalID'[q] <= nextApprovalID[q] + 1
      BY <1>3, <1>a DEF CreateApproval, TypeOK
    <2>3. nextApprovalID'[s] = nextApprovalID[s] + 1
      BY <1>3 DEF CreateApproval, TypeOK
    <2>4. ASSUME NEW q \in Server, NEW id \in Id, approvals'[q][id] # None
          PROVE  id < nextApprovalID'[q]
      <3>1. CASE q = s /\ id = nextApprovalID[s]
        BY <3>1, <2>3, <1>a
      <3>2. CASE ~(q = s /\ id = nextApprovalID[s])
        <4>1. approvals'[q][id] = approvals[q][id]
          BY <1>3, <3>2 DEF CreateApproval, TypeOK, Table
        <4>2. QED  BY <4>1, <2>4, <2>2, <1>a, IdFacts DEF CountInv
      <3>3. QED  BY <3>1, <3>2
    <2>5. QED  BY <1>a, <2>1, <2>2, <2>4 DEF CountInv
  <1>4. ASSUME NEW r \in Request, Submit(r) \/ Finish(r) \/ GrowOld(r) PROVE CountInv'
    <2>1. UNCHANGED <<approvals, nextApprovalID, answer>>
      BY <1>4 DEF Submit, Finish, GrowOld, record
    <2>2. QED  BY <2>1, <1>b DEF Answered
  <1>5. ASSUME NEW s \in Server, NEW a \in Admin, NEW id \in Id,
               GetPendingApprovals(s, a) \/ Approve(s, a, id) \/ Reject(s, a, id)
        PROVE  CountInv'
    <2>1. UNCHANGED <<approvals, nextApprovalID, answer>>
      BY <1>5 DEF GetPendingApprovals, Approve, Reject, record
    <2>2. QED  BY <2>1, <1>b DEF Answered
  <1>6. ASSUME NEW s \in Server, NEW a \in Admin, GetPendingApprovals(s, a) PROVE CountInv'
    BY <1>5, <1>6, IdFacts
  <1>7. ASSUME NEW s \in Server, RemoveCompletedApprovals(s) PROVE CountInv'
    <2>1. UNCHANGED <<nextApprovalID, answer>>
      BY <1>7 DEF RemoveCompletedApprovals, record
    <2>2. \A q \in Server, id \in Id : approvals'[q][id] # None => approvals[q][id] # None
      BY <1>7 DEF RemoveCompletedApprovals, TypeOK, Table
    <2>3. QED  BY <2>1, <2>2 DEF CountInv, Answered
  <1>8. ASSUME NEW s \in Server, Restart(s) PROVE CountInv'
    <2>1. answer' = answer /\ nextApprovalID' = [nextApprovalID EXCEPT ![s] = 0]
             /\ approvals' = [approvals EXCEPT ![s] = Empty]
      BY <1>8 DEF Restart, record
    <2>2. Answered' = Answered  BY <2>1 DEF Answered
    <2>3. \A q \in Server : nextApprovalID'[q] = IF q = s THEN 0 ELSE nextApprovalID[q]
      BY <2>1 DEF TypeOK
    <2>4. \A q \in Server, id \in Id :
             approvals'[q][id] = IF q = s THEN None ELSE approvals[q][id]
      BY <2>1 DEF TypeOK, Empty
    <2>5. QED  BY <2>2, <2>3, <2>4, <1>a DEF CountInv
  <1>9. CASE UNCHANGED vars
    BY <1>9, <1>b DEF vars, record, Answered
  <1>10. QED
    BY <1>1, <1>2, <1>3, <1>4, <1>5, <1>6, <1>7, <1>8, <1>9 DEF Next

\* Initially both hold.
LEMMA TypeInit == Init => TypeOK /\ CountInv
  <1>1. Init => TypeOK
    BY IdFacts, McpAssumption DEF Init, TypeOK, Table, Empty
  <1>2. Init => CountInv
    BY AnsweredFinite DEF Init, CountInv, Empty
  <1>3. QED  BY <1>1, <1>2

\* Types and counters together.
LEMMA TypeAndCount == Spec => [](TypeOK /\ CountInv)
  BY TypeInit, TypeStep, CountStep, PTL DEF Spec

\* The tables, the counters and the pages keep their types: an id is never
\* larger than the number of proposals, whatever is removed or lost.
THEOREM TypeCorrect == Spec => []TypeOK
  BY TypeAndCount, PTL

-----------------------------------------------------------------------------
\* What became of a proposal.  Only a decision on a pending approval starts the
\* goroutine, and the goroutine queues the command before it can be seen as
\* finished; so one that has queued a command was approved, and has started once.

RunInv ==
    \A r \in Request :
        /\ answer[r] = "none" => status[r] = "none"
        /\ status[r] # "approved" => tasks[r] = 0 /\ goroutine[r] = "none"
        /\ goroutine[r] = "started" => tasks[r] = 0
        /\ tasks[r] <= 1

\* Every step keeps RunInv.
LEMMA RunStep == TypeOK /\ RunInv /\ [Next]_vars => RunInv'
  <1> SUFFICES ASSUME TypeOK, RunInv, [Next]_vars, NEW q \in Request
               PROVE  /\ answer'[q] = "none" => status'[q] = "none"
                      /\ status'[q] # "approved" => tasks'[q] = 0 /\ goroutine'[q] = "none"
                      /\ goroutine'[q] = "started" => tasks'[q] = 0
                      /\ tasks'[q] <= 1
    BY DEF RunInv
  <1> DEFINE Goal == /\ answer'[q] = "none" => status'[q] = "none"
                     /\ status'[q] # "approved" => tasks'[q] = 0 /\ goroutine'[q] = "none"
                     /\ goroutine'[q] = "started" => tasks'[q] = 0
                     /\ tasks'[q] <= 1
  <1> USE DEF TypeOK, RunInv, record
  <1>1. ASSUME NEW r \in Request, ProposalRefused(r) PROVE Goal
    BY <1>1 DEF ProposalRefused
  <1>2. ASSUME NEW r \in Request, NEW t \in Tool, ExecuteTool(r, t) PROVE Goal
    BY <1>2 DEF ExecuteTool
  <1>3. ASSUME NEW s \in Server, NEW r \in Request, NEW t \in Tool, CreateApproval(s, r, t)
        PROVE  Goal
    BY <1>3 DEF CreateApproval
  <1>4. ASSUME NEW r \in Request, Submit(r) PROVE Goal
    BY <1>4 DEF Submit
  <1>5. ASSUME NEW r \in Request, Finish(r) PROVE Goal
    BY <1>5 DEF Finish
  <1>6. ASSUME NEW s \in Server, NEW a \in Admin, NEW id \in Id, Approve(s, a, id) PROVE Goal
    <2>1. approvals[s][id] \in Request /\ status[approvals[s][id]] = "pending"
      BY <1>6 DEF Approve, Decidable, Table
    <2>2. QED  BY <1>6, <2>1 DEF Approve
  <1>7. ASSUME NEW s \in Server, NEW a \in Admin, NEW id \in Id, Reject(s, a, id) PROVE Goal
    <2>1. approvals[s][id] \in Request /\ status[approvals[s][id]] = "pending"
      BY <1>7 DEF Reject, Decidable, Table
    <2>2. QED  BY <1>7, <2>1 DEF Reject
  <1>8. ASSUME NEW s \in Server, Restart(s) PROVE Goal
    BY <1>8 DEF Restart
  <1>9. ASSUME UNCHANGED <<answer, status, goroutine, tasks>> PROVE Goal
    BY <1>9
  <1>10. \/ \E s \in Server, a \in Admin : GetPendingApprovals(s, a)
         \/ \E r \in Request : GrowOld(r)
         \/ \E s \in Server : RemoveCompletedApprovals(s)
         \/ UNCHANGED vars
         => UNCHANGED <<answer, status, goroutine, tasks>>
    BY DEF GetPendingApprovals, GrowOld, RemoveCompletedApprovals, vars
  <1>11. QED
    BY <1>1, <1>2, <1>3, <1>4, <1>5, <1>6, <1>7, <1>8, <1>9, <1>10 DEF Next

\* RunInv holds throughout.
LEMMA RunInvariant == Spec => []RunInv
  <1>1. Init => RunInv
    BY DEF Init, RunInv
  <1>2. QED  BY <1>1, TypeCorrect, RunStep, PTL DEF Spec

\* However many administrators approve a proposal on however many servers, and
\* whatever is restarted in between, its command is queued at most once.
THEOREM CommandQueuedOnce == Spec => []QueuedOnce
  <1>1. RunInv => QueuedOnce
    BY DEF RunInv, QueuedOnce
  <1>2. QED  BY <1>1, RunInvariant, PTL

\* A command is queued only for a call that an administrator approved and that
\* nobody rejected, before or afterwards.
THEOREM ApprovedBeforeRun == Spec => []OnlyApprovedRun
  <1>1. TypeOK /\ RunInv => OnlyApprovedRun
    BY DEF TypeOK, RunInv, OnlyApprovedRun
  <1>2. QED  BY <1>1, RunInvariant, TypeCorrect, PTL

-----------------------------------------------------------------------------
\* Pages.  An id on a page is below the counter of the process that listed it,
\* and what that process stores later gets the counter's value.

PageInv ==
    \A a \in Admin : source[a] # None =>
        \A id \in Id : page[a][id] # None =>
            /\ id < nextApprovalID[source[a]]
            /\ approvals[source[a]][id] \in {None, page[a][id]}

\* Every step keeps PageInv.
LEMMA PageStep == TypeOK /\ CountInv /\ PageInv /\ [Next]_vars => PageInv'
  <1> SUFFICES ASSUME TypeOK, CountInv, PageInv, [Next]_vars, NEW b \in Admin, NEW i \in Id,
                      source'[b] # None, page'[b][i] # None
               PROVE  /\ i < nextApprovalID'[source'[b]]
                      /\ approvals'[source'[b]][i] \in {None, page'[b][i]}
    BY DEF PageInv
  <1> DEFINE Goal == /\ i < nextApprovalID'[source'[b]]
                     /\ approvals'[source'[b]][i] \in {None, page'[b][i]}
  <1>a. i \in Nat /\ \A s \in Server : nextApprovalID[s] \in Nat
    BY IdFacts DEF TypeOK
  <1>1. ASSUME UNCHANGED <<approvals, nextApprovalID, page, source>> PROVE Goal
    BY <1>1 DEF PageInv
  <1>2. ASSUME NEW s \in Server, NEW r \in Request, NEW t \in Tool, CreateApproval(s, r, t)
        PROVE  Goal
    <2>1. source' = source /\ page' = page
      BY <1>2 DEF CreateApproval
    <2>2. source[b] \in Server
      BY <2>1 DEF TypeOK
    <2>3. i < nextApprovalID[source[b]] /\ approvals[source[b]][i] \in {None, page[b][i]}
      BY <2>1 DEF PageInv
    <2>4. nextApprovalID'[source[b]] \in {nextApprovalID[source[b]], nextApprovalID[source[b]] + 1}
      BY <1>2, <2>2 DEF CreateApproval, TypeOK
    <2>5. i = nextApprovalID[s] => source[b] # s
      BY <2>3, <1>a
    <2>6. approvals'[source[b]][i] = approvals[source[b]][i]
      BY <1>2, <2>2, <2>5 DEF CreateApproval, TypeOK, Table
    <2>7. QED  BY <1>a, <2>1, <2>2, <2>3, <2>4, <2>6
  <1>3. ASSUME NEW s \in Server, NEW a \in Admin, GetPendingApprovals(s, a) PROVE Goal
    <2>1. approvals' = approvals /\ nextApprovalID' = nextApprovalID
      BY <1>3 DEF GetPendingApprovals
    <2>2. CASE a = b
      <3>1. source'[b] = s /\ page'[b][i] \in {None, approvals[s][i]}
        BY <1>3, <2>2 DEF GetPendingApprovals, TypeOK
      <3>2. page'[b][i] = approvals[s][i]
        BY <3>1
      <3>3. i < nextApprovalID[s]
        BY <3>2 DEF CountInv
      <3>4. QED  BY <2>1, <3>1, <3>2, <3>3
    <2>3. CASE a # b
      <3>1. source'[b] = source[b] /\ page'[b] = page[b]
        BY <1>3, <2>3 DEF GetPendingApprovals, TypeOK
      <3>2. QED  BY <2>1, <3>1 DEF PageInv
    <2>4. QED  BY <2>2, <2>3
  <1>4. ASSUME NEW s \in Server, RemoveCompletedApprovals(s) PROVE Goal
    <2>1. UNCHANGED <<nextApprovalID, page, source>>
      BY <1>4 DEF RemoveCompletedApprovals
    <2>2. source[b] \in Server
      BY <2>1 DEF TypeOK
    <2>3. approvals'[source[b]][i] \in {None, approvals[source[b]][i]}
      BY <1>4, <2>2 DEF RemoveCompletedApprovals, TypeOK, Table
    <2>4. QED  BY <2>1, <2>3 DEF PageInv
  <1>5. ASSUME NEW s \in Server, Restart(s) PROVE Goal
    <2>1. page' = page /\ source[b] # s /\ source'[b] = source[b]
      BY <1>5 DEF Restart
    <2>2. source[b] \in Server
      BY <2>1 DEF TypeOK
    <2>3. /\ nextApprovalID'[source[b]] = nextApprovalID[source[b]]
          /\ approvals'[source[b]] = approvals[source[b]]
      BY <1>5, <2>1, <2>2 DEF Restart, TypeOK
    <2>4. QED  BY <2>1, <2>3 DEF PageInv
  <1>6. \/ \E r \in Request : \/ ProposalRefused(r) \/ Submit(r) \/ Finish(r) \/ GrowOld(r)
                              \/ \E t \in Tool : ExecuteTool(r, t)
        \/ \E s \in Server, a \in Admin, id \in Id : Approve(s, a, id) \/ Reject(s, a, id)
        \/ UNCHANGED vars
        => UNCHANGED <<approvals, nextApprovalID, page, source>>
    BY DEF ProposalRefused, Submit, Finish, GrowOld, ExecuteTool, Approve, Reject, vars
  <1>7. QED
    BY <1>1, <1>2, <1>3, <1>4, <1>5, <1>6 DEF Next

\* An id on a page keeps its meaning while the process that listed it lives,
\* though approvals are removed from its table and others are added.
THEOREM PagesTrue == Spec => []PageStaysTrue
  <1>1. Init => PageInv
    BY DEF Init, PageInv
  <1>2. PageInv => PageStaysTrue
    BY DEF PageInv, PageStaysTrue
  <1>3. QED  BY <1>1, <1>2, TypeAndCount, PageStep, PTL DEF Spec

=============================================================================
