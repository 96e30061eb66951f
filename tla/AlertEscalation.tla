--------------------------- MODULE AlertEscalation ---------------------------
(***************************************************************************)
(* The escalation of alerts nobody has acknowledged: checkEscalations of   *)
(* server/controllers/alert_engine.go, which every server runs by a timer, *)
(* with the acknowledgement of an alert (alert_rules.go) and the           *)
(* administration of the escalation rows (alert_engine_api.go).            *)
(*                                                                         *)
(* The alerts are those of all hosts of a tenant.  A tick is the period of *)
(* the timer.  A round may take longer than that (the timer keeps one tick *)
(* for it), and the process may be killed between any two statements.      *)
(***************************************************************************)
EXTENDS Integers, FiniteSets

CONSTANTS
    Server,       \* each one runs the checker
    Id,           \* ids of alerts; one that nothing refers to may stand for a new alert
    TriggerLevel, \* levels of alerts
    Row,          \* rows of alert_escalations that may come to exist
    BatchLimit,   \* Limit(10)
    OldAge,       \* ages are told apart up to this value
    MaxFault,     \* bound on killed servers and failed statements
    MaxChange,    \* bound on changes of the rows
    Nil

ASSUME EscalationAssumption ==
    /\ \A x \in Row : x.level \in TriggerLevel /\ x.after \in Nat /\ x.retry \in Nat
    /\ IsFiniteSet(Id) /\ BatchLimit \in Nat \ {0}
    /\ OldAge \in Nat /\ \A x \in Row : x.after < OldAge
    /\ MaxFault \in Nat /\ MaxChange \in Nat
    /\ Nil \notin Row /\ Nil \notin Id

VARIABLES
    rows,     \* enabled rows of alert_escalations
    open,     \* alerts that are not acknowledged
    level,    \* level[i]: level of alert i
    age,      \* age[i]: ticks since its created_at
    older,    \* older[i]: ids with an earlier created_at
    fired,    \* servers whose timer has fired
    rounds,   \* rounds[n]: rows that the round of n has still to go through
    current,  \* current[n]: the row it is at, or Nil
    batch,    \* batch[n]: alerts it has selected for that one and not looked at
    event,    \* event[n]: the alert that it is escalating, or Nil
    at,       \* at[n]: where that is
    recorded, \* history: recorded[i]: escalations of i in the table
    by,       \* history: by[i]: servers that escalated i, but for those that were killed
              \* before the acknowledgement or for which it failed
    missed,   \* history: alerts of which the record of an escalation was not stored
    faults,   \* number of servers killed and statements failed
    edits     \* number of changes of the rows

table == <<open, level, age, older>>
round == <<rounds, current, batch, event, at>>
history == <<recorded, by, missed>>
escVars == <<rows, table, fired, round, history, faults, edits>>

EscTypeOK ==
    /\ rows \subseteq Row
    /\ open \subseteq Id
    /\ level \in [Id -> TriggerLevel]
    /\ age \in [Id -> 0 .. OldAge]
    /\ older \in [Id -> SUBSET Id]
    /\ fired \subseteq Server
    /\ rounds \in [Server -> SUBSET Row]
    /\ current \in [Server -> Row \cup {Nil}]
    /\ batch \in [Server -> SUBSET Id]
    /\ event \in [Server -> Id \cup {Nil}]
    /\ at \in [Server -> {"next", "acknowledge", "notify"}]
    /\ recorded \in [Id -> Nat]
    /\ by \in [Id -> SUBSET Server]
    /\ missed \subseteq Id
    /\ faults \in 0 .. MaxFault /\ edits \in 0 .. MaxChange

-----------------------------------------------------------------------------
\* The checker of server n.

\* The rows are read when the timer has fired and the last round is over.
CheckEscalations(n) ==
    /\ n \in fired /\ rounds[n] = {} /\ batch[n] = {} /\ event[n] = Nil
    /\ fired' = fired \ {n}
    /\ rounds' = [rounds EXCEPT ![n] = rows]
    /\ UNCHANGED <<rows, table, current, batch, event, at, history, faults, edits>>

\* Mutant: the newest alerts are selected.
OldestNewest(c) == {i \in c : Cardinality({j \in c : i \in older[j]}) < BatchLimit}

\* ORDER BY created_at ASC with the limit.
Oldest(c) == {i \in c : Cardinality(older[i] \cap c) < BatchLimit}

SelectEvents(n, x) ==
    /\ x \in rounds[n] /\ batch[n] = {} /\ event[n] = Nil
    /\ rounds' = [rounds EXCEPT ![n] = @ \ {x}]
    /\ current' = [current EXCEPT ![n] = x]
    /\ batch' = [batch EXCEPT ![n] =
          Oldest({i \in open : level[i] = x.level /\ age[i] > x.after})]
    /\ UNCHANGED <<rows, table, fired, event, at, history, faults, edits>>

\* Rows whose message is "ALERT #<id> ESCALATED": the message that is recorded
\* goes on after that, so there is never one.
UpgradeCount(i) == 0

\* One turn of the loop: the alerts of the batch, oldest first.
Turn(n, i) == event[n] = Nil /\ i \in batch[n] /\ older[i] \cap batch[n] = {}

Skip(n, i) ==
    /\ Turn(n, i)
    /\ UpgradeCount(i) >= current[n].retry
    /\ batch' = [batch EXCEPT ![n] = @ \ {i}]
    /\ UNCHANGED <<rows, table, fired, rounds, current, event, at, history, faults, edits>>

\* Mutant: the alert is acknowledged first and its escalation inserted later.
RecordEscalationLate(n, i, ok) ==
    /\ Turn(n, i)
    /\ UpgradeCount(i) < current[n].retry
    /\ batch' = [batch EXCEPT ![n] = @ \ {i}]
    /\ event' = [event EXCEPT ![n] = i]
    /\ at' = [at EXCEPT ![n] = "acknowledge"]
    /\ UNCHANGED <<rows, table, fired, rounds, current, history, faults, edits>>

\* No error of these statements is looked at.
Fault(ok) == IF ok THEN UNCHANGED faults ELSE faults < MaxFault /\ faults' = faults + 1

\* The escalation is inserted, ...
RecordEscalation(n, i, ok) ==
    /\ Turn(n, i)
    /\ UpgradeCount(i) < current[n].retry
    /\ batch' = [batch EXCEPT ![n] = @ \ {i}]
    /\ event' = [event EXCEPT ![n] = i]
    /\ at' = [at EXCEPT ![n] = "acknowledge"]
    /\ recorded' = IF ok THEN [recorded EXCEPT ![i] = @ + 1] ELSE recorded
    /\ missed' = IF ok THEN missed ELSE missed \cup {i}
    /\ by' = [by EXCEPT ![i] = @ \cup {n}]
    /\ Fault(ok)
    /\ UNCHANGED <<rows, table, fired, rounds, current, edits>>

\* Mutant: the alert is not acknowledged.
AcknowledgeEscalatedNot(n, ok) ==
    /\ at[n] = "acknowledge"
    /\ at' = [at EXCEPT ![n] = "notify"]
    /\ UNCHANGED <<rows, table, fired, rounds, current, batch, event, history, faults, edits>>

\* n did not get the alert that it has just escalated acknowledged.
Unacknowledged(n) == [by EXCEPT ![event[n]] = @ \ {n}]

\* ... the alert is acknowledged, whether it still was open or not, ...
AcknowledgeEscalated(n, ok) ==
    /\ at[n] = "acknowledge"
    /\ at' = [at EXCEPT ![n] = "notify"]
    /\ open' = IF ok THEN open \ {event[n]} ELSE open
    /\ by' = IF ok THEN by ELSE Unacknowledged(n)
    /\ Fault(ok)
    /\ UNCHANGED <<rows, level, age, older, fired, rounds, current, batch, event,
                   recorded, missed, edits>>

\* ... and notifyAll returns, if it does: neither SMTP nor the webhook has a
\* timeout.
NotifyReturns(n) ==
    /\ at[n] = "notify"
    /\ at' = [at EXCEPT ![n] = "next"]
    /\ event' = [event EXCEPT ![n] = Nil]
    /\ UNCHANGED <<rows, table, fired, rounds, current, batch, history, faults, edits>>

\* The process is killed and started again.
Kill(n) ==
    /\ Fault(FALSE)
    /\ fired' = fired \ {n}
    /\ rounds' = [rounds EXCEPT ![n] = {}]
    /\ current' = [current EXCEPT ![n] = Nil]
    /\ batch' = [batch EXCEPT ![n] = {}]
    /\ event' = [event EXCEPT ![n] = Nil]
    /\ at' = [at EXCEPT ![n] = "next"]
    /\ by' = IF at[n] = "acknowledge" THEN Unacknowledged(n) ELSE by
    /\ UNCHANGED <<rows, table, recorded, missed, edits>>

-----------------------------------------------------------------------------
\* Alerts, administrators and time.

Free(i) == i \notin open /\ \A n \in Server : i \notin batch[n] /\ event[n] # i

\* An evaluation of some host inserts an alert, under a silence or not (module
\* AlertEngine).
NewAlert(i, l) ==
    /\ Free(i)
    /\ open' = open \cup {i}
    /\ level' = [level EXCEPT ![i] = l]
    /\ age' = [age EXCEPT ![i] = 0]
    /\ older' = [j \in Id |-> IF j = i THEN Id \ {i} ELSE older[j] \ {i}]
    /\ recorded' = [recorded EXCEPT ![i] = 0]
    /\ by' = [by EXCEPT ![i] = {}]
    /\ missed' = missed \ {i}
    /\ UNCHANGED <<rows, fired, round, faults, edits>>

\* AlertDetailHandler, ack.  Its "silence" writes silenced_until, which nothing reads.
Acknowledge(i) ==
    /\ i \in open
    /\ open' = open \ {i}
    /\ UNCHANGED <<rows, level, age, older, fired, round, history, faults, edits>>

\* POST, PUT and DELETE of an escalation row; PUT may store a retry_count of 0.
SaveEscalation(x, on) ==
    /\ edits < MaxChange
    /\ edits' = edits + 1
    /\ rows' = IF on THEN rows \cup {x} ELSE rows \ {x}
    /\ UNCHANGED <<table, fired, round, history, faults>>

\* The timers fire.
Period ==
    /\ age' = [i \in Id |-> IF age[i] < OldAge THEN age[i] + 1 ELSE age[i]]
    /\ fired' = Server
    /\ UNCHANGED <<rows, open, level, older, round, history, faults, edits>>

-----------------------------------------------------------------------------

\* The rows are what earlier runs of the servers have left; there is no alert yet.
EscInit ==
    /\ rows \in SUBSET Row
    /\ open = {}
    /\ level \in [Id -> TriggerLevel]
    /\ age = [i \in Id |-> 0]
    /\ older = [i \in Id |-> {}]
    /\ fired = {}
    /\ rounds = [n \in Server |-> {}]
    /\ current = [n \in Server |-> Nil]
    /\ batch = [n \in Server |-> {}]
    /\ event = [n \in Server |-> Nil]
    /\ at = [n \in Server |-> "next"]
    /\ recorded = [i \in Id |-> 0]
    /\ by = [i \in Id |-> {}]
    /\ missed = {}
    /\ faults = 0 /\ edits = 0

CheckStep(n) ==
    \/ CheckEscalations(n)
    \/ \E x \in Row : SelectEvents(n, x)
    \/ \E i \in Id : Skip(n, i)
    \/ \E i \in Id, ok \in BOOLEAN : RecordEscalation(n, i, ok)
    \/ \E ok \in BOOLEAN : AcknowledgeEscalated(n, ok)

EscNext ==
    \/ \E n \in Server : CheckStep(n) \/ NotifyReturns(n) \/ Kill(n)
    \/ \E i \in Id, l \in TriggerLevel : NewAlert(i, l)
    \/ \E i \in Id : Acknowledge(i)
    \/ \E x \in Row, on \in BOOLEAN : SaveEscalation(x, on)
    \/ Period

\* Timers fire and the checkers go on, but for the notifications.
EscFairness ==
    /\ WF_escVars(Period)
    /\ \A n \in Server : WF_escVars(CheckStep(n))

EscSpec == EscInit /\ [][EscNext]_escVars /\ EscFairness

-----------------------------------------------------------------------------
\* Properties.

\* RetryCount limits nothing (UpgradeCount). What holds for any number of servers:
\* each escalates an alert once, whatever other servers and administrators do with
\* it, unless it is killed between record and acknowledgement or the
\* acknowledgement fails.
OncePerServer ==
    [][\A n \in Server, i \in Id, ok \in BOOLEAN :
          RecordEscalation(n, i, ok) => n \notin by[i]]_escVars

\* No alert disappears unseen: it stops being open when an administrator
\* acknowledges it or when its escalation is on record (unless the database did
\* not store that), though servers are killed at any statement.
NoneVanishes ==
    [][\A i \in open \ open' : recorded[i] > 0 \/ i \in missed \/ Acknowledge(i)]_escVars

\* While there is an escalation row for its level no alert stays open for ever,
\* however many others of the tenant compete for the limit, as long as the
\* notifications of one server return.
EveryAlertReached ==
    \A x \in Row, i \in Id :
        /\ <>[](x \in rows /\ x.retry > 0)
        /\ \E n \in Server : []<>(at[n] # "notify")
        => []<>(i \notin open \/ level[i] # x.level)

=============================================================================
