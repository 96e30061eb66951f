------------------------------ MODULE Collector ------------------------------
(***************************************************************************)
(* Agentless collection and the online status of one host: the channels of *)
(* the host and the CollectorScheduler (server/controllers/channels.go),   *)
(* the offline checker (server/controllers/alerts.go) and the reports of   *)
(* its agent (server/controllers/agent_assets.go).                         *)
(*                                                                         *)
(* One tick is 60 s, the period of scheduler and checker.  The checker     *)
(* ends within it; a cycle of the scheduler need not: it waits for all its *)
(* goroutines, each evaluates alerts while it holds the gate, and neither  *)
(* SMTP nor the webhook has a timeout.  The ticker keeps one tick          *)
(* meanwhile.  A handler is a sequence of SQL statements, and those of     *)
(* other handlers may come in between.  The rows of the event and audit    *)
(* tables, which nothing here reads, are left out.                         *)
(***************************************************************************)
EXTENDS Integers, FiniteSets

CONSTANTS
    Node,          \* servers: each one runs the offline checker
    Collecting,    \* those that also run the CollectorScheduler
    Channel,       \* rows of the channel_bindings table that may come to exist
    Reliable,      \* channels whose collection never fails
    Type,          \* channel types
    FailThreshold, \* channelFailThreshold
    ActiveWindow,  \* agentActiveWindow, in ticks
    OfflineAfter,  \* offline_after_sec, in ticks
    MaxAdmin,      \* bound on the administrator's requests
    None

ASSUME CollectorAssumption ==
    /\ Node # {} /\ Collecting \subseteq Node /\ Reliable \subseteq Channel
    /\ None \notin Channel /\ None \notin Nat /\ None \notin Type
    /\ FailThreshold \in Nat \ {0}
    /\ ActiveWindow \in Nat /\ OfflineAfter \in Nat
    /\ MaxAdmin \in Nat

\* Ages are told apart up to this value.
AgeCap == ActiveWindow + OfflineAfter + 2

VARIABLES
    row,      \* row[c]: "absent", "checked" (creation under way), "present" or "deleted"
    ctype,    \* ctype[c]: its type
    enabled,
    failCount,
    failures, \* history: failed collections of c since its last success
    status,   \* hosts.status
    hbAge,    \* ticks since hosts.last_heartbeat, None for NULL
    jobs,     \* jobs[n]: bindings of n's cycle whose goroutine has not started yet
    snapshot, \* snapshot[n][c]: fail_count of c as the cycle of n read it
    gate,     \* gate[n]: the channel n is collecting through, or None
    step,     \* step[n]: where that collection is
    due,      \* due[n]: the timers of n that have fired
    selected, \* nodes whose offline checker has selected the host
    changes   \* number of the administrator's requests

channels == <<row, ctype, enabled>>
counts == <<failCount, failures>>
host == <<status, hbAge>>
cycle == <<jobs, snapshot, gate, step>>
collectorVars == <<channels, counts, host, cycle, due, selected, changes>>

Ages == 0 .. AgeCap
Older(a) == IF a \in {None, AgeCap} THEN a ELSE a + 1
Capped(k) == IF k > FailThreshold THEN FailThreshold ELSE k

CollectorTypeOK ==
    /\ row \in [Channel -> {"absent", "checked", "present", "deleted"}]
    /\ ctype \in [Channel -> Type \cup {None}]
    /\ enabled \in [Channel -> BOOLEAN]
    /\ failCount \in [Channel -> 0 .. FailThreshold]
    /\ failures \in [Channel -> 0 .. FailThreshold]
    /\ status \in {"pending", "online", "offline"}
    /\ hbAge \in Ages \cup {None}
    /\ jobs \in [Collecting -> SUBSET Channel]
    /\ snapshot \in [Collecting -> [Channel -> 0 .. FailThreshold]]
    /\ gate \in [Collecting -> Channel \cup {None}]
    /\ step \in [Collecting -> {"none", "collect", "disable", "reset", "alerts"}]
    /\ due \in [Node -> SUBSET {"cycle", "check"}]
    /\ selected \subseteq Node
    /\ changes \in 0 .. MaxAdmin

Usable(c) == row[c] = "present" /\ enabled[c]

-----------------------------------------------------------------------------
\* The administrator's requests.

\* ChannelsCreateHandler looks for an enabled channel of the same type, ...
CreateCheck(c, t) ==
    /\ row[c] = "absent" /\ changes < MaxAdmin
    /\ \A d \in Channel : ~ (Usable(d) /\ ctype[d] = t)
    /\ row' = [row EXCEPT ![c] = "checked"]
    /\ ctype' = [ctype EXCEPT ![c] = t]
    /\ changes' = changes + 1
    /\ UNCHANGED <<enabled, counts, host, cycle, due, selected>>

\* ... and then inserts the new one.  The column has "default:true", and GORM
\* writes the default for a false in the record, so the row is always enabled.
CreateInsert(c) ==
    /\ row[c] = "checked"
    /\ row' = [row EXCEPT ![c] = "present"]
    /\ enabled' = [enabled EXCEPT ![c] = TRUE]
    /\ UNCHANGED <<ctype, counts, host, cycle, due, selected, changes>>

\* SSHKeypairHandler inserts an ssh channel (with Enabled: false) unchecked.
GenerateKeypair(c) ==
    /\ row[c] = "absent" /\ "ssh" \in Type /\ changes < MaxAdmin
    /\ row' = [row EXCEPT ![c] = "present"]
    /\ ctype' = [ctype EXCEPT ![c] = "ssh"]
    /\ enabled' = [enabled EXCEPT ![c] = TRUE]
    /\ changes' = changes + 1
    /\ UNCHANGED <<counts, host, cycle, due, selected>>

\* ChannelDetailHandler PUT; fail_count stays as it is.
SetEnabled(c, on) ==
    /\ row[c] = "present" /\ enabled[c] # on /\ changes < MaxAdmin
    /\ enabled' = [enabled EXCEPT ![c] = on]
    /\ changes' = changes + 1
    /\ UNCHANGED <<row, ctype, counts, host, cycle, due, selected>>

DeleteChannel(c) ==
    /\ row[c] = "present" /\ changes < MaxAdmin
    /\ row' = [row EXCEPT ![c] = "deleted"]
    /\ changes' = changes + 1
    /\ UNCHANGED <<ctype, enabled, counts, host, cycle, due, selected>>

-----------------------------------------------------------------------------
\* The CollectorScheduler.

\* collectCycle, once the last one has returned: hosts without a recent heartbeat,
\* and their enabled channels.
CollectCycle(n) ==
    /\ "cycle" \in due[n] /\ jobs[n] = {} /\ gate[n] = None
    /\ due' = [due EXCEPT ![n] = @ \ {"cycle"}]
    /\ jobs' = [jobs EXCEPT ![n] =
          IF hbAge = None \/ hbAge > ActiveWindow THEN {c \in Channel : Usable(c)} ELSE {}]
    /\ snapshot' = [snapshot EXCEPT ![n] = failCount]
    /\ UNCHANGED <<channels, counts, host, gate, step, selected, changes>>

\* collectHost: the first goroutine through the gate collects; one that finds
\* the gate taken returns.  Goroutines start in any order.
CollectHost(n, c) ==
    /\ c \in jobs[n]
    /\ jobs' = [jobs EXCEPT ![n] = @ \ {c}]
    /\ IF gate[n] = None
       THEN /\ gate' = [gate EXCEPT ![n] = c]
            /\ step' = [step EXCEPT ![n] = "collect"]
       ELSE UNCHANGED <<gate, step>>
    /\ UNCHANGED <<channels, counts, host, snapshot, due, selected, changes>>

Leave(n) ==
    /\ gate' = [gate EXCEPT ![n] = None]
    /\ step' = [step EXCEPT ![n] = "none"]

\* Mutant: a zero is written as NULL.
SetFailCountNull(c, k) ==
    failCount' = [failCount EXCEPT ![c] = IF k = 0 THEN None ELSE k]

\* UPDATE of a binding's fail_count; a deleted row is not found.
SetFailCount(c, k) ==
    failCount' = IF row[c] = "present" THEN [failCount EXCEPT ![c] = k] ELSE failCount

\* Mutant: the channel is given up one failure early.
GiveUpEarly(k) == k >= FailThreshold - 1

GiveUp(k) == k >= FailThreshold

\* Mutant: the failure is not counted.
CollectFailsUncounted(n) ==
    /\ step[n] = "collect" /\ gate[n] \notin Reliable
    /\ failures' = [failures EXCEPT ![gate[n]] = Capped(@ + 1)]
    /\ Leave(n)
    /\ UNCHANGED <<channels, failCount, host, jobs, snapshot, due, selected, changes>>

CollectFails(n) ==
    /\ step[n] = "collect" /\ gate[n] \notin Reliable
    /\ LET c == gate[n]
           k == Capped(snapshot[n][c] + 1)
       IN  /\ SetFailCount(c, k)
           /\ failures' = [failures EXCEPT ![c] = Capped(@ + 1)]
           /\ IF GiveUp(k)
              THEN step' = [step EXCEPT ![n] = "disable"] /\ UNCHANGED gate
              ELSE Leave(n)
    /\ UNCHANGED <<channels, host, jobs, snapshot, due, selected, changes>>

DisableChannel(n) ==
    /\ step[n] = "disable"
    /\ enabled' = [enabled EXCEPT ![gate[n]] = @ /\ row[gate[n]] # "present"]
    /\ Leave(n)
    /\ UNCHANGED <<row, ctype, counts, host, jobs, snapshot, due, selected, changes>>

\* The sample could not be saved.
SaveFails(n) ==
    /\ step[n] = "collect" /\ gate[n] \notin Reliable
    /\ Leave(n)
    /\ UNCHANGED <<channels, counts, host, jobs, snapshot, due, selected, changes>>

\* The sample is saved and the host is online; the binding is updated next.
CollectSucceeds(n) ==
    /\ step[n] = "collect"
    /\ status' = "online" /\ hbAge' = 0
    /\ failures' = [failures EXCEPT ![gate[n]] = 0]
    /\ step' = [step EXCEPT ![n] = "reset"]
    /\ UNCHANGED <<channels, failCount, jobs, snapshot, gate, due, selected, changes>>

ResetFailCount(n) ==
    /\ step[n] = "reset"
    /\ SetFailCount(gate[n], 0)
    /\ step' = [step EXCEPT ![n] = "alerts"]
    /\ UNCHANGED <<channels, failures, host, jobs, snapshot, gate, due, selected, changes>>

\* EvaluateAlertsWithEngineering (module AlertEngine) returns, and the gate is free.
EvaluateAlerts(n) ==
    /\ step[n] = "alerts"
    /\ Leave(n)
    /\ UNCHANGED <<channels, counts, host, jobs, snapshot, due, selected, changes>>

-----------------------------------------------------------------------------
\* The agent and the offline checker.

\* Registration, heartbeat and metric report of an agent end in this update.
AgentReport ==
    /\ status' = "online" /\ hbAge' = 0
    /\ UNCHANGED <<channels, counts, cycle, due, selected, changes>>

\* Mutant: the threshold is one period too long.
SilentTooLong == hbAge # None /\ hbAge > OfflineAfter + 1

Silent == hbAge # None /\ hbAge > OfflineAfter

\* checkOfflineHosts reads the hosts first and then updates each of them,
\* whatever its heartbeat has become.
OfflineSelect(n) ==
    /\ "check" \in due[n]
    /\ due' = [due EXCEPT ![n] = @ \ {"check"}]
    /\ selected' = IF status = "online" /\ Silent THEN selected \cup {n} ELSE selected
    /\ UNCHANGED <<channels, counts, host, cycle, changes>>

OfflineUpdate(n) ==
    /\ n \in selected
    /\ selected' = selected \ {n}
    /\ status' = "offline"
    /\ UNCHANGED <<channels, counts, hbAge, cycle, due, changes>>

-----------------------------------------------------------------------------

\* A minute goes by, and the checkers that it started before have ended.
Minute ==
    /\ selected = {} /\ \A n \in Node : "check" \notin due[n]
    /\ hbAge' = Older(hbAge)
    /\ due' = [n \in Node |-> IF n \in Collecting THEN {"cycle", "check"} ELSE {"check"}]
    /\ UNCHANGED <<channels, counts, status, cycle, selected, changes>>

CollectorInit ==
    /\ row = [c \in Channel |-> "absent"]
    /\ ctype = [c \in Channel |-> None]
    /\ enabled = [c \in Channel |-> FALSE]
    /\ failCount = [c \in Channel |-> 0]
    /\ failures = [c \in Channel |-> 0]
    /\ status = "pending" /\ hbAge = None
    /\ jobs = [n \in Collecting |-> {}]
    /\ snapshot = [n \in Collecting |-> failCount]
    /\ gate = [n \in Collecting |-> None]
    /\ step = [n \in Collecting |-> "none"]
    /\ due = [n \in Node |-> {}]
    /\ selected = {}
    /\ changes = 0

Collection(n) ==
    \/ CollectFails(n) \/ DisableChannel(n) \/ SaveFails(n)
    \/ CollectSucceeds(n) \/ ResetFailCount(n)

CollectorNext ==
    \/ \E c \in Channel : \/ \E t \in Type : CreateCheck(c, t)
                          \/ CreateInsert(c) \/ GenerateKeypair(c)
                          \/ \E on \in BOOLEAN : SetEnabled(c, on)
                          \/ DeleteChannel(c)
    \/ \E n \in Collecting : \/ CollectCycle(n) \/ Collection(n) \/ EvaluateAlerts(n)
                             \/ \E c \in Channel : CollectHost(n, c)
    \/ \E n \in Node : OfflineSelect(n) \/ OfflineUpdate(n)
    \/ AgentReport
    \/ Minute

\* Timers fire, goroutines run, and saving a sample does not fail for ever.  The
\* evaluation of alerts need not return.
Fairness ==
    /\ WF_collectorVars(Minute)
    /\ \A n \in Collecting :
          /\ WF_collectorVars(CollectCycle(n)) /\ WF_collectorVars(Collection(n))
          /\ SF_collectorVars(CollectFails(n) \/ CollectSucceeds(n))
          /\ \A c \in Channel : WF_collectorVars(CollectHost(n, c))
    /\ \A n \in Node : WF_collectorVars(OfflineSelect(n)) /\ WF_collectorVars(OfflineUpdate(n))

CollectorSpec == CollectorInit /\ [][CollectorNext]_collectorVars /\ Fairness

-----------------------------------------------------------------------------
\* Properties.

\* A channel is switched off by the scheduler only after channelFailThreshold
\* failed collections in a row, whatever the administrator does meanwhile (one
\* scheduler at work).
DisabledOnlyAfterFailures ==
    [][\A n \in Collecting : DisableChannel(n) => failures[gate[n]] >= FailThreshold]_collectorVars

\* A host shown as online has been heard of within the offline threshold plus one
\* period of the checker.
OnlineIsFresh ==
    status = "online" => hbAge # None /\ hbAge <= OfflineAfter + 1

\* A working channel gets through: as long as it is enabled, and the evaluations
\* of alerts that the schedulers have started return, the host is online again
\* and again, although a broken channel may take the gate before it, since the
\* broken one is switched off in the end.
WorkingChannelWins ==
    \A c \in Reliable :
        /\ <>[]Usable(c)
        /\ \A n \in Collecting : []<>(step[n] # "alerts")
        => []<>(status = "online")

=============================================================================
