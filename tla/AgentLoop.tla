------------------------------- MODULE AgentLoop -------------------------------
(***************************************************************************)
(* The agent process (agent/common/agent.go): MainLoop over the cluster    *)
(* router, the server's answers to its requests, and the self-update that  *)
(* replaces the executable on disk.  The servers share one database; what  *)
(* of it matters here is the row of this agent's host.                     *)
(*                                                                         *)
(* Every request of a round goes to the URL picked at its start.  A server *)
(* that is down, unreachable, loses the reply, or turns the agent's token  *)
(* away does not answer: up may change between any two requests.           *)
(***************************************************************************)
EXTENDS ClusterRouter

CONSTANTS
    AssetsEvery,   \* period of the asset report, in ticks (5 min)
    MetricsEvery,  \* period of the metric report, in ticks (60 s = 2 ticks)
    MaxRound       \* longest round, in ticks: slow requests add to the 30 s sleep

ASSUME LoopAssumption ==
    /\ AssetsEvery \in Nat \ {0}
    /\ MetricsEvery \in Nat \ {0}
    /\ MaxRound \in Nat \ {0}

VARIABLES
    pc,            \* where MainLoop is; "dead" when there is no process
    url,           \* the node of the current round
    sinceAssets,   \* ticks since the last asset report, capped at its period
    sinceMetrics,  \* ticks since the last metric report, capped at its period
    polled,        \* a round has gone by since the start: the 10 s task poll is due
    up,            \* up[n]: server n answers
    host,          \* row of this host: "absent", "live" or soft-"deleted"
    version,       \* version of the running process: "old", or "new" (the latest)
    exe,           \* what the executable's path holds
    bak,           \* what the .bak path holds
    rollbackLost   \* history: a failed update could not rename the backup back

diskVars == <<exe, bak, rollbackLost>>
timerVars == <<sinceAssets, sinceMetrics, polled>>
vars == <<routerVars, pc, url, timerVars, up, host, version, diskVars>>

Steps == {"boot", "pick", "heartbeat", "update", "write", "swap", "clean",
          "assets", "metrics", "task", "sleep", "dead"}

\* State of the agent between SelfUpdate's first rename and its exit.
Replacing == {"write", "swap", "clean"}

TypeOK ==
    /\ RouterTypeOK
    /\ pc \in Steps
    /\ url \in Node
    /\ sinceAssets \in 0 .. AssetsEvery
    /\ sinceMetrics \in 0 .. MetricsEvery
    /\ polled \in BOOLEAN
    /\ up \in [Node -> BOOLEAN]
    /\ host \in {"absent", "live", "deleted"}
    /\ version \in {"old", "new"}
    /\ exe \in {"old", "new", "partial", "none"}
    /\ bak \in {"old", "new", "partial", "none"}
    /\ rollbackLost \in BOOLEAN

Init ==
    /\ NewClusterRouter
    /\ pc = "boot"
    /\ url = 0
    /\ sinceAssets = 0 /\ sinceMetrics = 0 /\ polled = FALSE
    /\ up \in [Node -> BOOLEAN]
    /\ host = "absent"
    /\ version = "old" /\ exe = "old" /\ bak = "none" /\ rollbackLost = FALSE

Goto(step) == pc' = step

-----------------------------------------------------------------------------
\* MainLoop.

\* The row after a registration: the handler finds it or creates one; creating
\* one whose uuid a soft-deleted row still holds breaks the unique index (500).
AgentRegisterHandler == IF host = "absent" THEN "live" ELSE host

\* The one registration of a process's life.  The agent only logs a failure.  The
\* asset report that follows changes nothing modelled here and its result is not
\* recorded.
Boot(n) ==
    /\ pc = "boot"
    /\ NextNode(n)
    /\ url' = n
    /\ host' = IF up[n] THEN AgentRegisterHandler ELSE host
    /\ Goto("pick")
    /\ UNCHANGED <<timerVars, up, version, diskVars>>

Pick(n) ==
    /\ pc = "pick"
    /\ NextNode(n)
    /\ url' = n
    /\ Goto("heartbeat")
    /\ UNCHANGED <<timerVars, up, host, version, diskVars>>

\* The heartbeat, asset and metric handlers answer 404 for a host without a live row.
Accepted == up[url] /\ host = "live"

Record(ok) == IF ok THEN RecordSuccess ELSE RecordFailure

\* The reply offers an upgrade when semverLess(agent version, latest version):
\* the operator may have published one or not.
Heartbeat ==
    /\ pc = "heartbeat"
    /\ Record(Accepted)
    /\ \/ Goto("assets")
       \/ Accepted /\ version = "old" /\ Goto("update")
    /\ UNCHANGED <<url, timerVars, up, host, version, diskVars>>

AssetReport ==
    /\ pc = "assets"
    /\ IF sinceAssets >= AssetsEvery
       THEN Record(Accepted) /\ sinceAssets' = 0
       ELSE UNCHANGED <<routerVars, sinceAssets>>
    /\ Goto("metrics")
    /\ UNCHANGED <<url, sinceMetrics, polled, up, host, version, diskVars>>

MetricReport ==
    /\ pc = "metrics"
    /\ IF sinceMetrics >= MetricsEvery
       THEN Record(Accepted) /\ sinceMetrics' = 0
       ELSE UNCHANGED <<routerVars, sinceMetrics>>
    /\ Goto("task")
    /\ UNCHANGED <<url, sinceAssets, polled, up, host, version, diskVars>>

\* FetchNextTask turns a 404 (no host, no pending task) into "no task", which
\* records nothing; a task is run and reported, then a success is recorded.
TaskPoll ==
    /\ pc = "task"
    /\ \/ polled /\ ~ up[url] /\ RecordFailure
       \/ polled /\ Accepted /\ RecordSuccess
       \/ (~ polled \/ up[url]) /\ UNCHANGED routerVars
    /\ Goto("sleep")
    /\ UNCHANGED <<url, timerVars, up, host, version, diskVars>>

Capped(age, d, period) == IF age + d < period THEN age + d ELSE period

\* The 30 second sleep, with the time the round's requests took.
Sleep(d) ==
    /\ pc = "sleep"
    /\ RouterTimePasses(d)
    /\ sinceAssets' = Capped(sinceAssets, d, AssetsEvery)
    /\ sinceMetrics' = Capped(sinceMetrics, d, MetricsEvery)
    /\ polled' = TRUE
    /\ Goto("pick")
    /\ UNCHANGED <<url, up, host, version, diskVars>>

-----------------------------------------------------------------------------
\* SelfUpdate, one action per filesystem call.

loopVars == <<routerVars, url, timerVars, up, host, version>>

\* Nothing to do in a container; a failed download, a bad archive, or a failed
\* backup rename (no file at the executable's path) leaves the disk alone.
UpdateGivesUp ==
    /\ pc = "update"
    /\ Goto("assets")
    /\ UNCHANGED <<loopVars, diskVars>>

BackUp ==
    /\ pc = "update" /\ exe # "none"
    /\ exe' = "none" /\ bak' = exe
    /\ Goto("write")
    /\ UNCHANGED <<loopVars, rollbackLost>>

\* Mutant: the backup is removed as soon as the new binary has been written.
WriteNewDropsBackup ==
    /\ pc = "write"
    /\ exe' \in {"none", "new"}
    /\ bak' = "none"
    /\ Goto("swap")
    /\ UNCHANGED <<loopVars, rollbackLost>>

\* The archive's binary may have the executable's own name; then it is written
\* straight to the executable's path.
WriteNew ==
    /\ pc = "write"
    /\ exe' \in {"none", "new"}
    /\ Goto("swap")
    /\ UNCHANGED <<loopVars, bak, rollbackLost>>

SwapIn ==
    /\ pc = "swap"
    /\ exe' = "new"
    /\ Goto("clean")
    /\ UNCHANGED <<loopVars, bak, rollbackLost>>

\* Writing or renaming fails and the backup is renamed back.  The error of that
\* rename is ignored: when it fails too, the agent goes on without a file.
UpdateFails ==
    /\ pc \in {"write", "swap"}
    /\ \/ exe' = bak /\ bak' = "none" /\ UNCHANGED rollbackLost
       \/ exe' \in {exe, "partial"} /\ rollbackLost' = TRUE /\ UNCHANGED bak
    /\ Goto("assets")
    /\ UNCHANGED loopVars

\* The backup is removed and the process exits for the supervisor to restart it.
CleanUp ==
    /\ pc = "clean"
    /\ bak' = "none"
    /\ Goto("dead")
    /\ UNCHANGED <<loopVars, exe, rollbackLost>>

-----------------------------------------------------------------------------
\* The environment.

\* The process is killed; a write in progress may leave a truncated file.
Crash ==
    /\ pc # "dead"
    /\ exe' \in IF pc = "write" THEN {exe, "partial"} ELSE {exe}
    /\ Goto("dead")
    /\ UNCHANGED <<loopVars, bak, rollbackLost>>

\* The service manager starts what is at the executable's path (Restart=always).
Restart ==
    /\ pc = "dead" /\ exe \in {"old", "new"}
    /\ ResetRouter
    /\ sinceAssets' = 0 /\ sinceMetrics' = 0 /\ polled' = FALSE
    /\ version' = exe
    /\ Goto("boot")
    /\ UNCHANGED <<url, up, host, diskVars>>

ServerFlips(n) ==
    /\ up' = [up EXCEPT ![n] = ~ @]
    /\ UNCHANGED <<routerVars, pc, url, timerVars, host, version, diskVars>>

\* An operator deletes the host: a soft delete.
DeleteHost ==
    /\ host = "live"
    /\ host' = "deleted"
    /\ UNCHANGED <<routerVars, pc, url, timerVars, up, version, diskVars>>

-----------------------------------------------------------------------------

AgentStep ==
    \/ \E n \in Node : Boot(n) \/ Pick(n)
    \/ Heartbeat \/ AssetReport \/ MetricReport \/ TaskPoll
    \/ \E d \in 1 .. MaxRound : Sleep(d)
    \/ UpdateGivesUp \/ BackUp \/ WriteNew \/ SwapIn \/ UpdateFails \/ CleanUp

Next ==
    \/ AgentStep
    \/ Crash \/ Restart \/ DeleteHost
    \/ \E n \in Node : ServerFlips(n)

\* The agent's goroutine keeps running, and the service manager restarts it.
Spec == Init /\ [][Next]_vars /\ WF_vars(AgentStep) /\ WF_vars(Restart)

-----------------------------------------------------------------------------
\* Properties.

\* A request is sent to a node whose breaker was open only if every breaker was
\* open: the fallback of NextNode never shadows a usable node, whatever the
\* failures, windows and restarts before the scan.
OpenNodeOnlyAsLastResort ==
    [][pc = "pick" /\ pc' = "heartbeat" /\ ~ Usable(url')
         => \A n \in Node : ~ Usable(n)]_vars

\* Through any number of updates, failing or killed at any of their steps, a
\* complete agent binary is on disk, at the executable's path or at the .bak
\* path, as long as no roll-back rename has failed (SelfUpdate ignores its error).
BinarySurvives == exe \in {"old", "new"} \/ bak = "old" \/ rollbackLost

\* When all servers answer, the agent is registered and it stays alive, the
\* rotation reaches every server again and again: earlier failures leave no
\* node skipped for good.
HealthyClusterRotates ==
    <>[](\A n \in Node : up[n] /\ host = "live" /\ pc # "dead")
        => \A n \in Node : []<>(pc = "heartbeat" /\ url = n)

=============================================================================
