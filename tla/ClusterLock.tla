----------------------------- MODULE ClusterLock -----------------------------
(***************************************************************************)
(* The lock c.mu of ClusterState (server/clustering/cluster.go): which     *)
(* goroutines take it, in which order of calls, and how the read-write     *)
(* mutex of the Go library answers them.                                   *)
(*                                                                         *)
(* A goroutine is named for what it serves; it goes through its calls and  *)
(* starts over with the next request or the next tick of its timer.  What  *)
(* happens under the lock is left to module ClusterState.                  *)
(***************************************************************************)
EXTENDS Integers, Sequences

CONSTANTS
    Goroutine, \* the goroutines of the instance, by what they serve (see Calls)
    None

\* Each method brackets its body with the lock (defer).
Reading(body) == <<"RLock">> \o body \o <<"RUnlock">>
Writing == <<"Lock", "Unlock">>

LeaderAddress == Reading(<<>>)

\* PublishInfo calls LeaderAddress while it holds the lock itself.
PublishInfo == Reading(LeaderAddress)

NodeAlive == Reading(<<>>)
RegisterNode == Writing
RefreshNodes == Writing
DeregisterDeadNodes == Writing
SendHeartbeats == Reading(<<>>)

Calls(g) ==
    CASE g = "info"      -> PublishInfo
      [] g = "leader"    -> LeaderAddress
      [] g = "nodes"     -> NodeAlive
      [] g = "ping"      -> RegisterNode \o LeaderAddress
      [] g = "heartbeat" -> SendHeartbeats \o DeregisterDeadNodes
      [] g = "loader"    -> RefreshNodes

VARIABLES
    pos,     \* pos[g]: calls g has completed
    reads,   \* reads[g]: read locks g holds
    blocked, \* goroutines whose RLock waits for a writer
    writer,  \* the goroutine that has announced its Lock, or None
    holding  \* the announced writer has the lock

vars == <<pos, reads, blocked, writer, holding>>

Done(g) == pos[g] = Len(Calls(g))

At(g, op) == ~ Done(g) /\ Calls(g)[pos[g] + 1] = op

Advance(gs) == pos' = [g \in Goroutine |-> IF g \in gs THEN pos[g] + 1 ELSE pos[g]]

Init ==
    /\ pos = [g \in Goroutine |-> 0]
    /\ reads = [g \in Goroutine |-> 0]
    /\ blocked = {}
    /\ writer = None
    /\ holding = FALSE

-----------------------------------------------------------------------------
\* sync.RWMutex: an announced writer keeps new readers out.

RLock(g) ==
    /\ At(g, "RLock") /\ g \notin blocked
    /\ IF writer = None
       THEN /\ reads' = [reads EXCEPT ![g] = @ + 1]
            /\ Advance({g})
            /\ UNCHANGED blocked
       ELSE /\ blocked' = blocked \cup {g}
            /\ UNCHANGED <<pos, reads>>
    /\ UNCHANGED <<writer, holding>>

RUnlock(g) ==
    /\ At(g, "RUnlock")
    /\ reads' = [reads EXCEPT ![g] = @ - 1]
    /\ Advance({g})
    /\ UNCHANGED <<blocked, writer, holding>>

Announce(g) ==
    /\ At(g, "Lock") /\ writer = None
    /\ writer' = g
    /\ UNCHANGED <<pos, reads, blocked, holding>>

Lock(g) ==
    /\ writer = g /\ ~ holding
    /\ \A r \in Goroutine : reads[r] = 0
    /\ holding' = TRUE
    /\ Advance({g})
    /\ UNCHANGED <<reads, blocked, writer>>

\* The readers that waited go first, before another writer can announce itself.
Unlock(g) ==
    /\ writer = g /\ holding
    /\ writer' = None /\ holding' = FALSE
    /\ reads' = [r \in Goroutine |-> IF r \in blocked THEN reads[r] + 1 ELSE reads[r]]
    /\ blocked' = {}
    /\ Advance({g} \cup blocked)

\* The next request, or the next tick.
Again(g) ==
    /\ Done(g)
    /\ pos' = [pos EXCEPT ![g] = 0]
    /\ UNCHANGED <<reads, blocked, writer, holding>>

-----------------------------------------------------------------------------

Step(g) == RLock(g) \/ RUnlock(g) \/ Announce(g) \/ Lock(g) \/ Unlock(g)

Next == \E g \in Goroutine : Step(g) \/ Again(g)

\* Goroutines are scheduled, and a writer is not overtaken by writers for ever
\* (the writers' mutex hands over to one that starves).
Fairness == \A g \in Goroutine : WF_vars(Step(g)) /\ SF_vars(Announce(g))

Spec == Init /\ [][Next]_vars /\ Fairness

-----------------------------------------------------------------------------

\* Requirement 1 of the multi-node specification: a request to /api/cluster/info
\* is answered with the state of the cluster.
InfoAnswered == []<>Done("info")

=============================================================================
