----------------------------- MODULE ClusterState -----------------------------
(***************************************************************************)
(* The server cluster (server/clustering/cluster.go and                    *)
(* server/controllers/cluster.go, started by server/main.go): every node   *)
(* pings the nodes it knows, remembers who pinged it, and takes the        *)
(* smallest address among itself and the nodes it heard of for the leader. *)
(* The list of nodes is kept in the shared database and read by each node. *)
(*                                                                         *)
(* Addresses are numbers, ordered as the strings are.  One tick is the     *)
(* heartbeat interval (10 s); a ping is answered or lost within it (its    *)
(* timeout is 5 s), and every running node does one round per tick.        *)
(***************************************************************************)
EXTENDS Integers, FiniteSets

CONSTANTS
    Server,      \* addresses of the servers
    StaticNodes, \* server.nodes of the configuration files
    DeadTicks,   \* deadThreshold (30 s = 3 ticks)
    MaxCrash,    \* bound on crashes
    MaxAdmin     \* bound on changes of the node list

ASSUME ClusterAssumption ==
    /\ Server \subseteq Nat /\ Server # {} /\ IsFiniteSet(Server)
    /\ StaticNodes \subseteq Server
    /\ DeadTicks \in Nat \ {0}
    /\ MaxCrash \in Nat /\ MaxAdmin \in Nat

\* No live entry for a node: never heard of, or marked unreachable.
Unheard == -1

\* Ages and downtimes are told apart up to this value.
AgeCap == DeadTicks + 2

\* More than deadThreshold ago, or never.
Never == DeadTicks + 1

\* No node list read and not yet installed.
NoSnapshot == {Unheard}

VARIABLES
    running,    \* the server processes that are up
    nodes,      \* nodes[s][t]: ticks since s was last pinged by t, or Unheard
    silent,     \* history: silent[s][t]: ticks since a ping of t has reached s, in this life
                \* of s; Never when none has, or not for longer than deadThreshold
    knownNodes, \* knownNodes[s]: the nodes s sends pings to (s included)
    snapshot,   \* snapshot[s]: list the periodic loader of s has read from the database
    due,        \* servers whose heartbeat round of this tick is still to come
    clusterDB,  \* enabled rows of the cluster_nodes table
    collecting, \* servers that started the CollectorScheduler
    downFor,    \* downFor[s]: ticks since s stopped, 0 while it runs
    crashes,    \* number of crashes so far
    changes,    \* number of changes of the node list so far
    stable      \* no crash, no lost ping and no administration from now on

vars == <<running, nodes, silent, knownNodes, snapshot, due, clusterDB, collecting,
          downFor, crashes, changes, stable>>

TypeOK ==
    /\ running \subseteq Server
    /\ nodes \in [Server -> [Server -> Unheard .. AgeCap]]
    /\ silent \in [Server -> [Server -> 0 .. Never]]
    /\ knownNodes \in [Server -> SUBSET Server]
    /\ snapshot \in [Server -> (SUBSET Server) \cup {NoSnapshot}]
    /\ due \subseteq running
    /\ clusterDB \subseteq Server
    /\ collecting \subseteq running
    /\ downFor \in [Server -> 0 .. AgeCap]
    /\ crashes \in 0 .. MaxCrash /\ changes \in 0 .. MaxAdmin
    /\ stable \in BOOLEAN

-----------------------------------------------------------------------------
\* Election.

\* getHealthyNodes, from a table of pings.
HealthyIn(table, s) == {t \in Server : table[t] # Unheard} \cup {s}

LeaderIn(table, s) ==
    CHOOSE t \in HealthyIn(table, s) : \A u \in HealthyIn(table, s) : t <= u

LeaderAddress(s) == LeaderIn(nodes[s], s)

IsLeader(s) == LeaderAddress(s) = s

NoPings == [t \in Server |-> Unheard]

\* LoadClusterNodes followed by RefreshNodes: an empty list changes nothing.
Refreshed(list, old, s) == IF list = {} THEN old ELSE list \cup {s}

-----------------------------------------------------------------------------

\* main: a new ClusterState, the node list from the database, and the decision
\* whether to start the CollectorScheduler, taken once, before the first ping
\* can arrive.
StartServer(s) ==
    /\ s \notin running
    /\ running' = running \cup {s}
    /\ nodes' = [nodes EXCEPT ![s] = NoPings]
    /\ silent' = [silent EXCEPT ![s] = [t \in Server |-> Never]]
    /\ LET known == Refreshed(clusterDB, StaticNodes \cup {s}, s)
           mode == IF Cardinality(known) > 1 THEN "cluster" ELSE "standalone"
       IN  /\ knownNodes' = [knownNodes EXCEPT ![s] = known]
           /\ collecting' = IF mode = "cluster" /\ LeaderIn(NoPings, s) # s
                            THEN collecting ELSE collecting \cup {s}
    /\ downFor' = [downFor EXCEPT ![s] = 0]
    /\ UNCHANGED <<snapshot, due, clusterDB, crashes, changes, stable>>

CrashServer(s) ==
    /\ s \in running /\ ~ stable /\ crashes < MaxCrash
    /\ running' = running \ {s}
    /\ due' = due \ {s}
    /\ collecting' = collecting \ {s}
    /\ snapshot' = [snapshot EXCEPT ![s] = NoSnapshot]
    /\ crashes' = crashes + 1
    /\ UNCHANGED <<nodes, silent, knownNodes, clusterDB, downFor, changes, stable>>

\* Mutant: only the first ping of a node is recorded.
RegisterNodeOnce(s, heard) ==
    [t \in Server |-> IF t \in heard /\ nodes[t][s] = Unheard
                      THEN [nodes[t] EXCEPT ![s] = 0] ELSE nodes[t]]

\* ClusterPingHandler and RegisterNode, at every node of heard.
RegisterNode(s, heard) ==
    [t \in Server |-> IF t \in heard THEN [nodes[t] EXCEPT ![s] = 0] ELSE nodes[t]]

\* Mutant: the dead threshold is off by one interval.
DeregisterDeadNodesLate(table) ==
    [t \in Server |-> IF table[t] > DeadTicks + 1 THEN Unheard ELSE table[t]]

\* Mutant: an entry is dropped as soon as it reaches the threshold.
DeregisterDeadNodesEarly(table) ==
    [t \in Server |-> IF table[t] >= DeadTicks THEN Unheard ELSE table[t]]

\* DeregisterDeadNodes on one table.
DeregisterDeadNodes(table) ==
    [t \in Server |-> IF table[t] > DeadTicks THEN Unheard ELSE table[t]]

\* One round of StartHeartbeatLoop: pings to the known nodes, of which those in
\* heard arrive, then the sweep of the node's own table.
HeartbeatRound(s, heard) ==
    /\ s \in due
    /\ heard \subseteq (knownNodes[s] \ {s}) \cap running
    /\ stable => heard = (knownNodes[s] \ {s}) \cap running
    /\ nodes' = [RegisterNode(s, heard) EXCEPT ![s] = DeregisterDeadNodes(nodes[s])]
    /\ silent' = [t \in Server |-> IF t \in heard THEN [silent[t] EXCEPT ![s] = 0] ELSE silent[t]]
    /\ due' = due \ {s}
    /\ UNCHANGED <<running, knownNodes, snapshot, clusterDB, collecting, downFor, crashes, changes, stable>>

Older(age) == IF age = Unheard \/ age = AgeCap THEN age ELSE age + 1

\* Ten seconds go by: every running node has done its round.
Tick ==
    /\ due = {}
    /\ nodes' = [s \in Server |-> [t \in Server |-> Older(nodes[s][t])]]
    /\ silent' = [s \in Server |-> [t \in Server |->
                     IF silent[s][t] = Never THEN Never ELSE silent[s][t] + 1]]
    /\ downFor' = [s \in Server |-> IF s \in running THEN 0 ELSE Older(downFor[s])]
    /\ due' = running
    /\ UNCHANGED <<running, knownNodes, snapshot, clusterDB, collecting, crashes, changes, stable>>

-----------------------------------------------------------------------------
\* The node list.

\* The loader of main reads the table every 30 s and installs what it read;
\* an administrator's request may come between the two.
LoadRead(s) ==
    /\ s \in running /\ snapshot[s] = NoSnapshot
    /\ snapshot' = [snapshot EXCEPT ![s] = clusterDB]
    /\ UNCHANGED <<running, nodes, silent, knownNodes, due, clusterDB, collecting, downFor, crashes, changes, stable>>

RefreshNodes(s) ==
    /\ s \in running /\ snapshot[s] # NoSnapshot
    /\ knownNodes' = [knownNodes EXCEPT ![s] = Refreshed(snapshot[s], @, s)]
    /\ snapshot' = [snapshot EXCEPT ![s] = NoSnapshot]
    /\ UNCHANGED <<running, nodes, silent, due, clusterDB, collecting, downFor, crashes, changes, stable>>

\* POST, PUT and DELETE of /api/cluster/nodes served by s: the row changes and
\* s reloads its own list; the other nodes learn it from their loaders.  A PUT
\* may change the address (MoveNode) or enable and disable the row.
AdminChanges(s, db) ==
    /\ s \in running /\ ~ stable /\ changes < MaxAdmin
    /\ clusterDB' = db
    /\ knownNodes' = [knownNodes EXCEPT ![s] = Refreshed(db, @, s)]
    /\ changes' = changes + 1
    /\ UNCHANGED <<running, nodes, silent, snapshot, due, collecting, downFor, crashes, stable>>

AddNode(s, t) ==
    /\ t \notin clusterDB
    /\ AdminChanges(s, clusterDB \cup {t})

RemoveNode(s, t) ==
    /\ t \in clusterDB
    /\ AdminChanges(s, clusterDB \ {t})

MoveNode(s, t, u) ==
    /\ t \in clusterDB
    /\ AdminChanges(s, (clusterDB \ {t}) \cup {u})

\* The point after which the environment is quiet (assumed by liveness only).
Stabilize ==
    /\ ~ stable
    /\ stable' = TRUE
    /\ UNCHANGED <<running, nodes, silent, knownNodes, snapshot, due, clusterDB, collecting,
                   downFor, crashes, changes>>

-----------------------------------------------------------------------------

Init ==
    /\ running = {}
    /\ nodes = [s \in Server |-> NoPings]
    /\ silent = [s \in Server |-> [t \in Server |-> Never]]
    /\ knownNodes = [s \in Server |-> {}]
    /\ snapshot = [s \in Server |-> NoSnapshot]
    /\ due = {}
    /\ clusterDB \in SUBSET Server
    /\ collecting = {}
    /\ downFor = [s \in Server |-> 0]
    /\ crashes = 0 /\ changes = 0
    /\ stable = FALSE

Next ==
    \/ \E s \in Server : \/ StartServer(s) \/ CrashServer(s)
                         \/ LoadRead(s) \/ RefreshNodes(s)
    \/ \E s \in Server : \E heard \in SUBSET Server : HeartbeatRound(s, heard)
    \/ \E s, t \in Server : AddNode(s, t) \/ RemoveNode(s, t)
    \/ \E s, t, u \in Server : MoveNode(s, t, u)
    \/ Tick
    \/ Stabilize

\* Timers fire: heartbeat rounds, the loader and the clock itself.  A crashed
\* server need not come back.
Fairness ==
    /\ WF_vars(Tick)
    /\ \A s \in Server :
          /\ WF_vars(\E heard \in SUBSET Server : HeartbeatRound(s, heard))
          /\ WF_vars(LoadRead(s))
          /\ WF_vars(RefreshNodes(s))

Spec == Init /\ [][Next]_vars /\ Fairness

-----------------------------------------------------------------------------
\* Properties.

\* A node counts as alive for at most deadThreshold plus one heartbeat interval
\* after its last ping, whatever pings were lost and whoever restarted.
PingsAreFresh ==
    \A s \in running, t \in Server : nodes[s][t] <= DeadTicks + 1

\* A crashed leader is replaced everywhere within deadThreshold plus one interval
\* (40 s), inside the 60 s of the multi-node requirements: no running node still
\* names a leader that has been down for longer.
DeadLeaderReplaced ==
    \A s \in running :
        LeaderAddress(s) \notin running => downFor[LeaderAddress(s)] <= DeadTicks + 1

\* A node leads while a smaller one is running only when no ping of that one has
\* reached it for longer than deadThreshold, or since it was started: fewer lost
\* pings, restarts of others and changes of the node list never make two leaders.
TwoLeadOnlyInSilence ==
    \A s, t \in running : s < t /\ IsLeader(t) => silent[t][s] = Never

\* Every running node is listed for every node: in the database, or, as long as
\* the database lists none, in the lists the nodes work with.
AllListed ==
    /\ running # {}
    /\ \/ clusterDB # {} /\ running \subseteq clusterDB
       \/ clusterDB = {} /\ \A s \in running : running \subseteq knownNodes[s]

\* Once crashes, losses and administration stop and every running node is
\* listed, all running nodes come to agree on the smallest of them, and stay so:
\* lost pings, expired entries, stale snapshots and restarts leave no trace.
LeadershipConverges ==
    <>[](stable /\ AllListed)
        => <>[](\A s, t \in running :
                    LeaderAddress(s) \in running /\ LeaderAddress(s) <= t)

=============================================================================
