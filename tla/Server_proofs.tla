---------------------------- MODULE Server_proofs ----------------------------
(***************************************************************************)
(* The server cluster for every set of servers, every dead threshold and   *)
(* any number of crashes and lost pings (ClusterState); and the            *)
(* notification plugins that the servers share, for any instances,         *)
(* requests, keys and values (Plugins).                                    *)
(***************************************************************************)
EXTENDS ClusterState, Plugins, WellFoundedInduction, TLAPS

\* The leader a node names is one of the nodes it holds for healthy and no
\* healthy node has a smaller address.
LEMMA LeaderIsLeast ==
  ASSUME NEW table \in [Server -> Unheard .. AgeCap], NEW s \in Server
  PROVE  /\ LeaderIn(table, s) \in HealthyIn(table, s)
         /\ \A u \in HealthyIn(table, s) : LeaderIn(table, s) <= u
  <1> DEFINE H == HealthyIn(table, s)
  <1>1. H \subseteq Nat /\ H # {}
    BY ClusterAssumption DEF HealthyIn
  <1>2. \E t \in H : \A u \in H : t <= u
    <2> DEFINE R == OpToRel(<, Nat)
    <2>1. IsWellFoundedOn(R, Nat)
      BY NatLessThanWellFounded
    <2>2. \E t \in H : \A u \in H : ~ (<<u, t>> \in R)
      <3> HIDE DEF R, H
      <3> QED  BY <1>1, <2>1, WFMin
    <2>3. \A u, t \in Nat : ~ (<<u, t>> \in R) => t <= u
      BY DEF OpToRel
    <2>4. QED
      <3> HIDE DEF R, H
      <3> QED  BY <1>1, <2>2, <2>3
  <1>3. LeaderIn(table, s) = CHOOSE t \in H : \A u \in H : t <= u
    BY DEF LeaderIn
  <1>4. QED
    <2> HIDE DEF H
    <2>1. LeaderIn(table, s) \in H /\ \A u \in H : LeaderIn(table, s) <= u
      BY <1>2, <1>3
    <2>2. QED  BY <2>1 DEF H

-----------------------------------------------------------------------------

\* Every step keeps TypeOK.
LEMMA TypeStep == TypeOK /\ [Next]_vars => TypeOK'
  <1> SUFFICES ASSUME TypeOK, [Next]_vars PROVE TypeOK'
    OBVIOUS
  <1> USE ClusterAssumption
  <1>0. NoPings \in [Server -> Unheard .. AgeCap]
    BY DEF NoPings, Unheard, AgeCap
  <1>1. ASSUME NEW s \in Server, StartServer(s) PROVE TypeOK'
    <2>1. nodes' \in [Server -> [Server -> Unheard .. AgeCap]]
      BY <1>0, <1>1 DEF StartServer, TypeOK
    <2>2. knownNodes' \in [Server -> SUBSET Server]
      BY <1>1 DEF StartServer, Refreshed, TypeOK
    <2>3. running' \subseteq Server /\ collecting' \subseteq running' /\ due' \subseteq running'
      BY <1>1 DEF StartServer, TypeOK
    <2>4. downFor' \in [Server -> 0 .. AgeCap]
      BY <1>1 DEF StartServer, TypeOK, AgeCap
    <2>5. silent' \in [Server -> [Server -> 0 .. Never]]
      BY <1>1 DEF StartServer, TypeOK, Never
    <2>6. QED  BY <1>1, <2>1, <2>2, <2>3, <2>4, <2>5 DEF StartServer, TypeOK
  <1>2. ASSUME NEW s \in Server, CrashServer(s) PROVE TypeOK'
    BY <1>2 DEF CrashServer, TypeOK
  <1>3. ASSUME NEW s \in Server, LoadRead(s) PROVE TypeOK'
    BY <1>3 DEF LoadRead, TypeOK
  <1>4. ASSUME NEW s \in Server, RefreshNodes(s) PROVE TypeOK'
    <2>1. snapshot[s] \in SUBSET Server
      BY <1>4 DEF RefreshNodes, TypeOK
    <2>2. QED  BY <1>4, <2>1 DEF RefreshNodes, Refreshed, TypeOK
  <1>5. ASSUME NEW s \in Server, NEW heard \in SUBSET Server, HeartbeatRound(s, heard)
        PROVE  TypeOK'
    <2>1. RegisterNode(s, heard) \in [Server -> [Server -> Unheard .. AgeCap]]
      BY DEF RegisterNode, TypeOK, Unheard, AgeCap
    <2>2. DeregisterDeadNodes(nodes[s]) \in [Server -> Unheard .. AgeCap]
      BY DEF DeregisterDeadNodes, TypeOK, Unheard, AgeCap
    <2>3. silent' \in [Server -> [Server -> 0 .. Never]]
      BY <1>5 DEF HeartbeatRound, TypeOK, Never
    <2>4. QED  BY <1>5, <2>1, <2>2, <2>3 DEF HeartbeatRound, TypeOK
  <1>6. CASE Tick
    <2>1. \A a \in Unheard .. AgeCap : Older(a) \in Unheard .. AgeCap
      BY DEF Older, Unheard, AgeCap
    <2>2. \A a \in 0 .. AgeCap : Older(a) \in 0 .. AgeCap
      BY DEF Older, Unheard, AgeCap
    <2>3. 0 \in 0 .. AgeCap  BY DEF AgeCap
    <2>4. silent' \in [Server -> [Server -> 0 .. Never]]
      BY <1>6 DEF Tick, TypeOK, Never
    <2>5. QED  BY <1>6, <2>1, <2>2, <2>3, <2>4 DEF Tick, TypeOK
  <1>7. ASSUME NEW s \in Server, NEW t \in Server, NEW u \in Server,
               AddNode(s, t) \/ RemoveNode(s, t) \/ MoveNode(s, t, u)
        PROVE  TypeOK'
    <2>1. PICK db \in SUBSET Server : AdminChanges(s, db)
      BY <1>7 DEF AddNode, RemoveNode, MoveNode, TypeOK
    <2>2. QED  BY <2>1 DEF AdminChanges, Refreshed, TypeOK
  <1>8. CASE Stabilize
    BY <1>8 DEF Stabilize, TypeOK
  <1>9. CASE UNCHANGED vars
    BY <1>9 DEF vars, TypeOK
  <1>10. QED
    BY <1>1, <1>2, <1>3, <1>4, <1>5, <1>6, <1>7, <1>8, <1>9 DEF Next

\* Type correctness of the cluster, for every set of servers.
THEOREM TypeCorrect == Spec => []TypeOK
  <1>1. Init => TypeOK
    <2> SUFFICES ASSUME Init PROVE TypeOK
      OBVIOUS
    <2>1. NoPings \in [Server -> Unheard .. AgeCap] /\ 0 \in 0 .. AgeCap
      BY ClusterAssumption DEF NoPings, Unheard, AgeCap
    <2>2. 0 \in 0 .. MaxCrash /\ 0 \in 0 .. MaxAdmin
      BY ClusterAssumption
    <2>3. silent \in [Server -> [Server -> 0 .. Never]]
      BY ClusterAssumption DEF Init, Never
    <2>4. QED  BY <2>1, <2>2, <2>3 DEF Init, TypeOK
  <1>2. QED  BY <1>1, TypeStep, PTL DEF Spec

-----------------------------------------------------------------------------

\* What the two bounds on stale entries need to be inductive: a node that has
\* done its round of this tick holds no entry older than the threshold, one
\* that has not holds none older by more than one tick; and an entry for a
\* server that is down is at least as old as its downtime.
FreshInv ==
    /\ \A s \in running, t \in Server :
          nodes[s][t] <= IF s \in due THEN DeadTicks + 1 ELSE DeadTicks
    /\ \A s \in running, t \in Server \ running :
          nodes[s][t] # Unheard => downFor[t] <= nodes[s][t]
    /\ \A s \in running : downFor[s] = 0

\* Steps that change neither the tables, nor who runs or is due, keep it.
LEMMA FreshQuiet ==
  ASSUME FreshInv, UNCHANGED <<running, nodes, due, downFor>>
  PROVE  FreshInv'
  BY DEF FreshInv

\* The inductive step.
LEMMA FreshStep == TypeOK /\ FreshInv /\ [Next]_vars => FreshInv'
  <1> SUFFICES ASSUME TypeOK, FreshInv, [Next]_vars PROVE FreshInv'
    OBVIOUS
  <1> USE ClusterAssumption
  <1>1. ASSUME NEW s \in Server, StartServer(s) PROVE FreshInv'
    BY <1>1 DEF StartServer, NoPings, FreshInv, TypeOK, Unheard
  <1>2. ASSUME NEW s \in Server, CrashServer(s) PROVE FreshInv'
    <2>1. /\ running' = running \ {s} /\ due' = due \ {s}
          /\ nodes' = nodes /\ downFor' = downFor
      BY <1>2 DEF CrashServer
    <2>2. \A r \in running, t \in Server :
            nodes[r][t] <= DeadTicks \/ (r \in due /\ nodes[r][t] <= DeadTicks + 1)
      BY DEF FreshInv
    <2>3. \A r \in running : nodes[r][s] # Unheard => downFor[s] <= nodes[r][s]
      BY <1>2 DEF CrashServer, FreshInv, TypeOK, Unheard, AgeCap
    <2>4. QED  BY <2>1, <2>2, <2>3 DEF FreshInv
  <1>3. ASSUME NEW s \in Server, LoadRead(s) \/ RefreshNodes(s) PROVE FreshInv'
    BY <1>3, FreshQuiet DEF LoadRead, RefreshNodes
  <1>4. ASSUME NEW s \in Server, NEW heard \in SUBSET Server, HeartbeatRound(s, heard)
        PROVE  FreshInv'
    <2>1. s \in running /\ s \in due /\ heard \subseteq running
      BY <1>4 DEF HeartbeatRound, TypeOK
    <2>2. \A r, t \in Server :
            nodes'[r][t] = IF r = s THEN DeregisterDeadNodes(nodes[s])[t]
                           ELSE IF r \in heard /\ t = s THEN 0 ELSE nodes[r][t]
      BY <1>4 DEF HeartbeatRound, RegisterNode, TypeOK
    <2>3. \A t \in Server :
            DeregisterDeadNodes(nodes[s])[t] = IF nodes[s][t] > DeadTicks
                                               THEN Unheard ELSE nodes[s][t]
      BY DEF DeregisterDeadNodes
    <2>4. running' = running /\ due' = due \ {s} /\ downFor' = downFor
      BY <1>4 DEF HeartbeatRound
    <2>5. ASSUME NEW r \in running, NEW t \in Server
          PROVE  nodes'[r][t] <= IF r \in due' THEN DeadTicks + 1 ELSE DeadTicks
      BY <2>1, <2>2, <2>3, <2>4 DEF FreshInv, TypeOK, Unheard, AgeCap
    <2>6. ASSUME NEW r \in running, NEW t \in Server \ running, nodes'[r][t] # Unheard
          PROVE  downFor[t] <= nodes'[r][t]
      BY <2>1, <2>2, <2>3, <2>6 DEF FreshInv, TypeOK
    <2>7. QED  BY <2>4, <2>5, <2>6 DEF FreshInv, TypeOK
  <1>5. CASE Tick
    <2>1. \A r, t \in Server : nodes'[r][t] = Older(nodes[r][t])
      BY <1>5 DEF Tick
    <2>2. \A t \in Server \ running : downFor'[t] = Older(downFor[t])
      BY <1>5 DEF Tick
    <2>3. running' = running /\ due = {} /\ due' = running
      BY <1>5 DEF Tick
    <2>4. ASSUME NEW r \in running, NEW t \in Server
          PROVE  nodes'[r][t] <= IF r \in due' THEN DeadTicks + 1 ELSE DeadTicks
      BY <2>1, <2>3 DEF FreshInv, TypeOK, Older, Unheard, AgeCap
    <2>5. ASSUME NEW r \in running, NEW t \in Server \ running, nodes'[r][t] # Unheard
          PROVE  downFor'[t] <= nodes'[r][t]
      <3>1. nodes[r][t] \in Unheard .. AgeCap /\ downFor[t] \in 0 .. AgeCap
        BY DEF TypeOK
      <3>2. nodes[r][t] # Unheard /\ downFor[t] <= nodes[r][t]
        BY <2>1, <2>5 DEF Older, FreshInv, TypeOK
      <3>3. QED  BY <2>1, <2>2, <3>1, <3>2 DEF Older, TypeOK, Unheard, AgeCap
    <2>6. \A r \in running : downFor'[r] = 0
      BY <1>5 DEF Tick, TypeOK
    <2>7. QED  BY <2>3, <2>4, <2>5, <2>6 DEF FreshInv
  <1>6. ASSUME NEW s \in Server, NEW t \in Server, NEW u \in Server,
               AddNode(s, t) \/ RemoveNode(s, t) \/ MoveNode(s, t, u)
        PROVE  FreshInv'
    BY <1>6, FreshQuiet DEF AddNode, RemoveNode, MoveNode, AdminChanges
  <1>7. CASE Stabilize \/ UNCHANGED vars
    BY <1>7, FreshQuiet DEF Stabilize, vars
  <1>8. QED
    BY <1>1, <1>2, <1>3, <1>4, <1>5, <1>6, <1>7 DEF Next

\* FreshInv holds throughout.
THEOREM FreshInvariant == Spec => []FreshInv
  <1>1. Init => FreshInv
    BY DEF Init, FreshInv
  <1>2. QED  BY <1>1, FreshStep, TypeCorrect, PTL DEF Spec

\* For every set of servers and threshold, no entry older than the threshold plus
\* one interval counts as alive.
THEOREM PingsFresh == Spec => []PingsAreFresh
  <1>1. TypeOK /\ FreshInv => PingsAreFresh
    BY ClusterAssumption DEF TypeOK, FreshInv, PingsAreFresh, Unheard, AgeCap
  <1>2. QED  BY <1>1, TypeCorrect, FreshInvariant, PTL

\* For every set of servers and threshold, a crashed leader is forgotten by every
\* running node within the threshold plus one interval.
THEOREM DeadLeaderForgotten == Spec => []DeadLeaderReplaced
  <1>1. TypeOK /\ FreshInv => DeadLeaderReplaced
    <2> SUFFICES ASSUME TypeOK, FreshInv, NEW s \in running,
                        LeaderAddress(s) \notin running
                 PROVE  downFor[LeaderAddress(s)] <= DeadTicks + 1
      BY DEF DeadLeaderReplaced
    <2> DEFINE l == LeaderAddress(s)
    <2>1. s \in Server /\ nodes[s] \in [Server -> Unheard .. AgeCap]
      BY DEF TypeOK
    <2>2. l \in HealthyIn(nodes[s], s)
      BY <2>1, LeaderIsLeast DEF LeaderAddress
    <2>3. l \in Server \ running /\ nodes[s][l] # Unheard
      BY <2>1, <2>2 DEF HealthyIn
    <2> HIDE DEF l
    <2>4. downFor[l] <= nodes[s][l] /\ nodes[s][l] <= DeadTicks + 1
      <3>1. downFor[l] <= nodes[s][l]  BY <2>3 DEF FreshInv
      <3>2. nodes[s][l] <= IF s \in due THEN DeadTicks + 1 ELSE DeadTicks
        BY <2>3 DEF FreshInv
      <3>3. nodes[s][l] \in Int  BY <2>1, <2>3, ClusterAssumption DEF Unheard, AgeCap
      <3>4. QED  BY <3>1, <3>2, <3>3, ClusterAssumption
    <2>5. downFor[l] \in Nat /\ nodes[s][l] \in Int
      BY <2>1, <2>3, ClusterAssumption DEF TypeOK, AgeCap, Unheard
    <2>6. downFor[l] <= DeadTicks + 1
      BY <2>4, <2>5, ClusterAssumption
    <2>7. QED  BY <2>6 DEF l
  <1>2. QED  BY <1>1, TypeCorrect, FreshInvariant, PTL

-----------------------------------------------------------------------------

\* An entry is at most as old as the last ping that arrived, and where there is
\* none, none has arrived for longer than the threshold.
SilentInv ==
    \A s, t \in Server :
        \/ silent[s][t] = Never
        \/ nodes[s][t] # Unheard /\ nodes[s][t] <= silent[s][t]

LEMMA SilentQuiet ==
  ASSUME SilentInv, UNCHANGED <<nodes, silent>>
  PROVE  SilentInv'
  BY DEF SilentInv

LEMMA SilentStep == TypeOK /\ SilentInv /\ [Next]_vars => SilentInv'
  <1> SUFFICES ASSUME TypeOK, SilentInv, [Next]_vars PROVE SilentInv'
    OBVIOUS
  <1> USE ClusterAssumption
  <1>1. ASSUME NEW s \in Server, StartServer(s) PROVE SilentInv'
    BY <1>1 DEF StartServer, SilentInv, TypeOK
  <1>2. ASSUME NEW s \in Server, CrashServer(s) \/ LoadRead(s) \/ RefreshNodes(s)
        PROVE  SilentInv'
    BY <1>2, SilentQuiet DEF CrashServer, LoadRead, RefreshNodes
  <1>3. ASSUME NEW s \in Server, NEW heard \in SUBSET Server, HeartbeatRound(s, heard)
        PROVE  SilentInv'
    <2>1. \A r, t \in Server :
            nodes'[r][t] = IF r = s THEN IF nodes[s][t] > DeadTicks THEN Unheard
                                         ELSE nodes[s][t]
                           ELSE IF r \in heard /\ t = s THEN 0 ELSE nodes[r][t]
      BY <1>3 DEF HeartbeatRound, RegisterNode, DeregisterDeadNodes, TypeOK
    <2>2. \A r, t \in Server :
            silent'[r][t] = IF r \in heard /\ t = s THEN 0 ELSE silent[r][t]
      BY <1>3 DEF HeartbeatRound, TypeOK
    <2>3. s \notin heard  BY <1>3 DEF HeartbeatRound
    <2>4. ASSUME NEW r \in Server, NEW t \in Server
          PROVE  \/ silent'[r][t] = Never
                 \/ nodes'[r][t] # Unheard /\ nodes'[r][t] <= silent'[r][t]
      <3>1. silent[r][t] \in 0 .. DeadTicks + 1 /\ nodes[r][t] \in Unheard .. AgeCap
        BY DEF TypeOK, Never
      <3>2. CASE r = s
        <4>1. /\ silent'[r][t] = silent[r][t]
              /\ nodes'[r][t] = IF nodes[r][t] > DeadTicks THEN Unheard ELSE nodes[r][t]
          BY <2>1, <2>2, <2>3, <3>2
        <4>2. \/ silent[r][t] = Never
              \/ nodes[r][t] # Unheard /\ nodes[r][t] <= silent[r][t]
          BY DEF SilentInv
        <4>3. nodes[r][t] \in Int /\ silent[r][t] \in Nat
          BY <3>1 DEF Unheard, AgeCap
        <4>4. CASE nodes[r][t] > DeadTicks
          BY <3>1, <4>1, <4>2, <4>3, <4>4 DEF Never
        <4>5. CASE ~ (nodes[r][t] > DeadTicks)
          BY <4>1, <4>2, <4>5
        <4>6. QED  BY <4>4, <4>5
      <3>3. CASE r # s
        BY <2>1, <2>2, <3>1, <3>3 DEF SilentInv, Unheard
      <3>4. QED  BY <3>2, <3>3
    <2>5. QED  BY <2>4 DEF SilentInv
  <1>4. CASE Tick
    <2>1. \A r, t \in Server :
            /\ nodes'[r][t] = Older(nodes[r][t])
            /\ silent'[r][t] = IF silent[r][t] = Never THEN Never ELSE silent[r][t] + 1
      BY <1>4 DEF Tick
    <2>2. \A r, t \in Server :
            silent[r][t] \in 0 .. DeadTicks + 1 /\ nodes[r][t] \in Unheard .. AgeCap
      BY DEF TypeOK, Never
    <2>3. QED  BY <2>1, <2>2 DEF SilentInv, Older, Unheard, AgeCap, Never
  <1>5. ASSUME NEW s \in Server, NEW t \in Server, NEW u \in Server,
               AddNode(s, t) \/ RemoveNode(s, t) \/ MoveNode(s, t, u)
        PROVE  SilentInv'
    BY <1>5, SilentQuiet DEF AddNode, RemoveNode, MoveNode, AdminChanges
  <1>6. CASE Stabilize \/ UNCHANGED vars
    BY <1>6, SilentQuiet DEF Stabilize, vars
  <1>7. QED
    BY <1>1, <1>2, <1>3, <1>4, <1>5, <1>6 DEF Next

\* For every set of servers and threshold, a node leads beside a smaller running
\* one only after a silence of more than the threshold.
THEOREM TwoLeadersNeedSilence == Spec => []TwoLeadOnlyInSilence
  <1>1. Init => SilentInv
    BY DEF Init, SilentInv
  <1>2. TypeOK /\ SilentInv => TwoLeadOnlyInSilence
    <2> SUFFICES ASSUME TypeOK, SilentInv, NEW s \in running, NEW t \in running,
                        s < t, IsLeader(t), silent[t][s] # Never
                 PROVE  FALSE
      BY DEF TwoLeadOnlyInSilence
    <2>1. s \in Server /\ t \in Server /\ nodes[t] \in [Server -> Unheard .. AgeCap]
      BY DEF TypeOK
    <2>2. s \in HealthyIn(nodes[t], t)
      BY <2>1 DEF SilentInv, HealthyIn
    <2>3. t <= s
      BY <2>1, <2>2, LeaderIsLeast DEF IsLeader, LeaderAddress
    <2>4. QED  BY <2>1, <2>3, ClusterAssumption
  <1>3. QED  BY <1>1, <1>2, SilentStep, TypeCorrect, PTL DEF Spec

-----------------------------------------------------------------------------
\* Notification plugins: the operators.

\* No plugin has a field that is both encrypted and plain.
LEMMA RegistryFacts ==
    ASSUME NEW k \in Kinds
    PROVE  Registry[k].secret \cap Registry[k].plain = {}
<1>1. k \in {"webhook", "dingtalk", "feishu", "wecom", "slack", "smtp"}
  BY PluginsAssumption DEF Registry
<1>2. QED
  BY <1>1 DEF Registry, Webhook, DingTalk, Feishu, WeCom, Slack, SMTP

\* What is known of a stored configuration.
LEMMA StoredFacts ==
    ASSUME NEW k \in Kinds, NEW c
    PROVE  c \in Stored(k) <=>
              /\ c \in [Fields(k) -> Cipher \cup Value \cup {Empty}]
              /\ \A f \in Registry[k].secret : c[f] \in Cipher \cup {Empty}
              /\ \A f \in Registry[k].plain : c[f] \in Value \cup {Empty}
<1>. QED
  BY DEF Stored

\* A row is a record of one of the kinds in use.
LEMMA RowFacts ==
    /\ \A r \in Row : r.kind \in Kinds /\ r.enabled \in BOOLEAN /\ r.config \in Stored(r.kind)
    /\ \A k \in Kinds, b \in BOOLEAN : \A c \in Stored(k) : [kind |-> k, enabled |-> b, config |-> c] \in Row
<1>. QED
  BY DEF Row

LEMMA UpdateFacts ==
    /\ \A u \in Update : u.id \in Instance /\ u.enabled \in BOOLEAN \cup {Absent}
    /\ \A k \in Kinds, i \in Instance, e \in BOOLEAN \cup {Absent} : \A c \in Stored(k) :
          [id |-> i, enabled |-> e, config |-> c] \in Update
<1>. QED
  BY DEF Update

\* All secrets of a configuration are under one key.
OneKey(k, c) ==
    \A f, g \in Registry[k].secret : c[f] # Empty /\ c[g] # Empty => c[f].key = c[g].key

\* Encryption gives a configuration that can be stored, with all secrets under
\* the key of the process.
LEMMA EncryptedFacts ==
    ASSUME NEW k \in Kinds, key \in Key, NEW c, \A f \in Fields(k) : c[f] \in Value \cup {Empty}
    PROVE  Encrypted(k, c) \in Stored(k) /\ OneKey(k, Encrypted(k, c))
<1>. DEFINE e == Encrypted(k, c)
<1>1. /\ Registry[k].secret \subseteq Fields(k) /\ Registry[k].plain \subseteq Fields(k)
      /\ Registry[k].secret \cap Registry[k].plain = {}
  BY RegistryFacts DEF Fields
<1>2. ASSUME NEW f \in Fields(k), f \in Registry[k].secret, c[f] # Empty
      PROVE  e[f] = [key |-> key, val |-> c[f]] /\ e[f] \in Cipher
  BY <1>2 DEF Encrypted, Cipher
<1>3. ASSUME NEW f \in Fields(k), f \notin Registry[k].secret \/ c[f] = Empty
      PROVE  e[f] = c[f]
  BY <1>3 DEF Encrypted
<1>4. e = [f \in Fields(k) |-> e[f]]
  BY DEF Encrypted
<1>. HIDE DEF e
<1>5. \A f \in Fields(k) : e[f] \in Cipher \cup Value \cup {Empty}
  BY <1>2, <1>3
<1>6. e \in [Fields(k) -> Cipher \cup Value \cup {Empty}]
  BY <1>4, <1>5
<1>7. e \in Stored(k)
  BY <1>1, <1>2, <1>3, <1>6, StoredFacts
<1>8. OneKey(k, e)
  <2>1. ASSUME NEW f \in Registry[k].secret, e[f] # Empty PROVE e[f].key = key
    <3>1. f \in Fields(k)
      BY <1>1
    <3>2. c[f] # Empty
      BY <1>3, <2>1, <3>1
    <3>3. e[f] = [key |-> key, val |-> c[f]]
      BY <1>2, <3>1, <3>2
    <3>4. QED
      BY <3>3
  <2>2. QED
    BY <2>1 DEF OneKey
<1>9. QED
  BY <1>7, <1>8 DEF e

\* Decryption gives back what was entered.
LEMMA DecryptedFacts ==
    ASSUME NEW r \in Row
    PROVE  \A f \in Fields(r.kind) : Decrypted(r)[f] \in Value \cup {Empty}
<1>. SUFFICES ASSUME NEW f \in Fields(r.kind) PROVE Decrypted(r)[f] \in Value \cup {Empty}
  OBVIOUS
<1>1. r.kind \in Kinds /\ r.config \in Stored(r.kind)
  BY RowFacts
<1>2. /\ f \in Registry[r.kind].secret => r.config[f] \in Cipher \cup {Empty}
      /\ f \in Registry[r.kind].plain => r.config[f] \in Value \cup {Empty}
  BY <1>1, StoredFacts
<1>3. \A x \in Cipher : x.val \in Value
  BY DEF Cipher
<1>4. QED
  BY <1>2, <1>3 DEF Decrypted, Fields

\* A merge that succeeds gives a configuration that can be stored: the mask is
\* never taken for a value, and no ciphertext is encrypted a second time.
LEMMA MergeFacts ==
    ASSUME NEW r \in Row, key \in Key, NEW c \in Config(r.kind), MergeConfig(r, c) # Absent
    PROVE  MergeConfig(r, c) \in Stored(r.kind) /\ OneKey(r.kind, MergeConfig(r, c))
<1>. DEFINE m == [f \in Fields(r.kind) |->
                    IF c[f] = Absent \/ (f \in Registry[r.kind].secret /\ c[f] = Masked)
                    THEN Decrypted(r)[f] ELSE c[f]]
<1>1. MergeConfig(r, c) = Encrypted(r.kind, m)
  BY DEF MergeConfig
<1>2. \A f \in Fields(r.kind) : m[f] \in Value \cup {Empty}
  BY DecryptedFacts DEF Config, Fields
<1>3. r.kind \in Kinds
  BY RowFacts
<1>. HIDE DEF m
<1>4. QED
  BY <1>1, <1>2, <1>3, EncryptedFacts

-----------------------------------------------------------------------------
\* Notification plugins: the configurations.

\* KeysAgree, also for what a PUT is about to write.
KeyInv ==
    /\ \A i \in Instance : row[i] # Absent => OneKey(row[i].kind, row[i].config)
    /\ \A h \in Slot : put[h] # Absent => OneKey(row[put[h].id].kind, put[h].config)

\* The rows and requests of two states in which nothing but one row's entry
\* changes, its kind staying what it was.
LEMMA ConfigKept ==
    ASSUME PluginsTypeOK, KeyInv, NEW i \in Instance, NEW r \in Row,
           row' = [row EXCEPT ![i] = r], put' \in [Slot -> Update \cup {Absent}],
           \A h \in Slot : put'[h] \in {put[h], Absent},
           row[i] # Absent => row[i].kind = r.kind, OneKey(r.kind, r.config)
    PROVE  /\ row' \in [Instance -> Row \cup {Absent}]
           /\ \A h \in Slot : put'[h] # Absent =>
                 row'[put'[h].id] # Absent /\ put'[h].config \in Stored(row'[put'[h].id].kind)
           /\ KeyInv'
<1>1. /\ row'[i] = r /\ r # Absent /\ \A j \in Instance \ {i} : row'[j] = row[j]
      /\ row' \in [Instance -> Row \cup {Absent}]
  BY PluginsAssumption DEF PluginsTypeOK
<1>2. ASSUME NEW h \in Slot, put'[h] # Absent
      PROVE  /\ row'[put'[h].id] # Absent /\ put'[h].config \in Stored(row'[put'[h].id].kind)
             /\ OneKey(row'[put'[h].id].kind, put'[h].config)
  <2>1. put'[h] = put[h] /\ put[h] # Absent /\ put[h].id \in Instance
    BY <1>2, UpdateFacts DEF PluginsTypeOK
  <2>2. /\ row[put[h].id] # Absent /\ put[h].config \in Stored(row[put[h].id].kind)
        /\ OneKey(row[put[h].id].kind, put[h].config)
    BY <2>1 DEF PluginsTypeOK, KeyInv
  <2>3. row'[put[h].id] # Absent /\ row'[put[h].id].kind = row[put[h].id].kind
    BY <1>1, <2>1, <2>2
  <2>4. QED
    BY <2>1, <2>2, <2>3
<1>3. \A j \in Instance : row'[j] # Absent => OneKey(row'[j].kind, row'[j].config)
  BY <1>1 DEF KeyInv
<1>4. QED
  BY <1>1, <1>2, <1>3 DEF KeyInv

\* The dispatch keeps its types.
LEMMA AlertType ==
    ASSUME PluginsTypeOK, NEW x \in {"idle", "sending", "fallback", "done"},
           NEW A \in SUBSET Instance, NEW B \in SUBSET Instance, NEW C \in SUBSET Instance,
           NEW D \in SUBSET Instance, NEW w \in BOOLEAN,
           alert' = [at |-> x, usable |-> A, todo |-> B, tried |-> C, sent |-> D, webhook |-> w],
           UNCHANGED <<row, deleted, put, key>>
    PROVE  PluginsTypeOK'
<1>. QED
  BY DEF PluginsTypeOK

\* One turn of the loop, field by field.
LEMMA NotifyFacts ==
    ASSUME PluginsTypeOK, NEW i \in Instance, NEW ok \in BOOLEAN, NotifyInstance(i, ok)
    PROVE  /\ UNCHANGED <<row, deleted, put, key>> /\ alert.at = "sending"
           /\ \E C, D \in SUBSET Instance :
                 /\ alert' = [at |-> alert.at, usable |-> alert.usable, todo |-> alert.todo \ {i},
                              tried |-> C, sent |-> D, webhook |-> alert.webhook]
                 /\ \/ i \in alert.usable /\ C = alert.tried \cup {i}
                    \/ i \notin alert.usable /\ C = alert.tried
           /\ alert.at \in {"idle", "sending", "fallback", "done"} /\ alert.webhook \in BOOLEAN
           /\ alert.usable \in SUBSET Instance /\ alert.todo \ {i} \in SUBSET Instance
<1>1. /\ alert.at \in {"idle", "sending", "fallback", "done"} /\ alert.webhook \in BOOLEAN
      /\ alert.usable \in SUBSET Instance /\ alert.todo \in SUBSET Instance
      /\ alert.tried \in SUBSET Instance /\ alert.sent \in SUBSET Instance
  BY DEF PluginsTypeOK
<1>2. ASSUME NEW B, NEW C, NEW D
      PROVE  [alert EXCEPT !.todo = B, !.tried = C, !.sent = D]
             = [at |-> alert.at, usable |-> alert.usable, todo |-> B, tried |-> C, sent |-> D, webhook |-> alert.webhook]
  <2>. DEFINE R(t, v, s) == [at |-> alert.at, usable |-> alert.usable, todo |-> t, tried |-> v, sent |-> s,
                             webhook |-> alert.webhook]
  <2>1. alert = R(alert.todo, alert.tried, alert.sent)
    BY DEF PluginsTypeOK
  <2>2. [R(alert.todo, alert.tried, alert.sent) EXCEPT !.todo = B] = R(B, alert.tried, alert.sent)
    OBVIOUS
  <2>3. [R(B, alert.tried, alert.sent) EXCEPT !.tried = C] = R(B, C, alert.sent)
    OBVIOUS
  <2>4. [R(B, C, alert.sent) EXCEPT !.sent = D] = R(B, C, D)
    OBVIOUS
  <2>5. [alert EXCEPT !.todo = B, !.tried = C, !.sent = D]
          = [[[alert EXCEPT !.todo = B] EXCEPT !.tried = C] EXCEPT !.sent = D]
    OBVIOUS
  <2>. HIDE DEF R
  <2>6. [alert EXCEPT !.todo = B, !.tried = C, !.sent = D] = R(B, C, D)
    BY ONLY <2>1, <2>2, <2>3, <2>4, <2>5, Zenon
  <2>7. QED
    BY <2>6 DEF R
<1>3. \A B : [alert EXCEPT !.todo = B]
         = [at |-> alert.at, usable |-> alert.usable, todo |-> B, tried |-> alert.tried,
            sent |-> alert.sent, webhook |-> alert.webhook]
  BY DEF PluginsTypeOK
<1>4. CASE i \in alert.usable
  <2>. DEFINE D == IF ok THEN alert.sent \cup {i} ELSE alert.sent
  <2>1. D \in SUBSET Instance /\ alert.tried \cup {i} \in SUBSET Instance
    BY <1>1
  <2>2. alert' = [alert EXCEPT !.todo = alert.todo \ {i}, !.tried = alert.tried \cup {i}, !.sent = D]
    BY <1>4 DEF NotifyInstance, Send
  <2>. HIDE DEF D
  <2>3. alert' = [at |-> alert.at, usable |-> alert.usable, todo |-> alert.todo \ {i},
                  tried |-> alert.tried \cup {i}, sent |-> D, webhook |-> alert.webhook]
    BY <1>2, <2>2, Zenon
  <2>4. UNCHANGED <<row, deleted, put, key>> /\ alert.at = "sending"
    BY DEF NotifyInstance
  <2>5. QED
    BY <1>1, <1>4, <2>1, <2>3, <2>4
<1>5. CASE i \notin alert.usable
  <2>1. alert' = [alert EXCEPT !.todo = alert.todo \ {i}]
    BY <1>5 DEF NotifyInstance
  <2>2. alert' = [at |-> alert.at, usable |-> alert.usable, todo |-> alert.todo \ {i},
                  tried |-> alert.tried, sent |-> alert.sent, webhook |-> alert.webhook]
    BY <1>3, <2>1, Zenon
  <2>3. UNCHANGED <<row, deleted, put, key>> /\ alert.at = "sending"
    BY DEF NotifyInstance
  <2>4. QED
    BY <1>1, <1>5, <2>2, <2>3
<1>6. QED
  BY <1>4, <1>5

\* Every step keeps the types and KeyInv.
LEMMA PluginsTypeStep ==
    ASSUME PluginsTypeOK, KeyInv, [PluginsNext]_pluginsVars
    PROVE  PluginsTypeOK' /\ KeyInv'
<1>0. ASSUME UNCHANGED <<row, put>> PROVE KeyInv'
  BY <1>0 DEF KeyInv
<1>1. ASSUME NEW i \in Instance, NEW k \in Kinds, NEW c \in Config(k), CreateInstance(i, k, c)
      PROVE  PluginsTypeOK' /\ KeyInv'
  <2>. DEFINE r == [kind |-> k, enabled |-> TRUE, config |-> Encrypted(k, c)]
  <2>1. Encrypted(k, c) \in Stored(k) /\ OneKey(k, Encrypted(k, c))
    BY <1>1, EncryptedFacts DEF CreateInstance, PluginsTypeOK
  <2>2. r \in Row /\ r.kind = k /\ r.config = Encrypted(k, c)
    BY <2>1, RowFacts
  <2>3. /\ row[i] = Absent /\ row' = [row EXCEPT ![i] = r] /\ UNCHANGED <<deleted, put, key, alert>>
    BY <1>1 DEF CreateInstance
  <2>. HIDE DEF r
  <2>4. put' \in [Slot -> Update \cup {Absent}]
    BY <2>3 DEF PluginsTypeOK
  <2>5. QED
    BY <2>1, <2>2, <2>3, <2>4, ConfigKept DEF PluginsTypeOK
<1>2. ASSUME NEW i \in Instance, NEW h \in Slot, NEW c \in Config(row[i].kind),
             NEW e \in BOOLEAN \cup {Absent}, PutSelect(h, i, c, e)
      PROVE  PluginsTypeOK' /\ KeyInv'
  <2>. DEFINE m == MergeConfig(row[i], c)
              u == [id |-> i, enabled |-> e, config |-> m]
  <2>1. row[i] # Absent /\ row[i] \in Row
    BY <1>2 DEF PutSelect, Visible, PluginsTypeOK
  <2>2. m \in Stored(row[i].kind) /\ OneKey(row[i].kind, m)
    BY <1>2, <2>1, MergeFacts DEF PutSelect, PluginsTypeOK
  <2>3. u \in Update /\ u.id = i /\ u.config = m
    <3>1. row[i].kind \in Kinds
      BY <2>1, RowFacts
    <3>2. QED
      BY <2>2, <3>1, UpdateFacts
  <2>4. put' = [put EXCEPT ![h] = u] /\ UNCHANGED <<row, deleted, key, alert>>
    BY <1>2 DEF PutSelect
  <2>. HIDE DEF u, m
  <2>5. /\ put'[h] = u /\ \A g \in Slot \ {h} : put'[g] = put[g]
        /\ put' \in [Slot -> Update \cup {Absent}]
    BY <2>3, <2>4 DEF PluginsTypeOK
  <2>6. \A g \in Slot : put'[g] # Absent =>
            row'[put'[g].id] # Absent /\ put'[g].config \in Stored(row'[put'[g].id].kind)
    BY <2>1, <2>2, <2>3, <2>4, <2>5 DEF PluginsTypeOK
  <2>7. KeyInv'
    BY <2>2, <2>3, <2>4, <2>5 DEF KeyInv
  <2>8. QED
    BY <2>4, <2>5, <2>6, <2>7 DEF PluginsTypeOK
<1>3. ASSUME NEW i \in Instance, PutEnabled(i) PROVE PluginsTypeOK' /\ KeyInv'
  <2>. DEFINE b == ~ row[i].enabled
              r == [row[i] EXCEPT !.enabled = b]
  <2>1. row[i] # Absent /\ row[i] \in Row
    BY <1>3 DEF PutEnabled, Visible, PluginsTypeOK
  <2>2. row[i].kind \in Kinds /\ row[i].config \in Stored(row[i].kind) /\ b \in BOOLEAN
    BY <2>1, RowFacts
  <2>. HIDE DEF b
  <2>3. r \in Row /\ r.kind = row[i].kind /\ r.config = row[i].config
    <3>1. r = [kind |-> row[i].kind, enabled |-> b, config |-> row[i].config]
      BY <2>1 DEF Row
    <3>2. QED
      BY <2>2, <3>1, RowFacts
  <2>4. row' = [row EXCEPT ![i] = r] /\ UNCHANGED <<deleted, put, key, alert>>
    BY <1>3, Zenon DEF PutEnabled, b
  <2>5. OneKey(row[i].kind, row[i].config)
    BY <2>1 DEF KeyInv
  <2>. HIDE DEF r
  <2>6. put' \in [Slot -> Update \cup {Absent}]
    BY <2>4 DEF PluginsTypeOK
  <2>7. QED
    BY <2>3, <2>4, <2>5, <2>6, ConfigKept DEF PluginsTypeOK
<1>4. ASSUME NEW i \in Instance, DeleteInstance(i) PROVE PluginsTypeOK' /\ KeyInv'
  BY <1>0, <1>4 DEF DeleteInstance, PluginsTypeOK
<1>5. ASSUME NEW h \in Slot, PutUpdate(h) PROVE PluginsTypeOK' /\ KeyInv'
  <2>. DEFINE i == put[h].id
              e == IF put[h].enabled = Absent THEN row[i].enabled ELSE put[h].enabled
              r == [kind |-> row[i].kind, config |-> put[h].config, enabled |-> e]
  <2>1. /\ put[h] # Absent /\ i \in Instance /\ put[h].enabled \in BOOLEAN \cup {Absent}
    BY <1>5, UpdateFacts DEF PutUpdate, PluginsTypeOK
  <2>2. /\ row[i] # Absent /\ row[i] \in Row
        /\ put[h].config \in Stored(row[i].kind) /\ OneKey(row[i].kind, put[h].config)
    BY <2>1 DEF PluginsTypeOK, KeyInv
  <2>3. row[i].kind \in Kinds /\ row[i].enabled \in BOOLEAN
    BY <2>2, RowFacts
  <2>4. e \in BOOLEAN
    BY <2>1, <2>3
  <2>. HIDE DEF e
  <2>5. r \in Row /\ r.kind = row[i].kind /\ r.config = put[h].config
    <3>1. [kind |-> row[i].kind, enabled |-> e, config |-> put[h].config] \in Row
      BY <2>2, <2>3, <2>4, RowFacts
    <3>2. QED
      BY <3>1
  <2>6. /\ row' = row \/ row' = [row EXCEPT ![i] = r]
        /\ put' = [put EXCEPT ![h] = Absent] /\ UNCHANGED <<deleted, key, alert>>
    BY <1>5 DEF PutUpdate, e
  <2>7. row = [row EXCEPT ![i] = row[i]]
    BY <2>1 DEF PluginsTypeOK
  <2>8. put' \in [Slot -> Update \cup {Absent}] /\ \A g \in Slot : put'[g] \in {put[g], Absent}
    BY <2>6 DEF PluginsTypeOK
  <2>9. OneKey(row[i].kind, row[i].config)
    BY <2>1, <2>2 DEF KeyInv
  <2>. HIDE DEF r, i
  <2>10. CASE row' = row
    BY <2>1, <2>2, <2>6, <2>7, <2>8, <2>9, <2>10, ConfigKept DEF PluginsTypeOK
  <2>11. CASE row' = [row EXCEPT ![i] = r]
    BY <2>1, <2>2, <2>5, <2>6, <2>8, <2>11, ConfigKept DEF PluginsTypeOK
  <2>12. QED
    BY <2>6, <2>10, <2>11
<1>6. CASE DispatchNotifiers
  BY <1>0, <1>6, AlertType DEF DispatchNotifiers, NoAlert
<1>7. ASSUME NEW i \in Instance, NEW ok \in BOOLEAN, NotifyInstance(i, ok) PROVE PluginsTypeOK' /\ KeyInv'
  BY <1>0, <1>7, NotifyFacts, AlertType
<1>8. CASE NotifyAll
  BY <1>0, <1>8 DEF NotifyAll, PluginsTypeOK
<1>9. ASSUME NEW b \in BOOLEAN, NotifyWebhook(b) PROVE PluginsTypeOK' /\ KeyInv'
  BY <1>0, <1>9 DEF NotifyWebhook, PluginsTypeOK
<1>10. CASE AlertDone
  BY <1>0, <1>10, AlertType DEF AlertDone, NoAlert
<1>11. ASSUME NEW k \in Key, Restart(k) PROVE PluginsTypeOK' /\ KeyInv'
  <2>1. PluginsTypeOK'
    BY <1>11 DEF Restart, NoAlert, PluginsTypeOK
  <2>2. KeyInv'
    BY <1>11 DEF Restart, KeyInv
  <2>3. QED
    BY <2>1, <2>2
<1>12. CASE UNCHANGED pluginsVars
  BY <1>0, <1>12 DEF pluginsVars, PluginsTypeOK
<1>13. QED
  BY <1>1, <1>2, <1>3, <1>4, <1>5, <1>6, <1>7, <1>8, <1>9, <1>10, <1>11, <1>12 DEF PluginsNext

\* PluginsTypeOK and KeyInv hold in every reachable state.
LEMMA PluginsInvariant == PluginsSpec => [](PluginsTypeOK /\ KeyInv)
<1>1. PluginsInit => PluginsTypeOK /\ KeyInv
  BY DEF PluginsInit, PluginsTypeOK, KeyInv, NoAlert
<1>2. QED
  BY <1>1, PluginsTypeStep, PTL DEF PluginsSpec

\* A stored secret is always a value that was entered, encrypted once, however
\* many PUTs, deletions and restarts with other keys are interleaved, for any
\* plugins of the registry (mergeConfig, encryptPluginConfig).
THEOREM PluginsTypeCorrect == PluginsSpec => []PluginsTypeOK
<1>. QED
  BY PluginsInvariant, PTL

\* All secrets of an instance are always under one key.
THEOREM SecretsUnderOneKey == PluginsSpec => []KeysAgree
<1>1. KeyInv => KeysAgree
  BY DEF KeyInv, OneKey, KeysAgree
<1>2. QED
  BY <1>1, PluginsInvariant, PTL

-----------------------------------------------------------------------------
\* Notification plugins: the dispatch.

\* While the loop runs, what it has not tried of the usable instances is still
\* before it; the webhook is called only after the loop, and only when nothing
\* was sent.
DispatchInv ==
    /\ alert.at = "sending" => alert.tried \subseteq alert.usable /\ alert.usable \subseteq alert.todo \cup alert.tried
    /\ alert.at \in {"fallback", "done"} => alert.tried = alert.usable
    /\ alert.at \in {"sending", "fallback"} => alert.webhook = FALSE
    /\ alert.at = "fallback" \/ alert.webhook => alert.sent = {}

\* Every step keeps DispatchInv.
LEMMA DispatchStep ==
    ASSUME PluginsTypeOK, DispatchInv, [PluginsNext]_pluginsVars
    PROVE  DispatchInv'
<1>1. ASSUME UNCHANGED alert PROVE DispatchInv'
  BY <1>1 DEF DispatchInv
<1>2. ASSUME alert' = NoAlert PROVE DispatchInv'
  BY <1>2 DEF DispatchInv, NoAlert
<1>3. ASSUME NEW i \in Instance,
             \/ \E k \in Kinds : \E c \in Config(k) : CreateInstance(i, k, c)
             \/ \E h \in Slot, c \in Config(row[i].kind), e \in BOOLEAN \cup {Absent} : PutSelect(h, i, c, e)
             \/ PutEnabled(i) \/ DeleteInstance(i)
      PROVE  DispatchInv'
  BY <1>1, <1>3 DEF CreateInstance, PutSelect, PutEnabled, DeleteInstance
<1>4. ASSUME NEW h \in Slot, PutUpdate(h) PROVE DispatchInv'
  BY <1>1, <1>4 DEF PutUpdate
<1>5. CASE DispatchNotifiers
  BY <1>5 DEF DispatchNotifiers, NoAlert, DispatchInv
<1>6. ASSUME NEW i \in Instance, NEW ok \in BOOLEAN, NotifyInstance(i, ok) PROVE DispatchInv'
  <2>1. PICK C \in SUBSET Instance, D \in SUBSET Instance :
          /\ alert' = [at |-> alert.at, usable |-> alert.usable, todo |-> alert.todo \ {i},
                       tried |-> C, sent |-> D, webhook |-> alert.webhook]
          /\ \/ i \in alert.usable /\ C = alert.tried \cup {i}
             \/ i \notin alert.usable /\ C = alert.tried
    BY <1>6, NotifyFacts
  <2>2. /\ alert'.at = "sending" /\ alert'.usable = alert.usable /\ alert'.todo = alert.todo \ {i}
        /\ alert'.tried = C /\ alert'.webhook = alert.webhook
    BY <1>6, <2>1, NotifyFacts
  <2>3. alert.at = "sending" /\ alert.webhook = FALSE
    BY <1>6, NotifyFacts DEF DispatchInv
  <2>4. alert.tried \subseteq alert.usable /\ alert.usable \subseteq alert.todo \cup alert.tried
    BY <2>3 DEF DispatchInv
  <2>5. C \subseteq alert.usable /\ alert.usable \subseteq (alert.todo \ {i}) \cup C
    BY <2>1, <2>4
  <2>6. QED
    BY <2>2, <2>3, <2>5 DEF DispatchInv
<1>7. CASE NotifyAll
  <2>1. /\ alert'.at = IF alert.sent = {} THEN "fallback" ELSE "done"
        /\ alert'.usable = alert.usable /\ alert'.tried = alert.tried /\ alert'.sent = alert.sent
        /\ alert'.webhook = alert.webhook /\ alert.at = "sending" /\ alert.todo = {}
    BY <1>7 DEF NotifyAll, PluginsTypeOK
  <2>2. alert.tried = alert.usable /\ alert.webhook = FALSE
    BY <2>1 DEF DispatchInv
  <2>3. QED
    BY <2>1, <2>2 DEF DispatchInv
<1>8. ASSUME NEW b \in BOOLEAN, NotifyWebhook(b) PROVE DispatchInv'
  <2>1. /\ alert'.at = "done" /\ alert'.usable = alert.usable /\ alert'.tried = alert.tried
        /\ alert'.sent = alert.sent /\ alert.at = "fallback"
    BY <1>8 DEF NotifyWebhook, PluginsTypeOK
  <2>2. QED
    BY <2>1 DEF DispatchInv
<1>9. CASE AlertDone
  BY <1>2, <1>9 DEF AlertDone
<1>10. ASSUME NEW k \in Key, Restart(k) PROVE DispatchInv'
  BY <1>2, <1>10 DEF Restart
<1>11. CASE UNCHANGED pluginsVars
  BY <1>1, <1>11 DEF pluginsVars
<1>12. QED
  BY <1>3, <1>4, <1>5, <1>6, <1>7, <1>8, <1>9, <1>10, <1>11 DEF PluginsNext

\* When a dispatch is over every usable instance was tried, whatever failed
\* before it, and the webhook was called only if none took the alert
\* (DispatchNotifiers, notifyAll).
THEOREM EveryInstanceTried == PluginsSpec => []DispatchComplete
<1>1. PluginsInit => DispatchInv
  BY DEF PluginsInit, DispatchInv, NoAlert
<1>2. DispatchInv => DispatchComplete
  BY DEF DispatchInv, DispatchComplete
<1>3. QED
  BY <1>1, <1>2, DispatchStep, PluginsInvariant, PTL DEF PluginsSpec

=============================================================================
