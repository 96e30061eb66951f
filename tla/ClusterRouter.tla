---------------------------- MODULE ClusterRouter ----------------------------
(***************************************************************************)
(* The agent's view of the server cluster (agent/common/router.go): a      *)
(* round-robin pointer over the configured nodes and a circuit breaker per *)
(* node.  The router is a plain struct used by one goroutine, so each of   *)
(* its methods is one atomic action on these variables.  NewClusterRouter  *)
(* never yields an empty list (it falls back to localhost), so N >= 1.     *)
(* Durations are counted in ticks of the main loop's 30 second sleep.      *)
(***************************************************************************)
EXTENDS Integers

CONSTANTS
    N,       \* number of configured server URLs
    Window,  \* length of the circuit-breaker window, in ticks (60 s = 2 ticks)
    None     \* a node without an entry in the disabledUntil map

ASSUME RouterAssumption ==
    /\ N \in Nat \ {0}
    /\ Window \in Nat \ {0}
    /\ None \notin Int

Node == 0 .. N - 1

\* Consecutive failures that open the breaker.
FailLimit == 3

VARIABLES
    index,         \* position the next scan starts from
    failCount,     \* consecutive failures charged to each node
    disabledUntil  \* ticks left of the node's window (0: it has passed), or None

routerVars == <<index, failCount, disabledUntil>>

RouterTypeOK ==
    /\ index \in Node
    /\ failCount \in [Node -> 0 .. FailLimit]
    /\ disabledUntil \in [Node -> (0 .. Window) \cup {None}]

NewClusterRouter ==
    /\ index = 0
    /\ failCount = [n \in Node |-> 0]
    /\ disabledUntil = [n \in Node |-> None]

\* A restarted agent process builds a fresh router.
ResetRouter ==
    /\ index' = 0
    /\ failCount' = [n \in Node |-> 0]
    /\ disabledUntil' = [n \in Node |-> None]

-----------------------------------------------------------------------------

Successor(n) == (n + 1) % N

\* The node the scan looks at after k others.
Slot(k) == (index + k) % N

WindowPassed(n) == disabledUntil[n] = 0

Usable(n) == failCount[n] < FailLimit \/ WindowPassed(n)

\* The node the scan returns: the first usable one, or the first one scanned
\* when every breaker is open.
Scanned(n) ==
    \/ \E k \in Node : /\ n = Slot(k)
                       /\ Usable(n)
                       /\ \A j \in 0 .. k - 1 : ~ Usable(Slot(j))
    \/ n = index /\ \A m \in Node : ~ Usable(m)

\* Mutant: the pointer stays on the node it returned.
NextNodeSticky(n) ==
    /\ Scanned(n)
    /\ failCount' = [failCount EXCEPT ![n] =
                        IF @ >= FailLimit /\ WindowPassed(n) THEN 0 ELSE @]
    /\ UNCHANGED <<index, disabledUntil>>

NextNode(n) ==
    /\ Scanned(n)
    /\ failCount' = [failCount EXCEPT ![n] =
                        IF @ >= FailLimit /\ WindowPassed(n) THEN 0 ELSE @]
    /\ index' = Successor(n)
    /\ UNCHANGED disabledUntil

-----------------------------------------------------------------------------
\* Both record methods act on r.index, which NextNode has already moved past
\* the node the request went to.  failCount is only ever compared with
\* FailLimit and reset, so it saturates there.

RecordSuccess ==
    /\ failCount' = [failCount EXCEPT ![index] = 0]
    /\ UNCHANGED <<index, disabledUntil>>

RecordFailure ==
    LET f == IF failCount[index] < FailLimit THEN failCount[index] + 1 ELSE FailLimit
    IN  /\ failCount' = [failCount EXCEPT ![index] = f]
        /\ disabledUntil' = [disabledUntil EXCEPT ![index] =
                                IF f >= FailLimit THEN Window ELSE @]
        /\ UNCHANGED index

\* d ticks go by: time.Now() moves towards (and past) every deadline.
RouterTimePasses(d) ==
    /\ disabledUntil' =
          [n \in Node |-> IF disabledUntil[n] = None THEN None
                          ELSE IF disabledUntil[n] > d THEN disabledUntil[n] - d ELSE 0]
    /\ UNCHANGED <<index, failCount>>

-----------------------------------------------------------------------------

\* A node whose breaker is open always has a deadline in disabledUntil.  NextNode
\* retries such a node only through that entry, so one without it would be
\* skipped for the rest of the process's life.
BreakerHasDeadline ==
    \A n \in Node : failCount[n] >= FailLimit => disabledUntil[n] # None

=============================================================================
