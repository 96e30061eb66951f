----------------------------- MODULE Alert_proofs -----------------------------
(***************************************************************************)
(* Proofs about the alerts, for any rules, levels, windows, evaluations at *)
(* once, escalation rows and servers: types, repeated notifications within *)
(* a window, and the escalations that a server records.                    *)
(***************************************************************************)
EXTENDS AlertEngine, AlertEscalation, TLAPS

\* The window in force is a number within the ages that are told apart.
LEMMA WindowFact ==
  ASSUME TypeOK, NEW k \in Key
  PROVE  WindowMinutes(k) \in 1 .. AgeCap
  <1>1. /\ suppression["host"][k] \in Window \cup {None}
        /\ suppression["global"][k] \in Window \cup {None}
    BY DEF TypeOK, Scope
  <1>2. \A w \in Window \cup {DefaultWindow} : w \in Nat /\ w <= AgeCap
    BY AlertAssumption
  <1>3. DefaultWindow > 0  BY AlertAssumption
  <1>4. PICK w \in Window \cup {DefaultWindow} :
           WindowMinutes(k) = IF w > 0 THEN w ELSE DefaultWindow
    BY <1>1 DEF WindowMinutes
  <1>5. QED  BY <1>2, <1>3, <1>4, AlertAssumption

\* The key of what an evaluation is about to send.
KeyOf(e) == <<sending[e].rule.metric, sending[e].rule.level>>

LEMMA KeyFact ==
  ASSUME TypeOK, NEW e \in Evaluator, sending[e] # None
  PROVE  KeyOf(e) \in Key /\ sending[e].window \in Nat
  BY AlertAssumption DEF TypeOK, Sending, KeyOf, Key

\* The table holds an alert of metric and level k and age i.
Seen(k, i) == \E a \in alerts : <<a.metric, a.level>> = k /\ a.age = i

\* The row inserted for an alert.
LEMMA InsertFact ==
  ASSUME TypeOK, NEW k \in Key, InsertEvent("alert", k)
  PROVE  /\ alerts \subseteq alerts' /\ alerts' \subseteq Alert
         /\ Seen(k, 0)'
         /\ \A j \in Key, i \in Ages : Seen(j, i)' => Seen(j, i) \/ (j = k /\ i = 0)
  <1> DEFINE a == [metric |-> k[1], level |-> k[2], age |-> 0]
  <1>1. a \in Alert /\ <<a.metric, a.level>> = k /\ a.age = 0
    BY AlertAssumption DEF Alert, Key, Ages
  <1>2. alerts' = alerts \cup {a}  BY DEF InsertEvent
  <1>3. alerts \subseteq Alert  BY DEF TypeOK
  <1> HIDE DEF a
  <1>4. QED  BY <1>1, <1>2, <1>3 DEF Seen

\* Ages stay in range.
LEMMA AgedFact ==
  ASSUME NEW a \in Alert
  PROVE  /\ Aged(a) \in Alert
         /\ Aged(a).metric = a.metric /\ Aged(a).level = a.level
         /\ Aged(a).age = Older(a.age)
  <1>1. Older(a.age) \in Ages  BY AlertAssumption DEF Alert, Ages, Older
  <1>2. QED  BY <1>1 DEF Aged, Alert

\* What SendAlert does to the table and to the history.
LEMMA SendFact ==
  ASSUME TypeOK, NEW e \in Evaluator, NEW d \in BOOLEAN, SendAlert(e, d)
  PROVE  /\ KeyOf(e) \in Key /\ InsertEvent("alert", KeyOf(e))
         /\ \/ UNCHANGED <<quiet, notified>>
            \/ /\ quiet' = [quiet EXCEPT ![KeyOf(e)] = 0]
               /\ notified' = [notified EXCEPT ![KeyOf(e)] = @ \cup {e}]
         /\ sending' = [sending EXCEPT ![e] = None]
         /\ UNCHANGED <<value, config, todo, due, changes>>
  <1>1. KeyOf(e) \in Key  BY KeyFact DEF SendAlert
  <1>2. QED  BY <1>1 DEF SendAlert, KeyOf, CreateSilencedAlert, notifyAll, sent

-----------------------------------------------------------------------------

\* Every step keeps the types.
LEMMA TypeStep == TypeOK /\ [Next]_vars => TypeOK'
  <1> SUFFICES ASSUME TypeOK, [Next]_vars PROVE TypeOK'
    OBVIOUS
  <1> USE AlertAssumption
  <1>1. ASSUME NEW e \in Evaluator, EvaluateSample(e) PROVE TypeOK'
    BY <1>1 DEF EvaluateSample, TypeOK, config, sent
  <1>2. ASSUME NEW e \in Evaluator, NEW r \in Rule, CheckRule(e, r) PROVE TypeOK'
    <2> DEFINE k == <<r.metric, r.level>>
    <2>1. k \in Key  BY DEF Key
    <2>2. alerts' = alerts
      BY <1>2 DEF CheckRule, CreateSuppressedAlert, InsertEvent
    <2>3. sending' \in [Evaluator -> Sending \cup {None}]
      <3>1. WindowMinutes(k) \in Nat  BY <2>1, WindowFact
      <3>2. [rule |-> r, window |-> WindowMinutes(k)] \in Sending
        BY <3>1 DEF Sending
      <3>3. \/ sending' = sending
            \/ sending' = [sending EXCEPT ![e] = [rule |-> r, window |-> WindowMinutes(k)]]
        BY <1>2 DEF CheckRule
      <3>4. QED  BY <3>2, <3>3 DEF TypeOK
    <2>4. todo' \in [Evaluator -> SUBSET Rule]  BY <1>2 DEF CheckRule, TypeOK
    <2>5. UNCHANGED <<value, config, due, sent, changes>>
      BY <1>2 DEF CheckRule
    <2>6. QED  BY <2>2, <2>3, <2>4, <2>5 DEF TypeOK, config, sent
  <1>3. ASSUME NEW e \in Evaluator, NEW d \in BOOLEAN, SendAlert(e, d) PROVE TypeOK'
    <2>1. PICK k \in Key : k = KeyOf(e)  BY <1>3, SendFact
    <2>2. alerts' \subseteq Alert  BY <1>3, <2>1, SendFact, InsertFact
    <2>3. quiet' \in [Key -> Ages] /\ notified' \in [Key -> SUBSET Evaluator]
      <3>1. quiet \in [Key -> Ages] /\ notified \in [Key -> SUBSET Evaluator] /\ 0 \in Ages
        BY DEF TypeOK, Ages
      <3>2. \/ UNCHANGED <<quiet, notified>>
            \/ /\ quiet' = [quiet EXCEPT ![k] = 0]
               /\ notified' = [notified EXCEPT ![k] = @ \cup {e}]
        BY <1>3, <2>1, SendFact
      <3>3. QED  BY <3>1, <3>2
    <2>4. sending' \in [Evaluator -> Sending \cup {None}]  BY <1>3 DEF SendAlert, TypeOK
    <2>5. UNCHANGED <<value, config, todo, due, changes>>  BY <1>3 DEF SendAlert
    <2>6. QED  BY <2>2, <2>3, <2>4, <2>5 DEF TypeOK, config
  <1>4. ASSUME NEW q \in Rule, NEW r \in Rule, SaveRule(q, r) \/ DropRule(r) PROVE TypeOK'
    BY <1>4 DEF SaveRule, DropRule, AdminRequest, TypeOK, evaluation, sent
  <1>5. ASSUME NEW s \in Scope, NEW k \in Key, NEW w \in Window \cup {None}, SaveSuppression(s, k, w)
        PROVE  TypeOK'
    BY <1>5 DEF SaveSuppression, AdminRequest, TypeOK, evaluation, sent
  <1>6. ASSUME NEW l \in Level \cup {"all"}, NEW d \in 0 .. MaxSilence, SaveSilence(l, d)
        PROVE  TypeOK'
    BY <1>6 DEF SaveSilence, AdminRequest, TypeOK, evaluation, sent
  <1>7. ASSUME NEW m \in Metric, NEW v \in Value, Measure(m, v) PROVE TypeOK'
    BY <1>7 DEF Measure, TypeOK, config, evaluation, sent
  <1>8. CASE Tick
    <2>1. alerts' \subseteq Alert  BY <1>8, AgedFact DEF Tick, TypeOK
    <2>2. quiet' \in [Key -> Ages]
      <3>1. \A i \in Ages : Older(i) \in Ages  BY DEF Ages, Older
      <3>2. quiet \in [Key -> Ages]  BY DEF TypeOK
      <3>3. QED  BY <1>8, <3>1, <3>2 DEF Tick
    <2>3. silence' \in [Level \cup {"all"} -> 0 .. MaxSilence]
      BY <1>8 DEF Tick, TypeOK
    <2>4. notified' \in [Key -> SUBSET Evaluator]  BY <1>8 DEF Tick
    <2>5. QED  BY <1>8, <2>1, <2>2, <2>3, <2>4 DEF Tick, TypeOK, evaluation
  <1>9. CASE UNCHANGED vars
    BY <1>9 DEF vars, TypeOK, config, evaluation, sent
  <1>10. QED
    BY <1>1, <1>2, <1>3, <1>4, <1>5, <1>6, <1>7, <1>8, <1>9 DEF Next, Evaluate

\* Type correctness of the evaluation.
THEOREM TypeCorrect == Spec => []TypeOK
  <1>1. Init => TypeOK
    BY AlertAssumption DEF Init, TypeOK, Ages
  <1>2. QED  BY <1>1, TypeStep, PTL DEF Spec

-----------------------------------------------------------------------------
\* What limits repeated notifications: the last one of a metric and level is in
\* the table as long as a window may ask for it; those of this tick are the ones
\* on record as such; and an evaluation about to send has seen everything in its
\* window but for what was inserted since, and has itself sent nothing of that
\* key in this tick.
WindowInv ==
    /\ \A k \in Key : quiet[k] < AgeCap => Seen(k, quiet[k])
    /\ \A k \in Key : quiet[k] = 0 <=> notified[k] # {}
    /\ \A e \in Evaluator : sending[e] # None =>
          /\ sending[e].window <= AgeCap
          /\ \A i \in Ages : Seen(KeyOf(e), i) => i >= sending[e].window \/ i = 0
          /\ e \notin notified[KeyOf(e)]

\* A step that leaves the table and the history as they are, and starts no
\* sending, keeps it.
LEMMA WindowKept ==
  ASSUME WindowInv, UNCHANGED <<alerts, quiet, notified>>, UNCHANGED sending
  PROVE  WindowInv'
  BY DEF WindowInv, Seen, KeyOf

\* Every step keeps the invariant, however many evaluations are under way.
LEMMA WindowStep ==
  ASSUME TypeOK, WindowInv, [Next]_vars
  PROVE  WindowInv'
  <1> USE AlertAssumption
  <1>0. AgeCap > 0  BY AlertAssumption
  <1>1. ASSUME NEW e \in Evaluator, EvaluateSample(e) PROVE WindowInv'
    BY <1>1, WindowKept DEF EvaluateSample, sent
  <1>2. ASSUME NEW e \in Evaluator, NEW r \in Rule, CheckRule(e, r) PROVE WindowInv'
    <2> DEFINE k == <<r.metric, r.level>>
    <2>1. UNCHANGED <<alerts, quiet, notified>>
      BY <1>2 DEF CheckRule, CreateSuppressedAlert, InsertEvent, sent
    <2>2. CASE sending' = sending  BY <2>1, <2>2, WindowKept
    <2>3. CASE /\ sending' = [sending EXCEPT ![e] = [rule |-> r, window |-> WindowMinutes(k)]]
               /\ ~ IsAlertSuppressed(k, WindowMinutes(k))
      <3>1. k \in Key  BY DEF Key
      <3>2. WindowMinutes(k) \in 1 .. AgeCap  BY <3>1, WindowFact
      <3>3. sending'[e].window = WindowMinutes(k) /\ KeyOf(e)' = k
        BY <2>3 DEF TypeOK, KeyOf
      <3>4. \A i \in Ages : Seen(k, i) => i >= WindowMinutes(k)
        BY <2>3, <3>2 DEF Seen, IsAlertSuppressed, Ages
      <3>5. notified[k] = {}
        <4>1. ~ Seen(k, 0)  BY <3>2, <3>4 DEF Ages
        <4>2. quiet[k] # 0  BY <1>0, <3>1, <4>1 DEF WindowInv
        <4>3. QED  BY <3>1, <4>2 DEF WindowInv
      <3>6. \A j \in Key : /\ quiet'[j] < AgeCap => Seen(j, quiet[j])'
                           /\ quiet'[j] = 0 <=> notified'[j] # {}
        BY <2>1 DEF WindowInv, Seen
      <3>7. ASSUME NEW d \in Evaluator, sending'[d] # None
            PROVE  /\ sending'[d].window <= AgeCap
                   /\ \A i \in Ages : Seen(KeyOf(d), i)' => i >= sending'[d].window \/ i = 0
                   /\ d \notin notified'[KeyOf(d)']
        <4>1. CASE d = e
          <5>1. \A i \in Ages : Seen(KeyOf(d), i)' => Seen(k, i)
            BY <2>1, <3>3, <4>1 DEF Seen
          <5>2. QED  BY <2>1, <3>2, <3>3, <3>4, <3>5, <4>1, <5>1
        <4>2. CASE d # e
          <5>1. sending'[d] = sending[d]  BY <2>3, <4>2 DEF TypeOK
          <5>2. QED  BY <2>1, <3>7, <5>1 DEF WindowInv, Seen, KeyOf
        <4>3. QED  BY <4>1, <4>2
      <3>8. QED  BY <3>6, <3>7 DEF WindowInv
    <2>4. QED  BY <1>2, <2>2, <2>3 DEF CheckRule
  <1>3. ASSUME NEW e \in Evaluator, NEW d \in BOOLEAN, SendAlert(e, d) PROVE WindowInv'
    <2>1. PICK k \in Key : k = KeyOf(e) /\ InsertEvent("alert", k)  BY <1>3, SendFact
    <2>2. /\ alerts \subseteq alerts' /\ Seen(k, 0)'
          /\ \A j \in Key, i \in Ages : Seen(j, i)' => Seen(j, i) \/ (j = k /\ i = 0)
      BY <2>1, InsertFact
    <2>3. \/ UNCHANGED <<quiet, notified>>
          \/ /\ quiet' = [quiet EXCEPT ![k] = 0]
             /\ notified' = [notified EXCEPT ![k] = @ \cup {e}]
      BY <1>3, <2>1, SendFact
    <2>4. /\ quiet \in [Key -> Ages] /\ notified \in [Key -> SUBSET Evaluator]
          /\ sending'[e] = None
          /\ \A c \in Evaluator : c # e => sending'[c] = sending[c]
      BY <1>3 DEF SendAlert, TypeOK
    <2>5. ASSUME NEW j \in Key
          PROVE  /\ quiet'[j] < AgeCap => Seen(j, quiet[j])'
                 /\ quiet'[j] = 0 <=> notified'[j] # {}
      <3>1. CASE quiet'[j] = quiet[j] /\ notified'[j] = notified[j]
        BY <2>2, <3>1 DEF WindowInv, Seen
      <3>2. CASE j = k /\ quiet'[j] = 0 /\ e \in notified'[j]
        BY <2>2, <3>2 DEF Seen
      <3>3. QED  BY <2>3, <2>4, <3>1, <3>2
    <2>6. ASSUME NEW c \in Evaluator, sending'[c] # None
          PROVE  /\ sending'[c].window <= AgeCap
                 /\ \A i \in Ages : Seen(KeyOf(c), i)' => i >= sending'[c].window \/ i = 0
                 /\ c \notin notified'[KeyOf(c)']
      <3>1. c # e /\ sending'[c] = sending[c] /\ KeyOf(c)' = KeyOf(c)
        BY <2>4, <2>6 DEF KeyOf
      <3>2. PICK j \in Key : j = KeyOf(c)  BY <2>6, <3>1, KeyFact
      <3>3. /\ sending[c].window <= AgeCap /\ c \notin notified[j]
            /\ \A i \in Ages : Seen(j, i) => i >= sending[c].window \/ i = 0
        BY <2>6, <3>1, <3>2 DEF WindowInv
      <3>4. c \notin notified'[j]  BY <2>3, <2>4, <3>1, <3>3
      <3>5. \A i \in Ages : Seen(j, i)' => i >= sending[c].window \/ i = 0
        BY <2>2, <3>3
      <3>6. \A i \in Ages : Seen(KeyOf(c), i)' => Seen(j, i)'
        BY <3>1, <3>2 DEF Seen
      <3>7. QED  BY <3>1, <3>2, <3>3, <3>4, <3>5, <3>6
    <2>7. QED  BY <2>5, <2>6 DEF WindowInv
  <1>4. CASE AdminRequest
    BY <1>4, WindowKept DEF AdminRequest, evaluation, sent
  <1>5. ASSUME NEW m \in Metric, NEW v \in Value, Measure(m, v) PROVE WindowInv'
    BY <1>5, WindowKept DEF Measure, evaluation, sent
  <1>6. CASE Tick
    <2>1. \A e \in Evaluator : sending'[e] = None  BY <1>6 DEF Tick, evaluation
    <2>2. ASSUME NEW k \in Key
          PROVE  /\ quiet'[k] < AgeCap => Seen(k, quiet[k])'
                 /\ quiet'[k] = 0 <=> notified'[k] # {}
      <3>1. /\ quiet[k] \in Ages /\ quiet'[k] = Older(quiet[k]) /\ notified'[k] = {}
        BY <1>6 DEF Tick, TypeOK
      <3>2. quiet'[k] # 0  BY <1>0, <3>1 DEF Older, Ages
      <3>3. ASSUME quiet'[k] < AgeCap PROVE Seen(k, quiet[k])'
        <4>1. quiet[k] < AgeCap  BY <3>1, <3>3 DEF Older, Ages
        <4>2. PICK a \in alerts : <<a.metric, a.level>> = k /\ a.age = quiet[k]
          BY <4>1 DEF WindowInv, Seen
        <4>3. /\ Aged(a).metric = a.metric /\ Aged(a).level = a.level
              /\ Aged(a).age = quiet'[k]
          BY <3>1, <4>2, AgedFact DEF TypeOK
        <4>4. Aged(a) \in alerts'  BY <1>6, <3>3, <4>2, <4>3 DEF Tick
        <4>5. QED  BY <4>2, <4>3, <4>4 DEF Seen
      <3>4. QED  BY <3>1, <3>2, <3>3
    <2>3. QED  BY <2>1, <2>2 DEF WindowInv
  <1>7. CASE UNCHANGED vars
    BY <1>7, WindowKept DEF vars, evaluation, sent
  <1>8. QED
    BY <1>1, <1>2, <1>3, <1>4, <1>5, <1>6, <1>7
    DEF Next, Evaluate, SaveRule, DropRule, SaveSuppression, SaveSilence

\* However many evaluations of the host are under way, a metric and level are
\* notified again within the window only by those that were under way together,
\* and by each of them once.
THEOREM RepeatsLimited == Spec => RepeatsOnlyTogether
  <1>1. Init => WindowInv
    <2> SUFFICES ASSUME Init PROVE WindowInv  OBVIOUS
    <2>1. AgeCap \in Nat \ {0}
      <3>1. DefaultWindow \in Nat \ {0} /\ DefaultWindow <= AgeCap /\ AgeCap \in Nat
        BY AlertAssumption
      <3>2. QED  BY <3>1
    <2>2. \A k \in Key : quiet[k] = AgeCap /\ notified[k] = {}  BY DEF Init
    <2>3. \A e \in Evaluator : sending[e] = None  BY DEF Init
    <2>4. QED  BY <2>1, <2>2, <2>3 DEF WindowInv
  <1>2. TypeOK /\ WindowInv /\ [Next]_vars => WindowInv'
    BY WindowStep
  <1>3. TypeOK /\ WindowInv /\ [Next]_vars =>
          [\A e \in Evaluator :
              LET k == <<sending[e].rule.metric, sending[e].rule.level>>
              IN  SendAlert(e, TRUE) /\ ~ IsAlertSilenced(k[2])
                     => \/ quiet[k] >= sending[e].window
                        \/ quiet[k] = 0 /\ e \notin notified[k]
          ]_vars
    <2> SUFFICES ASSUME TypeOK, WindowInv, NEW e \in Evaluator, sending[e] # None
                 PROVE  \/ quiet[KeyOf(e)] >= sending[e].window
                        \/ quiet[KeyOf(e)] = 0 /\ e \notin notified[KeyOf(e)]
      BY DEF SendAlert, KeyOf
    <2>1. KeyOf(e) \in Key /\ sending[e].window \in Nat  BY KeyFact
    <2>2. quiet[KeyOf(e)] \in Ages  BY <2>1 DEF TypeOK
    <2>3. CASE quiet[KeyOf(e)] < AgeCap
      BY <2>1, <2>2, <2>3 DEF WindowInv
    <2>4. CASE quiet[KeyOf(e)] = AgeCap
      BY <2>1, <2>4, AlertAssumption DEF WindowInv
    <2>5. QED  BY <2>2, <2>3, <2>4, AlertAssumption DEF Ages
  <1>4. QED  BY <1>1, <1>2, <1>3, TypeCorrect, PTL DEF Spec, RepeatsOnlyTogether

-----------------------------------------------------------------------------
\* Escalation.

LEMMA UnacknowledgedType ==
  ASSUME EscTypeOK, NEW n \in Server
  PROVE  Unacknowledged(n) \in [Id -> SUBSET Server]
  <1>1. by \in [Id -> SUBSET Server]  BY DEF EscTypeOK
  <1>2. CASE event[n] \in Id  BY <1>1, <1>2 DEF Unacknowledged
  <1>3. CASE event[n] \notin Id  BY <1>1, <1>3 DEF Unacknowledged
  <1>4. QED  BY <1>2, <1>3

LEMMA EscTypeStep == EscTypeOK /\ [EscNext]_escVars => EscTypeOK'
  <1> SUFFICES ASSUME EscTypeOK, [EscNext]_escVars PROVE EscTypeOK'  OBVIOUS
  <1>0. OldAge \in Nat /\ MaxFault \in Nat /\ MaxChange \in Nat  BY EscalationAssumption
  <1>1. ASSUME NEW n \in Server, CheckEscalations(n) PROVE EscTypeOK'
    BY <1>1 DEF CheckEscalations, EscTypeOK, table, history
  <1>2. ASSUME NEW n \in Server, NEW x \in Row, SelectEvents(n, x) PROVE EscTypeOK'
    <2>1. Oldest({i \in open : level[i] = x.level /\ age[i] > x.after}) \subseteq Id
      BY DEF Oldest, EscTypeOK
    <2>2. QED  BY <1>2, <2>1 DEF SelectEvents, EscTypeOK, table, history
  <1>3. ASSUME NEW n \in Server, NEW i \in Id, Skip(n, i) PROVE EscTypeOK'
    BY <1>3 DEF Skip, EscTypeOK, table, history
  <1>4. ASSUME NEW n \in Server, NEW i \in Id, NEW ok \in BOOLEAN, RecordEscalation(n, i, ok)
        PROVE  EscTypeOK'
    BY <1>0, <1>4 DEF RecordEscalation, Fault, EscTypeOK, table
  <1>5. ASSUME NEW n \in Server, NEW ok \in BOOLEAN, AcknowledgeEscalated(n, ok)
        PROVE  EscTypeOK'
    BY <1>0, <1>5, UnacknowledgedType DEF AcknowledgeEscalated, Fault, EscTypeOK
  <1>6. ASSUME NEW n \in Server, NotifyReturns(n) PROVE EscTypeOK'
    BY <1>6 DEF NotifyReturns, EscTypeOK, table, history
  <1>7. ASSUME NEW n \in Server, Kill(n) PROVE EscTypeOK'
    BY <1>0, <1>7, UnacknowledgedType DEF Kill, Fault, EscTypeOK, table
  <1>8. ASSUME NEW i \in Id, NEW l \in TriggerLevel, NewAlert(i, l) PROVE EscTypeOK'
    BY <1>0, <1>8 DEF NewAlert, EscTypeOK, round
  <1>9. ASSUME NEW i \in Id, Acknowledge(i) PROVE EscTypeOK'
    BY <1>9 DEF Acknowledge, EscTypeOK, round, history
  <1>10. ASSUME NEW x \in Row, NEW on \in BOOLEAN, SaveEscalation(x, on) PROVE EscTypeOK'
    BY <1>0, <1>10 DEF SaveEscalation, EscTypeOK, table, round, history
  <1>11. CASE Period
    BY <1>0, <1>11 DEF Period, EscTypeOK, round, history
  <1>12. CASE UNCHANGED escVars
    BY <1>12 DEF escVars, EscTypeOK, table, round, history
  <1>13. QED
    BY <1>1, <1>2, <1>3, <1>4, <1>5, <1>6, <1>7, <1>8, <1>9, <1>10, <1>11, <1>12
    DEF EscNext, CheckStep

\* The checker of every server and the table keep their types.
THEOREM EscTypeCorrect == EscSpec => []EscTypeOK
  <1>1. EscInit => EscTypeOK
    BY EscalationAssumption DEF EscInit, EscTypeOK
  <1>2. QED  BY <1>1, EscTypeStep, PTL DEF EscSpec

\* A server is at an alert exactly while it escalates it.  An alert that it has
\* escalated is in its batch no more, and still open only until it has been
\* acknowledged, which comes after the record.
EscInv ==
    /\ \A n \in Server : at[n] = "next" <=> event[n] = Nil
    /\ \A n \in Server, i \in Id : n \in by[i] =>
          /\ i \notin batch[n]
          /\ i \in open => event[n] = i /\ at[n] = "acknowledge"
    /\ \A n \in Server : at[n] = "acknowledge" =>
          recorded[event[n]] > 0 \/ event[n] \in missed

\* A step that moves no checker and only closes alerts keeps it.
LEMMA EscKept ==
  ASSUME EscInv, UNCHANGED round, UNCHANGED history, open' \subseteq open
  PROVE  EscInv'
  BY DEF EscInv, round, history

LEMMA EscStep == EscTypeOK /\ EscInv /\ [EscNext]_escVars => EscInv'
  <1> SUFFICES ASSUME EscTypeOK, EscInv, [EscNext]_escVars PROVE EscInv'  OBVIOUS
  <1>0. Nil \notin Id  BY EscalationAssumption
  <1>1. ASSUME NEW n \in Server, CheckEscalations(n) PROVE EscInv'
    BY <1>1 DEF CheckEscalations, EscInv, table, history
  <1>2. ASSUME NEW n \in Server, NEW x \in Row, SelectEvents(n, x) PROVE EscInv'
    <2>1. batch'[n] \subseteq open /\ \A m \in Server \ {n} : batch'[m] = batch[m]
      BY <1>2 DEF SelectEvents, Oldest, EscTypeOK
    <2>2. \A i \in Id : i \in open => n \notin by[i]
      BY <1>0, <1>2 DEF SelectEvents, EscInv
    <2>3. QED  BY <1>2, <2>1, <2>2 DEF SelectEvents, EscInv, table, history
  <1>3. ASSUME NEW n \in Server, NEW i \in Id, Skip(n, i) PROVE EscInv'
    BY <1>3 DEF Skip, EscInv, EscTypeOK, table, history
  <1>4. ASSUME NEW n \in Server, NEW i \in Id, NEW ok \in BOOLEAN, RecordEscalation(n, i, ok)
        PROVE  EscInv'
    <2>1. /\ event'[n] = i /\ at'[n] = "acknowledge" /\ i \notin batch'[n]
          /\ batch'[n] \subseteq batch[n] /\ open' = open
          /\ \A m \in Server \ {n} : /\ event'[m] = event[m] /\ at'[m] = at[m]
                                     /\ batch'[m] = batch[m]
      BY <1>4 DEF RecordEscalation, EscTypeOK, table
    <2>2. /\ by'[i] = by[i] \cup {n}
          /\ \A j \in Id \ {i} : by'[j] = by[j]
      BY <1>4 DEF RecordEscalation, EscTypeOK
    <2>3. event[n] = Nil  BY <1>4 DEF RecordEscalation, Turn
    <2>4. /\ recorded'[i] > 0 \/ i \in missed'
          /\ \A j \in Id : recorded[j] > 0 \/ j \in missed => recorded'[j] > 0 \/ j \in missed'
      BY <1>4 DEF RecordEscalation, EscTypeOK
    <2>5. \A m \in Server : at'[m] = "next" <=> event'[m] = Nil
      BY <1>0, <2>1 DEF EscInv
    <2>6. ASSUME NEW m \in Server, NEW j \in Id, m \in by'[j]
          PROVE  /\ j \notin batch'[m]
                 /\ j \in open' => event'[m] = j /\ at'[m] = "acknowledge"
      <3>1. CASE m = n /\ j = i  BY <2>1, <3>1
      <3>2. CASE m = n /\ j # i  BY <1>0, <2>1, <2>2, <2>3, <2>6, <3>2 DEF EscInv
      <3>3. CASE m # n  BY <2>1, <2>2, <2>6, <3>3 DEF EscInv
      <3>4. QED  BY <3>1, <3>2, <3>3
    <2>7. ASSUME NEW m \in Server, at'[m] = "acknowledge"
          PROVE  recorded'[event'[m]] > 0 \/ event'[m] \in missed'
      <3>1. CASE m = n  BY <2>1, <2>4, <3>1
      <3>2. CASE m # n
        <4>1. event'[m] = event[m] /\ at[m] = "acknowledge"  BY <2>1, <2>7, <3>2
        <4>2. event[m] \in Id  BY <4>1 DEF EscInv, EscTypeOK
        <4>3. QED  BY <2>4, <4>1, <4>2 DEF EscInv
      <3>3. QED  BY <3>1, <3>2
    <2>8. QED  BY <2>5, <2>6, <2>7 DEF EscInv
  <1>5. ASSUME NEW n \in Server, NEW ok \in BOOLEAN, AcknowledgeEscalated(n, ok)
        PROVE  EscInv'
    <2>1. event[n] \in Id  BY <1>5 DEF AcknowledgeEscalated, EscInv, EscTypeOK
    <2>2. /\ at[n] = "acknowledge" /\ at'[n] = "notify"
          /\ \A m \in Server \ {n} : at'[m] = at[m]
          /\ event' = event /\ batch' = batch /\ recorded' = recorded /\ missed' = missed
          /\ open' \subseteq open
      BY <1>5 DEF AcknowledgeEscalated, EscTypeOK
    <2>3. /\ \A i \in Id : by'[i] \subseteq by[i]
          /\ event[n] \in open' => n \notin by'[event[n]]
      BY <1>5, <2>1 DEF AcknowledgeEscalated, Unacknowledged, EscTypeOK
    <2>4. ASSUME NEW m \in Server, NEW i \in Id, m \in by'[i]
          PROVE  /\ i \notin batch'[m]
                 /\ i \in open' => event'[m] = i /\ at'[m] = "acknowledge"
      BY <2>2, <2>3, <2>4 DEF EscInv
    <2>5. \A m \in Server : at'[m] = "next" <=> event'[m] = Nil
      BY <2>2 DEF EscInv
    <2>6. \A m \in Server : at'[m] = "acknowledge" =>
             recorded'[event'[m]] > 0 \/ event'[m] \in missed'
      BY <2>2 DEF EscInv
    <2>7. QED  BY <2>4, <2>5, <2>6 DEF EscInv
  <1>6. ASSUME NEW n \in Server, NotifyReturns(n) PROVE EscInv'
    BY <1>6 DEF NotifyReturns, EscInv, EscTypeOK, table, history
  <1>7. ASSUME NEW n \in Server, Kill(n) PROVE EscInv'
    <2>1. /\ at'[n] = "next" /\ event'[n] = Nil /\ batch'[n] = {}
          /\ \A m \in Server \ {n} : /\ event'[m] = event[m] /\ at'[m] = at[m]
                                     /\ batch'[m] = batch[m]
          /\ open' = open /\ recorded' = recorded /\ missed' = missed
      BY <1>7 DEF Kill, EscTypeOK, table
    <2>2. \A i \in Id : by'[i] \subseteq by[i]
      BY <1>7 DEF Kill, Unacknowledged, EscTypeOK
    <2>3. \A i \in Id : i \in open => n \notin by'[i]
      <3>1. CASE at[n] = "acknowledge"
        BY <1>7, <3>1 DEF Kill, Unacknowledged, EscTypeOK, EscInv
      <3>2. CASE at[n] # "acknowledge"
        BY <2>2, <3>2 DEF EscInv
      <3>3. QED  BY <3>1, <3>2
    <2>4. ASSUME NEW m \in Server, NEW i \in Id, m \in by'[i]
          PROVE  /\ i \notin batch'[m]
                 /\ i \in open' => event'[m] = i /\ at'[m] = "acknowledge"
      BY <2>1, <2>2, <2>3, <2>4 DEF EscInv
    <2>5. \A m \in Server : at'[m] = "next" <=> event'[m] = Nil
      BY <2>1 DEF EscInv
    <2>6. \A m \in Server : at'[m] = "acknowledge" =>
             recorded'[event'[m]] > 0 \/ event'[m] \in missed'
      BY <2>1 DEF EscInv
    <2>7. QED  BY <2>4, <2>5, <2>6 DEF EscInv
  <1>8. ASSUME NEW i \in Id, NEW l \in TriggerLevel, NewAlert(i, l) PROVE EscInv'
    <2>1. /\ UNCHANGED <<event, at, batch>> /\ open' = open \cup {i}
          /\ by'[i] = {} /\ \A j \in Id \ {i} : by'[j] = by[j]
          /\ \A j \in Id \ {i} : recorded'[j] = recorded[j] /\ (j \in missed => j \in missed')
          /\ \A n \in Server : event[n] # i
      BY <1>8 DEF NewAlert, Free, EscTypeOK, round
    <2>2. ASSUME NEW m \in Server, NEW j \in Id, m \in by'[j]
          PROVE  /\ j \notin batch'[m]
                 /\ j \in open' => event'[m] = j /\ at'[m] = "acknowledge"
      BY <2>1, <2>2 DEF EscInv
    <2>3. ASSUME NEW m \in Server, at'[m] = "acknowledge"
          PROVE  recorded'[event'[m]] > 0 \/ event'[m] \in missed'
      <3>1. event[m] \in Id \ {i} /\ at[m] = "acknowledge"
        BY <2>1, <2>3 DEF EscInv, EscTypeOK
      <3>2. QED  BY <2>1, <3>1 DEF EscInv
    <2>4. \A m \in Server : at'[m] = "next" <=> event'[m] = Nil
      BY <2>1 DEF EscInv
    <2>5. QED  BY <2>2, <2>3, <2>4 DEF EscInv
  <1>9. ASSUME NEW i \in Id, Acknowledge(i) PROVE EscInv'
    BY <1>9, EscKept DEF Acknowledge
  <1>10. ASSUME NEW x \in Row, NEW on \in BOOLEAN, SaveEscalation(x, on) PROVE EscInv'
    BY <1>10, EscKept DEF SaveEscalation, table
  <1>11. CASE Period
    BY <1>11, EscKept DEF Period
  <1>12. CASE UNCHANGED escVars
    BY <1>12, EscKept DEF escVars, table
  <1>13. QED
    BY <1>1, <1>2, <1>3, <1>4, <1>5, <1>6, <1>7, <1>8, <1>9, <1>10, <1>11, <1>12
    DEF EscNext, CheckStep

THEOREM EscInvariant == EscSpec => []EscInv
  <1>1. EscInit => EscInv
    BY DEF EscInit, EscInv
  <1>2. QED  BY <1>1, EscStep, EscTypeCorrect, PTL DEF EscSpec

\* However many servers run the checker, none escalates an alert a second time
\* unless its first acknowledgement was lost.
THEOREM EscalatedOncePerServer == EscSpec => OncePerServer
  <1>1. EscInv => [\A n \in Server, i \in Id, ok \in BOOLEAN :
                      RecordEscalation(n, i, ok) => n \notin by[i]]_escVars
    BY DEF EscInv, RecordEscalation, Turn
  <1>2. QED  BY <1>1, EscInvariant, PTL DEF OncePerServer

\* No alert stops being open before its escalation has been recorded, but by an
\* administrator.
THEOREM NoAlertVanishes == EscSpec => NoneVanishes
  <1>1. EscInv /\ [EscNext]_escVars =>
          [\A i \in open \ open' : recorded[i] > 0 \/ i \in missed \/ Acknowledge(i)]_escVars
    <2> SUFFICES ASSUME EscInv, EscNext, NEW i \in open \ open'
                 PROVE  recorded[i] > 0 \/ i \in missed \/ Acknowledge(i)
      BY DEF EscInv
    <2>1. ASSUME NEW n \in Server, CheckStep(n) \/ NotifyReturns(n) \/ Kill(n)
          PROVE  recorded[i] > 0 \/ i \in missed
      <3>1. PICK ok \in BOOLEAN : AcknowledgeEscalated(n, ok)
        BY <2>1 DEF CheckStep, CheckEscalations, SelectEvents, Skip, RecordEscalation,
                    NotifyReturns, Kill, table
      <3>2. i = event[n] /\ at[n] = "acknowledge"  BY <3>1 DEF AcknowledgeEscalated
      <3>3. QED  BY <3>2 DEF EscInv
    <2>2. ASSUME NEW j \in Id, Acknowledge(j) PROVE Acknowledge(i)
      BY <2>2 DEF Acknowledge
    <2>3. QED
      BY <2>1, <2>2 DEF EscNext, NewAlert, SaveEscalation, Period, table
  <1>2. QED  BY <1>1, EscInvariant, PTL DEF EscSpec, NoneVanishes

=============================================================================
