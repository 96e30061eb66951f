----------------------------- MODULE AlertEngine -----------------------------
(***************************************************************************)
(* The alerts of one host: evaluation of its metric samples with           *)
(* suppression and silence (server/controllers/alert_engine.go), and the   *)
(* requests of administrators (alert_engine_api.go, alert_rules.go).       *)
(*                                                                         *)
(* A sample that a report or a channel brings in is evaluated by the       *)
(* handler that stores it, so several may be evaluated at once, and their  *)
(* statements interleave.  Time is counted in ticks, one sample of each    *)
(* source in each; only statements of the database lie between the count   *)
(* that decides about suppression and the insert, so no tick does.         *)
(*                                                                         *)
(* Of the host_events table the rows of type "alert" are kept, as far as   *)
(* evaluation reads them: metric, level and age up to AgeCap.  It does not *)
(* look at acknowledged, the only column that acknowledgement and          *)
(* escalation write (module AlertEscalation).                              *)
(***************************************************************************)
EXTENDS Integers, FiniteSets

CONSTANTS
    Evaluator,     \* samples of the host that may be evaluated at once
    Metric,        \* metrics of a sample
    Value,         \* values of a metric
    Level,         \* levels of rules and alerts
    Rule,          \* rows of alert_rules that may come to exist
    Window,        \* window_minutes of a suppression; 0 stands for all below 1
    DefaultWindow, \* windowMinutes without a suppression, in ticks
    MaxSilence,    \* longest silence, in ticks
    AgeCap,        \* ages are told apart up to this value
    MaxAdmin,      \* bound on the administrators' requests
    None

Key == Metric \X Level

ASSUME AlertAssumption ==
    /\ Value \subseteq Int
    /\ \A r \in Rule : /\ r.metric \in Metric /\ r.level \in Level
                       /\ r.operator \in {"gt", "gte", "lt", "lte"}
                       /\ r.threshold \in Int
    /\ Window \subseteq Nat /\ DefaultWindow \in Nat \ {0}
    /\ AgeCap \in Nat /\ MaxSilence \in Nat /\ MaxAdmin \in Nat
    /\ \A w \in Window \cup {DefaultWindow} : w <= AgeCap
    /\ None \notin Nat /\ None \notin Rule
    /\ "all" \notin Level

VARIABLES
    value,        \* value[m]: what the host measures
    rules,        \* enabled rows of alert_rules
    suppression,  \* suppression[s][k]: window of the enabled row for k, of this host or global
    silence,      \* silence[l]: ticks until the last silence of level l, or of all, ends
    alerts,       \* the alerts that are recent enough for some window
    todo,         \* todo[e]: matching rules that evaluation e has still to go through
    sending,      \* sending[e]: the rule that e found unsuppressed, with its window, or None
    due,          \* sources whose next sample has come in
    quiet,        \* history: ticks since the last delivered notification of k
    notified,     \* history: notified[k]: evaluations that have delivered one in this tick
    changes       \* number of administrators' requests

config == <<rules, suppression, silence>>
evaluation == <<todo, sending>>
sent == <<quiet, notified>>
vars == <<value, config, alerts, evaluation, due, sent, changes>>

Scope == {"host", "global"}
Ages == 0 .. AgeCap
Alert == [metric : Metric, level : Level, age : Ages]
Sending == [rule : Rule, window : Nat]

\* Every variable has its type.
TypeOK ==
    /\ value \in [Metric -> Value]
    /\ rules \subseteq Rule
    /\ suppression \in [Scope -> [Key -> Window \cup {None}]]
    /\ silence \in [Level \cup {"all"} -> 0 .. MaxSilence]
    /\ alerts \subseteq Alert
    /\ todo \in [Evaluator -> SUBSET Rule]
    /\ sending \in [Evaluator -> Sending \cup {None}]
    /\ due \subseteq Evaluator
    /\ quiet \in [Key -> Ages]
    /\ notified \in [Key -> SUBSET Evaluator]
    /\ changes \in 0 .. MaxAdmin

\* The tables are what earlier runs of the servers have left; no alert is recent.
Init ==
    /\ value \in [Metric -> Value]
    /\ rules \in SUBSET Rule
    /\ suppression \in [Scope -> [Key -> Window \cup {None}]]
    /\ silence \in [Level \cup {"all"} -> 0 .. MaxSilence]
    /\ alerts = {}
    /\ todo = [e \in Evaluator |-> {}]
    /\ sending = [e \in Evaluator |-> None]
    /\ due = Evaluator
    /\ quiet = [k \in Key |-> AgeCap]
    /\ notified = [k \in Key |-> {}]
    /\ changes = 0

-----------------------------------------------------------------------------
\* Evaluation of a sample.

matchOperator(op, v, threshold) ==
    \/ op = "gt" /\ v > threshold
    \/ op = "gte" /\ v >= threshold
    \/ op = "lt" /\ v < threshold
    \/ op = "lte" /\ v <= threshold

Matches(r) == matchOperator(r.operator, value[r.metric], r.threshold)

\* The row of the host goes before the global one (one row of each: First takes
\* the oldest), and a window below 1, which only PUT can store, is the default.
WindowMinutes(k) ==
    LET host == suppression["host"][k]
        global == suppression["global"][k]
        w == IF host # None THEN host ELSE IF global # None THEN global ELSE DefaultWindow
    IN  IF w > 0 THEN w ELSE DefaultWindow

\* Mutant: an alert of the oldest tick of the window no longer counts.
IsAlertSuppressedOffByOne(k, window) ==
    \E a \in alerts : <<a.metric, a.level>> = k /\ a.age + 1 < window

\* "message LIKE %metric%": any alert on the metric, whatever the threshold.
IsAlertSuppressed(k, window) ==
    \E a \in alerts : <<a.metric, a.level>> = k /\ a.age < window

\* Rows count when end_at lies ahead; start_at and the labels are not looked at.
IsAlertSilenced(l) == silence[l] > 0 \/ silence["all"] > 0

InsertEvent(type, k) ==
    alerts' = IF type = "alert"
              THEN alerts \cup {[metric |-> k[1], level |-> k[2], age |-> 0]}
              ELSE alerts

\* Mutant: the record of a suppressed alert counts as an alert.
CreateSuppressedAlertCounted(k) == InsertEvent("alert", k)

CreateSuppressedAlert(k) == InsertEvent("alert_suppressed", k)

CreateSilencedAlert(k) == InsertEvent("alert", k)

\* All notifiers are tried, and the webhook when none succeeds; no error is
\* reported back, and what was not delivered is not sent again.
notifyAll(e, k, delivered) ==
    IF delivered
    THEN /\ quiet' = [quiet EXCEPT ![k] = 0]
         /\ notified' = [notified EXCEPT ![k] = @ \cup {e}]
    ELSE UNCHANGED sent

\* The rules are read, and those that the sample does not match dropped.
EvaluateSample(e) ==
    /\ e \in due /\ todo[e] = {} /\ sending[e] = None
    /\ due' = due \ {e}
    /\ todo' = [todo EXCEPT ![e] = {r \in rules : Matches(r)}]
    /\ UNCHANGED <<value, config, alerts, sending, sent, changes>>

\* The window is looked up and the alerts in it are counted.
CheckRule(e, r) ==
    LET k == <<r.metric, r.level>>
    IN  /\ r \in todo[e] /\ sending[e] = None
        /\ todo' = [todo EXCEPT ![e] = @ \ {r}]
        /\ IF IsAlertSuppressed(k, WindowMinutes(k))
           THEN CreateSuppressedAlert(k) /\ UNCHANGED sending
           ELSE /\ sending' = [sending EXCEPT ![e] = [rule |-> r, window |-> WindowMinutes(k)]]
                /\ UNCHANGED alerts
        /\ UNCHANGED <<value, config, due, sent, changes>>

\* The alert is inserted, and notified unless there is a silence.
SendAlert(e, delivered) ==
    /\ sending[e] # None
    /\ sending' = [sending EXCEPT ![e] = None]
    /\ LET k == <<sending[e].rule.metric, sending[e].rule.level>>
       IN  IF IsAlertSilenced(k[2])
           THEN CreateSilencedAlert(k) /\ UNCHANGED sent
           ELSE InsertEvent("alert", k) /\ notifyAll(e, k, delivered)
    /\ UNCHANGED <<value, config, todo, due, changes>>

-----------------------------------------------------------------------------
\* Requests.

AdminRequest ==
    /\ changes < MaxAdmin
    /\ changes' = changes + 1
    /\ UNCHANGED <<value, alerts, evaluation, due, sent>>

\* POST and PUT of a rule, which becomes or stays enabled (the column has
\* "default:true"); with r = q nothing is replaced.
SaveRule(q, r) ==
    /\ AdminRequest
    /\ rules' = (rules \ {q}) \cup {r}
    /\ UNCHANGED <<suppression, silence>>

\* DELETE of a rule, and PUT that disables it.
DropRule(r) ==
    /\ AdminRequest
    /\ r \in rules /\ rules' = rules \ {r}
    /\ UNCHANGED <<suppression, silence>>

\* POST, PUT and DELETE of a suppression: None when no enabled row is left.
SaveSuppression(s, k, w) ==
    /\ AdminRequest
    /\ suppression' = [suppression EXCEPT ![s][k] = w]
    /\ UNCHANGED <<rules, silence>>

\* POST, PUT and DELETE of a silence that ends d ticks from now.
SaveSilence(l, d) ==
    /\ AdminRequest
    /\ silence' = [silence EXCEPT ![l] = d]
    /\ UNCHANGED <<rules, suppression>>

-----------------------------------------------------------------------------
\* The host and time.

Measure(m, v) ==
    /\ value' = [value EXCEPT ![m] = v]
    /\ UNCHANGED <<config, alerts, evaluation, due, sent, changes>>

Older(i) == IF i = AgeCap THEN i ELSE i + 1
Aged(a) == [a EXCEPT !.age = Older(a.age)]

\* A handler may be delayed between two rules (by notifyAll, above all), but
\* not between count and insert.  No window reaches back to an alert of AgeCap.
Tick ==
    /\ \A e \in Evaluator : sending[e] = None
    /\ alerts' = {a \in {Aged(b) : b \in alerts} : a.age < AgeCap}
    /\ quiet' = [k \in Key |-> Older(quiet[k])]
    /\ notified' = [k \in Key |-> {}]
    /\ silence' = [l \in DOMAIN silence |-> IF silence[l] > 0 THEN silence[l] - 1 ELSE 0]
    /\ due' = Evaluator
    /\ UNCHANGED <<value, rules, suppression, evaluation, changes>>

Evaluate(e) ==
    \/ EvaluateSample(e)
    \/ \E r \in Rule : CheckRule(e, r)
    \/ \E delivered \in BOOLEAN : SendAlert(e, delivered)

Next ==
    \/ \E e \in Evaluator : Evaluate(e)
    \/ \E q, r \in Rule : SaveRule(q, r)
    \/ \E r \in Rule : DropRule(r)
    \/ \E s \in Scope, k \in Key, w \in Window \cup {None} : SaveSuppression(s, k, w)
    \/ \E l \in Level \cup {"all"}, d \in 0 .. MaxSilence : SaveSilence(l, d)
    \/ \E m \in Metric, v \in Value : Measure(m, v)
    \/ Tick

\* Samples come in, handlers go on, and sending a notification does not fail for
\* ever.
Fairness ==
    /\ \A e \in Evaluator : WF_vars(Evaluate(e)) /\ SF_vars(SendAlert(e, TRUE))
    /\ WF_vars(Tick)

Spec == Init /\ [][Next]_vars /\ Fairness

-----------------------------------------------------------------------------
\* Properties

\* What INTERFACES.md says of suppression: within the window a host, metric and
\* level are notified once.  Two evaluations may both count before either
\* inserts, so this holds of no instance with two of them.
OncePerWindow ==
    [][\A e \in Evaluator :
          SendAlert(e, TRUE) /\ ~ IsAlertSilenced(sending[e].rule.level)
             => quiet[<<sending[e].rule.metric, sending[e].rule.level>>] >= sending[e].window
      ]_vars

\* What holds for any number of evaluations at once: within the window a metric
\* and level are notified again only by evaluations that were under way
\* together, each of them once, however many rules they go through and however
\* rules, windows and silences change meanwhile.
RepeatsOnlyTogether ==
    [][\A e \in Evaluator :
          LET k == <<sending[e].rule.metric, sending[e].rule.level>>
          IN  SendAlert(e, TRUE) /\ ~ IsAlertSilenced(k[2])
                 => \/ quiet[k] >= sending[e].window
                    \/ quiet[k] = 0 /\ e \notin notified[k]
      ]_vars

\* A condition that persists, under an enabled rule and no silence, is notified
\* again and again: suppressed records do not prolong the suppression.
PersistentIsNotified ==
    \A r \in Rule :
        <>[](r \in rules /\ Matches(r) /\ ~ IsAlertSilenced(r.level))
            => []<>(quiet[<<r.metric, r.level>>] = 0)

=============================================================================
