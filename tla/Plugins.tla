-------------------------------- MODULE Plugins --------------------------------
(***************************************************************************)
(* Notification plugins: the registry of notifiers (server/plugins), the   *)
(* configured instances with their encrypted secrets, as administrators    *)
(* create, edit and delete them (server/controllers/plugins.go), and the   *)
(* dispatch of an alert to all of them with the webhook as a fallback      *)
(* (DispatchNotifiers, and notifyAll of alerts.go).                        *)
(*                                                                         *)
(* A PUT reads the row, merges the request into the decrypted              *)
(* configuration and writes the whole result back in a later statement, so *)
(* other requests come in between.  The credential key belongs to the      *)
(* process and may be another one after a restart.  A ciphertext is the    *)
(* pair of key and plaintext; plaintexts are members of Value.             *)
(***************************************************************************)
EXTENDS Integers, FiniteSets

CONSTANTS
    Instance, \* ids of rows in plugin_instances
    Slot,     \* PUT requests that may be under way at once
    Key,      \* credential keys
    Value,    \* what administrators enter into a field
    Kinds,    \* the plugins in use
    Masked,   \* maskedSecret
    Empty,    \* the empty string
    Absent

-----------------------------------------------------------------------------
\* The registry: which fields a plugin has, and which of them are required and
\* which are stored encrypted.

Webhook  == [required |-> {"url"}, secret |-> {"url"}, plain |-> {}]
DingTalk == [required |-> {"access_token"}, secret |-> {"access_token", "secret"}, plain |-> {"keyword"}]
Feishu   == [required |-> {"webhook_url"}, secret |-> {"webhook_url", "secret"}, plain |-> {}]
WeCom    == [required |-> {"webhook_key"}, secret |-> {"webhook_key"}, plain |-> {}]
Slack    == [required |-> {"webhook_url"}, secret |-> {"webhook_url"}, plain |-> {}]
SMTP     == [required |-> {"host", "from", "to"}, secret |-> {"password"},
             plain |-> {"host", "port", "username", "from", "to"}]

Registry ==
    [webhook |-> Webhook, dingtalk |-> DingTalk, feishu |-> Feishu,
     wecom |-> WeCom, slack |-> Slack, smtp |-> SMTP]

Fields(k) == Registry[k].secret \cup Registry[k].plain

\* A configuration in a request; Absent for a field that is not sent.
Config(k) ==
    {c \in [Fields(k) -> Value \cup {Masked, Empty, Absent}] :
        \A f \in Registry[k].plain : c[f] # Masked}

\* A secret as it is stored, and a configuration.
Cipher == [key : Key, val : Value]

Stored(k) ==
    {c \in [Fields(k) -> Cipher \cup Value \cup {Empty}] :
        /\ \A f \in Registry[k].secret : c[f] \in Cipher \cup {Empty}
        /\ \A f \in Registry[k].plain : c[f] \in Value \cup {Empty}}

Row == UNION {[kind : {k}, enabled : BOOLEAN, config : Stored(k)] : k \in Kinds}
Update == UNION {[id : Instance, enabled : BOOLEAN \cup {Absent}, config : Stored(k)] : k \in Kinds}

ASSUME PluginsAssumption ==
    /\ Kinds \subseteq DOMAIN Registry
    /\ Masked \notin Value /\ Empty \notin Value /\ Masked # Empty
    /\ Absent \notin Row /\ Absent \notin Update

-----------------------------------------------------------------------------

VARIABLES
    row,     \* row[i]: the instance, or Absent
    deleted, \* ids of soft-deleted rows
    put,     \* put[h]: a PUT between its SELECT and its UPDATE, or Absent
    key,     \* the credential key of the process
    alert    \* the dispatch under way

pluginsVars == <<row, deleted, put, key, alert>>

NoAlert == [at |-> "idle", usable |-> {}, todo |-> {}, tried |-> {}, sent |-> {}, webhook |-> FALSE]

\* A stored secret is always a value that was entered, encrypted once: never the
\* mask a page shows instead, however views, edits and restarts are interleaved
\* (mergeConfig).
PluginsTypeOK ==
    /\ row \in [Instance -> Row \cup {Absent}]
    /\ deleted \subseteq Instance
    /\ put \in [Slot -> Update \cup {Absent}]
    /\ \A h \in Slot : put[h] # Absent =>
          row[put[h].id] # Absent /\ put[h].config \in Stored(row[put[h].id].kind)
    /\ key \in Key
    /\ alert \in [at : {"idle", "sending", "fallback", "done"},
                  usable : SUBSET Instance, todo : SUBSET Instance,
                  tried : SUBSET Instance, sent : SUBSET Instance, webhook : BOOLEAN]

PluginsInit ==
    /\ row = [i \in Instance |-> Absent]
    /\ deleted = {}
    /\ put = [h \in Slot |-> Absent]
    /\ key \in Key
    /\ alert = NoAlert

Visible(i) == row[i] # Absent /\ i \notin deleted

-----------------------------------------------------------------------------
\* Configuration of an instance.

\* validatePluginConfig: required fields are sent and not blank; the mask counts.
Valid(k, c) == \A f \in Registry[k].required : c[f] \notin {Empty, Absent}

\* encryptPluginConfig, under the key of the process.
Encrypted(k, c) ==
    [f \in Fields(k) |->
        IF f \in Registry[k].secret /\ c[f] # Empty THEN [key |-> key, val |-> c[f]] ELSE c[f]]

\* decryptPluginConfig fails when one secret was encrypted under another key.
Decryptable(r) == \A f \in Registry[r.kind].secret : r.config[f] # Empty => r.config[f].key = key

Decrypted(r) ==
    [f \in Fields(r.kind) |->
        IF f \in Registry[r.kind].secret /\ r.config[f] # Empty
        THEN r.config[f].val ELSE r.config[f]]

\* Mutant: the mask is taken for a new value.
MergeConfigUnmasked(r, c) ==
    IF Decryptable(r)
    THEN Encrypted(r.kind, [f \in Fields(r.kind) |-> IF c[f] = Absent THEN Decrypted(r)[f] ELSE c[f]])
    ELSE Absent

\* Mutant: the ciphertext of a masked field is kept without decrypting it.
MergeConfigCiphertext(r, c) ==
    LET Kept(f) == c[f] = Absent \/ (f \in Registry[r.kind].secret /\ c[f] = Masked)
    IN  [f \in Fields(r.kind) |-> IF Kept(f) THEN r.config[f] ELSE Encrypted(r.kind, c)[f]]

\* mergeConfig: a field that is not sent and a masked secret keep their values,
\* and everything is encrypted anew; an error when the old row cannot be decrypted.
MergeConfig(r, c) ==
    LET Kept(f) == c[f] = Absent \/ (f \in Registry[r.kind].secret /\ c[f] = Masked)
    IN  IF Decryptable(r)
        THEN Encrypted(r.kind, [f \in Fields(r.kind) |-> IF Kept(f) THEN Decrypted(r)[f] ELSE c[f]])
        ELSE Absent

\* POST, with values entered into an empty form.  The column enabled has the
\* default true and GORM omits a false value of such a column on insert, so the
\* instance is enabled whatever was asked for.
CreateInstance(i, k, c) ==
    /\ row[i] = Absent
    /\ \A f \in Fields(k) : c[f] \in Value \cup {Empty}
    /\ Valid(k, c)
    /\ row' = [row EXCEPT ![i] = [kind |-> k, enabled |-> TRUE, config |-> Encrypted(k, c)]]
    /\ UNCHANGED <<deleted, put, key, alert>>

\* PUT up to its UPDATE: SELECT, validation and merge.
PutSelect(h, i, c, e) ==
    /\ put[h] = Absent /\ Visible(i)
    /\ Valid(row[i].kind, c)
    /\ MergeConfig(row[i], c) # Absent
    /\ put' = [put EXCEPT ![h] = [id |-> i, enabled |-> e, config |-> MergeConfig(row[i], c)]]
    /\ UNCHANGED <<row, deleted, key, alert>>

\* The UPDATE finds no row when the instance was deleted meanwhile.
PutUpdate(h) ==
    /\ put[h] # Absent
    /\ row' = IF put[h].id \in deleted THEN row
              ELSE [row EXCEPT ![put[h].id] =
                       [kind |-> @.kind, config |-> put[h].config,
                        enabled |-> IF put[h].enabled = Absent THEN @.enabled ELSE put[h].enabled]]
    /\ put' = [put EXCEPT ![h] = Absent]
    /\ UNCHANGED <<deleted, key, alert>>

\* PUT without a configuration: the switch on the page.
PutEnabled(i) ==
    /\ Visible(i)
    /\ row' = [row EXCEPT ![i].enabled = ~@]
    /\ UNCHANGED <<deleted, put, key, alert>>

DeleteInstance(i) ==
    /\ Visible(i)
    /\ deleted' = deleted \cup {i}
    /\ UNCHANGED <<row, put, key, alert>>

-----------------------------------------------------------------------------
\* Dispatch of an alert.

\* SELECT of the enabled instances; their configurations are those of now.
DispatchNotifiers ==
    /\ alert.at = "idle"
    /\ LET found == {i \in Instance : Visible(i) /\ row[i].enabled}
       IN  alert' = [NoAlert EXCEPT !.at = "sending", !.todo = found,
                                    !.usable = {i \in found : Decryptable(row[i])}]
    /\ UNCHANGED <<row, deleted, put, key>>

\* postJSON, or smtpSendMail for mail, has returned, with success or not.
Send(i, ok) ==
    alert' = [alert EXCEPT !.todo = @ \ {i}, !.tried = @ \cup {i},
                           !.sent = IF ok THEN @ \cup {i} ELSE @]

\* Mutant: the first failure ends the loop.
NotifyInstanceGivesUp(i, ok) ==
    /\ alert.at = "sending" /\ i \in alert.todo
    /\ IF i \in alert.usable
       THEN IF ok THEN Send(i, ok) ELSE alert' = [alert EXCEPT !.todo = {}]
       ELSE ~ok /\ alert' = [alert EXCEPT !.todo = @ \ {i}]
    /\ UNCHANGED <<row, deleted, put, key>>

\* One turn of the loop: a configuration that cannot be decrypted and a failed
\* delivery are logged, and the loop goes on.
NotifyInstance(i, ok) ==
    /\ alert.at = "sending" /\ i \in alert.todo
    /\ IF i \in alert.usable
       THEN Send(i, ok)
       ELSE ~ok /\ alert' = [alert EXCEPT !.todo = @ \ {i}]
    /\ UNCHANGED <<row, deleted, put, key>>

\* notifyAll after DispatchNotifiers: the webhook only when nothing was sent.
NotifyAll ==
    /\ alert.at = "sending" /\ alert.todo = {}
    /\ alert' = [alert EXCEPT !.at = IF alert.sent = {} THEN "fallback" ELSE "done"]
    /\ UNCHANGED <<row, deleted, put, key>>

\* notifyWebhook: nothing without an address; otherwise the answer is not looked at.
NotifyWebhook(configured) ==
    /\ alert.at = "fallback"
    /\ alert' = [alert EXCEPT !.at = "done", !.webhook = configured]
    /\ UNCHANGED <<row, deleted, put, key>>

AlertDone ==
    /\ alert.at = "done"
    /\ alert' = NoAlert
    /\ UNCHANGED <<row, deleted, put, key>>

\* A new process, perhaps with another credential key.
Restart(k) ==
    /\ key' = k
    /\ put' = [h \in Slot |-> Absent]
    /\ alert' = NoAlert
    /\ UNCHANGED <<row, deleted>>

-----------------------------------------------------------------------------

PluginsNext ==
    \/ \E i \in Instance :
          \/ \E k \in Kinds : \E c \in Config(k) : CreateInstance(i, k, c)
          \/ row[i] # Absent /\ \E h \in Slot, c \in Config(row[i].kind), e \in BOOLEAN \cup {Absent} :
                PutSelect(h, i, c, e)
          \/ PutEnabled(i)
          \/ DeleteInstance(i)
    \/ \E h \in Slot : PutUpdate(h)
    \/ DispatchNotifiers
    \/ \E i \in Instance, ok \in BOOLEAN : NotifyInstance(i, ok)
    \/ NotifyAll
    \/ \E b \in BOOLEAN : NotifyWebhook(b)
    \/ AlertDone
    \/ \E k \in Key : Restart(k)

PluginsSpec == PluginsInit /\ [][PluginsNext]_pluginsVars

-----------------------------------------------------------------------------
\* Properties.

\* All secrets of an instance are under one key, so that after a change of the
\* key and back an instance works entirely or not at all; a row with two keys
\* could never be decrypted again (decryptPluginConfig).
KeysAgree ==
    \A i \in Instance : row[i] # Absent =>
        \A f, g \in Registry[row[i].kind].secret :
            row[i].config[f] # Empty /\ row[i].config[g] # Empty
                => row[i].config[f].key = row[i].config[g].key

\* One broken instance does not keep an alert from the others: when a dispatch
\* is over, every instance whose configuration could be decrypted was tried, and
\* the webhook was called only if none of them took the alert.
DispatchComplete ==
    alert.at \in {"fallback", "done"} =>
        alert.tried = alert.usable /\ (alert.webhook => alert.sent = {})

=============================================================================
