# MSMP verification project

TLA+ models of MSMP, a multi-tenant server monitoring and management platform:
Go agents on the managed hosts, a Go server that may run as a cluster of nodes
over one SQL database, and a React frontend. The modules model the server's and
the agent's own control logic; TLC checks them on small instances and TLAPS
proves the main safety properties for every value of the constants.

Paths below are relative to the repository root.

## 1. Inventory of the system

| component | state | operations | interacts with |
|---|---|---|---|
| agent router, `agent/common/router.go` | round-robin index, failure counts, breaker deadlines | `NextNode`, `RecordSuccess`, `RecordFailure` | called by the main loop |
| agent main loop and self-update, `agent/common/agent.go` | timers, executable and `.bak` file on disk | register, heartbeat, asset and metric reports, task poll, `SelfUpdate` | HTTP to any server; the service manager restarts it |
| tasks, `server/controllers/tasks.go`, `agent/common/task.go` | rows of `tasks` | create, cancel, delete, `next`, `result`; the agent's `runTask` | created by users, by cache flushing and by approved tool calls |
| cluster, `server/clustering/cluster.go`, `server/controllers/cluster.go` | table of pings, known nodes, rows of `cluster_nodes` | pings, expiry, election, node administration, loader | every server pings every other; decides who collects |
| agentless collection, `server/controllers/channels.go` | rows of `channel_bindings` (enabled, fail_count) | channel administration, scheduler cycle, collection | writes samples and the host's status, evaluates alerts |
| host status, `server/controllers/alerts.go`, `agent_assets.go`, `hosts.go` | `hosts.status`, `hosts.last_heartbeat` | registration, heartbeat, metric report, offline checker, deletion | agents, scheduler, every server's checker |
| tool approval, `server/services/mcp_service.go`, `mcp_tools.go`, `server/controllers/mcp.go` | approvals in memory, id counter | propose, list, approve, reject, execute, cleanup | queues tasks |
| alert engine, `server/controllers/alert_engine.go` | events, rules, silences, escalations | evaluate, suppress, silence, escalate | called on every sample, by agent reports and by the collector; every server escalates by timer; notifies through plugins |
| login, `server/controllers/auth.go`, `login_lockout.go`, `middleware.go`, `tenants.go` | failed attempts and rate windows in memory, users, signed tokens | login, refresh, sweep, change and deletion of users | middleware of every request |
| retention, `server/controllers/retention.go`, `maintenance.go`, `metrics.go` | raw and downsampled metric samples | downsample, delete, query | every server by timer, and by hand |
| notification plugins, `server/plugins`, `server/controllers/plugins.go` | plugin instances with encrypted secrets | create, update, delete, dispatch with a fallback | alert engine, credential service |
| virtualization, `server/controllers/pve.go`, `vsphere.go`, `server/services/pve.go`, `vsphere.go` | sessions at the platform, audit records | lists, power, snapshots, backups | channels of a host, Proxmox VE and vSphere |
| file transfer, `server/controllers/sftp.go` | files of the host | list, download, upload, mkdir, delete, rename | SFTP to the host |
| cron and probes, `server/services/cron.go`, `probe.go` | registered jobs, rows | add, remove, run | every server |
| web terminal and recordings, `server/controllers/webssh.go`, `session_recorder.go` | open sessions, recording files | open, relay, close | websocket and ssh |
| frontend node fail-over, `frontend/src/api/client.js` | rotation index, failures per node | request with retries | servers |
| protocol collectors, LLM client, settings, tenants, configuration | none of their own | I/O and single-row writes | - |

What is hard in this system:

* **Handlers are sequences of SQL statements without transactions.** Another
  handler, on this or another server, may run between a SELECT and the UPDATE
  that relies on it (tasks, offline checker, channels, node list, plugins,
  retention).
* **Every server runs the same timers.** The only coordination is the
  leader election, and it is consulted once.
* **Requests are lost and repeated.** Agents time out after 10-15 s and go on;
  the handler they left behind goes on too. So does a virtualization platform
  when the browser has gone and the handler's calls were cut off.
* **Processes die between two steps**: the self-update replaces the agent's own
  binary; approvals live in a process's memory.
* **Locks and goroutines**: the cluster's RWMutex, the per-host gate of the
  collector, the goroutine of an approved call, the mutexes of the login tables,
  each held for one access only.

What makes each part correct is listed with its module in section 3; the
hazards, each at its line, are in `PROJECT.json`.

## 2. Plan

Order: what decides whether hosts are reached and commands run comes first.

1. *(done)* `ClusterRouter`, `AgentLoop`: the agent.
2. *(done)* `ClusterState`, `ClusterLock`: the cluster.
3. *(done)* `TaskDispatch`: commands to hosts.
4. *(done)* `McpApproval`: approval of tool calls, composed with tasks through
   the queued commands.
5. *(done)* `Collector`: channels, scheduler and host status.
6. *(done)* `AlertEngine`: suppression and silence; `AlertEscalation`: escalation.
7. *(done)* `Login`: lockout, rate limit, tokens and accounts.
8. *(done)* `Retention`, `Plugins`, `Virtualization`, `FileTransfer`.
9. *(done)* `CommandQueue`: what tasks promise, implemented by `TaskDispatch`.
10. *(done)* Proofs of every safety property that a run checks: `McpApproval`,
    `Virtualization`, `Retention`, then `Collector`, `Plugins` and `FileTransfer`.
11. `ClusterClient`: the frontend's rotation with concurrent requests, next to the
    agent's router; a composition of `McpApproval` with `CommandQueue`.

## 3. Modules and the code

`PROJECT.json` maps every definition to its lines. Definitions keep the names of
the source. A definition whose comment starts with "Mutant:" is a deliberately
wrong version of the one that follows; no specification uses it. The checks put
it in place of the original to show that a property notices.

**ClusterRouter / AgentLoop.** One agent and `N` servers. `pc` is the position in
`MainLoop`; the router's methods are operators on `index`, `failCount`,
`disabledUntil`. Time is counted in the loop's 30 s sleeps; a round may take up to
`MaxRound` of them. `up[n]` may change between any two requests, which stands for
crashes, lost replies, partitions and refused tokens. `exe` and `bak` are the two
files `SelfUpdate` moves around, one action per filesystem call, and `Crash` may
come between any two. `failCount` saturates at the limit it is compared with.
The server side is the host's row: absent, live, or soft-deleted (a soft-deleted
row keeps its unique uuid, so the agent cannot register again).

**ClusterState.** `nodes[s][t]` is the age of the last ping of `t` at `s`, or
`Unheard`; addresses are numbers, ordered as the strings are (the trimming of
slashes is not modelled: addresses are taken to be normalised, as
`normalizeNodeAddr` does for the table). A tick is one heartbeat interval; every
node does one round per tick in any order, and any subset of its pings arrives.
The periodic loader is two steps, read and install; the reload inside an
administrator's request is one step with the write. `collecting` records who
started the scheduler. `silent` is history: how long a node has not been reached by
another one's pings, which the table forgets. `Stabilize` marks the point from which on nothing fails;
only the liveness property speaks of it.

**ClusterLock.** Who takes `c.mu`, in which order of calls, over a model of Go's
`sync.RWMutex` (external code: a waiting writer keeps new readers out, and the
readers it kept out go before the next writer).

**TaskDispatch.** The tasks of one host in creation order (`created_at`, taken to
grow with the ids: the servers' clocks agree). `Slot` bounds the requests served
at once; each handler goes through its statements one by one. The agent sends one
request at a time and never repeats one; `GiveUp` is its timeout, `HandlerLost` a
lost request or a dead server. Type, command text and result text are left out.

**McpApproval.** Server processes with a table and a counter each; administrators
act on the ids of the page they listed, and the request reaches any server (the
frontend sends each request to the next node). The checks on commands and arguments are one refusal. Time is only "ten minutes have
passed since execution".

**Collector.** One host, its channels, the schedulers of `Collecting`, the offline
checker of each `Node`, its agent and an administrator. A tick is 60 s. The checker,
a few statements, ends within it; a collection need not: after its 20 s timeout comes
the evaluation of alerts, which runs under the gate, and a notification by SMTP or by
the webhook has no timeout. So the next cycle waits for the last one (`wg.Wait`)
while the ticker keeps one tick, and `EvaluateAlerts` may never happen.
The insert of a channel stores `enabled = true` whatever the request says: the
column has `default:true`, and GORM writes the default for a zero value. Probes
and the rows of event and audit tables are left out; nothing here reads them.

**AlertEngine.** One host; its rules, suppressions and silences, the evaluation of its
samples (`Evaluator`: how many run at once, from agent reports and collections) and
administrators. A tick brings one sample of each source; windows are whole ticks.
Evaluation is cut where another handler can make a difference: reading the rules, the
count that decides about suppression, the insert with the notification. Between count
and insert there are only statements of the database, so no tick passes there; between
two rules any number may, since `notifyAll` may take its time. Of `host_events` only
the alerts are kept, with their age up to `AgeCap`: no window reaches further, no query
of the evaluation returns other rows, and none looks at `acknowledged`; rows equal in
all that the queries look at are one element. Each scope has at most one enabled
suppression row per metric and level (`First` takes the oldest of several). The code
reads neither `start_at` nor the labels nor the tenant of a silence, so a silence is
only the time to its end. Whether a notification is delivered is a free choice.
`quiet` and `notified` are history: the time since the last delivered notification of
a metric and level, and the evaluations that delivered one in this tick.

**AlertEscalation.** The alerts of a tenant and the checker of each `Server`. A round
reads the rows, selects for each row at most `BatchLimit` (ten) of the oldest open
alerts of its level and goes through them one by one; the count of earlier
escalations, the INSERT of the record, the UPDATE of `acknowledged` and the
notification are separate steps. Between any two of them another server, an
administrator or a new alert may come, a statement may fail (no error is looked at)
and the process may be killed. `UpgradeCount` is 0, which is what the query returns: it
looks for a message that the stored one only begins with. A tick is the timer's period
of five minutes; a round may outlast it, and the ticker keeps one tick. Ids are used
again for new alerts once nothing refers to them, so alerts keep coming for ever.
`recorded`, `by` and `missed` are history: the escalations of an alert on record, the
servers that escalated it with its acknowledgement, and the records that the database
did not store.

**CommandQueue.** The promise of `TaskDispatch` without tables, handlers and
messages: submitted tasks, the order in which they ran, how each run ended, and
the outcome the page shows. `TaskDispatch!Queue` is the refinement mapping; a task
is submitted when its row exists, has run when the agent executed it, and is shown
when its status is an outcome. Cancellations and abandoned polls that overwrite an
outcome are the `Cover` step.

**Login.** One client address (the tables are keyed by address and entries never
meet) and one account. Each access of `LoginHandler` to a table or to the database
is an action, as each takes the mutex anew; `Slot` requests are under way at once.
Entries have ages instead of times; `Clean` is the fixed age of 600 s that main
passes to the sweep. Tokens are the role they claim and their age, and the
middleware looks at nothing else (`Authenticated`). `RefreshToken` is what happens:
the public path never has a user in its context, so no token comes of it.
`LoginAssumption` asks for `Clean >= Lockout`, which the default configuration meets.

**Retention.** The samples of one host, named by their timestamps; a downsampled
row carries the set of samples it averages, so that copies can be counted. A
clean-up is five statements (read, insert, delete what was read, delete old raw
samples, delete old rows), each an action; any of them may fail, the process may
die between two, and `Runner` clean-ups overlap. Days are ticks.

**Plugins.** The registry with the required and secret fields of all six plugins,
and rows whose secrets are pairs of key and plaintext. PUT is SELECT, merge and a
later UPDATE of the whole configuration. The key may differ after a restart.
A dispatch reads the enabled rows once and goes through them, and `notifyAll` falls
back to the webhook when none of them took the alert. A POST is of values entered into
an empty form: the handler would also take and encrypt the mask (`plugins.go:189-193`),
which no page sends, and the model leaves that out.

**Virtualization.** A request from the check of the channel to the deferred logout.
An operation is its name; the power table, the refusals for containers, the
routing order of `HostDetailHandler` and the missing token of a deletion are
operators. A call may be accepted, refused, or accepted with its answer lost. Lists
are one call per node and type while guests migrate. The datastores of vSphere are one
call, though the code makes one per store and skips those that fail
(`vsphere.go:341-346`): no property looks at what the answer of a read contains other
than guests. `job`, the migration and the
client that goes away are external. `cut` is history: requests in which something
broke off.

**FileTransfer.** Each SFTP call of a request is an action, over a small model of a
POSIX file system (external): an open handle stays with its object. Content is a
sequence of blocks known by where they came from. Path checks are left out: paths
are those that pass. `touched` is history: requests whose object another upload has
written to, or whose path was given to another file between Stat and Open.

## 4. Runs

| run | components | shows |
|---|---|---|
| `host` | `AgentLoop`, `FileTransfer` | `BinarySurvives`, `HealthyClusterRotates`, `TransfersIntact` hold |
| `cluster` | `ClusterState` | `DeadLeaderReplaced`, `TwoLeadOnlyInSilence`, `LeadershipConverges` hold |
| `info_lock` | `ClusterLock` | `InfoAnswered` is violated: nested read lock |
| `tasks` | `TaskDispatch` | `ImplementsQueue` (the refinement), `ResultIsReal`, `CleanCancelIsFinal`, `PendingIsTaken` hold |
| `mcp` | `McpApproval` | `QueuedOnce`, `OnlyApprovedRun`, `PageStaysTrue`, `ApprovedIsCarriedOut` hold |
| `mcp_click` | `McpApproval` | `ClickDecidesShown` is violated: an id is another call at another server |
| `metrics` | `Collector`, `Retention` | `OnlineIsFresh`, `DisabledOnlyAfterFailures`, `WorkingChannelWins`, `NoSampleLost`, `CopiesBounded`, `QueryWindowIntact` hold |
| `alerts` | `AlertEngine` | `RepeatsOnlyTogether`, `PersistentIsNotified` hold |
| `alert_window` | `AlertEngine` | `OncePerWindow` is violated: two evaluations count before either inserts |
| `escalation` | `AlertEscalation` | `OncePerServer`, `NoneVanishes`, `EveryAlertReached` hold |
| `login` | `Login` | `BoundedGuesses`, `LockoutLasts`, `RightPasswordGetsIn`, `ChangesTakeEffect` hold |
| `remote` | `Virtualization`, `Plugins` | `AuditTrailHonest`, `SessionsReturned`, `StillGuestsListed`, `KeysAgree`, `DispatchComplete` hold, and the types of the stored secrets |

`host`, `metrics` and `remote` check two components each. The two share no variable,
so their interleavings would show nothing new: a behaviour is one of either component
(the variable `part` says which), and the other keeps one initial state.

The run also checks the module's type invariant (`TypeOK`; `CollectorTypeOK`,
`PluginsTypeOK`, `FileTypeOK`), except where it is only a theorem (`AgentLoop`,
`ClusterState`, `TaskDispatch`, `AlertEngine`, `AlertEscalation`, `Retention`). `BreakerHasDeadline`,
`OpenNodeOnlyAsLastResort`, `PingsAreFresh`, `AtMostOnce` and `InCreationOrder` are
also left to their theorems (section 5).

Bounds, and why they are enough:

* `host`, agent: two servers are the least for which "the node charged" and "the
  node used" differ; window 2, periods 2 and 3, rounds of 1 or 2 ticks make
  deadlines pass within, at and after a round. Everything else is unbounded.
* `cluster`: two servers, a threshold of two ticks (three in the code: the
  property is in terms of the constant), two crashes and two changes of the list;
  all losses. The proofs cover any number of servers.
* `tasks`: two tasks and two handlers: an abandoned poll and its repetition, or a
  poll and a cancellation, on the same task with another one behind it.
* `mcp` and `mcp_click`: two processes, two administrators, two proposals, one restart:
  two decisions on one id, and one id that means two calls.
* `metrics`, collector: two channels (one may fail), a threshold of 2, a window of 3 and 1
  ticks; one scheduler, as the design intends, and two checkers.
* `alerts` and `alert_window`: two evaluations at once, two rules on one metric and
  level (the second finds what the first has just inserted), a configured window of 1
  and the default of 2 ticks, silences of 1, one change by an administrator (none in
  `alert_window`, which needs none); initially any tables; time is unbounded.
* `escalation`: two servers, two alerts that compete for a limit of one, one kill or
  failed statement, one change of the rows, a row with a retry and one without;
  acknowledgements, new alerts and time are unbounded.
* `login`: two requests at once, a limit of 2 and a lockout of 1, a rate limit of 3
  with a window of 1, tokens good for 1: the second request is between its check
  and its failure while the first locks, the sweep meets a lock exactly at its
  end, and refused requests keep the rate window open. Ages stop mattering beyond
  the largest limit, so time is unbounded.
* `metrics`, retention: two clean-ups, one fault, retention 2 and downsampling at 1 with
  buckets of 2 (so that the cut-off falls inside a bucket), a clock of 4 (each
  sample passes from raw to downsampled to deleted), a page of 2 rows.
* `remote`, plugins: two instances, two PUTs between their statements, two keys (instances and
  PUTs are symmetric), the kinds feishu (a required and an optional secret) and slack.
* `remote`, guests: two requests of any kinds, one guest of each kind, two nodes
  (symmetric): a guest that moves from a node still to be asked to one already
  asked, and back.
* `host`, files: three requests on two paths with one old file: an upload, a download
  and a rename or deletion in between.

`CHECK_DEADLOCK FALSE` is used for `info_lock`, where the hang is the point; in
`host` the file requests end with the last answer (`Answered`).

Fairness. Timers and goroutines run (weak fairness of ticks, rounds, handlers and
goroutines). Strong fairness is used where a step is taken again and again by
design: a poll that is sent often enough is served once (`tasks`; the real server
has no limit on handlers), saving a sample does not fail for ever (`metrics`),
delivery of notifications does not fail for ever (`alerts`),
a writer of the lock is not overtaken for ever by other writers (`info_lock`: the
writers' mutex hands over to one that starves). In `login` time passes and every
request under way goes on (weak fairness of `Tick` and of each `LoginStep`): a
handler runs to its end and clients keep sending. No fairness is assumed of a
notification that has no timeout: `EveryAlertReached` assumes of one server that its
notifications return, `WorkingChannelWins` that the evaluations under the gates do.
In `alerts` evaluations go on, which is the same assumption. No fairness is assumed of
administrators, crashes, restarts of servers, or losses. The service manager
restarts the agent (`Restart=always`).

## 5. Proofs

| module | proves about |
|---|---|
| `Host_proofs` | `AgentLoop`, `FileTransfer` |
| `Server_proofs` | `ClusterState`, `Plugins` |
| `Metrics_proofs` | `Retention`, `Collector` |
| `Alert_proofs` | `AlertEngine`, `AlertEscalation` |
| `TaskDispatch_proofs`, `Login_proofs`, `McpApproval_proofs`, `Virtualization_proofs` | the module of the name |

The first four extend two modules each. For that `FileTransfer`, `Plugins`,
`Collector` and `AlertEscalation` have names of their own for what the others call `Init`, `Next`, `Spec`,
`TypeOK` and `vars` (`FileSpec`, `PluginsSpec`, `CollectorSpec`, `EscSpec` and so on); the two
specifications of a module share nothing, and no theorem speaks of both.

Proved, from the assumptions on the constants stated in the modules:

* type correctness of the twelve modules (`TypeCorrect`, `FileTypeCorrect`,
  `PluginsTypeCorrect`, `CollectorTypeCorrect`, `EscTypeCorrect`). In `McpApproval` it is not
  inductive by itself: ids are bounded by the number of proposals, and `CountInv` says
  why, each id being used up by a proposal that was answered. In `Virtualization` it
  rests on what a platform offers being operations, and on the names of guests not
  being those of the parts of a list (a node with a kind);
* `DeadlineInvariant`, `LastResort`, `BinaryInvariant` for any number of servers
  and any periods. The deadline is inductive with the types: the count and the
  deadline are written by the same step, and deadlines never become absent. The
  binary needs `DiskInv`: between the first rename and the exit the backup is the
  complete old binary, and outside that phase the executable is complete, unless
  a roll-back was lost or the process died in between;
* `PingsFresh`, `DeadLeaderForgotten`, `TwoLeadersNeedSilence` (`TwoLeadOnlyInSilence`)
  for any finite set of servers. `FreshInv` adds what a round that is still due may leave behind: an entry
  older than the threshold exists only at a node whose sweep is due, and the age
  of an entry of a stopped server is at least the time it has been down. `SilentInv` is
  the other half: an entry is no older than the last ping that arrived, and where there
  is none, none has arrived for longer than the threshold. Leadership
  is a choice of the least element (`LeaderIsLeast`);
* `OrderInvariant`, `RunsAtMostOnce`, `ResultInvariant`, `CleanCancel` for any number
  of tasks and handlers. `OrderInv` says that all that is still waiting is larger
  than all that was executed, and that an open poll or the agent holds a task ahead
  of what was executed; a poll that the agent has abandoned can no longer deliver;
* `QueueImplemented` (`ImplementsQueue`): the initial state maps to the queue's, and
  every statement, message, loss and restart maps to one of its steps or to none.
  The steps that need an argument are the agent's execution (`OrderInv` puts the
  task ahead of all that ran) and the result (`ResultInv`: what is about to be
  written is the outcome of that task's run);
* `GuessesBounded` and `LockoutHolds` for any limits and any number of login requests
  at once. `GuessInv` counts: the failures on record and the requests that may still
  add one are together at most `Max - 1 + |Slot|`, because a request enters only
  while fewer than `Max` failures are on record. `LockInv`: while a lock is younger
  than `Lockout` its entry is present, has at least `Max` failures and is no older
  than the lock; this is where the sweep must not be earlier than the lockout;
* `RepeatsLimited` (`RepeatsOnlyTogether`) for any rules, windows, changes of the
  configuration and any number of evaluations at once. `WindowInv` says that the table
  holds an alert as old as the last notification as long as that age is told apart,
  and that an evaluation about to send has not delivered this metric and level in
  this tick and saw no alert in its window, so that what is there now is of this tick;
* `EscalatedOncePerServer` and `NoAlertVanishes` (`OncePerServer`, `NoneVanishes`) for any
  servers, alerts, rows, limits and faults. `EscInv`: what a server has escalated is in
  its batch no more, and is open only while that server is about to acknowledge it, so
  its later selections do not find it; and where an acknowledgement is about to be
  written the record has been;
* `CommandQueuedOnce`, `ApprovedBeforeRun` (`QueuedOnce`, `OnlyApprovedRun`) for any
  numbers of servers, administrators, proposals and restarts. `RunInv`: a goroutine
  exists only for an approved call, and before it has queued the command there is no
  command;
* `PagesTrue` (`PageStaysTrue`). `PageInv` adds that an id on a page is below the
  counter of the process that listed it; with `CountInv` a later proposal of that
  process gets another id;
* `TrailHonest`, `NoSessionLeft` (`AuditTrailHonest`, `SessionsReturned`) for any
  set of requests at once, any guests, nodes and offers. `StageInv`
  says what has happened by the time a request is at a stage (no session before the
  connection, no record before the call has returned, a vSphere task awaited before
  the handler goes on), `EndInv` what is left to do between the deferred return and
  the end;
* `ListsRight` (`StillGuestsListed`). `ListInv` speaks of the middle of a list: a guest
  that has not moved is shown exactly once if the part it lies in has been read, and
  not at all if that part is still to be asked or was missed;
* `NothingLost`, `WindowIntact` (`NoSampleLost`, `QueryWindowIntact`) for any number of
  overlapping clean-ups, any settings and any number of faults. `SafeInv` has the
  reasons: cut-offs of a clean-up under way are never later than those of one started
  now (`CutoffInv`), so a sample that arrives after a clean-up has read is not before
  its cut-off, and the deletion by timestamp removes only what was read (`ReadInv`) and
  averaged (`DeleteInv`); the rows of a sample are of the sample's own bucket
  (`BucketInv`), so another clean-up deletes them only when the sample is past its
  retention. Nothing is assumed about which of `raw_retention_days` and
  `downsample_at_days` is larger, as the code does not check it: the untouched window
  is the smaller of the two;
* `DoubleCountingBounded` (`CopiesBounded`). `CopyInv` charges every copy to somebody:
  while a sample is in the raw table, to a clean-up that has inserted it and has yet to
  delete it, or to a fault; once it has left the table nobody reads it any more, and
  the copies and the clean-ups that still hold it are together at most the clean-ups
  and the faults;
* `OnlineFresh` (`OnlineIsFresh`) for any number of servers, channels and any
  thresholds. `CheckInv`: while a host that has been silent for too long is shown as
  online, every checker is about to look at it or has selected it. A minute goes by
  only when all of them are done, so the age is at most the threshold then, and one
  more after it. There must be a server (`Node # {}`);
* `DisabledAfterFailures` (`DisabledOnlyAfterFailures`) with one scheduler at work
  (`OneScheduler`: two would count from snapshots of their own). `FailInv` follows
  `fail_count` through its copies: the row's count never runs ahead of the failures
  that happened, except between a success and its update of the row (`CountedInv`);
  neither does the value the cycle has read, until it is used (`SnapshotInv`); and a
  row that is inserted starts at zero (`AbsentInv`). The administrator's statements
  in between leave all of this alone;
* `PluginsTypeCorrect` says more than its name: a stored secret is an entered value
  encrypted once. The lemmas on the operators carry it (`EncryptedFacts`,
  `DecryptedFacts`, `MergeFacts`: what `mergeConfig` returns can be stored, whatever
  of the request was masked or left out), and a PUT between its statements remains
  valid since a row never changes its plugin (`ConfigKept`);
* `SecretsUnderOneKey` (`KeysAgree`). `KeyInv` says the same of what a PUT is about to
  write: the merge has encrypted everything under the key of the process, and a
  restart with another key ends the request;
* `EveryInstanceTried` (`DispatchComplete`). `DispatchInv`: what the loop has not tried
  of the usable instances is still before it, and the webhook comes only after the
  loop and only when nothing was sent;
* `FileTypeCorrect` and `FilesArriveWhole` (`TransfersIntact`) for any numbers of
  requests, paths and blocks. `FileInv` is local to a request: an undisturbed upload
  has left exactly the blocks it has sent so far, an undisturbed download has
  announced the length of its object and holds its first blocks. `StepOfOne` says why
  a step of one request keeps this for all others: whoever has handled the object
  that is written to is among the disturbed from then on, and a path gets no object
  but an existing one or the one the upload makes (`MadeInv`).

Only model-checked: all liveness (`HealthyClusterRotates`, `LeadershipConverges`,
`PendingIsTaken`, `ApprovedIsCarriedOut`, `WorkingChannelWins`,
`PersistentIsNotified`, `EveryAlertReached`, `RightPasswordGetsIn`,
`ChangesTakeEffect` and the violation of `info_lock`), because the prover handles
neither fairness nor ENABLED. Every other property that a run finds to hold is a
theorem. The inductive
invariants of `McpApproval`, `Virtualization`, `Retention`, `Collector`, `Plugins` and
`FileTransfer` were also checked with TLC, on the instances of the runs.

## 6. Disagreements between code and documents

`PROJECT.json` has the findings with the lines they quote. Three are shown by runs:
the nested read lock (`info_lock`), two notifications within a window
(`alert_window`) and a click that approves another call than the one on the page
(`mcp_click`). The others are read off the code and visible in the actions that
model it: escalations that no limit of retries stops, one by each server
(`AlertEscalation.UpgradeCount`), results charged to the next node (`AgentLoop`), a scheduler on every
server (`ClusterState.StartServer`), rejected approvals that stay (`McpApproval`), a
success that keeps a host out of the next cycles (`Collector`), silenced alerts that
are escalated (`AlertEscalation`), the fixed age of the login sweep and the refresh that
always fails (`Login`), downsampling on every server, raw samples gone after seven
days and pages of the oldest rows (`Retention`), the webhook after failed instances
and instances stored enabled (`Plugins`), the shadowed snapshot route and the
deletion without a token (`Virtualization`), and the manual run of cron jobs. Smaller
ones:

* `.monkeycode/docs/INTERFACES.md` lists the task types shell, restart and upgrade;
  `runTask` answers anything but `shell` and `flush_caches` with "unsupported task type".
* `check_service` and `view_logs` are marked safe, "executed directly", but
  `ExecuteTool` refuses them and no approval is ever created for them.
* `SSHKeypairHandler` means to create a disabled channel; the row is stored enabled.
* Requirements 4.2 to 4.4 of the agentless specification (fall back to the next
  channel in the same cycle, an event and offline when all fail) are not
  implemented: the gate drops the other channels of the cycle.
* The silence button of an alert stores `silenced_until`, which the alert page shows
  and nothing else reads. The start and the labels of a silence are not read either.
* The plugin specification (`plugin-framework/requirements.md:56`) has offline
  events notified; the offline checker only records them.

## 7. Not modelled

* Protocol clients and parsers of the collectors, the operating-system collectors
  of the agent, the LLM client: I/O and text without state of their own.
* Web terminal and session recording: `main.go` wraps every response in a
  `statusRecorder` that has no `Hijack`, so the websocket upgrade fails and no
  session ever starts. A model would have no reachable step after the first.
* Cron jobs and probes: a run only writes times and a result that nothing but the
  pages reads (the three kinds of target are marked TODO).
* Tenants, settings, the security pages, asset inventory: single-statement reads
  and writes of rows; configuration files and schema migration.
* The frontend: pages over the API; its rotation over nodes is the agent's with
  other numbers.

Also left out: clock skew between servers, database errors other than those a
handler tests for (`AlertEscalation` and `Retention` do have statements that fail
unnoticed), and tenants (each module looks at one).
