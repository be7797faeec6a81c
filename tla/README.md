# LibraWatch: verification project

TLA+ models of LibraWatch, a server that monitors and controls the PCs of a
library, and of the agent that runs on each PC. TLC checks the models on small
instances; TLAPS proves nearly all of the safety properties for every instance,
up to the end-to-end one that a PC performs a shutdown at most once.
`PROJECT.json` lists the runs, the mutants, the source lines behind every
definition, the findings, the hazards and the theorems.

## 1. The system

Two Go programs talk over one WebSocket per PC. The server keeps everything in
SQLite, opened with a single connection (`SetMaxOpenConns(1)`): one statement or
one transaction is atomic, and a handler that issues several statements is
interleaved with every other goroutine between them. The agent keeps a few JSON
files: the results it still owes, the finished jobs and the policy are rewritten by
temporary file and rename; the self-update checkpoint is written in place, and a
corrupt one is discarded at the start.

| Component | State | Operations | Hard behaviour |
|---|---|---|---|
| Command queue (`server/deploy.go`, `db.go`) | `deploy_jobs`, `deploy_results` (status, retry count, lease) | create a job, pump an agent, dispatch, release, cancel, delete, sweep leases and expiries | four kinds of goroutine pump one agent; the sweep works on a snapshot; crashes between statements |
| Result handler (`server/hub.go`) | the same rows | record a fenced result, acknowledge, mark the job, pump | late, repeated and stale results |
| Connection hub (`server/hub.go`) | map agent -> client, per-agent waiters, `agents.status` | register, replace, remove, send, wait for an answer | replaced connections, failing statements, send after unlock, waiters keyed by agent only |
| Agent worker (`agent/cmdqueue.go`, `cmddedup.go`, handlers) | queue, tracking set, `completed_jobs.json` | submit, deduplicate, run, record | duplicates racing the worker, full queue, forgotten entries |
| Durable results (`agent/ack.go`) | `pending_acks.json` | persist, send, replay, clear | lost results and acknowledgements, crashes between stores |
| Self-update checkpoint (`agent/selfupdate.go`) | one file | write, clear, infer at startup | the command kills the agent |
| Policy distribution (`api.go`, `hub.go`, `agent/policycache.go`) | version, rules, relevant apps; cache in memory and on disk | edit, bump, broadcast, version check, save | updates applied out of order, lost broadcasts, reads in separate statements, a shared temporary file |
| Policy evaluation (`shared/policy.go`, `server/policy.go`) | the table of rules | insert, edit, delete, decide | most specific rule wins, server and agent must decide alike |
| Network mode (`commands.go`, `api.go`, `agent/network.go`) | desired and reported mode, two adapters | set, toggle, push, reconcile | failure or death between enabling and disabling; pushes that overtake each other |
| Alerter (`alert.go`) | counters, alerts with their times | check metrics, check offline, recover | read-modify-write in steps, cooldowns, stale rows, ignored read errors, failing inserts, restarts |
| Metrics batcher (`batcher.go`) | bounded channel, buffer | add, flush, stop | full channel, failing flush, drain |
| Authentication (`auth.go`) | sessions, failed logins | log in and out, limit, clean up | check and record in two critical sections |
| Command API (`commands.go`) | job, rows, `command_requests` | resolve targets, carry out, poll | a poll between the statements, failing inserts |
| Software inventory (`software.go`, `agent/softwareinventory.go`) | registry, local map, table | scan, send, reconcile, uninstall | overlapping and lost snapshots; versions that do not compare |
| Catalog (`catalog.go`, `db.go`, `agent/appmeta.go`) | applications, sightings | observe, link, judge | identity derived from reports with and without metadata |
| Process kill (`agent/killidentity.go`, `killverify.go`) | processes of the PC | look up, kill, sweep, verify | PIDs used again, two killers |
| Watchers (`agent/*watch.go`) | what was last seen | poll, wait, compare, report | failing queries, events lost, a streak of missing polls |

What makes them correct: a PC runs one command at a time; a shutdown or restart
happens at most once per request; retries are bounded by `max_retry`; a command
never stays in flight for ever; a cancelled command stays cancelled; a result is
kept until the server has it; a duplicate is answered, never run again; an agent
ends up with the latest policy; a PC is not cut off by a failed switch of
adapters; an outage is alerted once; a table shows one scan of a PC; only the
process that was judged is killed, and "killed" means gone.

## 2. Modules

| Module | Models |
|---|---|
| `DeployQueue` | the two tables and every goroutine of the server that writes them, one step per SQL statement |
| `AgentCommands` | the agent's reader, worker, stores, startup check and sessions, one step per store update |
| `CommandDelivery` | both, composed over the WebSocket; extends `DeployQueue`, instantiates `AgentCommands` |
| `NetworkMode` | requests, push, the agent's reconciliation and its two adapters |
| `PolicySync` | edits and versions on the server, updates, the agent's copy in memory and on disk |
| `Presence` | connections with an identity, the hub's registry, online status, offline checker |
| `RequestWaiters` | kill and log requests and their answers |
| `MetricsBatcher`, `Alerter`, `Sessions`, `Inventory` | the services of those names |
| `PolicyMatch`, `SoftwareRules` | the pure rules, over a table of rules and over the rows of a product |
| `KillByIdentity`, `CommandApi`, `Catalog`, `Watchers` | the components of those names |
| `MCDeployQueue`, `MCAgentCommands`, `MCCommandDelivery`, `MCNetworkMode`, `MCPolicySync` | constants for TLC |
| `MCServices`, `MCRules` | several modules side by side for TLC |
| `Lists` | the loop that filters a list, used by `AgentCommands`, `MetricsBatcher` and `PolicyMatch` |
| `DeployQueueProofs`, `AgentCommandsProofs`, `CommandDeliveryProofs` | theorems about the command path: server, agent, both |
| `NetworkModeProofs`, `PolicySyncProofs` | theorems about those modules |
| `ServicesProofs` | theorems about the modules of `MCServices`: `Presence`, `RequestWaiters`, `Alerter`, `Inventory`, `Sessions`, `MetricsBatcher` |
| `RulesProofs` | theorems about the modules of `MCRules`: `KillByIdentity`, `CommandApi`, `Catalog`, `Watchers`, `PolicyMatch`, `SoftwareRules` |
| `ListProofs` | lemmas about loops, filtered lists and increasing lists |

`MCServices` and `MCRules` put modules that share no state into one run. A
variable `part`, fixed by the initial state, says which module moves, so the
state spaces add up and do not multiply; the other modules stay in one of their
initial states.

### DeployQueue

`status[j][a]` and `retry[j][a]` are the row of job `j` for agent `a`, which is
how every UPDATE addresses it; `jobStatus` is `deploy_jobs.status`. A goroutine
is represented by what it still has to do: `creating[j]` is the `CreateJob` call,
a member of `claims` a `PumpAgent` between its claim and its return, `marks` the
two statements of `UpdateJobStatus`, `sweep` the lease sweeper with the rows it
has read, `cancelling` the two statements of a cancellation, `due[a]` the spawned
pumps that have not run.

Time is reduced to the order of events. `leaseOver` holds the running rows whose
lease has passed; `expiry[j]` is `before`, `at` or `after`, because both times
have a resolution of one second, a row is claimable while `expire_at > now` and
is swept when `expire_at < now`. `Priority` and `CreatedAt` give the order of the
queue; ties are broken arbitrarily, as in SQLite.

`Faults` says which statements may fail. A read that fails is an early return in
most handlers; in the sweep it hides that a command is destructive.
`PromptPump` restricts the model to leases that outlive the in-memory send between
a claim and its release. `QueueFaults` does not assume it, and neither do most
theorems (it is a constant); the other runs do, to keep their state space small.
What rests on the attempt number being new needs it: `ClaimsAreNew`, `FenceSound`,
`AnswerIsFinalHolds` and `SuccessIsFinalHolds` name it as a hypothesis.

Histories: `dispatches` and `attempts` record what was sent.

### AgentCommands

`reader` is a `submitCommand` between its look at the completed store and its
claim, `active` is `cmdActive`, `queue` is `cmdCh`, `work` is the task in
`processCommand` (or in the startup check) with the step it is at. `pending`,
`completed` and `checkpoint` are the files; a crash keeps them and loses the
rest. A result carries the run it reports, a history value that tells two
results of the same job apart. `runs[j]` counts how often the command really
touched the PC and `forgotten[j]` how often the agent lost the evidence: an entry
dropped by the cap or the TTL, or a death before the result was recorded with no
checkpoint to recover from. The checkpoint may not get written, or be torn, which
`BootCheck` treats alike: it counts as none. Writes of the two stores are assumed to
succeed: the code logs a failure and goes on, which is the same as losing the entry.

A handler may never return. `DFC.exe` and the OpenSSH steps have no time limit;
`runPSCommand` and `runStructuredCommand` have one, but it ends the command and not a
child that holds its output open. `InHandler` is that part of a task.

### CommandDelivery

Every step is a step of one module or of both. `Dispatch` puts the command on
`down`, where the agent's `Submit` takes it; a result in the agent's `outbox`
becomes `HandleExecResult`, or is ignored as stale, and is acknowledged either
way. Attempt numbers are naturals, so the agent is instantiated with `Nat`, and a
counter of deliveries bounds the run (`MaxDeliveries`). `link` is the agent's
connection as the two ends see it: the server may still hold a client whose
connection is gone (commands sent to it are lost but count as sent), and the agent
may still hold one the server has closed. Results may arrive before the first
metrics message has registered the client.

### NetworkMode

A request is a record with its next step: `PostMode` is the network-mode route,
`PostToggle` the check of a toggle for one PC, `ToggleRead` the second read in the
loop over the targets, `SetDesired` the UPDATE, `PushMode` the send. `greeting` is
`handleMetrics` between its read of the mode and its send. `task` is
`reconcileNetworkMode` in the agent's worker, one step per phase; a status query
that fails shows an adapter as not found. `faulty` says which of the faults can
happen in a behaviour, so that liveness can be asked of the ones without. `hung` says
that the command worker, which these commands share with all others, is stuck in a
handler for the life of the process (`WorkerHangs`).

### PolicySync

The content of the policy is the number of edits of `policy_rules` and of
`applications` that it holds; every handler reads version, rules and applications
in steps of their own. `tasks` are the goroutines of `handlePolicyUpdate`, which
all write `policy_cache.json.tmp`; a rename while another goroutine has the file
open fails, as on Windows. A copy carries the server it names (`tag`): this one,
another, or none, which is a file from before the server's URL was kept; the agent
discards a file that names another server and trusts one that names none
(`InitPolicyCache`). `file` can be `Torn`, a mixture of two texts: that is what
`FileWhole` and the run `PolicyTorn` are about. Any read of a handler may fail and any
send buffer may be full (`SendFails`, `CheckFails`): the update is then not sent. The
device group that goes with an update is left out: an edit of it has no version and no
broadcast (`api.go:334-339`), and the error of reading it is ignored.

### Presence and RequestWaiters

A connection has a reader whose steps end at a lock, a statement or a channel
operation. `client` is `hub.clients` for one PC; `open` are the connections whose
send channel is not closed. The checker reads a row in one step and judges it in
another; time is a counter of minutes. Every statement may fail (`Statement`), in the
checker the read of the last alert and the insert of a new one; the error of the read
counts as "no alert yet", as in the code. `DeleteAgent` removes the PC's row and its
alerts while its connection goes on. A request is told from the next by the
request its answer belongs to, which the messages themselves do not carry.

### The smaller modules

`MetricsBatcher` numbers its entries in the order of `Add`. `Alerter` has one
counter (CPU and RAM run the same code) and two histories of the high readings since
the last low one: `streak` starts again at a recorded alert only, `since` also where
the code's counter does without one, at a restart and at a failed insert. `Sessions` has
one address. In `Inventory` a version stands for
everything an entry writes to the registry, the uninstall command included; a scan
may pass over keys it cannot read.
`PolicyMatch` and `SoftwareRules` write the loops of the code as recursive
functions over a table that grows and changes, and compare them with a definition
by quantifiers. `KillByIdentity` numbers processes by their start, so a PID used
again is visible to the properties and not to the killers. `CommandApi` has one
command and one poller; its rows are those of the commands carried out at once, and a
deletion of a PC removes its row.
`Catalog` has one executable under several paths: with metadata, without, and
installed. `Watchers` has one watcher per behaviour.

## 3. Runs

Passing runs:

| Run | Instance | Shows |
|---|---|---|
| `QueueRaces` | 1 agent, 2 jobs (1 destructive), 1 spawned pump at a time | `TypeOK`, `OneRunning`, `DestructiveOnce`, `DispatchesCharged` under every interleaving of pumps, results, sweeps and lost connections |
| `QueueFaults` | 1 expiring job, cancel, delete, 1 crash, failing reads and writes, 2 spawned pumps | `CancelledStays` |
| `QueueLive` | fairness, 1 crash | `RunningRecovered`, `ExpiringEnds` |
| `AgentCommands` | fairness, handlers that may never return, one-slot queue, one-entry completed store, 3 deliveries; either 2 jobs (1 file deploy), 2 sessions and 1 crash, or 1 expiring file deploy with 2 attempt numbers, 3 sessions, 2 crashes and a forgotten entry (`scene` in `MCAgentCommands`) | `AtMostOnce`, `TrackedExactly`, `ResultKept`, `TrackingEnds`, `SameAnswer`, `FileOutcomeKnown` |
| `Delivery` | server and agent, a shutdown or a retried command, each process crashing once, 2 sessions | `DestructiveRunsOnce`, `SuccessIsFinal` |
| `NetworkMode` | fairness, 2 requests with 1 session or 1 request with 2 sessions (`MaxEvents`), 2 adapters, failing queries and commands, a worker that hangs, 1 crash | `OkMeansConverged`, `KeepsNetwork`, `NetworkConverges` |
| `PolicySync` | fairness, 1 edit of each table, 1 crash, a file of another server or of none, and any 2 (`MaxEvents`) of: 2 sessions, 1 failing bump, 1 failing read or full buffer | `TypeOK`, `VersionHonest`, `NeverAhead`, `PolicyConverges` |
| `ServerServices` | `MCServices`: 2 connections, 5 minutes, 1 restart, 1 failing statement (`MaxDbFaults`), deletions; 2 requests; a batch of 2; 2 readers, restarts, deletions, failing statements; 3 logins; 2 products, 1 lost connection, incomplete scan or deletion (`MaxMishaps`) | `ConnectedShownOnline`, `OneAlertPerOutage`, `OfflineAlerted`, `LoneRequestGetsItsAnswer`, `RowsInOrder`, `AlertExactlyWhenDue`, `LimiterSound`, `TableIsOneScan`, `InventoryConverges`, `ServicesTypeOK` |
| `Rules` | `MCRules`: 2 rules on 2 dimensions; 2 PIDs and 2 killers; 2 agents, which may be deleted; 5 versions; 2 paths and 2 connections; 2 devices | `MostSpecificWins`, `OnlyMatchingKilled`, `KilledMeansGone`, `CommandCounted`, `NewestIsMax`, `PathLinkedOnce`, `RemovalSustained`, `RulesTypeOK` |

Bounds. Every UPDATE of the queue touches one agent's rows, and the agents share
only `jobStatus`, so one agent and two jobs show the races for a queue; two
tries of a command need one retry. On the agent, a queue and a completed store of
size one make the full cases happen with two jobs, and three deliveries give an
original, a duplicate during the run and a duplicate after it. Crashes, sessions,
deliveries and spawned pumps are counted and capped by the constants named
`Max...`. `Delivery`
takes the two statements of `UpdateJobStatus` at once (`MarksFirst`): they write
only `jobStatus`, which no handler of the queue reads back; `QueueRaces` and
`QueueFaults` interleave them with everything. Its behaviours are about one of
two jobs (`OneJob`), so that a shutdown and a retried command share the run. Five
minutes with an offline limit of one give two complete outages; two entries per
batch and five calls of `Add` fill the channel and the buffer; two PIDs and two
starts let a PID be used again. Deadlock checking is off where the bounds, or an idle system, leave
nothing to do.

Runs that show a disagreement between the code and what the repository says of
it (the quotes are in `PROJECT.json`, "findings"):

| Run | What the counterexample shows |
|---|---|
| `QueueStaleSweep` | the sweep reads a row, the result arrives, the sweep writes `failed` over it |
| `QueueStall` | a released claim leaves a connected, idle agent with work nobody pumps |
| `PolicyTorn` | two updates are saved at once through one temporary file, and `policy_cache.json` is a mixture of them |

Known deviations that have no run of their own, because a passing property
already makes the exception explicit or nothing in the code depends on it:

- The lease sweep reads a command again to see whether it is destructive
  (`deploy.go:173`); when that read fails the command is requeued, and a shutdown
  is sent twice. `DestructiveOnce` holds while no read fails.
- A redelivered command is answered with its stored result, which carries the
  attempt it ran under (`cmdqueue.go:81`); the server's row has moved on, the
  result is fenced out and acknowledged, and the row can end `failed` although the
  server received the success.
- `CreateJob` writes `dispatched` without looking (`deploy.go:90`): when the last
  result of the job was recorded just before, `done` is overwritten and no later
  event restores it (`db.go:1275` says a finished job is marked `done`). In the
  model this is `MarkDispatched` after `WriteJobDone`; nothing reads `jobStatus`
  back.
- `GetExpiredPendingResults` (`db.go:1377`) says it selects rows that expired
  "without ever being dispatched"; a row the lease sweep requeued is selected too
  and ends as "Expired before execution" though the command was sent.
- An `exec_result_ack` names only the job (`main.go:477`, `ack.go:81`): one that
  answers an older result of a job that ran again removes the newer result.
  `ResultKept` is therefore about "a result of that job".
- The checkpoint of a file deploy is removed before its result is stored
  (`executor.go:148`): a process killed in between starts up with neither.
  `FileOutcomeKnown` names this window through `forgotten`.
- `SendToAgent` sends on a channel it looked up under a lock it has released
  (`hub.go:241`): when the connection was removed or replaced in between the
  channel is closed and the send panics. The agent's `wsSend` has the same shape.
  The models do not take this step.
- A handler that does not return blocks the agent's only worker, and every later
  command, for the life of the process. The timeout of `runPSCommand` and
  `runStructuredCommand` does not prevent it: `CombinedOutput` waits for every
  process that holds the output, and `WaitDelay` is not set (`executor.go:37-42`,
  `softwareinventory.go:379-382`). `TrackingEnds` and `NetworkConverges` are about
  behaviours in which it does not happen.
- The error of reading the last alert is ignored (`alert.go:63`, `:190`): when the
  read fails, an outage is alerted again although `alert.go:189` says it is not, and
  a CPU or RAM alert comes inside its cooldown. When the row of an alert cannot be
  inserted the alert is not sent, and for CPU and RAM the count starts again all the
  same (`alert.go:67-68`, `201-203`); a restart forgets the count too.
  `OneAlertPerOutage` and `AlertExactlyWhenDue` name these cases.
- A policy file that names no server is trusted (`policycache.go:151`): one that
  another server left from before the URL was kept can be ahead of this server's
  counter, which silences the version check. `NeverAhead` and `PolicyConverges` name
  the case.
- A failing read or a full send buffer in `sendPolicyUpdateTo` (`hub.go:406-427`)
  drops the update; only the next version check makes up for it.
- A scan of the registry passes over what it cannot read
  (`softwareinventory.go:76-98`), and the server then deletes those rows.
- A second kill request for an agent takes the place of the first in the map of
  waiters (`hub.go:700-750`), an answer goes to whoever is stored, and the first
  request's deferred delete removes the second. `LoneRequestGetsItsAnswer` is about
  requests that meet no other of their kind.
- The offline checker skips a PC whose last offline alert is later than its
  `last_seen` (`alert.go:188-192`, "Don't re-alert for the same disconnect"). An
  alert fired from a row read before a short reconnect also silences the outage
  that followed it; `OfflineAlerted` accepts such an alert.
- Two readers of one PC in `CheckMetrics` at once can lose a count or fire twice;
  `AlertExactlyWhenDue` is about connections that do not overlap.
- An edit whose version bump fails is never caught up by the agents, although
  `api.go:129-132` says they catch up at the next check. `PolicyConverges` assumes
  that every edit got its version.
- On a PC that has only an ethernet adapter, mode `wifi` disables that adapter
  (`network.go:185-206`): no replacement had to be enabled, so none is waited for.
  `KeepsNetwork` names the case.
- The realtime path records "killed" also when the PID did not match any more and
  the sweep ended another process, or when the query for the PID failed; the
  server records "killed" for any answer (`policy.go:183-188`).
- `killverify.go:113-115` says `handleKillProcess` uses the verified kill; it runs a
  bare `taskkill` (`agent/main.go:483-508`).
- The catalog can link a path to a company-less application: the server keeps the
  first entry of a path after the sort by CPU, which need not be the one with the
  metadata (`metrics.go:101`, `catalog.go:32-41`), and a lost first report takes the
  metadata with it for the life of the agent. A verdict on an installation is not
  passed on to an executable that is seen later (`db.go:1795-1801`).
- `ClassifyExecutionLocation` walks a Go map: a path with two markers gets either
  location (`shared/policy.go:97-111`).
- The first available version sticks as the newest when it has no digits
  (`software.go:320-326`); the fleet can be `up_to_date` while one endpoint is offered
  a newer version than another has.
- A server that stops during a toggle or wake leaves the job `pending`, and polls
  answer 404; a `deferred` row is never updated.
- A failing WMI query in two polls in a row reports every keyboard and mouse
  removed; a failing `schtasks` query reports every task removed and then added.

## 4. Fairness

`DeployQueue!Fairness`: each goroutine with something to do does it (weak
fairness per owner of a claim, per caller of `UpdateJobStatus`, per `CreateJob`,
per cancellation and for spawned pumps), the sweeper's ticker keeps ticking, and
time passes. Nothing is assumed of agents (they may never connect or answer) nor
of the admin. `AgentCommands!FairSpec`: the worker and the startup check keep
going, except inside a handler: nothing is assumed of handlers, because none is
bounded for certain (section 3). `TrackingEnds` says what follows if they do return,
again and again. In `NetworkMode` and `PolicySync` the server's handlers, goroutines
and tickers go on, and the worker of `NetworkMode` does while it is not `hung`, which
it may become at any time; `NetworkConverges` is about behaviours in which it does not
stay so. Nothing is assumed of the admin, the adapters or the connection
(`PolicyConverges` is about a connection that lasts). In `MCServices` the offline
checker and the clock go on, the inventory's loop ticks, and a reconciliation that
is tried again and again succeeds at some time (strong fairness: SQLite errors are
transient). The rest follows from Go's scheduler and the tickers in the code; no
timeout of a command is relied on.

## 5. Proofs

40 theorems, each for every value of the constants: any sets of agents, jobs,
goroutines, connections, PIDs, rules or versions, any capacity, limit or retry
budget, and any number of crashes, sessions and faults. They state every
invariant and action property that the passing runs check; what is left to TLC is
liveness (end of this section). The constants are restricted by the named
`...Assumptions` of each module only: they give types, keep identities apart
and, where a proof counts, say that a set is finite (logins, watched things,
dimensions of a rule). Seven theorems have a hypothesis of their own, given where
they are described: no failing database read (two), `PromptPump` (four), or the
statuses an agent reports (one).

### The server's queue (`DeployQueueProofs`)

`RowNext` classifies every step by what it does to a row (`RowStep`); the
theorems argue about rows only.

- `TypeCorrect`, by one lemma per kind of row write.
- `OneRunningHolds`: inductive as it stands, given the types: only
  `AcquireNextJob` makes a row running, and only when the agent has none.
- `CancelledStaysHolds` needs that a row `CreateJob` has not inserted yet does not
  exist (`FreshRows`): an INSERT is the one write that does not look at the old
  status.
- `DestructiveOnceHolds`, when no database read fails (`"read" \notin Faults`,
  without which it fails, see section 3). Nothing in `DestructiveOnce` stops a row
  that was sent from becoming pending. `SendableOnce` adds that a destructive row
  that can still be sent - it is pending, or a pump holds a claim on it - was never
  sent, and is one or the other with at most one claim.
- `DispatchesChargedHolds`: the sweeper writes from a snapshot, so the invariant
  must say what a snapshot is still good for. `SnapshotsCurrent`: whatever happened
  to the status of a row the sweep has yet to treat, its retry count is the one the
  sweep read, and the snapshot holds the row once. `SendsPaid`: the sends of a row,
  the claims on it and its being pending add up to at most one more than the
  retries it was charged, which are at most `max_retry`. `FreshRetries`: a row
  that is not inserted has been charged nothing.
- `ClaimsAreNew` and `FenceSound`, under `PromptPump`: the attempt number that a
  claim will put on the wire is above every number sent for the row, and those are
  at most its `retry_count`, so no two sends of a command share a number. The
  sweeper requeues from a snapshot, so the invariant adds that no claim is open on
  a row it has yet to treat (`SweptUnclaimed`). The hypothesis is needed: TLC finds
  behaviours in which a lease runs out between claim and send and two sends carry
  the same number, so that the fence cannot tell their results apart.

The lemmas about steps are about `QueueNext`, which lets an agent answer any
attempt it was sent with any status: `CommandDeliveryProofs` uses them as they
are.

### The agent (`AgentCommandsProofs`)

`AgentInv` says for each moment where the evidence of a run is. `CheckpointUsed`:
the checkpoint is that of the command at work, or the startup check works on it.
`NothingStored`: the worker goes on with a command only while no result of it is
stored. `RunsAccounted`: a run that is neither stored, nor marked by a
checkpoint, nor carried by the worker towards its recording is counted as
forgotten. That is `AtMostOnceHolds`, and with the pending store
`FileOutcomeKnownHolds`. `Answers` says that every copy of a result - sent,
pending, stored or in the worker - is the same one, which is `SameAnswerHolds`.
`TrackedExactlyHolds` and the action property `ResultKeptHolds` follow with one
lemma per step; the latter needs that only received results are acknowledged.
`AgentTypeHolds` includes the capacities of the queue and of the store.

Two facts prepare the composition. The order of attempts: if commands of a job
arrive in the order of their attempt numbers, everything that has run or been
answered (`Spent`) is older than everything that may still run (`Waits`), and the
reader, the queue and the worker hold the latter in order (`InOrder`, `OrderStep`).
And `ExpiredHasPassedHolds`: a result says "expired" only if the job's `expire_at`
has passed, be it fresh, resent, stored or the answer to a redelivery.

### Server and agent (`CommandDeliveryProofs`)

`DestructiveRunsOnceHolds`: while no database read fails, a PC performs a shutdown
or restart at most once. The server's theorem bounds the sends, the agent's does
not help (its store may forget); what carries the property is that the one send
makes one copy. `OneCopy`: the command is on the connection, with the reader, in
the queue or with the worker, in one of these places and in one copy, or it has
run, once, and none of this unless it was sent. The proof reuses both
components' proofs: `AgentSide` shows that every step of the composition is a
step of `AgentCommands`, whose theorems are instantiated (`AP == INSTANCE
AgentCommandsProofs`), and `ServerSide` that every step is one of the server's own
or the recording of a result.

`AnswerIsFinalHolds`, and with it `SuccessIsFinalHolds`, under `PromptPump`: while a
row holds what the agent answered - success, ok or error - the PC does not start
that command. The server alone cannot show it (a command may be on its way when
its row is answered) and neither can the agent (it may have forgotten the job).
`Provenance`: every attempt number on the connection or in the agent was sent by
the server. `Ordered`: the attempts of a job are on the connection in the order of
their numbers, behind what the agent holds, which is `InOrder`. `Settled`: of an
answered job there is no claim, and nothing on the connection, with the reader,
in the queue or about to start. The recording establishes it: the fence lets only
a result of the current `retry_count` through, that is the newest attempt
(`ClaimsAreNew`), and what could still run would have to be newer than the
attempt that was answered. Without `PromptPump` TLC finds a counterexample.

The composition implements both of its parts. `ImplementsAgent`: it is an
`AgentCommands`, with the connection as its server. `ImplementsQueue`: it is a
`DeployQueue`; the queue's `AgentReports` allows any answer to an attempt that was
sent, and by `Provenance` and `ExpiredHasPassed` this agent gives no other.
Hypothesis: success and error are among `Reports`, because a handler that refuses
reports an error and the startup check either of the two; every agent satisfies it.
(The runs set `Reports` to success alone to keep their state space small.)

### Policy and network mode

`PolicyInv` relates the three reads of a handler: what it has read so far,
together with the tables it has yet to read, holds the edits of its version
(`SenderHonest`); each bump follows an edit of its own (`BumpsOwed`, which counts
the handlers between the two). `NoEmptyRename` is why the shared temporary file
never replaces the cache by an empty one: a goroutine that could do so is
stopped by the one that has the file open; that it is never replaced by a mixture is
false (section 3). `AgentNeverAhead` holds of every copy that came from this server
or was discarded; its one exception is a file that names no server. `NetInv` says what the worker knows of
the adapters at each phase (`TaskSound`): before it disables anything, all that
was asked for and found is enabled, and as long as nothing has failed its plan is
exactly what separates the PC from the mode.

### The services (`ServicesProofs`) and the rules (`RulesProofs`)

- `Presence`: a connection that has not been added is not the registered one, and
  every alert is about a `last_seen` before the latest outage. Two exceptions are in
  the statements because they are in the code: the row says "online" from the first
  message that is stored, and a check one of whose statements fails may repeat an
  alert.
- `RequestWaiters`: a waiter in the map belongs to a request in progress, and a
  lone request has the map's entry of its kind, with no other request or answer
  of that kind on its way.
- `Alerter`: until connections overlap, one reader at a time is between its read
  and its write of the counter, and the counter is the number of high readings since
  the last restart, failed insert, low reading or alert (`since`), which is at most
  the length of the streak.
- `Inventory`: every snapshot in the builder, on the wire or in the table is one
  of the scans, which may be incomplete.
- `Sessions`: the times of failures are in order, so what `evict` leaves is the
  window; the failures in it and the requests under way are counted together.
- `MetricsBatcher`: table, buffer and channel, in this order, are one increasing
  list.
- `KillByIdentity`: a killer that is killing looked up a process that matched, if
  that process still has the PID (`LookedUp`), and one that goes on to the sweep or
  to a report of success has seen the process of the decision end
  (`EndedWhereSeen`).
- `CommandApi`: the rows there are are those of the targets done, less those that
  failed or whose PC was deleted, and the line of `command_requests` comes last.
- `Catalog`: a path that only one handler resolves at a time has at most one link,
  and the handler that is about to add one has seen that there is none.
- `Watchers`: the streak of a device is at most the polls it really missed, and a
  removal on its way to the server carries a full streak.
- `PolicyMatch` and `SoftwareRules` have invariants that only type their table;
  the work is in the loops.
- `ServicesTypeHolds` and `RulesTypeHolds` are about the specifications of the two
  runs, in which one module moves at a time: a step of the run is a step or a
  stutter of each module. The type invariants say more than types. Every metrics
  entry is in the channel, the buffer, the table or counted as lost; the rules are
  ordered by numbers none of which is given twice, also after deletions; every
  sighting names a row of the catalog, for which the handlers that are about to
  write one must have theirs (`RowsThere`); a streak belongs to a known peripheral.

Induction over data: the library's induction theorems cannot be applied here, so
`ListProofs` proves what is needed from least counterexamples. `LeastNat` finds
the first number with a property, `UpTo` turns "true at 0 and kept by each turn"
into "true at n", for a property given by a set, and `LoopExists` gives a
recursively defined function its values turn by turn. With these `FilterFacts`
characterises `Filter`, `EvaluateBest` the matcher's loop, `CompareFacts` the
comparison of versions of any length (it is the numeric order, which
`BehindTransitive` shows to be one) and `NewestRight` the fold over the fleet.

### Only model-checked

- Liveness, because fairness and `ENABLED` are beyond the prover:
  `RunningRecovered`, `ExpiringEnds`, `TrackingEnds`, `NetworkConverges`,
  `PolicyConverges`, `OfflineAlerted`, `InventoryConverges`.
- The three runs that expect a violation are counterexamples found by TLC.


## 6. Not modelled

Listed with the reason in `PROJECT.json`, "components": start-up code, logging,
read-only listings, the dashboard and generated clients, Telegram and mail, the
arithmetic of Wake-on-LAN addresses, the WMI subscription and its rate limit, the
effects of Deep Freeze and OpenSSH commands, the pop-up on a USB insertion, the
actions an event's policy decision triggers, and the panic of a send on a closed
channel. Abstracted in what is modelled:
payloads, outputs and checksums; duplicate target ids in one job (their rows would
move in lock step); the text of versions, which are their numbers, and of winget's
output; the time a lease lasts (`lease_minutes`), so a non-positive setting is not
distinguished from one that runs out at once. `network_mode` commands share the
agent's queue with the commands that carry a job id; each kind is modelled with a
queue of its own; what the one does to the other is that the worker may hang. The
deletion of a PC is modelled where a property depends on what it deletes: the command
queue, the command API, its row and alerts, the inventory. `NetworkMode` and `Catalog`
do without it.

Parts of the models are there because the code does them and no property depends on
them yet: the spread of a verdict in `Catalog`, the sessions in `Sessions`, the folder,
USB and task watchers in `Watchers`. They take part in the runs through the type
invariants only. What the passing properties leave open, beside the deviations of
section 3: `MostSpecificWins` is checked on tables in the order of their ids, which is
the order the queries give, so the tie-break is not tried in any other; a PID used
again between the look-up and the `taskkill` is not told apart from one that was
not (`OnlyMatchingKilled`); `PathLinkedOnce` is about paths that two handlers never
resolve at once.

## 7. Plan

The plan for proofs is done: every safety property that a passing run checks is a
theorem. Left for the model:

1. The event actions (notify, `delete_file`) and the polling of Deep Freeze jobs.
2. The four hazards without a property: `CreateJob`'s last write, the sends on a
   channel that another goroutine closes (server and agent), and a handler that never
   returns. The code guards against none of them.
