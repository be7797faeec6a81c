----------------------------- MODULE DeployQueue -----------------------------
(***************************************************************************)
(* The server's command queue: the deploy_jobs / deploy_results tables of   *)
(* server/db.go, the Deployer of server/deploy.go that pumps, leases and    *)
(* sweeps them, the cancel and delete endpoints of server/api.go and the    *)
(* result handler of server/hub.go.                                         *)
(*                                                                          *)
(* SQLite runs on one connection, so a statement (or a transaction) is one  *)
(* atomic step; a handler that issues several statements is several steps   *)
(* and other goroutines run in between.  A deploy_results row is the pair   *)
(* (job, agent): every UPDATE of the code addresses rows by that pair.      *)
(*                                                                          *)
(* Wall-clock time is abstracted to the order of events: expiry[j] says     *)
(* where "now" stands relative to expire_at (both have one-second           *)
(* resolution, so "at" is a state of its own), and leaseOver holds the      *)
(* running rows whose lease_until has passed.                               *)
(***************************************************************************)
EXTENDS Integers, FiniteSets

CONSTANTS
  Agents,       \* agent ids
  Jobs,         \* job ids (generateJobID never repeats one)
  Goroutines,   \* identities of "go PumpAgent(...)" goroutines
  Targets,      \* Targets[j]: the agents CreateJob resolved for job j
  Destructive,  \* jobs for which shared.IsDestructivePayload holds
  Expiring,     \* jobs that carry an expire_at
  Priority,     \* Priority[j]: the priority column
  CreatedAt,    \* CreatedAt[j]: the second in which the job is created
  MaxRetry,     \* MaxRetry[j]: the max_retry column of its rows
  Reports,      \* the statuses agents report
  Cancellable,  \* jobs the admin may cancel
  Deletable,    \* agents the admin may delete
  Faults,       \* database faults considered: a subset of {"read", "write"}
  PromptPump,   \* no lease runs out between a PumpAgent's claim and its return
  FullBuffers,  \* the send buffer of a connected agent may be full
  MaxDue,       \* bound: "go PumpAgent" goroutines outstanding per agent
  MaxCrashes    \* bound: crashes of the server process

ASSUME QueueAssumptions ==
  /\ "sweep" \notin Agents \cup Jobs \cup Goroutines
  /\ Jobs \cap Goroutines = {}
  /\ Targets \in [Jobs -> SUBSET Agents]
  /\ Destructive \subseteq Jobs
  /\ Expiring \subseteq Jobs
  /\ Priority \in [Jobs -> Int]
  /\ CreatedAt \in [Jobs -> Nat]
  /\ MaxRetry \in [Jobs -> Nat]
  /\ Reports \subseteq {"success", "ok", "error", "expired"}
  /\ Cancellable \subseteq Jobs
  /\ Deletable \subseteq Agents
  /\ Faults \subseteq {"read", "write"}
  /\ PromptPump \in BOOLEAN
  /\ FullBuffers \in BOOLEAN
  /\ MaxDue \in Nat
  /\ MaxCrashes \in Nat

VARIABLES
  \* the tables
  jobStatus,    \* deploy_jobs.status, "none" before the INSERT
  status,       \* status[j][a]: deploy_results.status, "none" without a row
  retry,        \* retry[j][a]: deploy_results.retry_count
  leaseOver,    \* running rows <<j, a>> with lease_until < now
  expiry,       \* where now stands relative to the job's expire_at
  \* the goroutines of the server process
  creating,     \* creating[j]: the CreateJob call of job j
  cancelling,   \* jobs between the two statements of CancelDeployJob
  sweep,        \* the lease sweeper
  claims,       \* claims acquired by a PumpAgent that has not returned yet
  marks,        \* UpdateJobStatus calls in progress
  due,          \* due[a]: spawned "go PumpAgent(a)" that have not run yet
  \* the agents as the queue sees them
  online,       \* agents with a registered hub client
  dispatches,   \* dispatches[j][a]: number of successful sends (history)
  attempts,     \* attempts[j][a]: the attempt numbers sent (history)
  crashes

tables  == <<jobStatus, status, retry, leaseOver>>
history == <<dispatches, attempts>>
threads == <<creating, cancelling, sweep, claims, marks, due>>
vars    == <<tables, expiry, threads, online, history, crashes>>

-----------------------------------------------------------------------------
(* Types.                                                                  *)

PendingLike == {"pending", "running"}          \* isPendingLikeStatus
RowStatus   == {"none", "pending", "running", "success", "ok", "error", "expired",
                "failed", "cancelled"}
JobStatus   == {"none", "pending", "dispatched", "done", "cancelled"}

Sweeper == "sweep"
Owners  == Jobs \cup Goroutines \cup {Sweeper}

\* A row as the sweeper read it: values that may be stale when they are used.
Snapshot == [job : Jobs, agent : Agents, retry : Nat]
Claim    == [owner : Owners, job : Jobs, agent : Agents, attempt : Nat,
             pc : {"send", "release"}]
Mark     == [by : Agents \cup {Sweeper}, job : Jobs, pc : {"read", "write"}]
CreateState == [pc : {"none", "insert", "pump", "mark", "done"},
                left : SUBSET Agents]
SweepState  == [phase : {"idle", "lease", "pending"},
                todo : SUBSET Snapshot, pump : SUBSET Snapshot]

TypeOK ==
  /\ jobStatus \in [Jobs -> JobStatus]
  /\ status \in [Jobs -> [Agents -> RowStatus]]
  /\ retry \in [Jobs -> [Agents -> Nat]]
  /\ leaseOver \subseteq Jobs \X Agents
  /\ expiry \in [Jobs -> {"before", "at", "after"}]
  /\ creating \in [Jobs -> CreateState]
  /\ cancelling \subseteq Jobs
  /\ sweep \in SweepState
  /\ claims \subseteq Claim
  /\ marks \subseteq Mark
  /\ due \in [Agents -> Nat]
  /\ online \subseteq Agents
  /\ dispatches \in [Jobs -> [Agents -> Nat]]
  /\ attempts \in [Jobs -> [Agents -> SUBSET Nat]]
  /\ crashes \in Nat

Idle == [phase |-> "idle", todo |-> {}, pump |-> {}]

Init ==
  /\ jobStatus = [j \in Jobs |-> "none"]
  /\ status = [j \in Jobs |-> [a \in Agents |-> "none"]]
  /\ retry = [j \in Jobs |-> [a \in Agents |-> 0]]
  /\ leaseOver = {}
  /\ expiry = [j \in Jobs |-> "before"]
  /\ creating = [j \in Jobs |-> [pc |-> "none", left |-> {}]]
  /\ cancelling = {}
  /\ sweep = Idle
  /\ claims = {}
  /\ marks = {}
  /\ due = [a \in Agents |-> 0]
  /\ online = {}
  /\ dispatches = [j \in Jobs |-> [a \in Agents |-> 0]]
  /\ attempts = [j \in Jobs |-> [a \in Agents |-> {}]]
  /\ crashes = 0

-----------------------------------------------------------------------------
(* Statements and helpers shared by the handlers.                          *)

\* UpdateDeployResult matches the row: it exists, is not cancelled, and its
\* retry_count is the expected one where the caller fences on it.
MutRowMatches(j, a) == status[j][a] # "none"        \* guard forgotten
RowMatches(j, a) == status[j][a] \notin {"none", "cancelled"}
MutFenced(j, a, n) == RowMatches(j, a)               \* attempt not compared
Fenced(j, a, n)  == RowMatches(j, a) /\ retry[j][a] = n

\* UPDATE deploy_results SET status, retry_count, lease_until = NULL.
WriteRow(j, a, st, n) ==
  /\ status' = [status EXCEPT ![j][a] = st]
  /\ retry' = [retry EXCEPT ![j][a] = n]
  /\ leaseOver' = leaseOver \ {<<j, a>>}

\* UpdateDeployResult with no expected attempt, as the server's own
\* transitions call it; a failing statement is logged and otherwise ignored.
UpdateDeployResult(j, a, st, n) ==
  \/ RowMatches(j, a) /\ WriteRow(j, a, st, n)
  \/ /\ ~RowMatches(j, a) \/ "write" \in Faults
     /\ UNCHANGED <<status, retry, leaseOver>>

HasRunning(a) == \E j \in Jobs : status[j][a] = "running"
Claimable(a)  == {j \in Jobs : status[j][a] = "pending" /\ expiry[j] = "before"}

\* ORDER BY priority DESC, created_at ASC LIMIT 1; created_at ties are
\* broken arbitrarily.
NextJobs(a) ==
  {j \in Claimable(a) : \A k \in Claimable(a) :
      \/ Priority[k] < Priority[j]
      \/ Priority[k] = Priority[j] /\ CreatedAt[k] >= CreatedAt[j]}

MutAcquireNextJob(owner, a) ==        \* the in-flight count is not checked
  \E j \in NextJobs(a) :
    /\ status' = [status EXCEPT ![j][a] = "running"]
    /\ leaseOver' = leaseOver \ {<<j, a>>}
    /\ claims' = claims \cup {[owner |-> owner, job |-> j, agent |-> a,
                               attempt |-> retry[j][a], pc |-> "send"]}

\* One transaction: nothing to hand out, or the row turns 'running' with a
\* fresh lease.  GetDeployJobByID runs after the commit; when that read fails
\* the row stays running and nobody sends the job.
AcquireNextJob(owner, a) ==
  \/ /\ HasRunning(a) \/ NextJobs(a) = {} \/ Faults # {}
     /\ UNCHANGED <<status, leaseOver, claims>>
  \/ /\ ~HasRunning(a)
     /\ \E j \in NextJobs(a) :
          /\ status' = [status EXCEPT ![j][a] = "running"]
          /\ leaseOver' = leaseOver \ {<<j, a>>}
          /\ \/ claims' = claims \cup {[owner |-> owner, job |-> j, agent |-> a,
                                        attempt |-> retry[j][a], pc |-> "send"]}
             \/ "read" \in Faults /\ UNCHANGED claims

\* The goroutine is inside PumpAgent, holding a claim.
Pumping(owner) == \E c \in claims : c.owner = owner

AllTerminal(j) == \A a \in Agents : status[j][a] \notin PendingLike

-----------------------------------------------------------------------------
(* PumpAgent after the claim: dispatch, and release when the send failed.  *)

\* SendToAgent queued the command on the agent's connection.
Dispatch(c) ==
  /\ c \in claims /\ c.pc = "send"
  /\ c.agent \in online
  /\ claims' = claims \ {c}
  /\ dispatches' = [dispatches EXCEPT ![c.job][c.agent] = @ + 1]
  /\ attempts' = [attempts EXCEPT ![c.job][c.agent] = @ \cup {c.attempt}]
  /\ UNCHANGED <<tables, expiry, creating, cancelling, sweep, marks, due,
                 online, crashes>>

\* SendToAgent returned false: no client, or its 256-slot buffer is full.
DispatchFails(c) ==
  /\ c \in claims /\ c.pc = "send"
  /\ c.agent \notin online \/ FullBuffers
  /\ claims' = (claims \ {c}) \cup {[c EXCEPT !.pc = "release"]}
  /\ UNCHANGED <<tables, expiry, creating, cancelling, sweep, marks, due,
                 online, history, crashes>>

MutRelease(c) ==                       \* the release refunds a retry
  /\ c \in claims /\ c.pc = "release"
  /\ UpdateDeployResult(c.job, c.agent, "pending", retry[c.job][c.agent] - 1)
  /\ claims' = claims \ {c}
  /\ UNCHANGED <<jobStatus, expiry, creating, cancelling, sweep, marks, due,
                 online, history, crashes>>

\* "release the claim with no retry charged": back to pending, not fenced.
Release(c) ==
  /\ c \in claims /\ c.pc = "release"
  /\ UpdateDeployResult(c.job, c.agent, "pending", retry[c.job][c.agent])
  /\ claims' = claims \ {c}
  /\ UNCHANGED <<jobStatus, expiry, creating, cancelling, sweep, marks, due,
                 online, history, crashes>>

\* A goroutine spawned by a reconnect or by a finished command runs.
PumpAgent(g, a) ==
  /\ due[a] > 0 /\ ~Pumping(g)
  /\ due' = [due EXCEPT ![a] = @ - 1]
  /\ AcquireNextJob(g, a)
  /\ UNCHANGED <<jobStatus, retry, expiry, creating, cancelling, sweep, marks,
                 online, history, crashes>>

-----------------------------------------------------------------------------
(* CreateJob, one step per statement.                                      *)

\* InsertDeployJob.  created_at is the current second, so jobs are created in
\* the order of CreatedAt, and expire_at lies in the future.
CreateJob(j) ==
  /\ creating[j].pc = "none"
  /\ Targets[j] # {}
  /\ \A k \in Jobs : CreatedAt[k] < CreatedAt[j] => creating[k].pc # "none"
  /\ jobStatus' = [jobStatus EXCEPT ![j] = "pending"]
  /\ creating' = [creating EXCEPT ![j] = [pc |-> "insert", left |-> Targets[j]]]
  /\ UNCHANGED <<status, retry, leaseOver, expiry, cancelling, sweep, claims,
                 marks, due, online, history, crashes>>

\* InsertDeployResult for one target; a failure (an agent id that violates the
\* foreign key) is logged and the loop goes on.
InsertRow(j, a) ==
  /\ creating[j].pc = "insert" /\ a \in creating[j].left
  /\ creating' = [creating EXCEPT ![j].left = @ \ {a}]
  /\ \/ status' = [status EXCEPT ![j][a] = "pending"]
     \/ UNCHANGED status
  /\ UNCHANGED <<jobStatus, retry, leaseOver, expiry, cancelling, sweep, claims,
                 marks, due, online, history, crashes>>

StartPumping(j) ==
  /\ creating[j].pc = "insert" /\ creating[j].left = {}
  /\ creating' = [creating EXCEPT ![j] = [pc |-> "pump", left |-> Targets[j]]]
  /\ UNCHANGED <<tables, expiry, cancelling, sweep, claims, marks, due, online,
                 history, crashes>>

CreatePump(j, a) ==
  /\ creating[j].pc = "pump" /\ a \in creating[j].left /\ ~Pumping(j)
  /\ creating' = [creating EXCEPT ![j].left = @ \ {a}]
  /\ AcquireNextJob(j, a)
  /\ UNCHANGED <<jobStatus, retry, expiry, cancelling, sweep, marks, due,
                 online, history, crashes>>

\* The read of the final check: has every target moved off 'pending'?
CheckDispatched(j) ==
  /\ creating[j].pc = "pump" /\ creating[j].left = {} /\ ~Pumping(j)
  /\ \/ /\ \A a \in Agents : status[j][a] # "pending"
        /\ creating' = [creating EXCEPT ![j].pc = "mark"]
     \/ /\ (\E a \in Agents : status[j][a] = "pending") \/ "read" \in Faults
        /\ creating' = [creating EXCEPT ![j].pc = "done"]
  /\ UNCHANGED <<tables, expiry, cancelling, sweep, claims, marks, due, online,
                 history, crashes>>

\* UpdateDeployJobStatus(job, "dispatched"), whatever the status is by now.
MarkDispatched(j) ==
  /\ creating[j].pc = "mark"
  /\ creating' = [creating EXCEPT ![j].pc = "done"]
  /\ \/ jobStatus' = [jobStatus EXCEPT ![j] = "dispatched"]
     \/ "write" \in Faults /\ UNCHANGED jobStatus
  /\ UNCHANGED <<status, retry, leaseOver, expiry, cancelling, sweep, claims,
                 marks, due, online, history, crashes>>

-----------------------------------------------------------------------------
(* UpdateJobStatus: read every row of the job, then write 'done'.  Called   *)
(* by the result handler of an agent (which then spawns a pump) and by the  *)
(* sweeper.                                                                 *)

SpawnPump(m) == due' = IF m.by \in Agents THEN [due EXCEPT ![m.by] = @ + 1] ELSE due

ReadJobStatus(m) ==
  /\ m \in marks /\ m.pc = "read"
  /\ m.by = Sweeper => ~Pumping(Sweeper)
  /\ \/ /\ AllTerminal(m.job)
        /\ marks' = (marks \ {m}) \cup {[m EXCEPT !.pc = "write"]}
        /\ UNCHANGED due
     \/ /\ ~AllTerminal(m.job) \/ "read" \in Faults
        /\ marks' = marks \ {m}
        /\ SpawnPump(m)
  /\ UNCHANGED <<tables, expiry, creating, cancelling, sweep, claims, online,
                 history, crashes>>

WriteJobDone(m) ==
  /\ m \in marks /\ m.pc = "write"
  /\ marks' = marks \ {m}
  /\ SpawnPump(m)
  /\ \/ jobStatus' = [jobStatus EXCEPT ![m.job] = "done"]
     \/ "write" \in Faults /\ UNCHANGED jobStatus
  /\ UNCHANGED <<status, retry, leaseOver, expiry, creating, cancelling, sweep,
                 claims, online, history, crashes>>

-----------------------------------------------------------------------------
(* handleExecResult.  The result is fenced on the attempt it answers; one   *)
(* that matches no row is acknowledged and ignored.  The old and the new    *)
(* connection of an agent may both be delivering results.                   *)

HandleExecResult(a, j, n, st) ==
  /\ due[a] < MaxDue
  /\ Fenced(j, a, n)
  /\ WriteRow(j, a, st, n)
  /\ marks' = marks \cup {[by |-> a, job |-> j, pc |-> "read"]}
  /\ UNCHANGED <<jobStatus, expiry, creating, cancelling, sweep, claims, due,
                 online, history, crashes>>

-----------------------------------------------------------------------------
(* CancelDeployJob: two statements.  DeleteAgent: one transaction.          *)

CancelJob(j) ==
  /\ j \in Cancellable /\ creating[j].pc # "none" /\ j \notin cancelling
  /\ jobStatus' = [jobStatus EXCEPT ![j] = "cancelled"]
  /\ cancelling' = cancelling \cup {j}
  /\ UNCHANGED <<status, retry, leaseOver, expiry, creating, sweep, claims,
                 marks, due, online, history, crashes>>

CancelRows(j) ==
  /\ j \in cancelling
  /\ cancelling' = cancelling \ {j}
  /\ \/ /\ status' = [status EXCEPT ![j] = [a \in Agents |->
              IF @[a] \in PendingLike THEN "cancelled" ELSE @[a]]]
        /\ leaseOver' = leaseOver \ ({j} \X Agents)
     \/ "write" \in Faults /\ UNCHANGED <<status, leaseOver>>
  /\ UNCHANGED <<jobStatus, retry, expiry, creating, sweep, claims, marks, due,
                 online, history, crashes>>

\* The rows of the agent go; its hub client, if any, stays registered.
DeleteAgent(a) ==
  /\ a \in Deletable
  /\ status' = [j \in Jobs |-> [status[j] EXCEPT ![a] = "none"]]
  /\ retry' = [j \in Jobs |-> [retry[j] EXCEPT ![a] = 0]]
  /\ leaseOver' = leaseOver \ (Jobs \X {a})
  /\ UNCHANGED <<jobStatus, expiry, threads, online, history, crashes>>

-----------------------------------------------------------------------------
(* StartLeaseSweeper: every 30 s sweepExpiredLeases, then                   *)
(* sweepExpiredPending, in one goroutine.                                   *)

SweeperFree ==
  /\ ~Pumping(Sweeper)
  /\ \A m \in marks : m.by # Sweeper
  /\ sweep.pump = {}

Rows(R) == {[job |-> r[1], agent |-> r[2], retry |-> retry[r[1]][r[2]]] : r \in R}

\* A query either returns the rows or fails; the sweep then skips the phase.
QueryResults(R) == {Rows(R)} \cup (IF "read" \in Faults THEN {{}} ELSE {})

\* rows without retries left are not selected
MutExpiredLeases  == {r \in leaseOver : /\ status[r[1]][r[2]] = "running"
                                       /\ retry[r[1]][r[2]] < MaxRetry[r[1]]}
\* only rows never retried are selected
MutExpiredPending == {r \in Jobs \X Agents :
                        /\ status[r[1]][r[2]] = "pending"
                        /\ expiry[r[1]] = "after" /\ retry[r[1]][r[2]] = 0}

ExpiredLeases  == {r \in leaseOver : status[r[1]][r[2]] = "running"}
ExpiredPending == {r \in Jobs \X Agents :
                     status[r[1]][r[2]] = "pending" /\ expiry[r[1]] = "after"}

\* GetExpiredLeaseResults: every row is read before the first is handled.
SweepLeases ==
  /\ sweep.phase = "idle" /\ SweeperFree
  /\ \E rows \in QueryResults(ExpiredLeases) :
       sweep' = [Idle EXCEPT !.phase = "lease", !.todo = rows]
  /\ UNCHANGED <<tables, expiry, creating, cancelling, claims, marks, due,
                 online, history, crashes>>

SweepMark(e) == marks' = marks \cup {[by |-> Sweeper, job |-> e.job, pc |-> "read"]}

\* A destructive command (when its job could be read), or one without retries
\* left, is failed; UpdateDeployResult is not fenced and does not ask whether
\* the row is still running.
FailLease(e) ==
  /\ sweep.phase = "lease" /\ SweeperFree /\ e \in sweep.todo
  /\ \/ e.job \in Destructive
     \/ e.retry + 1 > MaxRetry[e.job]
  /\ UpdateDeployResult(e.job, e.agent, "failed", retry[e.job][e.agent])
  /\ sweep' = [sweep EXCEPT !.todo = @ \ {e}]
  /\ SweepMark(e)
  /\ UNCHANGED <<jobStatus, expiry, creating, cancelling, claims, due, online,
                 history, crashes>>

MutRequeueDestructive(e) ==            \* destructive commands are retried
  /\ sweep.phase = "lease" /\ SweeperFree /\ e \in sweep.todo
  /\ e.retry + 1 <= MaxRetry[e.job]
  /\ UpdateDeployResult(e.job, e.agent, "pending", e.retry + 1)
  /\ sweep' = [sweep EXCEPT !.todo = @ \ {e}, !.pump = {e}]
  /\ UNCHANGED <<jobStatus, expiry, creating, cancelling, claims, marks, due,
                 online, history, crashes>>

MutRequeueFree(e) ==                   \* no retry is charged
  /\ sweep.phase = "lease" /\ SweeperFree /\ e \in sweep.todo
  /\ e.job \notin Destructive
  /\ UpdateDeployResult(e.job, e.agent, "pending", e.retry)
  /\ sweep' = [sweep EXCEPT !.todo = @ \ {e}, !.pump = {e}]
  /\ UNCHANGED <<jobStatus, expiry, creating, cancelling, claims, marks, due,
                 online, history, crashes>>

\* Any other command is requeued with a retry charged; the agent's queue is
\* pumped next.  When the read of the job fails the sweeper cannot tell that a
\* command is destructive and takes this path.
RequeueLease(e) ==
  /\ sweep.phase = "lease" /\ SweeperFree /\ e \in sweep.todo
  /\ e.job \notin Destructive \/ "read" \in Faults
  /\ e.retry + 1 <= MaxRetry[e.job]
  /\ UpdateDeployResult(e.job, e.agent, "pending", e.retry + 1)
  /\ sweep' = [sweep EXCEPT !.todo = @ \ {e}, !.pump = {e}]
  /\ UNCHANGED <<jobStatus, expiry, creating, cancelling, claims, marks, due,
                 online, history, crashes>>

SweepPump(e) ==
  /\ e \in sweep.pump
  /\ sweep' = [sweep EXCEPT !.pump = {}]
  /\ AcquireNextJob(Sweeper, e.agent)
  /\ SweepMark(e)
  /\ UNCHANGED <<jobStatus, retry, expiry, creating, cancelling, due, online,
                 history, crashes>>

\* GetExpiredPendingResults.
SweepPending ==
  /\ sweep.phase = "lease" /\ SweeperFree /\ sweep.todo = {}
  /\ \E rows \in QueryResults(ExpiredPending) :
       sweep' = [Idle EXCEPT !.phase = "pending", !.todo = rows]
  /\ UNCHANGED <<tables, expiry, creating, cancelling, claims, marks, due,
                 online, history, crashes>>

ExpirePending(e) ==
  /\ sweep.phase = "pending" /\ SweeperFree /\ e \in sweep.todo
  /\ UpdateDeployResult(e.job, e.agent, "expired", retry[e.job][e.agent])
  /\ sweep' = [sweep EXCEPT !.todo = @ \ {e}]
  /\ SweepMark(e)
  /\ UNCHANGED <<jobStatus, expiry, creating, cancelling, claims, due, online,
                 history, crashes>>

SweepDone ==
  /\ sweep.phase = "pending" /\ SweeperFree /\ sweep.todo = {}
  /\ sweep' = Idle
  /\ UNCHANGED <<tables, expiry, creating, cancelling, claims, marks, due,
                 online, history, crashes>>

-----------------------------------------------------------------------------
(* The environment of the queue: agents, time and crashes.                  *)

\* The first metrics message of a connection registers the client and spawns
\* DispatchPending.
Connect(a) ==
  /\ due[a] < MaxDue
  /\ online' = online \cup {a}
  /\ due' = [due EXCEPT ![a] = @ + 1]
  /\ UNCHANGED <<tables, expiry, creating, cancelling, sweep, claims, marks,
                 history, crashes>>

Disconnect(a) ==
  /\ a \in online
  /\ online' = online \ {a}
  /\ UNCHANGED <<tables, expiry, threads, history, crashes>>

\* Agents answer attempts they were sent: late, repeatedly, or never.
AgentReports(a) ==
  \E j \in Jobs : \E n \in attempts[j][a], st \in Reports :
     HandleExecResult(a, j, n, st)

\* A lease lasts minutes; a PumpAgent holds its claim for one in-memory send
\* and at most one statement.  With PromptPump the model uses that.
LeasePasses(j, a) ==
  /\ status[j][a] = "running" /\ <<j, a>> \notin leaseOver
  /\ PromptPump => \A c \in claims : c.job # j \/ c.agent # a
  /\ leaseOver' = leaseOver \cup {<<j, a>>}
  /\ UNCHANGED <<jobStatus, status, retry, expiry, threads, online, history,
                 crashes>>

ExpiryPasses(j) ==
  /\ j \in Expiring /\ expiry[j] # "after" /\ jobStatus[j] # "none"
  /\ expiry' = [expiry EXCEPT ![j] = IF @ = "before" THEN "at" ELSE "after"]
  /\ UNCHANGED <<tables, threads, online, history, crashes>>

\* The server process dies and restarts: the tables survive, its goroutines
\* and its connections do not.
Crash ==
  /\ crashes < MaxCrashes
  /\ crashes' = crashes + 1
  /\ creating' = [j \in Jobs |-> IF creating[j].pc = "none" THEN creating[j]
                                 ELSE [pc |-> "done", left |-> {}]]
  /\ cancelling' = {}
  /\ sweep' = Idle
  /\ claims' = {}
  /\ marks' = {}
  /\ due' = [a \in Agents |-> 0]
  /\ online' = {}
  /\ UNCHANGED <<tables, expiry, history>>

-----------------------------------------------------------------------------
\* One PumpAgent call that holds claim c, and one spawned goroutine.
ClaimStep(c) == Dispatch(c) \/ DispatchFails(c) \/ Release(c)
PumpStep(a)  == \E g \in Goroutines : PumpAgent(g, a)

\* The CreateJob call of job j after its first statement.
CreateStep(j) ==
  \/ StartPumping(j) \/ CheckDispatched(j) \/ MarkDispatched(j)
  \/ \E a \in Agents : InsertRow(j, a) \/ CreatePump(j, a)

MarkStep(m) == ReadJobStatus(m) \/ WriteJobDone(m)

SweepStep ==
  \/ SweepLeases \/ SweepPending \/ SweepDone
  \/ \E e \in sweep.todo : FailLease(e) \/ RequeueLease(e) \/ ExpirePending(e)
  \/ \E e \in sweep.pump : SweepPump(e)

TimeStep ==
  \E j \in Jobs : ExpiryPasses(j) \/ \E a \in Agents : LeasePasses(j, a)

AdminStep ==
  \/ \E j \in Jobs : CreateJob(j) \/ CancelJob(j) \/ CancelRows(j)
  \/ \E a \in Agents : DeleteAgent(a)

AgentStep == \E a \in Agents : Connect(a) \/ Disconnect(a) \/ AgentReports(a)

Next ==
  \/ \E c \in claims : ClaimStep(c)
  \/ \E a \in Agents : PumpStep(a)
  \/ \E j \in Jobs : CreateStep(j)
  \/ \E m \in marks : MarkStep(m)
  \/ SweepStep \/ TimeStep \/ AdminStep \/ AgentStep \/ Crash

Spec == Init /\ [][Next]_vars

\* Goroutines keep running, the sweeper's ticker keeps ticking and time
\* passes.  Nothing is assumed of agents or of the admin.
Fairness ==
  /\ \A o \in Owners :
       WF_vars(\E c \in claims : c.owner = o /\ ClaimStep(c))
  /\ \A b \in Agents \cup {Sweeper} :
       WF_vars(\E m \in marks : m.by = b /\ MarkStep(m))
  /\ \A a \in Agents : WF_vars(PumpStep(a))
  /\ \A j \in Jobs : WF_vars(CreateStep(j)) /\ WF_vars(CancelRows(j))
  /\ WF_vars(SweepStep)
  /\ \A j \in Jobs : /\ WF_vars(ExpiryPasses(j))
                     /\ \A a \in Agents : WF_vars(LeasePasses(j, a))

FairSpec == Spec /\ Fairness

-----------------------------------------------------------------------------
(* Safety.                                                                 *)

\* At most one command of an agent is 'running', whichever goroutines race
\* to pump its queue (AcquireNextJob's transaction, db.go:1291).
OneRunning ==
  \A a \in Agents : \A j, k \in Jobs :
    status[j][a] = "running" /\ status[k][a] = "running" => j = k

\* A shutdown or restart is handed to an agent at most once, across lease
\* expiries, releases, late results, reconnects and server crashes
\* (sweepExpiredLeases, deploy.go:167).
DestructiveOnce ==
  \A j \in Destructive, a \in Agents : dispatches[j][a] <= 1

\* Every dispatch after the first was paid for with a retry, so a command is
\* handed out at most max_retry + 1 times; a released claim costs nothing
\* because nothing was sent (PumpAgent and sweepExpiredLeases).
DispatchesCharged ==
  \A j \in Jobs, a \in Agents : status[j][a] # "none" =>
    /\ dispatches[j][a] <= retry[j][a] + 1
    /\ retry[j][a] <= MaxRetry[j]

\* A cancelled row never changes again, except that deleting its agent
\* removes it: no late result, release or sweep revives it
\* (UpdateDeployResult's guard, db.go:1150, and AcquireNextJob).
CancelledStays ==
  [][\A j \in Jobs, a \in Agents : status[j][a] = "cancelled" =>
        status'[j][a] \in {"cancelled", "none"}]_vars

-----------------------------------------------------------------------------
(* What makes DestructiveOnce and CancelledStays inductive.                 *)

ClaimsOn(j, a) == {c \in claims : c.job = j /\ c.agent = a}

\* CreateJob has not tried to insert the row of agent a yet.
NotInserted(j, a) ==
  \/ creating[j].pc = "none"
  \/ creating[j].pc = "insert" /\ a \in creating[j].left

\* A row CreateJob has not inserted does not exist and was never claimed.
FreshRows ==
  \A j \in Jobs, a \in Agents : NotInserted(j, a) =>
    status[j][a] = "none" /\ dispatches[j][a] = 0 /\ ClaimsOn(j, a) = {}

\* A destructive command that can still be sent - its row is 'pending', or a
\* PumpAgent holds a claim on it - was never sent; it is one or the other,
\* and at most one claim is held.
SendableOnce ==
  \A j \in Destructive, a \in Agents :
    /\ status[j][a] = "pending" => dispatches[j][a] = 0 /\ ClaimsOn(j, a) = {}
    /\ ClaimsOn(j, a) # {} => dispatches[j][a] = 0
    /\ \A c, d \in ClaimsOn(j, a) : c = d

-----------------------------------------------------------------------------
(* Liveness, under Fairness and without database faults.                    *)

\* A row never stays 'running' for ever: a result, or the lease sweep after
\* an agent or server crash, moves it on (sweepExpiredLeases, deploy.go:156).
RunningRecovered ==
  \A j \in Jobs, a \in Agents :
    status[j][a] = "running" ~> status[j][a] # "running"

\* A command with an expire_at reaches a terminal state even if its agent
\* never comes back (sweepExpiredPending, deploy.go:210, with the retry limit).
ExpiringEnds ==
  \A j \in Expiring, a \in Agents :
    status[j][a] = "pending" ~> status[j][a] \notin PendingLike

-----------------------------------------------------------------------------
(* Statements the repository makes that the code does not keep.             *)

\* "A genuinely-executed one still gets reported" (deploy.go:171): a result
\* that was recorded is not overturned to 'failed' by the lease sweep.
ReportStands ==
  [][\A j \in Jobs, a \in Agents : status[j][a] \in {"success", "ok", "error"} =>
        status'[j][a] # "failed"]_vars

\* "Offline (or already-busy) agents receive it once their queue reaches it -
\* on reconnect, on lease-sweep requeue, or the moment their current command
\* finishes" (deploy.go:33): a connected, idle agent does not sit on claimable
\* work.
QueueAdvances ==
  \A a \in Agents :
    (a \in online /\ ~HasRunning(a) /\ Claimable(a) # {})
      ~> (a \notin online \/ HasRunning(a) \/ Claimable(a) = {})
=============================================================================
