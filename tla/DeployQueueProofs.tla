-------------------------- MODULE DeployQueueProofs --------------------------
(* Theorems about the command queue, for every value of its constants.      *)
EXTENDS DeployQueue, FiniteSetTheorems, TLAPS

-----------------------------------------------------------------------------
(* The lemmas about steps hold whatever an agent answers, not only for the   *)
(* statuses in Reports: CommandDeliveryProofs uses them for its agent.       *)

Answered == {"success", "ok", "error", "expired"}

\* handleExecResult records an answer to an attempt that was sent.
Answer(a) ==
  \E j \in Jobs : \E n \in attempts[j][a], st \in Answered : HandleExecResult(a, j, n, st)

QueueNext == Next \/ \E a \in Agents : Answer(a)

\* Every step of the queue is one of these,
LEMMA NextIsQueueNext == [Next]_vars => [QueueNext]_vars
BY DEF QueueNext

\* and what AgentReports records is an answer.
LEMMA ReportIsAnswer == \A a \in Agents : AgentReports(a) => Answer(a)
BY QueueAssumptions DEF AgentReports, Answer, Answered

\* UpdateJobStatus changes no row, no claim and no CreateJob, and sends nothing.
LEMMA MarkMoves ==
  ASSUME NEW m \in marks, MarkStep(m)
  PROVE  UNCHANGED <<status, retry, leaseOver, expiry, creating, cancelling, sweep, claims,
                     dispatches, attempts>>
<1>1. CASE ReadJobStatus(m)
  BY <1>1 DEF ReadJobStatus, tables, history
<1>2. CASE WriteJobDone(m)
  BY <1>2 DEF WriteJobDone, history
<1> QED
  BY <1>1, <1>2 DEF MarkStep

-----------------------------------------------------------------------------
(* Type correctness.                                                        *)

\* The initial tables and threads are well typed.
LEMMA TypeInit == Init => TypeOK
BY DEF Init, TypeOK, Idle, JobStatus, RowStatus, CreateState, SweepState

\* The two statements every handler writes rows with keep the row columns
\* typed.
LEMMA TypeRowWrite ==
  ASSUME TypeOK, NEW j \in Jobs, NEW a \in Agents,
         NEW st \in RowStatus, NEW n \in Nat,
         UpdateDeployResult(j, a, st, n) \/ WriteRow(j, a, st, n)
  PROVE  /\ status' \in [Jobs -> [Agents -> RowStatus]]
         /\ retry' \in [Jobs -> [Agents -> Nat]]
         /\ leaseOver' \subseteq Jobs \X Agents
<1>1. CASE WriteRow(j, a, st, n)
  <2>1. status' \in [Jobs -> [Agents -> RowStatus]]
    BY <1>1 DEF TypeOK, WriteRow
  <2>2. retry' \in [Jobs -> [Agents -> Nat]]
    BY <1>1 DEF TypeOK, WriteRow
  <2> QED
    BY <1>1, <2>1, <2>2 DEF TypeOK, WriteRow
<1>2. CASE UNCHANGED <<status, retry, leaseOver>>
  BY <1>2 DEF TypeOK
<1> QED
  BY <1>1, <1>2 DEF UpdateDeployResult

\* AcquireNextJob keeps rows, leases and claims typed.
LEMMA TypeAcquire ==
  ASSUME TypeOK, NEW o \in Owners, NEW a \in Agents, AcquireNextJob(o, a)
  PROVE  /\ status' \in [Jobs -> [Agents -> RowStatus]]
         /\ leaseOver' \subseteq Jobs \X Agents
         /\ claims' \subseteq Claim
<1>1. CASE UNCHANGED <<status, leaseOver, claims>>
  BY <1>1 DEF TypeOK
<1>2. CASE \E j \in NextJobs(a) :
          /\ status' = [status EXCEPT ![j][a] = "running"]
          /\ leaseOver' = leaseOver \ {<<j, a>>}
          /\ \/ claims' = claims \cup {[owner |-> o, job |-> j, agent |-> a,
                                        attempt |-> retry[j][a], pc |-> "send"]}
             \/ UNCHANGED claims
  <2>1. PICK j \in NextJobs(a) :
          /\ status' = [status EXCEPT ![j][a] = "running"]
          /\ leaseOver' = leaseOver \ {<<j, a>>}
          /\ \/ claims' = claims \cup {[owner |-> o, job |-> j, agent |-> a,
                                        attempt |-> retry[j][a], pc |-> "send"]}
             \/ UNCHANGED claims
    BY <1>2
  <2>2. j \in Jobs
    BY <2>1 DEF NextJobs, Claimable
  <2>3. status' \in [Jobs -> [Agents -> RowStatus]]
    BY <2>1, <2>2 DEF TypeOK, RowStatus
  <2>4. retry[j][a] \in Nat
    BY <2>2 DEF TypeOK
  <2>5. claims' \subseteq Claim
    BY <2>1, <2>2, <2>4 DEF TypeOK, Claim
  <2> QED
    BY <2>1, <2>3, <2>5 DEF TypeOK
<1> QED
  BY <1>1, <1>2 DEF AcquireNextJob

\* A recorded result, whatever attempt it answers.
LEMMA TypeResult ==
  ASSUME TypeOK, NEW a \in Agents, NEW j \in Jobs, NEW n \in Nat, NEW st \in RowStatus,
         HandleExecResult(a, j, n, st)
  PROVE  TypeOK'
<1>1. /\ status' \in [Jobs -> [Agents -> RowStatus]]
      /\ retry' \in [Jobs -> [Agents -> Nat]]
      /\ leaseOver' \subseteq Jobs \X Agents
  BY TypeRowWrite DEF HandleExecResult
<1>2. [by |-> a, job |-> j, pc |-> "read"] \in Mark
  BY DEF Mark
<1> QED
  BY <1>1, <1>2 DEF TypeOK, HandleExecResult, history

\* Every step of the server keeps the types.
LEMMA TypeNext == TypeOK /\ [QueueNext]_vars => TypeOK'
<1> SUFFICES ASSUME TypeOK, [QueueNext]_vars PROVE TypeOK'
  OBVIOUS
<1> USE QueueAssumptions DEF tables, history, threads
<1>1. ASSUME NEW c \in claims, ClaimStep(c) PROVE TypeOK'
  <2>0. /\ c \in Claim /\ c.owner \in Owners /\ c.job \in Jobs
        /\ c.agent \in Agents /\ c.attempt \in Nat
    BY <1>1 DEF TypeOK, Claim
  <2>1. CASE Dispatch(c)
    <3>1. dispatches' \in [Jobs -> [Agents -> Nat]]
      BY <2>0, <2>1 DEF TypeOK, Dispatch
    <3>2. attempts' \in [Jobs -> [Agents -> SUBSET Nat]]
      BY <2>0, <2>1 DEF TypeOK, Dispatch
    <3> QED
      BY <2>1, <3>1, <3>2 DEF TypeOK, Dispatch
  <2>2. CASE DispatchFails(c)
    <3>1. [c EXCEPT !.pc = "release"] \in Claim
      BY <2>0 DEF Claim
    <3> QED
      BY <2>2, <3>1 DEF TypeOK, DispatchFails
  <2>3. CASE Release(c)
    <3>1. /\ "pending" \in RowStatus
          /\ retry[c.job][c.agent] \in Nat
      BY <2>0 DEF TypeOK, RowStatus
    <3>2. UpdateDeployResult(c.job, c.agent, "pending", retry[c.job][c.agent])
      BY <2>3 DEF Release
    <3>3. /\ status' \in [Jobs -> [Agents -> RowStatus]]
          /\ retry' \in [Jobs -> [Agents -> Nat]]
          /\ leaseOver' \subseteq Jobs \X Agents
      BY <2>0, <3>1, <3>2, TypeRowWrite
    <3> QED
      BY <2>3, <3>3 DEF TypeOK, Release
  <2> QED
    BY <1>1, <2>1, <2>2, <2>3 DEF ClaimStep
<1>2. ASSUME NEW a \in Agents, NEW g \in Goroutines, PumpAgent(g, a) PROVE TypeOK'
  <2>1. /\ status' \in [Jobs -> [Agents -> RowStatus]]
        /\ leaseOver' \subseteq Jobs \X Agents
        /\ claims' \subseteq Claim
    BY <1>2, TypeAcquire DEF PumpAgent, Owners
  <2>2. due' \in [Agents -> Nat]
    BY <1>2 DEF PumpAgent, TypeOK
  <2> QED
    BY <1>2, <2>1, <2>2 DEF PumpAgent, TypeOK
<1>3. ASSUME NEW j \in Jobs, CreateStep(j) PROVE TypeOK'
  <2>0. /\ creating[j] \in CreateState
        /\ [pc |-> "pump", left |-> Targets[j]] \in CreateState
        /\ [creating[j] EXCEPT !.pc = "mark"] \in CreateState
        /\ [creating[j] EXCEPT !.pc = "done"] \in CreateState
        /\ \A a \in Agents :
             [creating[j] EXCEPT !.left = creating[j].left \ {a}] \in CreateState
    <3>1. creating[j] \in CreateState /\ Targets[j] \in SUBSET Agents
      BY DEF TypeOK
    <3> QED
      BY <3>1 DEF CreateState
  <2>1. CASE StartPumping(j)
    BY <2>0, <2>1 DEF TypeOK, StartPumping
  <2>2. CASE CheckDispatched(j)
    <3>1. \/ creating' = [creating EXCEPT ![j].pc = "mark"]
          \/ creating' = [creating EXCEPT ![j].pc = "done"]
      BY <2>2 DEF CheckDispatched
    <3>2. creating' \in [Jobs -> CreateState]
      <4>1. CASE creating' = [creating EXCEPT ![j].pc = "mark"]
        BY <2>0, <4>1 DEF TypeOK
      <4>2. CASE creating' = [creating EXCEPT ![j].pc = "done"]
        BY <2>0, <4>2 DEF TypeOK
      <4> QED
        BY <3>1, <4>1, <4>2
    <3> QED
      BY <2>2, <3>2 DEF TypeOK, CheckDispatched
  <2>3. CASE MarkDispatched(j)
    <3>1. jobStatus' \in [Jobs -> JobStatus]
      BY <2>3 DEF TypeOK, MarkDispatched, JobStatus
    <3> QED
      BY <2>0, <2>3, <3>1 DEF TypeOK, MarkDispatched
  <2>4. ASSUME NEW a \in Agents, InsertRow(j, a) PROVE TypeOK'
    <3>1. status' \in [Jobs -> [Agents -> RowStatus]]
      <4>1. "pending" \in RowStatus
        BY DEF RowStatus
      <4>2. CASE status' = [status EXCEPT ![j][a] = "pending"]
        BY <4>1, <4>2 DEF TypeOK
      <4>3. CASE status' = status
        BY <4>3 DEF TypeOK
      <4> QED
        BY <2>4, <4>2, <4>3 DEF InsertRow
    <3>2. creating' \in [Jobs -> CreateState]
      BY <2>0, <2>4 DEF TypeOK, InsertRow
    <3> QED
      BY <2>4, <3>1, <3>2 DEF TypeOK, InsertRow
  <2>5. ASSUME NEW a \in Agents, CreatePump(j, a) PROVE TypeOK'
    <3>1. /\ status' \in [Jobs -> [Agents -> RowStatus]]
          /\ leaseOver' \subseteq Jobs \X Agents
          /\ claims' \subseteq Claim
      BY <2>5, TypeAcquire DEF CreatePump, Owners
    <3>2. creating' \in [Jobs -> CreateState]
      BY <2>0, <2>5 DEF TypeOK, CreatePump
    <3> QED
      BY <2>5, <3>1, <3>2 DEF TypeOK, CreatePump
  <2> QED
    BY <1>3, <2>1, <2>2, <2>3, <2>4, <2>5 DEF CreateStep
<1>4. ASSUME NEW m \in marks, MarkStep(m) PROVE TypeOK'
  <2>0. m \in Mark /\ m.job \in Jobs /\ m.by \in Agents \cup {Sweeper}
    BY DEF TypeOK, Mark
  <2>1. SpawnPump(m) => due' \in [Agents -> Nat]
    BY DEF SpawnPump, TypeOK
  <2>2. CASE ReadJobStatus(m)
    <3>1. [m EXCEPT !.pc = "write"] \in Mark
      BY <2>0 DEF Mark
    <3> QED
      BY <2>1, <2>2, <3>1 DEF TypeOK, ReadJobStatus
  <2>3. CASE WriteJobDone(m)
    BY <2>0, <2>1, <2>3 DEF TypeOK, WriteJobDone, JobStatus
  <2> QED
    BY <1>4, <2>2, <2>3 DEF MarkStep
<1>5. CASE SweepStep
  <2>1. ASSUME NEW R \in SUBSET (Jobs \X Agents) PROVE
          \A rows \in QueryResults(R) : rows \subseteq Snapshot
    <3>1. \A r \in R : r[1] \in Jobs /\ r[2] \in Agents
      BY <2>1
    <3>2. Rows(R) \subseteq Snapshot
      BY <3>1 DEF Rows, Snapshot, TypeOK
    <3> QED
      BY <3>2 DEF QueryResults
  <2>2. \A e \in Snapshot : SweepMark(e) => marks' \subseteq Mark
    BY DEF SweepMark, Mark, Snapshot, TypeOK
  <2>3. \A e \in sweep.todo \cup sweep.pump :
          e \in Snapshot /\ e.job \in Jobs /\ e.agent \in Agents /\ e.retry \in Nat
    BY DEF TypeOK, Snapshot, SweepState
  <2>12. \A T, P \in SUBSET Snapshot :
           /\ [sweep EXCEPT !.todo = T] \in SweepState
           /\ [sweep EXCEPT !.pump = P] \in SweepState
           /\ [sweep EXCEPT !.todo = T, !.pump = P] \in SweepState
    BY DEF TypeOK, SweepState
  <2>13. \A e \in sweep.todo \cup sweep.pump :
           sweep.todo \ {e} \in SUBSET Snapshot /\ {e} \in SUBSET Snapshot
    BY <2>3 DEF TypeOK, SweepState
  <2>4. {"pending", "failed", "expired"} \subseteq RowStatus
    BY DEF RowStatus
  <2>5. CASE SweepLeases
    <3>1. ExpiredLeases \in SUBSET (Jobs \X Agents)
      BY DEF ExpiredLeases, TypeOK
    <3>2. PICK rows \in QueryResults(ExpiredLeases) :
             sweep' = [Idle EXCEPT !.phase = "lease", !.todo = rows]
      BY <2>5 DEF SweepLeases
    <3>3. sweep' = [phase |-> "lease", todo |-> rows, pump |-> {}]
      BY <3>2 DEF Idle
    <3>4. rows \subseteq Snapshot
      BY <2>1, <3>1, <3>2
    <3>5. sweep' \in SweepState
      BY <3>3, <3>4 DEF SweepState
    <3> QED
      BY <2>5, <3>5 DEF SweepLeases, TypeOK
  <2>6. CASE SweepPending
    <3>1. ExpiredPending \in SUBSET (Jobs \X Agents)
      BY DEF ExpiredPending
    <3>2. PICK rows \in QueryResults(ExpiredPending) :
             sweep' = [Idle EXCEPT !.phase = "pending", !.todo = rows]
      BY <2>6 DEF SweepPending
    <3>3. sweep' = [phase |-> "pending", todo |-> rows, pump |-> {}]
      BY <3>2 DEF Idle
    <3>4. rows \subseteq Snapshot
      BY <2>1, <3>1, <3>2
    <3>5. sweep' \in SweepState
      BY <3>3, <3>4 DEF SweepState
    <3> QED
      BY <2>6, <3>5 DEF SweepPending, TypeOK
  <2>7. CASE SweepDone
    BY <2>7 DEF SweepDone, Idle, TypeOK, SweepState
  <2>8. ASSUME NEW e \in sweep.todo, FailLease(e) PROVE TypeOK'
    <3>1. /\ status' \in [Jobs -> [Agents -> RowStatus]]
          /\ retry' \in [Jobs -> [Agents -> Nat]]
          /\ leaseOver' \subseteq Jobs \X Agents
      <4>1. retry[e.job][e.agent] \in Nat
        BY <2>3, <2>8 DEF TypeOK
      <4> QED
        BY <2>3, <2>4, <2>8, <4>1, TypeRowWrite DEF FailLease
    <3> QED
      BY <2>2, <2>3, <2>8, <2>12, <2>13, <3>1 DEF FailLease, TypeOK
  <2>9. ASSUME NEW e \in sweep.todo, RequeueLease(e) PROVE TypeOK'
    <3>1. /\ status' \in [Jobs -> [Agents -> RowStatus]]
          /\ retry' \in [Jobs -> [Agents -> Nat]]
          /\ leaseOver' \subseteq Jobs \X Agents
      <4>1. e.retry + 1 \in Nat
        BY <2>3, <2>9
      <4> QED
        BY <2>3, <2>4, <2>9, <4>1, TypeRowWrite DEF RequeueLease
    <3> QED
      BY <2>9, <2>12, <2>13, <3>1 DEF RequeueLease, TypeOK
  <2>10. ASSUME NEW e \in sweep.pump, SweepPump(e) PROVE TypeOK'
    <3>1. /\ status' \in [Jobs -> [Agents -> RowStatus]]
          /\ leaseOver' \subseteq Jobs \X Agents
          /\ claims' \subseteq Claim
      BY <2>3, <2>10, TypeAcquire DEF SweepPump, Owners
    <3> QED
      BY <2>2, <2>3, <2>10, <2>12, <2>13, <3>1 DEF SweepPump, TypeOK
  <2>11. ASSUME NEW e \in sweep.todo, ExpirePending(e) PROVE TypeOK'
    <3>1. /\ status' \in [Jobs -> [Agents -> RowStatus]]
          /\ retry' \in [Jobs -> [Agents -> Nat]]
          /\ leaseOver' \subseteq Jobs \X Agents
      <4>1. retry[e.job][e.agent] \in Nat
        BY <2>3, <2>11 DEF TypeOK
      <4> QED
        BY <2>3, <2>4, <2>11, <4>1, TypeRowWrite DEF ExpirePending
    <3> QED
      BY <2>2, <2>3, <2>11, <2>12, <2>13, <3>1 DEF ExpirePending, TypeOK
  <2> QED
    BY <1>5, <2>5, <2>6, <2>7, <2>8, <2>9, <2>10, <2>11 DEF SweepStep
<1>6. CASE TimeStep
  <2>1. ASSUME NEW j \in Jobs, ExpiryPasses(j) PROVE TypeOK'
    BY <2>1 DEF ExpiryPasses, TypeOK
  <2>2. ASSUME NEW j \in Jobs, NEW a \in Agents, LeasePasses(j, a) PROVE TypeOK'
    BY <2>2 DEF LeasePasses, TypeOK
  <2> QED
    BY <1>6, <2>1, <2>2 DEF TimeStep
<1>7. CASE AdminStep
  <2>1. ASSUME NEW j \in Jobs, CreateJob(j) PROVE TypeOK'
    <3>1. Targets[j] \subseteq Agents
      OBVIOUS
    <3> QED
      BY <2>1, <3>1 DEF CreateJob, TypeOK, JobStatus, CreateState
  <2>2. ASSUME NEW j \in Jobs, CancelJob(j) PROVE TypeOK'
    BY <2>2 DEF CancelJob, TypeOK, JobStatus
  <2>3. ASSUME NEW j \in Jobs, CancelRows(j) PROVE TypeOK'
    <3>1. status' \in [Jobs -> [Agents -> RowStatus]]
      <4>1. "cancelled" \in RowStatus
        BY DEF RowStatus
      <4>2. \A a \in Agents : status[j][a] \in RowStatus
        BY <2>3 DEF TypeOK
      <4>3. [a \in Agents |-> IF status[j][a] \in PendingLike THEN "cancelled"
                              ELSE status[j][a]] \in [Agents -> RowStatus]
        BY <4>1, <4>2
      <4> QED
        <5>1. PICK f \in [Agents -> RowStatus] :
                f = [a \in Agents |-> IF status[j][a] \in PendingLike THEN "cancelled"
                                      ELSE status[j][a]]
          BY <4>3
        <5>2. status \in [Jobs -> [Agents -> RowStatus]]
          BY DEF TypeOK
        <5>3. status' = [status EXCEPT ![j] = f] \/ status' = status
          BY <2>3, <5>1, <5>2 DEF CancelRows
        <5> QED
          BY <5>2, <5>3
    <3> QED
      BY <2>3, <3>1 DEF CancelRows, TypeOK
  <2>4. ASSUME NEW a \in Agents, DeleteAgent(a) PROVE TypeOK'
    <3>1. status' \in [Jobs -> [Agents -> RowStatus]]
      BY <2>4 DEF TypeOK, DeleteAgent, RowStatus
    <3>2. retry' \in [Jobs -> [Agents -> Nat]]
      BY <2>4 DEF TypeOK, DeleteAgent
    <3> QED
      BY <2>4, <3>1, <3>2 DEF DeleteAgent, TypeOK
  <2> QED
    BY <1>7, <2>1, <2>2, <2>3, <2>4 DEF AdminStep
<1>11. ASSUME NEW a \in Agents, Answer(a) PROVE TypeOK'
  <2>1. PICK j \in Jobs : \E n \in attempts[j][a], st \in Answered :
           HandleExecResult(a, j, n, st)
    BY <1>11 DEF Answer
  <2>2. PICK n \in attempts[j][a], st \in Answered : HandleExecResult(a, j, n, st)
    BY <2>1
  <2>3. attempts[j][a] \in SUBSET Nat
    BY DEF TypeOK
  <2>4. n \in Nat /\ st \in RowStatus
    BY <2>3 DEF RowStatus, Answered
  <2> QED
    BY <2>2, <2>4, TypeResult
<1>8. CASE AgentStep
  <2>1. ASSUME NEW a \in Agents, Connect(a) PROVE TypeOK'
    BY <2>1 DEF Connect, TypeOK
  <2>2. ASSUME NEW a \in Agents, Disconnect(a) PROVE TypeOK'
    BY <2>2 DEF Disconnect, TypeOK
  <2> QED
    BY <1>8, <1>11, <2>1, <2>2, ReportIsAnswer DEF AgentStep
<1>9. CASE Crash
  BY <1>9 DEF TypeOK, Crash, Idle, CreateState, SweepState
<1>10. CASE UNCHANGED vars
  BY <1>10 DEF TypeOK, vars
<1> QED
  BY <1>1, <1>2, <1>3, <1>4, <1>5, <1>6, <1>7, <1>8, <1>9, <1>10, <1>11
     DEF QueueNext, Next, PumpStep

\* The tables, the goroutines and the histories are well typed in every
\* reachable state (jobStatus, status, retry, the leases and the claims).
THEOREM TypeCorrect == Spec => []TypeOK
BY TypeInit, TypeNext, NextIsQueueNext, PTL DEF Spec

-----------------------------------------------------------------------------
(* What one step may do to the row of job j on agent a: its status, the      *)
(* number of times it was sent, and the claims held on it.                   *)

RowSame(j, a) ==
  /\ status'[j][a] = status[j][a]
  /\ dispatches'[j][a] = dispatches[j][a]
  /\ ClaimsOn(j, a)' = ClaimsOn(j, a)

RowInserted(j, a) ==
  /\ NotInserted(j, a) /\ ~NotInserted(j, a)'
  /\ status'[j][a] = "pending"
  /\ dispatches'[j][a] = dispatches[j][a]
  /\ ClaimsOn(j, a)' = ClaimsOn(j, a)

RowClaimed(j, a) ==
  /\ status[j][a] = "pending" /\ status'[j][a] = "running"
  /\ \A k \in Jobs : status[k][a] # "running"
  /\ \A k \in Jobs : k # j => status'[k][a] = status[k][a]
  /\ dispatches'[j][a] = dispatches[j][a]
  /\ \/ ClaimsOn(j, a)' = ClaimsOn(j, a)
     \/ \E c \in claims' : ClaimsOn(j, a)' = ClaimsOn(j, a) \cup {c}

RowSent(j, a) ==
  /\ status'[j][a] = status[j][a]
  /\ dispatches'[j][a] = dispatches[j][a] + 1
  /\ \E c \in ClaimsOn(j, a) : ClaimsOn(j, a)' = ClaimsOn(j, a) \ {c}

RowUnsent(j, a) ==
  /\ status'[j][a] = status[j][a]
  /\ dispatches'[j][a] = dispatches[j][a]
  /\ \E c \in ClaimsOn(j, a) : \E d \in claims' :
       ClaimsOn(j, a)' = (ClaimsOn(j, a) \ {c}) \cup {d}

RowReleased(j, a) ==
  /\ \/ status'[j][a] = status[j][a]
     \/ status[j][a] \notin {"none", "cancelled"} /\ status'[j][a] = "pending"
  /\ dispatches'[j][a] = dispatches[j][a]
  /\ \E c \in ClaimsOn(j, a) : ClaimsOn(j, a)' = ClaimsOn(j, a) \ {c}

\* RequeueLease writes the row from its snapshot e and is done with e.
Requeued(j, a) ==
  \E e \in sweep.todo :
    /\ sweep.phase = "lease" /\ e \notin sweep'.todo
    /\ e.job = j /\ e.agent = a
    /\ status[j][a] # "none" /\ e.retry + 1 <= MaxRetry[j]
    /\ retry'[j][a] = e.retry + 1

\* A row is written by a result that answers its current attempt, or by the
\* sweeper from its list.
WriterKnown(j, a) ==
  \/ retry[j][a] \in attempts[j][a]
  \/ \E e \in sweep.todo : e.job = j /\ e.agent = a

RowWritten(j, a) ==
  /\ status[j][a] \notin {"none", "cancelled"} /\ WriterKnown(j, a)
  /\ \/ status'[j][a] \in {"success", "ok", "error", "expired", "failed"}
     \/ /\ status'[j][a] = "pending" /\ Requeued(j, a)
        /\ j \notin Destructive \/ "read" \in Faults
  /\ dispatches'[j][a] = dispatches[j][a]
  /\ ClaimsOn(j, a)' = ClaimsOn(j, a)

RowCancelled(j, a) ==
  /\ status[j][a] \in PendingLike /\ status'[j][a] = "cancelled"
  /\ dispatches'[j][a] = dispatches[j][a]
  /\ ClaimsOn(j, a)' = ClaimsOn(j, a)

RowDeleted(j, a) ==
  /\ status'[j][a] = "none"
  /\ dispatches'[j][a] = dispatches[j][a]
  /\ ClaimsOn(j, a)' = ClaimsOn(j, a)

RowForgotten(j, a) ==
  /\ status'[j][a] = status[j][a]
  /\ dispatches'[j][a] = dispatches[j][a]
  /\ ClaimsOn(j, a)' = {}

RowStep(j, a) ==
  \/ RowSame(j, a) \/ RowInserted(j, a) \/ RowClaimed(j, a) \/ RowSent(j, a)
  \/ RowUnsent(j, a) \/ RowReleased(j, a) \/ RowWritten(j, a)
  \/ RowCancelled(j, a) \/ RowDeleted(j, a) \/ RowForgotten(j, a)

\* A step that leaves the rows, the claims and the sends alone.
LEMMA RowsUntouched ==
  ASSUME status' = status, dispatches' = dispatches, claims' = claims
  PROVE  \A j \in Jobs, a \in Agents : RowSame(j, a)
BY DEF RowSame, ClaimsOn

\* AcquireNextJob claims one pending row of an agent with nothing running, or
\* does nothing.
LEMMA RowAcquire ==
  ASSUME TypeOK, NEW o \in Owners, NEW b \in Agents, AcquireNextJob(o, b),
         dispatches' = dispatches, NEW j \in Jobs, NEW a \in Agents
  PROVE  RowSame(j, a) \/ RowClaimed(j, a)
<1>1. CASE UNCHANGED <<status, leaseOver, claims>>
  BY <1>1, RowsUntouched
<1>2. CASE /\ ~HasRunning(b)
           /\ \E k \in NextJobs(b) :
               /\ status' = [status EXCEPT ![k][b] = "running"]
               /\ \/ claims' = claims \cup {[owner |-> o, job |-> k, agent |-> b,
                                             attempt |-> retry[k][b], pc |-> "send"]}
                  \/ UNCHANGED claims
  <2>1. PICK k \in NextJobs(b) :
               /\ status' = [status EXCEPT ![k][b] = "running"]
               /\ \/ claims' = claims \cup {[owner |-> o, job |-> k, agent |-> b,
                                             attempt |-> retry[k][b], pc |-> "send"]}
                  \/ UNCHANGED claims
    BY <1>2
  <2>2. k \in Jobs /\ status[k][b] = "pending"
    BY <2>1 DEF NextJobs, Claimable
  <2>3. \A i \in Jobs : status[i][b] # "running"
    BY <1>2 DEF HasRunning
  <2>4. CASE k = j /\ b = a
    <3>1. status'[j][a] = "running" /\ \A i \in Jobs : i # j => status'[i][a] = status[i][a]
      BY <2>1, <2>2, <2>4 DEF TypeOK
    <3>2. CASE UNCHANGED claims
      BY <2>2, <2>3, <2>4, <3>1, <3>2 DEF RowClaimed, ClaimsOn
    <3>3. CASE claims' = claims \cup {[owner |-> o, job |-> k, agent |-> b,
                                       attempt |-> retry[k][b], pc |-> "send"]}
      <4> DEFINE c == [owner |-> o, job |-> k, agent |-> b,
                       attempt |-> retry[k][b], pc |-> "send"]
      <4>1. c.job = j /\ c.agent = a /\ claims' = claims \cup {c}
        BY <2>4, <3>3
      <4> HIDE DEF c
      <4>2. c \in claims' /\ ClaimsOn(j, a)' = ClaimsOn(j, a) \cup {c}
        BY <4>1 DEF ClaimsOn
      <4> QED
        BY <2>2, <2>3, <2>4, <3>1, <4>2 DEF RowClaimed
    <3> QED
      BY <2>1, <3>2, <3>3
  <2>5. CASE ~(k = j /\ b = a)
    <3>1. status'[j][a] = status[j][a]
      BY <2>1, <2>2, <2>5 DEF TypeOK
    <3>2. CASE UNCHANGED claims
      BY <3>1, <3>2 DEF RowSame, ClaimsOn
    <3>3. CASE claims' = claims \cup {[owner |-> o, job |-> k, agent |-> b,
                                       attempt |-> retry[k][b], pc |-> "send"]}
      <4> DEFINE c == [owner |-> o, job |-> k, agent |-> b,
                       attempt |-> retry[k][b], pc |-> "send"]
      <4>1. ~(c.job = j /\ c.agent = a) /\ claims' = claims \cup {c}
        BY <2>5, <3>3
      <4> HIDE DEF c
      <4>2. ClaimsOn(j, a)' = ClaimsOn(j, a)
        BY <4>1 DEF ClaimsOn
      <4> QED
        BY <3>1, <4>2 DEF RowSame
    <3> QED
      BY <2>1, <3>2, <3>3
  <2> QED
    BY <2>4, <2>5
<1> QED
  BY <1>1, <1>2 DEF AcquireNextJob

\* UpdateDeployResult touches one row: it leaves it, or writes it unless it is
\* missing or cancelled.
LEMMA RowUpdate ==
  ASSUME TypeOK, NEW k \in Jobs, NEW b \in Agents, NEW st, NEW n,
         UpdateDeployResult(k, b, st, n) \/ (RowMatches(k, b) /\ WriteRow(k, b, st, n)),
         NEW j \in Jobs, NEW a \in Agents
  PROVE  \/ status'[j][a] = status[j][a] /\ retry'[j][a] = retry[j][a]
         \/ /\ k = j /\ b = a /\ status'[j][a] = st /\ retry'[j][a] = n
            /\ status[j][a] \notin {"none", "cancelled"}
<1>1. CASE UNCHANGED <<status, retry, leaseOver>>
  BY <1>1
<1>2. CASE RowMatches(k, b) /\ WriteRow(k, b, st, n)
  BY <1>2 DEF RowMatches, WriteRow, TypeOK
<1> QED
  BY <1>1, <1>2 DEF UpdateDeployResult

\* RequeueLease is done with its snapshot.
LEMMA RequeueDone ==
  ASSUME TypeOK, NEW e \in sweep.todo, RequeueLease(e)
  PROVE  /\ sweep.phase = "lease" /\ e.retry + 1 <= MaxRetry[e.job]
         /\ sweep'.phase = "lease" /\ sweep'.todo = sweep.todo \ {e}
BY DEF RequeueLease, TypeOK, SweepState

\* A result that is recorded changes a row only in the ways of RowStep.
LEMMA RowResult ==
  ASSUME TypeOK, NEW k \in Jobs, NEW b \in Agents, NEW n \in attempts[k][b],
         NEW st \in Answered, HandleExecResult(b, k, n, st), NEW j \in Jobs, NEW a \in Agents
  PROVE  RowStep(j, a)
<1>1. /\ dispatches' = dispatches /\ ClaimsOn(j, a)' = ClaimsOn(j, a)
      /\ RowMatches(k, b) /\ WriteRow(k, b, st, n) /\ retry[k][b] = n
  BY DEF HandleExecResult, Fenced, ClaimsOn, history
<1>2. \/ status'[j][a] = status[j][a]
      \/ /\ k = j /\ b = a /\ status'[j][a] = st
         /\ status[j][a] \notin {"none", "cancelled"}
  BY <1>1, RowUpdate
<1> QED
  BY <1>1, <1>2 DEF RowStep, RowSame, RowWritten, WriterKnown, Answered

\* Every step does one of these things to every row.
LEMMA RowNext ==
  TypeOK /\ [QueueNext]_vars => \A j \in Jobs, a \in Agents : RowStep(j, a)
<1> SUFFICES ASSUME TypeOK, [QueueNext]_vars, NEW j \in Jobs, NEW a \in Agents
             PROVE  RowStep(j, a)
  OBVIOUS
<1> USE QueueAssumptions DEF tables, history, threads
<1>0. ASSUME status' = status, dispatches' = dispatches, claims' = claims
      PROVE  RowStep(j, a)
  BY <1>0, RowsUntouched DEF RowStep
<1>1. ASSUME NEW c \in claims, ClaimStep(c) PROVE RowStep(j, a)
  <2>0. c.job \in Jobs /\ c.agent \in Agents /\ c \in Claim
    BY <1>1 DEF TypeOK, Claim
  <2>1. CASE Dispatch(c)
    <3>1. status' = status /\ claims' = claims \ {c}
      BY <2>1 DEF Dispatch
    <3>2. CASE c.job = j /\ c.agent = a
      <4>1. dispatches'[j][a] = dispatches[j][a] + 1
        BY <2>0, <2>1, <3>2 DEF Dispatch, TypeOK
      <4>2. c \in ClaimsOn(j, a) /\ ClaimsOn(j, a)' = ClaimsOn(j, a) \ {c}
        BY <3>1, <3>2 DEF ClaimsOn
      <4> QED
        BY <3>1, <4>1, <4>2 DEF RowStep, RowSent
    <3>3. CASE ~(c.job = j /\ c.agent = a)
      <4>1. dispatches'[j][a] = dispatches[j][a]
        BY <2>0, <2>1, <3>3 DEF Dispatch, TypeOK
      <4>2. ClaimsOn(j, a)' = ClaimsOn(j, a)
        BY <3>1, <3>3 DEF ClaimsOn
      <4> QED
        BY <3>1, <4>1, <4>2 DEF RowStep, RowSame
    <3> QED
      BY <3>2, <3>3
  <2>2. CASE DispatchFails(c)
    <3> DEFINE d == [c EXCEPT !.pc = "release"]
    <3>1. /\ status' = status /\ dispatches' = dispatches
          /\ claims' = (claims \ {c}) \cup {d}
      BY <2>2 DEF DispatchFails
    <3>2. d.job = c.job /\ d.agent = c.agent
      BY <2>0 DEF Claim
    <3> HIDE DEF d
    <3>3. CASE c.job = j /\ c.agent = a
      <4>1. /\ c \in ClaimsOn(j, a) /\ d \in claims'
            /\ ClaimsOn(j, a)' = (ClaimsOn(j, a) \ {c}) \cup {d}
        BY <3>1, <3>2, <3>3 DEF ClaimsOn
      <4> QED
        BY <3>1, <4>1 DEF RowStep, RowUnsent
    <3>4. CASE ~(c.job = j /\ c.agent = a)
      <4>1. ClaimsOn(j, a)' = ClaimsOn(j, a)
        BY <3>1, <3>2, <3>4 DEF ClaimsOn
      <4> QED
        BY <3>1, <4>1 DEF RowStep, RowSame
    <3> QED
      BY <3>3, <3>4
  <2>3. CASE Release(c)
    <3>1. /\ dispatches' = dispatches /\ claims' = claims \ {c}
          /\ UpdateDeployResult(c.job, c.agent, "pending", retry[c.job][c.agent])
      BY <2>3 DEF Release
    <3>2. \/ status'[j][a] = status[j][a]
          \/ /\ c.job = j /\ c.agent = a /\ status'[j][a] = "pending"
             /\ status[j][a] \notin {"none", "cancelled"}
      BY <2>0, <3>1, RowUpdate
    <3>3. CASE c.job = j /\ c.agent = a
      <4>1. c \in ClaimsOn(j, a) /\ ClaimsOn(j, a)' = ClaimsOn(j, a) \ {c}
        BY <3>1, <3>3 DEF ClaimsOn
      <4> QED
        BY <3>1, <3>2, <4>1 DEF RowStep, RowReleased
    <3>4. CASE ~(c.job = j /\ c.agent = a)
      <4>1. ClaimsOn(j, a)' = ClaimsOn(j, a)
        BY <3>1, <3>4 DEF ClaimsOn
      <4> QED
        BY <3>1, <3>2, <3>4, <4>1 DEF RowStep, RowSame
    <3> QED
      BY <3>3, <3>4
  <2> QED
    BY <1>1, <2>1, <2>2, <2>3 DEF ClaimStep
<1>2. ASSUME NEW b \in Agents, NEW g \in Goroutines, PumpAgent(g, b)
      PROVE  RowStep(j, a)
  BY <1>2, RowAcquire DEF PumpAgent, Owners, RowStep
<1>3. ASSUME NEW k \in Jobs, CreateStep(k) PROVE RowStep(j, a)
  <2>1. CASE StartPumping(k)
    BY <1>0, <2>1 DEF StartPumping
  <2>2. CASE CheckDispatched(k)
    BY <1>0, <2>2 DEF CheckDispatched
  <2>3. CASE MarkDispatched(k)
    BY <1>0, <2>3 DEF MarkDispatched
  <2>4. ASSUME NEW b \in Agents, InsertRow(k, b) PROVE RowStep(j, a)
    <3>1. CASE status' = status
      BY <1>0, <2>4, <3>1 DEF InsertRow
    <3>2. CASE status' = [status EXCEPT ![k][b] = "pending"]
      <4>1. ClaimsOn(j, a)' = ClaimsOn(j, a) /\ dispatches' = dispatches
        BY <2>4 DEF InsertRow, ClaimsOn
      <4>2. CASE k = j /\ b = a
        <5>1. NotInserted(j, a) /\ ~NotInserted(j, a)'
          BY <2>4, <4>2 DEF InsertRow, NotInserted, TypeOK, CreateState
        <5>2. status'[j][a] = "pending"
          BY <3>2, <4>2 DEF TypeOK
        <5> QED
          BY <4>1, <5>1, <5>2 DEF RowStep, RowInserted
      <4>3. CASE ~(k = j /\ b = a)
        BY <3>2, <4>1, <4>3 DEF RowStep, RowSame, TypeOK
      <4> QED
        BY <4>2, <4>3
    <3> QED
      BY <2>4, <3>1, <3>2 DEF InsertRow
  <2>5. ASSUME NEW b \in Agents, CreatePump(k, b) PROVE RowStep(j, a)
    BY <2>5, RowAcquire DEF CreatePump, Owners, RowStep
  <2> QED
    BY <1>3, <2>1, <2>2, <2>3, <2>4, <2>5 DEF CreateStep
<1>4. ASSUME NEW m \in marks, MarkStep(m) PROVE RowStep(j, a)
  BY <1>0, <1>4 DEF MarkStep, ReadJobStatus, WriteJobDone
<1>5. CASE SweepStep
  <2>1. \A e \in sweep.todo \cup sweep.pump : e.job \in Jobs /\ e.agent \in Agents
    BY DEF TypeOK, SweepState, Snapshot
  <2>2. CASE SweepLeases \/ SweepPending \/ SweepDone
    BY <1>0, <2>2 DEF SweepLeases, SweepPending, SweepDone
  <2>3. ASSUME NEW e \in sweep.todo, FailLease(e) PROVE RowStep(j, a)
    <3>1. /\ dispatches' = dispatches /\ ClaimsOn(j, a)' = ClaimsOn(j, a)
          /\ UpdateDeployResult(e.job, e.agent, "failed", retry[e.job][e.agent])
      BY <2>3 DEF FailLease, ClaimsOn
    <3>2. \/ status'[j][a] = status[j][a]
          \/ /\ e.job = j /\ e.agent = a /\ status'[j][a] = "failed"
             /\ status[j][a] \notin {"none", "cancelled"}
      BY <2>1, <3>1, RowUpdate
    <3> QED
      BY <2>3, <3>1, <3>2 DEF RowStep, RowSame, RowWritten, WriterKnown
  <2>4. ASSUME NEW e \in sweep.todo, RequeueLease(e) PROVE RowStep(j, a)
    <3>1. /\ dispatches' = dispatches /\ ClaimsOn(j, a)' = ClaimsOn(j, a)
          /\ UpdateDeployResult(e.job, e.agent, "pending", e.retry + 1)
          /\ e.job \notin Destructive \/ "read" \in Faults
      BY <2>4 DEF RequeueLease, ClaimsOn
    <3>2. \/ status'[j][a] = status[j][a]
          \/ /\ e.job = j /\ e.agent = a /\ status'[j][a] = "pending"
             /\ status[j][a] \notin {"none", "cancelled"}
             /\ retry'[j][a] = e.retry + 1
      BY <2>1, <3>1, RowUpdate
    <3>3. /\ sweep.phase = "lease" /\ e \notin sweep'.todo
          /\ e.retry + 1 <= MaxRetry[e.job]
      BY <2>4, RequeueDone
    <3> QED
      BY <2>4, <3>1, <3>2, <3>3 DEF RowStep, RowSame, RowWritten, WriterKnown, Requeued
  <2>5. ASSUME NEW e \in sweep.todo, ExpirePending(e) PROVE RowStep(j, a)
    <3>1. /\ dispatches' = dispatches /\ ClaimsOn(j, a)' = ClaimsOn(j, a)
          /\ UpdateDeployResult(e.job, e.agent, "expired", retry[e.job][e.agent])
      BY <2>5 DEF ExpirePending, ClaimsOn
    <3>2. \/ status'[j][a] = status[j][a]
          \/ /\ e.job = j /\ e.agent = a /\ status'[j][a] = "expired"
             /\ status[j][a] \notin {"none", "cancelled"}
      BY <2>1, <3>1, RowUpdate
    <3> QED
      BY <2>5, <3>1, <3>2 DEF RowStep, RowSame, RowWritten, WriterKnown
  <2>6. ASSUME NEW e \in sweep.pump, SweepPump(e) PROVE RowStep(j, a)
    BY <2>1, <2>6, RowAcquire DEF SweepPump, Owners, RowStep
  <2> QED
    BY <1>5, <2>2, <2>3, <2>4, <2>5, <2>6 DEF SweepStep
<1>6. CASE TimeStep
  BY <1>0, <1>6 DEF TimeStep, ExpiryPasses, LeasePasses
<1>7. CASE AdminStep
  <2>1. ASSUME NEW k \in Jobs, CreateJob(k) \/ CancelJob(k) PROVE RowStep(j, a)
    BY <1>0, <2>1 DEF CreateJob, CancelJob
  <2>2. ASSUME NEW k \in Jobs, CancelRows(k) PROVE RowStep(j, a)
    <3>1. dispatches' = dispatches /\ ClaimsOn(j, a)' = ClaimsOn(j, a)
      BY <2>2 DEF CancelRows, ClaimsOn
    <3>2. \/ status'[j][a] = status[j][a]
          \/ status[j][a] \in PendingLike /\ status'[j][a] = "cancelled"
      <4> DEFINE row == [b \in Agents |-> IF status[k][b] \in PendingLike
                                        THEN "cancelled" ELSE status[k][b]]
      <4>1. status' = [status EXCEPT ![k] = row] \/ status' = status
        BY <2>2 DEF CancelRows
      <4>2. row[a] = IF status[k][a] \in PendingLike THEN "cancelled" ELSE status[k][a]
        OBVIOUS
      <4> HIDE DEF row
      <4>3. CASE status' = [status EXCEPT ![k] = row]
        BY <4>2, <4>3 DEF TypeOK
      <4> QED
        BY <4>1, <4>3
    <3> QED
      BY <3>1, <3>2 DEF RowStep, RowSame, RowCancelled
  <2>3. ASSUME NEW b \in Agents, DeleteAgent(b) PROVE RowStep(j, a)
    <3>1. dispatches' = dispatches /\ ClaimsOn(j, a)' = ClaimsOn(j, a)
      BY <2>3 DEF DeleteAgent, ClaimsOn
    <3>2. status'[j][a] = status[j][a] \/ status'[j][a] = "none"
      BY <2>3 DEF DeleteAgent, TypeOK
    <3> QED
      BY <3>1, <3>2 DEF RowStep, RowSame, RowDeleted
  <2> QED
    BY <1>7, <2>1, <2>2, <2>3 DEF AdminStep
<1>11. ASSUME NEW b \in Agents, Answer(b) PROVE RowStep(j, a)
  BY <1>11, RowResult DEF Answer
<1>8. CASE AgentStep
  <2>1. ASSUME NEW b \in Agents, Connect(b) \/ Disconnect(b) PROVE RowStep(j, a)
    BY <1>0, <2>1 DEF Connect, Disconnect
  <2> QED
    BY <1>8, <1>11, <2>1, ReportIsAnswer DEF AgentStep
<1>9. CASE Crash
  BY <1>9 DEF Crash, RowStep, RowForgotten, ClaimsOn
<1>10. CASE UNCHANGED vars
  BY <1>0, <1>10 DEF vars
<1> QED
  BY <1>1, <1>2, <1>3, <1>4, <1>5, <1>6, <1>7, <1>8, <1>9, <1>10, <1>11
     DEF QueueNext, Next, PumpStep

\* CreateJob only moves forward: a row it has inserted is never "not yet
\* inserted" again, and its loop covers each target once.
LEMMA InsertsOnce ==
  TypeOK /\ [QueueNext]_vars =>
    \A j \in Jobs, a \in Agents : NotInserted(j, a)' => NotInserted(j, a)
<1> SUFFICES ASSUME TypeOK, [QueueNext]_vars, NEW j \in Jobs, NEW a \in Agents,
                    NotInserted(j, a)'
             PROVE  NotInserted(j, a)
  OBVIOUS
<1> USE DEF threads, NotInserted
<1>1. CASE creating' = creating
  BY <1>1
<1>2. ASSUME NEW k \in Jobs, CreateStep(k) PROVE NotInserted(j, a)
  <2>1. CASE StartPumping(k)
    BY <2>1 DEF StartPumping, TypeOK, CreateState
  <2>2. CASE CheckDispatched(k)
    <3>1. ~NotInserted(k, a)
      BY <2>2 DEF CheckDispatched
    <3>2. CASE creating' = [creating EXCEPT ![k].pc = "mark"]
      BY <3>1, <3>2 DEF TypeOK, CreateState
    <3>3. CASE creating' = [creating EXCEPT ![k].pc = "done"]
      BY <3>1, <3>3 DEF TypeOK, CreateState
    <3> QED
      BY <2>2, <3>2, <3>3 DEF CheckDispatched
  <2>3. CASE MarkDispatched(k)
    BY <2>3 DEF MarkDispatched, TypeOK, CreateState
  <2>4. ASSUME NEW b \in Agents, InsertRow(k, b) PROVE NotInserted(j, a)
    BY <2>4 DEF InsertRow, TypeOK, CreateState
  <2>5. ASSUME NEW b \in Agents, CreatePump(k, b) PROVE NotInserted(j, a)
    BY <2>5 DEF CreatePump, TypeOK, CreateState
  <2> QED
    BY <1>2, <2>1, <2>2, <2>3, <2>4, <2>5 DEF CreateStep
<1>3. ASSUME NEW k \in Jobs, CreateJob(k) PROVE NotInserted(j, a)
  BY <1>3 DEF CreateJob, TypeOK
<1>4. CASE Crash
  BY <1>4 DEF Crash, TypeOK
<1>5. CASE \E c \in claims : ClaimStep(c)
  BY <1>1, <1>5 DEF ClaimStep, Dispatch, DispatchFails, Release
<1>6. CASE \E b \in Agents : PumpStep(b)
  BY <1>1, <1>6 DEF PumpStep, PumpAgent
<1>7. CASE \E m \in marks : MarkStep(m)
  <2>1. PICK m \in marks : MarkStep(m)
    BY <1>7
  <2>2. creating' = creating
    BY <2>1, MarkMoves
  <2> QED
    BY <1>1, <2>2
<1>8. CASE SweepStep
  BY <1>1, <1>8 DEF SweepStep, SweepLeases, SweepPending, SweepDone, FailLease,
                    RequeueLease, SweepPump, ExpirePending
<1>9. CASE TimeStep
  BY <1>1, <1>9 DEF TimeStep, ExpiryPasses, LeasePasses
<1>10. CASE AdminStep
  BY <1>1, <1>3, <1>10 DEF AdminStep, CancelJob, CancelRows, DeleteAgent
<1>11. CASE AgentStep
  BY <1>1, <1>11 DEF AgentStep, Connect, Disconnect, AgentReports, HandleExecResult
<1>12. CASE UNCHANGED vars
  BY <1>1, <1>12 DEF vars
<1>13. CASE \E b \in Agents : Answer(b)
  BY <1>1, <1>13 DEF Answer, HandleExecResult
<1> QED
  BY <1>2, <1>4, <1>5, <1>6, <1>7, <1>8, <1>9, <1>10, <1>11, <1>12, <1>13
     DEF QueueNext, Next

-----------------------------------------------------------------------------
(* The theorems.                                                             *)

\* AcquireNextJob's transaction keeps every agent at one running command, for
\* any number of jobs, agents and concurrent callers of PumpAgent, with
\* database faults and server crashes.
THEOREM OneRunningHolds == Spec => []OneRunning
<1>1. Init => OneRunning
  BY DEF Init, OneRunning
<1>2. TypeOK /\ OneRunning /\ [QueueNext]_vars => OneRunning'
  <2> SUFFICES ASSUME TypeOK, OneRunning, [QueueNext]_vars, NEW a \in Agents,
                      NEW j \in Jobs, NEW k \in Jobs,
                      status'[j][a] = "running", status'[k][a] = "running"
               PROVE  j = k
    BY DEF OneRunning
  <2>1. RowStep(j, a) /\ RowStep(k, a)
    BY RowNext
  <2>2. \A i \in {j, k} : status[i][a] = "running" \/ RowClaimed(i, a)
    BY <2>1 DEF RowStep, RowSame, RowInserted, RowSent, RowUnsent, RowReleased,
                RowWritten, RowCancelled, RowDeleted, RowForgotten
  <2> QED
    BY <2>2 DEF RowClaimed, OneRunning
<1> QED
  BY <1>1, <1>2, TypeCorrect, NextIsQueueNext, PTL DEF Spec

\* Rows that CreateJob has not inserted yet are untouched by a step that does one
\* of these things to every row.
LEMMA FreshRowsStep ==
  ASSUME FreshRows, NEW j \in Jobs, NEW a \in Agents, RowStep(j, a),
         NotInserted(j, a)' => NotInserted(j, a), NotInserted(j, a)'
  PROVE  status'[j][a] = "none" /\ dispatches'[j][a] = 0 /\ ClaimsOn(j, a)' = {}
<1>1. status[j][a] = "none" /\ dispatches[j][a] = 0 /\ ClaimsOn(j, a) = {}
  BY DEF FreshRows
<1> QED
  BY <1>1 DEF RowStep, RowSame, RowInserted, RowClaimed, RowSent, RowUnsent,
       RowReleased, RowWritten, RowCancelled, RowDeleted, RowForgotten, PendingLike

\* A step that changes rows as RowStep says, and inserts as CreateJob does, keeps
\* FreshRows.
LEMMA FreshRowsNext ==
  ASSUME FreshRows, \A j \in Jobs, a \in Agents : RowStep(j, a),
         \A j \in Jobs, a \in Agents : NotInserted(j, a)' => NotInserted(j, a)
  PROVE  FreshRows'
BY FreshRowsStep DEF FreshRows

\* A row that CreateJob has yet to insert does not exist.
LEMMA FreshRowsHolds == Spec => []FreshRows
<1>1. Init => FreshRows
  BY DEF Init, FreshRows, ClaimsOn
<1>2. TypeOK /\ FreshRows /\ [QueueNext]_vars => FreshRows'
  BY FreshRowsNext, InsertsOnce, RowNext
<1> QED
  BY <1>1, <1>2, TypeCorrect, NextIsQueueNext, PTL DEF Spec

\* What a step does to the row of a destructive command keeps it sendable once.
LEMMA SendableStep ==
  ASSUME TypeOK, FreshRows, DestructiveOnce, SendableOnce, "read" \notin Faults,
         NEW j \in Destructive, NEW a \in Agents, RowStep(j, a)
  PROVE  /\ dispatches'[j][a] <= 1
         /\ status'[j][a] = "pending" => dispatches'[j][a] = 0 /\ ClaimsOn(j, a)' = {}
         /\ ClaimsOn(j, a)' # {} => dispatches'[j][a] = 0
         /\ \A c, d \in ClaimsOn(j, a)' : c = d
<1>1. j \in Jobs
  BY QueueAssumptions
<1>2. RowStep(j, a)
  BY <1>1
<1>3. /\ dispatches[j][a] \in Nat /\ dispatches[j][a] <= 1
      /\ status[j][a] = "pending" => dispatches[j][a] = 0 /\ ClaimsOn(j, a) = {}
      /\ ClaimsOn(j, a) # {} => dispatches[j][a] = 0
      /\ \A c, d \in ClaimsOn(j, a) : c = d
      /\ NotInserted(j, a) =>
           status[j][a] = "none" /\ dispatches[j][a] = 0 /\ ClaimsOn(j, a) = {}
  BY <1>1 DEF TypeOK, DestructiveOnce, SendableOnce, FreshRows
<1>4. CASE RowSame(j, a)
  BY <1>3, <1>4 DEF RowSame
<1>5. CASE RowInserted(j, a)
  BY <1>3, <1>5 DEF RowInserted
<1>6. CASE RowClaimed(j, a)
  BY <1>3, <1>6 DEF RowClaimed
<1>7. CASE RowSent(j, a)
  BY <1>3, <1>7 DEF RowSent
<1>8. CASE RowUnsent(j, a)
  BY <1>3, <1>8 DEF RowUnsent
<1>9. CASE RowReleased(j, a)
  BY <1>3, <1>9 DEF RowReleased
<1>10. CASE RowWritten(j, a)
  BY <1>3, <1>10 DEF RowWritten
<1>11. CASE RowCancelled(j, a)
  BY <1>3, <1>11 DEF RowCancelled
<1>12. CASE RowDeleted(j, a)
  BY <1>3, <1>12 DEF RowDeleted
<1>13. CASE RowForgotten(j, a)
  BY <1>3, <1>13 DEF RowForgotten
<1> QED
  BY <1>2, <1>4, <1>5, <1>6, <1>7, <1>8, <1>9, <1>10, <1>11, <1>12, <1>13 DEF RowStep

\* A step that changes rows as RowStep says never sends a destructive command
\* a second time nor makes it sendable again.
LEMMA SendableNext ==
  ASSUME TypeOK, FreshRows, DestructiveOnce, SendableOnce, "read" \notin Faults,
         \A j \in Jobs, a \in Agents : RowStep(j, a)
  PROVE  DestructiveOnce' /\ SendableOnce'
<1>1. \A j \in Destructive : j \in Jobs
  BY QueueAssumptions
<1> QED
  BY <1>1, SendableStep DEF DestructiveOnce, SendableOnce

\* Unless the sweeper's read of a job can fail, a shutdown or restart is handed
\* to an agent at most once: for any number of jobs, agents, goroutines and
\* crashes, however long a PumpAgent holds its claim.
THEOREM DestructiveOnceHolds ==
  ASSUME "read" \notin Faults PROVE Spec => []DestructiveOnce
<1> DEFINE Inv == DestructiveOnce /\ SendableOnce
<1>1. Init => Inv
  BY QueueAssumptions DEF Init, DestructiveOnce, SendableOnce, ClaimsOn
<1>2. TypeOK /\ FreshRows /\ Inv /\ [QueueNext]_vars => Inv'
  BY SendableNext, RowNext
<1> QED
  BY <1>1, <1>2, TypeCorrect, FreshRowsHolds, NextIsQueueNext, PTL DEF Spec

\* No late result, release, sweep or pump revives a cancelled row.
THEOREM CancelledStaysHolds == Spec => CancelledStays
<1>1. TypeOK /\ FreshRows /\ [QueueNext]_vars =>
        [\A j \in Jobs, a \in Agents : status[j][a] = "cancelled" =>
           status'[j][a] \in {"cancelled", "none"}]_vars
  <2> SUFFICES ASSUME TypeOK, FreshRows, [QueueNext]_vars, NEW j \in Jobs, NEW a \in Agents,
                      status[j][a] = "cancelled"
               PROVE  status'[j][a] \in {"cancelled", "none"}
    OBVIOUS
  <2>1. RowStep(j, a) /\ ~NotInserted(j, a)
    BY RowNext DEF FreshRows
  <2> QED
    BY <2>1 DEF RowStep, RowSame, RowInserted, RowClaimed, RowSent, RowUnsent,
         RowReleased, RowWritten, RowCancelled, RowDeleted, RowForgotten, PendingLike
<1> QED
  BY <1>1, TypeCorrect, FreshRowsHolds, NextIsQueueNext, PTL DEF Spec, CancelledStays

-----------------------------------------------------------------------------
(* DispatchesCharged.  The sweeper requeues from a snapshot; what makes the  *)
(* charge right is that the snapshot's retry_count cannot go stale.          *)

\* While the sweeper works through the expired leases it read, the retry_count
\* of each row it still has to handle is the one it read, unless the row was
\* deleted, and it holds one snapshot per row.
SnapshotsCurrent ==
  sweep.phase = "lease" => \A e \in sweep.todo :
    /\ ~NotInserted(e.job, e.agent)
    /\ status[e.job][e.agent] # "none" => retry[e.job][e.agent] = e.retry
    /\ \A d \in sweep.todo : d.job = e.job /\ d.agent = e.agent => d = e

\* The sends made, the claims that may still send and the claim a pending row
\* is waiting for are all covered by the retries charged.
Waiting(j, a) == IF status[j][a] = "pending" THEN 1 ELSE 0
SendsPaid ==
  \A j \in Jobs, a \in Agents : status[j][a] # "none" =>
    /\ IsFiniteSet(ClaimsOn(j, a))
    /\ dispatches[j][a] + Cardinality(ClaimsOn(j, a)) + Waiting(j, a) <= retry[j][a] + 1
    /\ retry[j][a] <= MaxRetry[j]

\* No retry is charged before the row exists.
FreshRetries ==
  \A j \in Jobs, a \in Agents : NotInserted(j, a) => retry[j][a] = 0

\* Only a requeue charges a retry; only a deletion forgets the count.
LEMMA RetryNext ==
  TypeOK /\ [QueueNext]_vars =>
    \A j \in Jobs, a \in Agents :
      \/ retry'[j][a] = retry[j][a]
      \/ Requeued(j, a)
      \/ retry'[j][a] = 0 /\ status'[j][a] = "none"
<1> SUFFICES ASSUME TypeOK, [QueueNext]_vars, NEW j \in Jobs, NEW a \in Agents
             PROVE  \/ retry'[j][a] = retry[j][a]
                    \/ Requeued(j, a)
                    \/ retry'[j][a] = 0 /\ status'[j][a] = "none"
  OBVIOUS
<1> USE DEF tables, history, threads
<1>1. CASE retry' = retry
  BY <1>1
<1>2. ASSUME NEW c \in claims, ClaimStep(c) PROVE retry'[j][a] = retry[j][a]
  <2>1. c.job \in Jobs /\ c.agent \in Agents
    BY <1>2 DEF TypeOK, Claim
  <2>2. CASE Release(c)
    BY <2>1, <2>2, RowUpdate DEF Release
  <2> QED
    BY <1>2, <2>2 DEF ClaimStep, Dispatch, DispatchFails
<1>3. CASE \E b \in Agents : PumpStep(b)
  BY <1>1, <1>3 DEF PumpStep, PumpAgent
<1>4. ASSUME NEW k \in Jobs, CreateStep(k) PROVE retry' = retry
  BY <1>4 DEF CreateStep, StartPumping, CheckDispatched, MarkDispatched, InsertRow,
              CreatePump
<1>5. CASE \E m \in marks : MarkStep(m)
  BY <1>1, <1>5 DEF MarkStep, ReadJobStatus, WriteJobDone
<1>6. CASE SweepStep
  <2>1. \A e \in sweep.todo : e.job \in Jobs /\ e.agent \in Agents
    BY DEF TypeOK, SweepState, Snapshot
  <2>2. CASE SweepLeases \/ SweepPending \/ SweepDone
    BY <2>2 DEF SweepLeases, SweepPending, SweepDone
  <2>3. ASSUME NEW e \in sweep.todo, FailLease(e) PROVE retry'[j][a] = retry[j][a]
    BY <2>1, <2>3, RowUpdate DEF FailLease
  <2>4. ASSUME NEW e \in sweep.todo, ExpirePending(e) PROVE retry'[j][a] = retry[j][a]
    BY <2>1, <2>4, RowUpdate DEF ExpirePending
  <2>5. ASSUME NEW e \in sweep.todo, RequeueLease(e)
        PROVE  retry'[j][a] = retry[j][a] \/ Requeued(j, a)
    <3>1. UpdateDeployResult(e.job, e.agent, "pending", e.retry + 1)
      BY <2>5 DEF RequeueLease
    <3>2. \/ retry'[j][a] = retry[j][a]
          \/ /\ e.job = j /\ e.agent = a /\ retry'[j][a] = e.retry + 1
             /\ status[j][a] # "none"
      BY <2>1, <3>1, RowUpdate
    <3>3. /\ sweep.phase = "lease" /\ e \notin sweep'.todo
          /\ e.retry + 1 <= MaxRetry[e.job]
      BY <2>5, RequeueDone
    <3> QED
      BY <3>2, <3>3 DEF Requeued
  <2>6. ASSUME NEW e \in sweep.pump, SweepPump(e) PROVE retry' = retry
    BY <2>6 DEF SweepPump
  <2> QED
    BY <1>1, <1>6, <2>2, <2>3, <2>4, <2>5, <2>6 DEF SweepStep
<1>7. CASE TimeStep
  BY <1>1, <1>7 DEF TimeStep, ExpiryPasses, LeasePasses
<1>8. CASE AdminStep
  <2>1. ASSUME NEW k \in Jobs, CreateJob(k) \/ CancelJob(k) \/ CancelRows(k)
        PROVE  retry' = retry
    BY <2>1 DEF CreateJob, CancelJob, CancelRows
  <2>2. ASSUME NEW b \in Agents, DeleteAgent(b)
        PROVE  \/ retry'[j][a] = retry[j][a]
               \/ retry'[j][a] = 0 /\ status'[j][a] = "none"
    BY <2>2 DEF DeleteAgent, TypeOK
  <2> QED
    BY <1>8, <2>1, <2>2 DEF AdminStep
<1>11. ASSUME NEW b \in Agents, Answer(b) PROVE retry'[j][a] = retry[j][a]
  <2>1. PICK k \in Jobs : \E n \in attempts[k][b], st \in Answered :
           HandleExecResult(b, k, n, st)
    BY <1>11 DEF Answer
  <2>2. PICK n \in attempts[k][b], st \in Answered : HandleExecResult(b, k, n, st)
    BY <2>1
  <2>3. RowMatches(k, b) /\ retry[k][b] = n /\ WriteRow(k, b, st, n)
    BY <2>2 DEF HandleExecResult, Fenced
  <2> QED
    BY <2>3, RowUpdate
<1>9. CASE AgentStep
  <2>1. ASSUME NEW b \in Agents, Connect(b) \/ Disconnect(b) PROVE retry' = retry
    BY <2>1 DEF Connect, Disconnect
  <2> QED
    BY <1>9, <1>11, <2>1, ReportIsAnswer DEF AgentStep
<1>10. CASE Crash \/ UNCHANGED vars
  BY <1>1, <1>10 DEF Crash, vars
<1> QED
  BY <1>2, <1>3, <1>4, <1>5, <1>6, <1>7, <1>8, <1>9, <1>10, <1>11 DEF QueueNext, Next

\* The sweeper's list only shrinks until the next query.
LEMMA TodoNext ==
  TypeOK /\ [QueueNext]_vars =>
    \/ sweep'.phase = sweep.phase /\ sweep'.todo \subseteq sweep.todo
    \/ sweep'.todo = {}
    \/ /\ sweep'.phase = "lease" /\ sweep'.todo \subseteq Rows(ExpiredLeases)
       /\ UNCHANGED <<tables, creating, claims, expiry, history>>
    \/ /\ sweep'.phase = "pending" /\ sweep'.todo \subseteq Rows(ExpiredPending)
       /\ UNCHANGED <<tables, creating, claims, expiry, history>>
<1> SUFFICES ASSUME TypeOK, [QueueNext]_vars
             PROVE  \/ sweep'.phase = sweep.phase /\ sweep'.todo \subseteq sweep.todo
                    \/ sweep'.todo = {}
                    \/ /\ sweep'.phase = "lease" /\ sweep'.todo \subseteq Rows(ExpiredLeases)
                       /\ UNCHANGED <<tables, creating, claims, expiry, history>>
                    \/ /\ sweep'.phase = "pending" /\ sweep'.todo \subseteq Rows(ExpiredPending)
                       /\ UNCHANGED <<tables, creating, claims, expiry, history>>
  OBVIOUS
<1> USE DEF threads
<1>1. CASE sweep' = sweep
  BY <1>1
<1>2. CASE SweepLeases
  <2>1. PICK rows \in QueryResults(ExpiredLeases) :
           sweep' = [Idle EXCEPT !.phase = "lease", !.todo = rows]
    BY <1>2 DEF SweepLeases
  <2>2. sweep'.todo = rows /\ sweep'.phase = "lease"
    BY <2>1 DEF Idle
  <2>3. rows \subseteq Rows(ExpiredLeases)
    BY <2>1 DEF QueryResults
  <2> QED
    BY <1>2, <2>2, <2>3 DEF SweepLeases
<1>3. CASE SweepPending
  <2>1. PICK rows \in QueryResults(ExpiredPending) :
           sweep' = [Idle EXCEPT !.phase = "pending", !.todo = rows]
    BY <1>3 DEF SweepPending
  <2>2. sweep'.todo = rows /\ sweep'.phase = "pending"
    BY <2>1 DEF Idle
  <2>3. rows \subseteq Rows(ExpiredPending)
    BY <2>1 DEF QueryResults
  <2> QED
    BY <1>3, <2>2, <2>3 DEF SweepPending
<1>4. CASE SweepDone
  BY <1>4 DEF SweepDone, Idle
<1>5. ASSUME NEW e \in sweep.todo, FailLease(e) \/ RequeueLease(e) \/ ExpirePending(e)
      PROVE  sweep'.phase = sweep.phase /\ sweep'.todo \subseteq sweep.todo
  <2>1. CASE FailLease(e)
    BY <2>1 DEF FailLease, TypeOK, SweepState
  <2>2. CASE RequeueLease(e)
    BY <2>2, RequeueDone
  <2>3. CASE ExpirePending(e)
    BY <2>3 DEF ExpirePending, TypeOK, SweepState
  <2> QED
    BY <1>5, <2>1, <2>2, <2>3
<1>6. ASSUME NEW e \in sweep.pump, SweepPump(e)
      PROVE  sweep'.phase = sweep.phase /\ sweep'.todo \subseteq sweep.todo
  BY <1>6 DEF SweepPump, TypeOK, SweepState
<1>7. CASE Crash
  BY <1>7 DEF Crash, Idle
<1>8. CASE \E c \in claims : ClaimStep(c)
  BY <1>1, <1>8 DEF ClaimStep, Dispatch, DispatchFails, Release
<1>9. CASE \E b \in Agents : PumpStep(b)
  BY <1>1, <1>9 DEF PumpStep, PumpAgent
<1>10. CASE \E k \in Jobs : CreateStep(k)
  <2>1. PICK k \in Jobs : CreateStep(k)
    BY <1>10
  <2> QED
    BY <1>1, <2>1 DEF CreateStep, StartPumping, CheckDispatched, MarkDispatched,
                      InsertRow, CreatePump
<1>11. CASE \E m \in marks : MarkStep(m)
  BY <1>1, <1>11 DEF MarkStep, ReadJobStatus, WriteJobDone
<1>12. CASE TimeStep
  BY <1>1, <1>12 DEF TimeStep, ExpiryPasses, LeasePasses
<1>13. CASE AdminStep
  BY <1>1, <1>13 DEF AdminStep, CreateJob, CancelJob, CancelRows, DeleteAgent
<1>14. CASE AgentStep
  BY <1>1, <1>14 DEF AgentStep, Connect, Disconnect, AgentReports, HandleExecResult
<1>15. CASE UNCHANGED vars
  BY <1>1, <1>15 DEF vars
<1>16. CASE \E b \in Agents : Answer(b)
  BY <1>1, <1>16 DEF Answer, HandleExecResult
<1> QED
  BY <1>2, <1>3, <1>4, <1>5, <1>6, <1>7, <1>8, <1>9, <1>10, <1>11, <1>12, <1>13,
     <1>14, <1>15, <1>16 DEF QueueNext, Next, SweepStep

\* The sweeper's snapshots do not go stale in what the charge depends on.
LEMMA SnapshotsStep ==
  TypeOK /\ FreshRows /\ SnapshotsCurrent /\ [QueueNext]_vars => SnapshotsCurrent'
<1> SUFFICES ASSUME TypeOK, FreshRows, SnapshotsCurrent, [QueueNext]_vars,
                    sweep'.phase = "lease", NEW e \in sweep'.todo
             PROVE  /\ ~NotInserted(e.job, e.agent)'
                    /\ status'[e.job][e.agent] # "none" =>
                          retry'[e.job][e.agent] = e.retry
                    /\ \A d \in sweep'.todo :
                          d.job = e.job /\ d.agent = e.agent => d = e
  BY DEF SnapshotsCurrent
<1>1. CASE sweep'.phase = sweep.phase /\ sweep'.todo \subseteq sweep.todo
  <2>1. e \in sweep.todo
    BY <1>1
  <2>2. e.job \in Jobs /\ e.agent \in Agents
    BY <2>1 DEF TypeOK, SweepState, Snapshot
  <2>3. /\ ~NotInserted(e.job, e.agent)
        /\ status[e.job][e.agent] # "none" => retry[e.job][e.agent] = e.retry
        /\ \A d \in sweep.todo : d.job = e.job /\ d.agent = e.agent => d = e
    BY <1>1, <2>1 DEF SnapshotsCurrent
  <2>4. ~NotInserted(e.job, e.agent)'
    BY <2>2, <2>3, InsertsOnce
  <2>5. ASSUME status'[e.job][e.agent] # "none" PROVE retry'[e.job][e.agent] = e.retry
    <3>1. status[e.job][e.agent] # "none"
      <4>1. RowStep(e.job, e.agent)
        BY <2>2, RowNext
      <4> QED
        BY <2>3, <2>5, <4>1 DEF RowStep, RowSame, RowInserted, RowClaimed, RowSent,
             RowUnsent, RowReleased, RowWritten, RowCancelled, RowDeleted,
             RowForgotten, PendingLike
    <3>2. ~Requeued(e.job, e.agent)
      BY <2>3 DEF Requeued
    <3> QED
      BY <2>2, <2>3, <2>5, <3>1, <3>2, RetryNext
  <2> QED
    BY <1>1, <2>3, <2>4, <2>5
<1>2. CASE sweep'.todo \subseteq Rows(ExpiredLeases) /\ UNCHANGED <<tables, creating>>
  <2>1. \A d \in sweep'.todo :
          /\ d.job \in Jobs /\ d.agent \in Agents
          /\ d = [job |-> d.job, agent |-> d.agent, retry |-> retry[d.job][d.agent]]
          /\ status[d.job][d.agent] = "running"
    <3> SUFFICES ASSUME NEW d \in sweep'.todo
                 PROVE  /\ d.job \in Jobs /\ d.agent \in Agents
                        /\ d = [job |-> d.job, agent |-> d.agent,
                                retry |-> retry[d.job][d.agent]]
                        /\ status[d.job][d.agent] = "running"
      OBVIOUS
    <3>1. PICK r \in ExpiredLeases :
            d = [job |-> r[1], agent |-> r[2], retry |-> retry[r[1]][r[2]]]
      BY <1>2 DEF Rows
    <3>2. r[1] \in Jobs /\ r[2] \in Agents /\ status[r[1]][r[2]] = "running"
      BY <3>1 DEF ExpiredLeases, TypeOK
    <3>3. d.job = r[1] /\ d.agent = r[2]
      BY <3>1
    <3> QED
      BY <3>1, <3>2, <3>3
  <2>2. ~NotInserted(e.job, e.agent)
    BY <2>1 DEF FreshRows
  <2>3. ~NotInserted(e.job, e.agent)'
    BY <1>2, <2>2 DEF NotInserted
  <2>4. retry'[e.job][e.agent] = e.retry
    <3>1. e.retry = retry[e.job][e.agent]
      BY <2>1
    <3> QED
      BY <1>2, <3>1 DEF tables
  <2>5. \A d \in sweep'.todo : d.job = e.job /\ d.agent = e.agent => d = e
    BY <2>1
  <2> QED
    BY <2>3, <2>4, <2>5
<1> QED
  BY <1>1, <1>2, TodoNext

\* One row's accounts balance after every step.
LEMMA SendsPaidStep ==
  TypeOK /\ FreshRows /\ FreshRetries /\ SnapshotsCurrent /\ SendsPaid /\ [QueueNext]_vars
    => SendsPaid'
<1> SUFFICES ASSUME TypeOK, FreshRows, FreshRetries, SnapshotsCurrent, SendsPaid,
                    [QueueNext]_vars, NEW j \in Jobs, NEW a \in Agents,
                    status'[j][a] # "none"
             PROVE  /\ IsFiniteSet(ClaimsOn(j, a)')
                    /\ dispatches'[j][a] + Cardinality(ClaimsOn(j, a)') + Waiting(j, a)'
                         <= retry'[j][a] + 1
                    /\ retry'[j][a] <= MaxRetry[j]
  BY DEF SendsPaid
<1> DEFINE C  == ClaimsOn(j, a)
           C1 == ClaimsOn(j, a)'
           D  == dispatches[j][a]
           R  == retry[j][a]
<1>1. RowStep(j, a)
  BY RowNext
<1>2. D \in Nat /\ R \in Nat /\ MaxRetry[j] \in Nat
  BY QueueAssumptions DEF TypeOK
<1>3. status[j][a] # "none" =>
        IsFiniteSet(C) /\ D + Cardinality(C) + Waiting(j, a) <= R + 1 /\ R <= MaxRetry[j]
  BY DEF SendsPaid
<1>4. \/ retry'[j][a] = R
      \/ /\ Requeued(j, a) /\ retry'[j][a] = R + 1 /\ retry'[j][a] <= MaxRetry[j]
         /\ status[j][a] # "none"
  <2>1. ASSUME Requeued(j, a)
        PROVE  /\ retry'[j][a] = R + 1 /\ retry'[j][a] <= MaxRetry[j]
               /\ status[j][a] # "none"
    BY <2>1 DEF Requeued, SnapshotsCurrent
  <2> QED
    BY <2>1, RetryNext
<1>5. /\ retry'[j][a] \in Nat /\ R <= retry'[j][a]
      /\ status[j][a] # "none" => retry'[j][a] <= MaxRetry[j]
  BY <1>2, <1>3, <1>4
<1>6. Waiting(j, a) = (IF status[j][a] = "pending" THEN 1 ELSE 0)
      /\ Waiting(j, a)' = (IF status'[j][a] = "pending" THEN 1 ELSE 0)
  BY DEF Waiting
<1>7. /\ NotInserted(j, a) => status[j][a] = "none" /\ D = 0 /\ C = {} /\ R = 0
  BY DEF FreshRows, FreshRetries
<1>8. IsFiniteSet(C) => Cardinality(C) \in Nat
  BY FS_CardinalityType
<1>9. \A c : IsFiniteSet(C) =>
         /\ IsFiniteSet(C \cup {c}) /\ Cardinality(C \cup {c}) \in Nat
         /\ Cardinality(C \cup {c}) <= Cardinality(C) + 1
  BY <1>8, FS_AddElement
<1>10. \A c \in C : IsFiniteSet(C) =>
         /\ IsFiniteSet(C \ {c}) /\ Cardinality(C \ {c}) = Cardinality(C) - 1
  BY FS_RemoveElement
<1> HIDE DEF C, C1, D, R
<1>11. CASE RowSame(j, a)
  <2>1. status'[j][a] = status[j][a] /\ dispatches'[j][a] = D /\ C1 = C
    BY <1>11 DEF RowSame, C, C1, D
  <2> QED
    BY <1>2, <1>3, <1>5, <1>6, <1>8, <2>1 DEF C1
<1>12. CASE RowInserted(j, a)
  <2>1. dispatches'[j][a] = 0 /\ C1 = {} /\ R = 0 /\ status[j][a] = "none"
    BY <1>7, <1>12 DEF RowInserted, C, C1, D
  <2>2. retry'[j][a] = 0
    BY <1>4, <2>1
  <2> QED
    BY <1>2, <1>6, <2>1, <2>2, FS_EmptySet DEF C1
<1>13. CASE RowClaimed(j, a)
  <2>1. /\ status[j][a] = "pending" /\ status'[j][a] = "running"
        /\ dispatches'[j][a] = D
        /\ C1 = C \/ \E c \in claims' : C1 = C \cup {c}
    BY <1>13 DEF RowClaimed, C, C1, D
  <2>2. IsFiniteSet(C1) /\ Cardinality(C1) \in Nat /\ Cardinality(C1) <= Cardinality(C) + 1
    <3>1. IsFiniteSet(C) /\ Cardinality(C) \in Nat
      BY <1>3, <1>8, <2>1
    <3>2. CASE C1 = C
      BY <3>1, <3>2
    <3>3. ASSUME NEW c \in claims', C1 = C \cup {c}
          PROVE  /\ IsFiniteSet(C1) /\ Cardinality(C1) \in Nat
                 /\ Cardinality(C1) <= Cardinality(C) + 1
      BY <1>9, <3>1, <3>3
    <3> QED
      BY <2>1, <3>2, <3>3
  <2> QED
    BY <1>2, <1>3, <1>5, <1>6, <1>8, <2>1, <2>2 DEF C1
<1>14. CASE RowSent(j, a)
  <2>1. /\ status'[j][a] = status[j][a] /\ dispatches'[j][a] = D + 1
        /\ \E c \in C : C1 = C \ {c}
    BY <1>14 DEF RowSent, C, C1, D
  <2>2. IsFiniteSet(C1) /\ Cardinality(C1) = Cardinality(C) - 1
    BY <1>3, <1>10, <2>1
  <2> QED
    BY <1>2, <1>3, <1>5, <1>6, <1>8, <2>1, <2>2 DEF C1
<1>15. CASE RowUnsent(j, a)
  <2>1. /\ status'[j][a] = status[j][a] /\ dispatches'[j][a] = D
        /\ \E c \in C : \E d \in claims' : C1 = (C \ {c}) \cup {d}
    BY <1>15 DEF RowUnsent, C, C1, D
  <2>2. PICK c \in C : \E d \in claims' : C1 = (C \ {c}) \cup {d}
    BY <2>1
  <2>3. PICK d \in claims' : C1 = (C \ {c}) \cup {d}
    BY <2>2
  <2>4. IsFiniteSet(C \ {c}) /\ Cardinality(C \ {c}) = Cardinality(C) - 1
    BY <1>3, <1>10, <2>1
  <2>5. /\ IsFiniteSet(C1)
        /\ Cardinality(C1) = Cardinality(C \ {c}) \/ Cardinality(C1) = Cardinality(C \ {c}) + 1
    BY <2>3, <2>4, FS_AddElement
  <2> QED
    BY <1>2, <1>3, <1>5, <1>6, <1>8, <2>1, <2>4, <2>5 DEF C1
<1>16. CASE RowReleased(j, a)
  <2>1. /\ status[j][a] # "none" /\ dispatches'[j][a] = D
        /\ status'[j][a] = status[j][a] \/ status'[j][a] = "pending"
        /\ \E c \in C : C1 = C \ {c}
    BY <1>16 DEF RowReleased, C, C1, D
  <2>2. IsFiniteSet(C1) /\ Cardinality(C1) = Cardinality(C) - 1
    BY <1>3, <1>10, <2>1
  <2> QED
    BY <1>2, <1>3, <1>5, <1>6, <1>8, <2>1, <2>2 DEF C1
<1>17. CASE RowWritten(j, a)
  <2>1. /\ status[j][a] # "none" /\ dispatches'[j][a] = D /\ C1 = C
        /\ status'[j][a] # "pending" \/ retry'[j][a] = R + 1
    <3>1. Requeued(j, a) => retry'[j][a] = R + 1
      BY <1>2 DEF Requeued, SnapshotsCurrent, R
    <3> QED
      BY <1>17, <3>1 DEF RowWritten, C, C1, D
  <2> QED
    BY <1>2, <1>3, <1>5, <1>6, <1>8, <2>1 DEF C1
<1>18. CASE RowCancelled(j, a)
  <2>1. /\ status[j][a] # "none" /\ status'[j][a] = "cancelled"
        /\ dispatches'[j][a] = D /\ C1 = C
    BY <1>18 DEF RowCancelled, PendingLike, C, C1, D
  <2> QED
    BY <1>2, <1>3, <1>5, <1>6, <1>8, <2>1 DEF C1
<1>19. CASE RowForgotten(j, a)
  <2>1. status'[j][a] = status[j][a] /\ dispatches'[j][a] = D /\ C1 = {}
    BY <1>19 DEF RowForgotten, C, C1, D
  <2> QED
    BY <1>2, <1>3, <1>5, <1>6, <1>8, <2>1, FS_EmptySet DEF C1
<1> QED
  BY <1>1, <1>11, <1>12, <1>13, <1>14, <1>15, <1>16, <1>17, <1>18, <1>19
     DEF RowStep, RowDeleted

\* Every send after the first is paid for with a retry and no command uses more
\* than its max_retry, however the sweeper's stale snapshots interleave with
\* results, releases, cancellations, deletions, database faults and crashes.
THEOREM DispatchesChargedHolds == Spec => []DispatchesCharged
<1> DEFINE Inv == FreshRetries /\ SnapshotsCurrent /\ SendsPaid
<1>1. Init => Inv
  BY QueueAssumptions DEF Init, FreshRetries, SnapshotsCurrent, SendsPaid, Idle
<1>2. TypeOK /\ FreshRows /\ Inv /\ [QueueNext]_vars => Inv'
  <2> SUFFICES ASSUME TypeOK, FreshRows, Inv, [QueueNext]_vars PROVE Inv'
    OBVIOUS
  <2>1. FreshRetries'
    <3> SUFFICES ASSUME NEW j \in Jobs, NEW a \in Agents, NotInserted(j, a)'
                 PROVE  retry'[j][a] = 0
      BY DEF FreshRetries
    <3>1. NotInserted(j, a)
      BY InsertsOnce
    <3>2. retry[j][a] = 0 /\ status[j][a] = "none"
      BY <3>1 DEF FreshRetries, FreshRows
    <3> QED
      BY <3>2, RetryNext DEF Requeued
  <2> QED
    BY <2>1, SnapshotsStep, SendsPaidStep
<1>3. TypeOK /\ SendsPaid => DispatchesCharged
  <2> SUFFICES ASSUME TypeOK, SendsPaid, NEW j \in Jobs, NEW a \in Agents,
                      status[j][a] # "none"
               PROVE  /\ dispatches[j][a] <= retry[j][a] + 1
                      /\ retry[j][a] <= MaxRetry[j]
    BY DEF DispatchesCharged
  <2>1. /\ IsFiniteSet(ClaimsOn(j, a))
        /\ dispatches[j][a] + Cardinality(ClaimsOn(j, a)) + Waiting(j, a)
             <= retry[j][a] + 1
        /\ retry[j][a] <= MaxRetry[j]
    BY DEF SendsPaid
  <2>2. Cardinality(ClaimsOn(j, a)) \in Nat
    BY <2>1, FS_CardinalityType
  <2>3. Waiting(j, a) \in Nat /\ dispatches[j][a] \in Nat /\ retry[j][a] \in Nat
    BY DEF Waiting, TypeOK
  <2> QED
    BY <2>1, <2>2, <2>3
<1> QED
  BY <1>1, <1>2, <1>3, TypeCorrect, FreshRowsHolds, NextIsQueueNext, PTL DEF Spec

-----------------------------------------------------------------------------
(* Attempt numbers.  handleExecResult tells a late answer from a current one *)
(* by the attempt alone, so two sends of a command must never carry the same *)
(* number.  That holds as long as no lease runs out under a PumpAgent that   *)
(* has claimed the row and not returned.                                     *)

\* A claim is the only one on its row, its lease has not run out, it carries the
\* row's current retry_count, and nothing was sent with that number or a later
\* one - also when the row was cancelled or deleted meanwhile.
ClaimIsNew(j, a) ==
  /\ \A c, d \in ClaimsOn(j, a) : c = d
  /\ \A c \in ClaimsOn(j, a) :
       /\ status[j][a] \in {"running", "cancelled", "none"}
       /\ <<j, a>> \notin leaseOver
       /\ status[j][a] = "running" => c.attempt = retry[j][a]
       /\ \A n \in attempts[j][a] : n < c.attempt

\* Everything sent carried the row's retry_count or an earlier one; a row that
\* waits to be claimed has a count nothing was sent with yet.
AttemptsPast(j, a) ==
  /\ status[j][a] \notin {"none", "cancelled"} => \A n \in attempts[j][a] : n <= retry[j][a]
  /\ status[j][a] = "pending" => \A n \in attempts[j][a] : n < retry[j][a]
  /\ NotInserted(j, a) => attempts[j][a] = {}

\* No PumpAgent is at work on a row the sweeper has yet to handle, nor will be:
\* the row is not pending, or its job has expired.
SweptUnclaimed ==
  \A e \in sweep.todo :
    /\ sweep.phase # "idle"
    /\ ClaimsOn(e.job, e.agent) = {}
    /\ sweep.phase = "lease" => status[e.job][e.agent] # "pending"
    /\ sweep.phase = "pending" => expiry[e.job] = "after"

AttemptsInv ==
  /\ \A j \in Jobs, a \in Agents : ClaimIsNew(j, a) /\ AttemptsPast(j, a)
  /\ SnapshotsCurrent /\ SweptUnclaimed

\* A send is the end of a claim and is recorded under the claim's attempt.
SentNow(j, a) ==
  \E c \in ClaimsOn(j, a) :
    /\ attempts'[j][a] = attempts[j][a] \cup {c.attempt}
    /\ ClaimsOn(j, a)' = ClaimsOn(j, a) \ {c}
    /\ status'[j][a] = status[j][a] /\ retry'[j][a] = retry[j][a]

\* A claim of a row that has not expired, with the row's retry_count.
ClaimedNow(j, a, c) ==
  /\ status[j][a] = "pending" /\ status'[j][a] = "running" /\ expiry[j] = "before"
  /\ c.attempt = retry[j][a] /\ <<j, a>> \notin leaseOver'

\* What a step does to the attempts, the claims, the lease and the expiry of a row.
HandOver(j, a) ==
  /\ attempts'[j][a] = attempts[j][a] \/ SentNow(j, a)
  /\ \A c \in ClaimsOn(j, a)' :
       (\E d \in ClaimsOn(j, a) : d.attempt = c.attempt) \/ ClaimedNow(j, a, c)
  /\ <<j, a>> \in leaseOver' =>
       \/ <<j, a>> \in leaseOver
       \/ PromptPump => ClaimsOn(j, a)' = {}
  /\ expiry[j] = "after" => expiry'[j] = "after"

\* AcquireNextJob claims with the row's retry_count.
LEMMA HandOverAcquire ==
  ASSUME TypeOK, NEW o \in Owners, NEW b \in Agents, AcquireNextJob(o, b),
         attempts' = attempts, expiry' = expiry, NEW j \in Jobs, NEW a \in Agents
  PROVE  HandOver(j, a)
<1>1. CASE UNCHANGED <<status, leaseOver, claims>>
  BY <1>1 DEF HandOver, ClaimsOn
<1>2. ASSUME NEW k \in NextJobs(b),
             status' = [status EXCEPT ![k][b] = "running"],
             leaseOver' = leaseOver \ {<<k, b>>},
             \/ claims' = claims \cup {[owner |-> o, job |-> k, agent |-> b,
                                        attempt |-> retry[k][b], pc |-> "send"]}
             \/ UNCHANGED claims
      PROVE  HandOver(j, a)
  <2> DEFINE x == [owner |-> o, job |-> k, agent |-> b, attempt |-> retry[k][b],
                   pc |-> "send"]
  <2>1. k \in Jobs /\ status[k][b] = "pending" /\ expiry[k] = "before"
    BY DEF NextJobs, Claimable
  <2>2. x.job = k /\ x.agent = b /\ x.attempt = retry[k][b]
    OBVIOUS
  <2>3. claims' \subseteq claims \cup {x}
    BY <1>2
  <2> HIDE DEF x
  <2>4. status'[k][b] = "running" /\ <<k, b>> \notin leaseOver'
    BY <1>2, <2>1 DEF TypeOK
  <2>5. ASSUME NEW c \in ClaimsOn(j, a)'
        PROVE  (\E d \in ClaimsOn(j, a) : d.attempt = c.attempt) \/ ClaimedNow(j, a, c)
    <3>1. c \in claims' /\ c.job = j /\ c.agent = a
      BY <2>5 DEF ClaimsOn
    <3>2. CASE c \in claims
      BY <3>1, <3>2 DEF ClaimsOn
    <3>3. CASE c = x
      BY <2>1, <2>2, <2>4, <3>1, <3>3 DEF ClaimedNow
    <3> QED
      BY <2>3, <3>1, <3>2, <3>3
  <2>6. leaseOver' \subseteq leaseOver
    BY <1>2
  <2> QED
    BY <2>5, <2>6 DEF HandOver
<1> QED
  BY <1>1, <1>2 DEF AcquireNextJob

\* Every step does one of these things to every row.
LEMMA HandOverNext ==
  TypeOK /\ [QueueNext]_vars => \A j \in Jobs, a \in Agents : HandOver(j, a)
<1> SUFFICES ASSUME TypeOK, [QueueNext]_vars, NEW j \in Jobs, NEW a \in Agents
             PROVE  HandOver(j, a)
  OBVIOUS
<1> USE DEF tables, history, threads
<1>0. ASSUME attempts' = attempts, claims' = claims, leaseOver' \subseteq leaseOver,
             expiry' = expiry
      PROVE  HandOver(j, a)
  BY <1>0 DEF HandOver, ClaimsOn
<1>1. ASSUME NEW c \in claims, ClaimStep(c) PROVE HandOver(j, a)
  <2>0. c.job \in Jobs /\ c.agent \in Agents /\ c \in Claim
    BY <1>1 DEF TypeOK, Claim
  <2>1. CASE Dispatch(c)
    <3>1. /\ claims' = claims \ {c} /\ leaseOver' = leaseOver /\ expiry' = expiry
          /\ status' = status /\ retry' = retry
      BY <2>1 DEF Dispatch
    <3>2. attempts'[j][a] = attempts[j][a] \/ SentNow(j, a)
      <4>1. CASE c.job = j /\ c.agent = a
        <5>1. c \in ClaimsOn(j, a) /\ ClaimsOn(j, a)' = ClaimsOn(j, a) \ {c}
          BY <3>1, <4>1 DEF ClaimsOn
        <5>2. attempts'[j][a] = attempts[j][a] \cup {c.attempt}
          BY <2>0, <2>1, <4>1 DEF Dispatch, TypeOK
        <5> QED
          BY <3>1, <5>1, <5>2 DEF SentNow
      <4>2. CASE ~(c.job = j /\ c.agent = a)
        BY <2>0, <2>1, <4>2 DEF Dispatch, TypeOK
      <4> QED
        BY <4>1, <4>2
    <3>3. ClaimsOn(j, a)' \subseteq ClaimsOn(j, a)
      BY <3>1 DEF ClaimsOn
    <3> QED
      BY <3>1, <3>2, <3>3 DEF HandOver
  <2>2. CASE DispatchFails(c)
    <3> DEFINE d == [c EXCEPT !.pc = "release"]
    <3>1. /\ claims' = (claims \ {c}) \cup {d} /\ leaseOver' = leaseOver
          /\ expiry' = expiry /\ attempts' = attempts
      BY <2>2 DEF DispatchFails
    <3>2. d.job = c.job /\ d.agent = c.agent /\ d.attempt = c.attempt
      BY <2>0 DEF Claim
    <3> HIDE DEF d
    <3>3. \A x \in ClaimsOn(j, a)' : \E y \in ClaimsOn(j, a) : y.attempt = x.attempt
      BY <3>1, <3>2 DEF ClaimsOn
    <3> QED
      BY <3>1, <3>3 DEF HandOver
  <2>3. CASE Release(c)
    <3>1. claims' = claims \ {c} /\ expiry' = expiry /\ attempts' = attempts
      BY <2>3 DEF Release
    <3>2. leaseOver' \subseteq leaseOver
      BY <2>3 DEF Release, UpdateDeployResult, WriteRow
    <3>3. ClaimsOn(j, a)' \subseteq ClaimsOn(j, a)
      BY <3>1 DEF ClaimsOn
    <3> QED
      BY <3>1, <3>2, <3>3 DEF HandOver
  <2> QED
    BY <1>1, <2>1, <2>2, <2>3 DEF ClaimStep
<1>2. ASSUME NEW b \in Agents, NEW g \in Goroutines, PumpAgent(g, b)
      PROVE  HandOver(j, a)
  BY <1>2, HandOverAcquire DEF PumpAgent, Owners
<1>3. ASSUME NEW k \in Jobs, CreateStep(k) PROVE HandOver(j, a)
  <2>1. CASE StartPumping(k) \/ CheckDispatched(k) \/ MarkDispatched(k)
    BY <1>0, <2>1 DEF StartPumping, CheckDispatched, MarkDispatched
  <2>2. ASSUME NEW b \in Agents, InsertRow(k, b) PROVE HandOver(j, a)
    BY <1>0, <2>2 DEF InsertRow
  <2>3. ASSUME NEW b \in Agents, CreatePump(k, b) PROVE HandOver(j, a)
    BY <2>3, HandOverAcquire DEF CreatePump, Owners
  <2> QED
    BY <1>3, <2>1, <2>2, <2>3 DEF CreateStep
<1>4. ASSUME NEW m \in marks, MarkStep(m) PROVE HandOver(j, a)
  BY <1>0, <1>4 DEF MarkStep, ReadJobStatus, WriteJobDone
<1>5. CASE SweepStep
  <2>1. \A e \in sweep.pump : e.agent \in Agents
    BY DEF TypeOK, SweepState, Snapshot
  <2>2. CASE SweepLeases \/ SweepPending \/ SweepDone
    BY <1>0, <2>2 DEF SweepLeases, SweepPending, SweepDone
  <2>3. ASSUME NEW e \in sweep.todo, FailLease(e) \/ RequeueLease(e) \/ ExpirePending(e)
        PROVE  HandOver(j, a)
    <3>1. leaseOver' \subseteq leaseOver
      BY <2>3 DEF FailLease, RequeueLease, ExpirePending, UpdateDeployResult, WriteRow
    <3> QED
      BY <1>0, <2>3, <3>1 DEF FailLease, RequeueLease, ExpirePending
  <2>4. ASSUME NEW e \in sweep.pump, SweepPump(e) PROVE HandOver(j, a)
    BY <2>1, <2>4, HandOverAcquire DEF SweepPump, Owners
  <2> QED
    BY <1>5, <2>2, <2>3, <2>4 DEF SweepStep
<1>6. CASE TimeStep
  <2>1. ASSUME NEW k \in Jobs, ExpiryPasses(k) PROVE HandOver(j, a)
    BY <2>1 DEF ExpiryPasses, HandOver, ClaimsOn, TypeOK
  <2>2. ASSUME NEW k \in Jobs, NEW b \in Agents, LeasePasses(k, b) PROVE HandOver(j, a)
    <3>1. /\ leaseOver' = leaseOver \cup {<<k, b>>} /\ claims' = claims
          /\ attempts' = attempts /\ expiry' = expiry
          /\ PromptPump => \A c \in claims : c.job # k \/ c.agent # b
      BY <2>2 DEF LeasePasses
    <3>2. <<j, a>> \in leaseOver' => <<j, a>> \in leaseOver \/ (j = k /\ a = b)
      BY <3>1
    <3>3. PromptPump => ClaimsOn(k, b)' = {}
      BY <3>1 DEF ClaimsOn
    <3>4. ClaimsOn(j, a)' = ClaimsOn(j, a)
      BY <3>1 DEF ClaimsOn
    <3> QED
      BY <3>1, <3>2, <3>3, <3>4 DEF HandOver
  <2> QED
    BY <1>6, <2>1, <2>2 DEF TimeStep
<1>7. CASE AdminStep
  BY <1>0, <1>7 DEF AdminStep, CreateJob, CancelJob, CancelRows, DeleteAgent
<1>8. CASE AgentStep \/ \E b \in Agents : Answer(b)
  BY <1>0, <1>8 DEF AgentStep, Connect, Disconnect, AgentReports, Answer,
                    HandleExecResult, WriteRow
<1>9. CASE Crash
  BY <1>9 DEF Crash, HandOver, ClaimsOn
<1>10. CASE UNCHANGED vars
  BY <1>0, <1>10 DEF vars
<1> QED
  BY <1>1, <1>2, <1>3, <1>4, <1>5, <1>6, <1>7, <1>8, <1>9, <1>10
     DEF QueueNext, Next, PumpStep

\* What a step does to one row keeps its claim new and its attempts in the past.
LEMMA AttemptsRow ==
  ASSUME TypeOK, PromptPump, FreshRows, AttemptsInv, NEW j \in Jobs, NEW a \in Agents,
         RowStep(j, a), HandOver(j, a),
         retry'[j][a] = retry[j][a] \/ Requeued(j, a) \/ status'[j][a] = "none",
         NotInserted(j, a)' => NotInserted(j, a)
  PROVE  ClaimIsNew(j, a)' /\ AttemptsPast(j, a)'
<1> DEFINE C  == ClaimsOn(j, a)
           C1 == ClaimsOn(j, a)'
           A  == attempts[j][a]
           A1 == attempts'[j][a]
           R  == retry[j][a]
           R1 == retry'[j][a]
           st == status[j][a]
           st1 == status'[j][a]
           over  == <<j, a>> \in leaseOver
           over1 == <<j, a>> \in leaseOver'
<1>1. /\ \A c, d \in C : c = d
      /\ \A c \in C : /\ st \in {"running", "cancelled", "none"} /\ ~over
                      /\ st = "running" => c.attempt = R
                      /\ \A n \in A : n < c.attempt
      /\ st \notin {"none", "cancelled"} => \A n \in A : n <= R
      /\ st = "pending" => \A n \in A : n < R
      /\ NotInserted(j, a) => A = {} /\ C = {}
  BY DEF AttemptsInv, ClaimIsNew, AttemptsPast, FreshRows
<1>2. /\ A1 = A \/ \E c \in C : A1 = A \cup {c.attempt} /\ C1 = C \ {c} /\ st1 = st /\ R1 = R
      /\ \A c \in C1 : \/ \E d \in C : d.attempt = c.attempt
                       \/ st = "pending" /\ st1 = "running" /\ c.attempt = R /\ ~over1
      /\ over1 => over \/ C1 = {}
  BY DEF HandOver, SentNow, ClaimedNow
<1>3. R \in Nat /\ A \subseteq Nat /\ \A c \in C : c.attempt \in Nat
  BY DEF TypeOK, ClaimsOn, Claim
<1>4. Requeued(j, a) => C = {} /\ st # "pending" /\ R1 = R + 1
  BY DEF Requeued, AttemptsInv, SweptUnclaimed, SnapshotsCurrent
<1>5. SUFFICES /\ \A c, d \in C1 : c = d
               /\ \A c \in C1 : /\ st1 \in {"running", "cancelled", "none"} /\ ~over1
                                /\ st1 = "running" => c.attempt = R1
                                /\ \A n \in A1 : n < c.attempt
               /\ st1 \notin {"none", "cancelled"} => \A n \in A1 : n <= R1
               /\ st1 = "pending" => \A n \in A1 : n < R1
               /\ NotInserted(j, a)' => A1 = {}
  BY DEF ClaimIsNew, AttemptsPast
<1>6. /\ R1 = R \/ (C = {} /\ st # "pending" /\ R1 = R + 1) \/ st1 = "none"
      /\ NotInserted(j, a)' => NotInserted(j, a)
  BY <1>4
<1>7. CASE RowSame(j, a)
  <2>1. st1 = st /\ C1 = C
    BY <1>7 DEF RowSame
  <2> QED
    BY <1>1, <1>2, <1>3, <1>6, <2>1
<1>8. CASE RowInserted(j, a)
  <2>1. st1 = "pending" /\ C1 = C /\ NotInserted(j, a) /\ ~NotInserted(j, a)'
    BY <1>8 DEF RowInserted
  <2> QED
    BY <1>1, <1>2, <1>3, <1>6, <2>1
<1>9. CASE RowClaimed(j, a)
  <2>1. /\ st = "pending" /\ st1 = "running"
        /\ C1 = C \/ \E c \in claims' : C1 = C \cup {c}
    BY <1>9 DEF RowClaimed
  <2>2. C = {} /\ R1 = R /\ A1 = A
    BY <1>1, <1>2, <1>6, <2>1
  <2> QED
    BY <1>1, <1>2, <1>3, <1>6, <2>1, <2>2
<1>10. CASE RowSent(j, a) \/ RowReleased(j, a)
  <2>1. /\ st1 = st \/ (st \notin {"none", "cancelled"} /\ st1 = "pending")
        /\ \E c \in C : C1 = C \ {c}
    BY <1>10 DEF RowSent, RowReleased
  <2>2. C # {} /\ C1 = {}
    BY <1>1, <2>1
  <2> QED
    BY <1>1, <1>2, <1>3, <1>6, <2>1, <2>2
<1>11. CASE RowUnsent(j, a)
  <2>1. /\ st1 = st
        /\ \E c \in C : \E d \in claims' : C1 = (C \ {c}) \cup {d}
    BY <1>11 DEF RowUnsent
  <2>2. PICK c \in C, d \in claims' : C1 = (C \ {c}) \cup {d}
    BY <2>1
  <2>3. C1 = {d} /\ C = {c} /\ d.attempt = c.attempt /\ A1 = A
    BY <1>1, <1>2, <2>1, <2>2
  <2> QED
    BY <1>1, <1>2, <1>3, <1>6, <2>1, <2>3
<1>12. CASE RowWritten(j, a)
  <2>1. /\ st \notin {"none", "cancelled"} /\ C1 = C
        /\ \/ st1 \in {"success", "ok", "error", "expired", "failed"}
           \/ st1 = "pending" /\ Requeued(j, a)
    BY <1>12 DEF RowWritten
  <2>2. C = {}
    <3>1. CASE R \in A
      BY <1>1, <1>3, <2>1, <3>1
    <3>2. CASE \E e \in sweep.todo : e.job = j /\ e.agent = a
      BY <3>2 DEF AttemptsInv, SweptUnclaimed
    <3> QED
      BY <1>12, <3>1, <3>2 DEF RowWritten, WriterKnown
  <2> QED
    BY <1>1, <1>2, <1>3, <1>4, <1>6, <2>1, <2>2
<1>13. CASE RowCancelled(j, a) \/ RowDeleted(j, a)
  <2>1. st1 \in {"cancelled", "none"} /\ C1 = C
    BY <1>13 DEF RowCancelled, RowDeleted
  <2> QED
    BY <1>1, <1>2, <1>3, <1>6, <2>1
<1>14. CASE RowForgotten(j, a)
  <2>1. st1 = st /\ C1 = {}
    BY <1>14 DEF RowForgotten
  <2> QED
    BY <1>1, <1>2, <1>3, <1>6, <2>1
<1> QED
  BY <1>7, <1>8, <1>9, <1>10, <1>11, <1>12, <1>13, <1>14 DEF RowStep

\* What the sweeper reads from a query.
LEMMA RowsRead ==
  ASSUME TypeOK, NEW R \in SUBSET (Jobs \X Agents), NEW e \in Rows(R)
  PROVE  e.job \in Jobs /\ e.agent \in Agents /\ <<e.job, e.agent>> \in R
<1>1. PICK r \in R : e = [job |-> r[1], agent |-> r[2], retry |-> retry[r[1]][r[2]]]
  BY DEF Rows
<1>2. r[1] \in Jobs /\ r[2] \in Agents /\ r = <<r[1], r[2]>>
  BY <1>1
<1> QED
  BY <1>1, <1>2

\* Nobody comes to claim a row that is on the sweeper's list.
LEMMA SweptStep ==
  ASSUME TypeOK, FreshRows, AttemptsInv, [QueueNext]_vars
  PROVE  SweptUnclaimed'
<1> SUFFICES ASSUME NEW e \in sweep'.todo
             PROVE  /\ sweep'.phase # "idle"
                    /\ ClaimsOn(e.job, e.agent)' = {}
                    /\ sweep'.phase = "lease" => status'[e.job][e.agent] # "pending"
                    /\ sweep'.phase = "pending" => expiry'[e.job] = "after"
  BY DEF SweptUnclaimed
<1>1. CASE sweep'.phase = sweep.phase /\ sweep'.todo \subseteq sweep.todo
  <2>1. e \in sweep.todo /\ e.job \in Jobs /\ e.agent \in Agents
    BY <1>1 DEF TypeOK, SweepState, Snapshot
  <2>2. /\ sweep.phase \in {"lease", "pending"}
        /\ ClaimsOn(e.job, e.agent) = {}
        /\ sweep.phase = "lease" => status[e.job][e.agent] # "pending"
        /\ sweep.phase = "pending" => expiry[e.job] = "after"
    BY <2>1 DEF AttemptsInv, SweptUnclaimed, TypeOK, SweepState
  <2>3. HandOver(e.job, e.agent) /\ RowStep(e.job, e.agent)
    BY <2>1, HandOverNext, RowNext
  <2>4. ClaimsOn(e.job, e.agent)' = {}
    BY <2>2, <2>3 DEF HandOver, ClaimedNow
  <2>5. sweep'.phase = "pending" => expiry'[e.job] = "after"
    BY <1>1, <2>2, <2>3 DEF HandOver
  <2>6. ASSUME sweep'.phase = "lease" PROVE status'[e.job][e.agent] # "pending"
    <3>1. /\ ~NotInserted(e.job, e.agent)
          /\ \A d \in sweep.todo : d.job = e.job /\ d.agent = e.agent => d = e
      BY <1>1, <2>1, <2>6 DEF AttemptsInv, SnapshotsCurrent
    <3>2. ~Requeued(e.job, e.agent)
      BY <3>1 DEF Requeued
    <3> QED
      BY <1>1, <2>2, <2>3, <2>6, <3>1, <3>2 DEF RowStep, RowSame, RowInserted, RowClaimed,
         RowSent, RowUnsent, RowReleased, RowWritten, RowCancelled, RowDeleted, RowForgotten
  <2> QED
    BY <1>1, <2>2, <2>4, <2>5, <2>6
<1>2. CASE /\ sweep'.phase = "lease" /\ sweep'.todo \subseteq Rows(ExpiredLeases)
           /\ UNCHANGED <<tables, creating, claims, expiry, history>>
  <2>1. ExpiredLeases \in SUBSET (Jobs \X Agents)
    BY DEF ExpiredLeases, TypeOK
  <2>2. /\ e.job \in Jobs /\ e.agent \in Agents /\ <<e.job, e.agent>> \in ExpiredLeases
    BY <1>2, <2>1, RowsRead
  <2>3. <<e.job, e.agent>> \in leaseOver /\ status[e.job][e.agent] = "running"
    BY <2>2 DEF ExpiredLeases
  <2>4. ClaimsOn(e.job, e.agent) = {}
    BY <2>2, <2>3 DEF AttemptsInv, ClaimIsNew
  <2> QED
    BY <1>2, <2>3, <2>4 DEF tables, ClaimsOn
<1>3. CASE /\ sweep'.phase = "pending" /\ sweep'.todo \subseteq Rows(ExpiredPending)
           /\ UNCHANGED <<tables, creating, claims, expiry, history>>
  <2>1. ExpiredPending \in SUBSET (Jobs \X Agents)
    BY DEF ExpiredPending
  <2>2. /\ e.job \in Jobs /\ e.agent \in Agents /\ <<e.job, e.agent>> \in ExpiredPending
    BY <1>3, <2>1, RowsRead
  <2>3. expiry[e.job] = "after" /\ status[e.job][e.agent] = "pending"
    BY <2>2 DEF ExpiredPending
  <2>4. ClaimsOn(e.job, e.agent) = {}
    BY <2>2, <2>3 DEF AttemptsInv, ClaimIsNew
  <2> QED
    BY <1>3, <2>3, <2>4 DEF tables, ClaimsOn
<1> QED
  BY <1>1, <1>2, <1>3, TodoNext

\* The invariant about attempts holds before anything is queued,
LEMMA AttemptsInitial == Init => AttemptsInv
BY DEF Init, AttemptsInv, ClaimIsNew, AttemptsPast, SnapshotsCurrent, SweptUnclaimed,
       ClaimsOn, Idle

\* and every step keeps it, whatever the database faults and crashes.
LEMMA AttemptsStep ==
  ASSUME TypeOK, PromptPump, FreshRows, AttemptsInv, [QueueNext]_vars
  PROVE  AttemptsInv'
<1>1. SnapshotsCurrent' /\ SweptUnclaimed'
  BY SnapshotsStep, SweptStep DEF AttemptsInv
<1>2. ASSUME NEW j \in Jobs, NEW a \in Agents
      PROVE  ClaimIsNew(j, a)' /\ AttemptsPast(j, a)'
  <2>1. RowStep(j, a) /\ HandOver(j, a) /\ (NotInserted(j, a)' => NotInserted(j, a))
    BY RowNext, HandOverNext, InsertsOnce
  <2>2. retry'[j][a] = retry[j][a] \/ Requeued(j, a) \/ status'[j][a] = "none"
    BY RetryNext
  <2> QED
    BY <2>1, <2>2, AttemptsRow
<1> QED
  BY <1>1, <1>2 DEF AttemptsInv

\* As long as no lease runs out between a PumpAgent's claim and its send, a claim
\* carries an attempt number newer than everything sent for its row, and what was
\* sent never carries a number beyond the row's retry_count: with read and write
\* faults, cancellations, deletions and crashes.
THEOREM ClaimsAreNew ==
  ASSUME PromptPump PROVE Spec => []AttemptsInv
<1>1. TypeOK /\ FreshRows /\ AttemptsInv /\ [QueueNext]_vars => AttemptsInv'
  BY AttemptsStep
<1> QED
  BY <1>1, AttemptsInitial, TypeCorrect, FreshRowsHolds, NextIsQueueNext, PTL DEF Spec

\* Every send of a command has an attempt number of its own.
AttemptsDistinct ==
  \A j \in Jobs, a \in Agents :
    IsFiniteSet(attempts[j][a]) /\ Cardinality(attempts[j][a]) = dispatches[j][a]

\* The counter of sends and the set of attempts move together.
LEMMA SentTogether ==
  TypeOK /\ [QueueNext]_vars =>
    \A j \in Jobs, a \in Agents :
      \/ dispatches'[j][a] = dispatches[j][a] /\ attempts'[j][a] = attempts[j][a]
      \/ \E c \in ClaimsOn(j, a) :
           /\ dispatches'[j][a] = dispatches[j][a] + 1
           /\ attempts'[j][a] = attempts[j][a] \cup {c.attempt}
<1> SUFFICES ASSUME TypeOK, [QueueNext]_vars, NEW j \in Jobs, NEW a \in Agents
             PROVE  \/ dispatches'[j][a] = dispatches[j][a] /\ attempts'[j][a] = attempts[j][a]
                    \/ \E c \in ClaimsOn(j, a) :
                         /\ dispatches'[j][a] = dispatches[j][a] + 1
                         /\ attempts'[j][a] = attempts[j][a] \cup {c.attempt}
  OBVIOUS
<1>1. CASE UNCHANGED history
  BY <1>1 DEF history
<1>2. ASSUME NEW c \in claims, Dispatch(c)
      PROVE  \/ dispatches'[j][a] = dispatches[j][a] /\ attempts'[j][a] = attempts[j][a]
             \/ /\ c \in ClaimsOn(j, a)
                /\ dispatches'[j][a] = dispatches[j][a] + 1
                /\ attempts'[j][a] = attempts[j][a] \cup {c.attempt}
  <2>1. c.job \in Jobs /\ c.agent \in Agents
    BY <1>2 DEF TypeOK, Claim
  <2>2. CASE c.job = j /\ c.agent = a
    BY <1>2, <2>1, <2>2 DEF Dispatch, TypeOK, ClaimsOn
  <2>3. CASE ~(c.job = j /\ c.agent = a)
    BY <1>2, <2>1, <2>3 DEF Dispatch, TypeOK
  <2> QED
    BY <2>2, <2>3
<1>3. CASE \E c \in claims : DispatchFails(c) \/ Release(c)
  BY <1>1, <1>3 DEF DispatchFails, Release
<1>4. CASE \E b \in Agents : PumpStep(b)
  BY <1>1, <1>4 DEF PumpStep, PumpAgent
<1>5. CASE \E k \in Jobs : CreateStep(k)
  BY <1>1, <1>5 DEF CreateStep, StartPumping, CheckDispatched, MarkDispatched, InsertRow,
                    CreatePump
<1>6. CASE \E m \in marks : MarkStep(m)
  <2>1. PICK m \in marks : MarkStep(m)
    BY <1>6
  <2>2. dispatches' = dispatches /\ attempts' = attempts
    BY <2>1, MarkMoves
  <2> QED
    BY <2>2
<1>7. CASE SweepStep
  BY <1>1, <1>7 DEF SweepStep, SweepLeases, SweepPending, SweepDone, FailLease,
                    RequeueLease, SweepPump, ExpirePending
<1>8. CASE TimeStep \/ AdminStep
  BY <1>1, <1>8 DEF TimeStep, ExpiryPasses, LeasePasses, AdminStep, CreateJob, CancelJob,
                    CancelRows, DeleteAgent
<1>9. CASE AgentStep \/ \E b \in Agents : Answer(b)
  BY <1>1, <1>9 DEF AgentStep, Connect, Disconnect, AgentReports, Answer, HandleExecResult
<1>10. CASE Crash \/ UNCHANGED vars
  BY <1>1, <1>10 DEF Crash, vars
<1> QED
  BY <1>2, <1>3, <1>4, <1>5, <1>6, <1>7, <1>8, <1>9, <1>10 DEF QueueNext, Next, ClaimStep

\* Under the same condition the fence of UpdateDeployResult tells any two sends of
\* a command apart: as many attempt numbers were used as sends were made.
THEOREM FenceSound ==
  ASSUME PromptPump PROVE Spec => []AttemptsDistinct
<1>1. Init => AttemptsDistinct
  BY FS_EmptySet DEF Init, AttemptsDistinct
<1>2. TypeOK /\ AttemptsInv /\ AttemptsDistinct /\ [QueueNext]_vars => AttemptsDistinct'
  <2> SUFFICES ASSUME TypeOK, AttemptsInv, AttemptsDistinct, [QueueNext]_vars,
                      NEW j \in Jobs, NEW a \in Agents
               PROVE  /\ IsFiniteSet(attempts'[j][a])
                      /\ Cardinality(attempts'[j][a]) = dispatches'[j][a]
    BY DEF AttemptsDistinct
  <2>1. IsFiniteSet(attempts[j][a]) /\ Cardinality(attempts[j][a]) = dispatches[j][a]
    BY DEF AttemptsDistinct
  <2>2. ASSUME NEW c \in ClaimsOn(j, a) PROVE c.attempt \notin attempts[j][a]
    <3>1. \A n \in attempts[j][a] : n < c.attempt
      BY DEF AttemptsInv, ClaimIsNew
    <3>2. c.attempt \in Nat
      BY DEF TypeOK, ClaimsOn, Claim
    <3> QED
      BY <3>1, <3>2
  <2>3. \A c \in ClaimsOn(j, a) :
          /\ IsFiniteSet(attempts[j][a] \cup {c.attempt})
          /\ Cardinality(attempts[j][a] \cup {c.attempt}) = dispatches[j][a] + 1
    BY <2>1, <2>2, FS_AddElement
  <2> QED
    BY <2>1, <2>3, SentTogether
<1> QED
  BY <1>1, <1>2, ClaimsAreNew, TypeCorrect, NextIsQueueNext, PTL DEF Spec
=============================================================================
