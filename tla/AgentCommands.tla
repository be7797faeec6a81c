---------------------------- MODULE AgentCommands ----------------------------
(***************************************************************************)
(* The agent's command execution: the WebSocket reader's submitCommand, the *)
(* single worker and its tracking set (agent/cmdqueue.go), the memory of    *)
(* finished jobs (cmddedup.go), the store of unacknowledged results         *)
(* (ack.go), the file_deploy checkpoint (selfupdate.go, executor.go) and    *)
(* the session loop (main.go).                                              *)
(*                                                                          *)
(* The two stores are rewritten as a whole (temporary file and rename)      *)
(* under their mutexes, so one update is one step; the checkpoint is        *)
(* written in place.  The process may die between any two steps: the files  *)
(* survive, the goroutines and the queue do not.                            *)
(***************************************************************************)
EXTENDS Integers, Sequences, FiniteSets, Lists

CONSTANTS
  Jobs,            \* job ids of deploy jobs (the serial, tracked commands)
  FileJobs,        \* the file_deploy jobs: they write a checkpoint
  Attempts,        \* attempt numbers the server sends
  Outcomes,        \* statuses a finished handler reports
  Expiring,        \* jobs that carry an expire_at
  FullBuffers,     \* wsSend may find its 256-slot channel full
  QueueCap,        \* capacity of cmdCh (16)
  CompletedCap,    \* completedJobsMax (256)
  MaxDeliveries,   \* bound: command messages the server sends
  MaxSessions,     \* bound: connections made
  MaxCrashes,      \* bound: deaths of the agent process
  MaxForgets       \* bound: entries that outlive completedJobsTTL

ASSUME AgentAssumptions ==
  /\ FileJobs \subseteq Jobs
  /\ Expiring \subseteq Jobs
  /\ Attempts \subseteq Nat
  /\ Outcomes \subseteq {"success", "ok", "error"}
  /\ FullBuffers \in BOOLEAN
  /\ QueueCap \in Nat \ {0} /\ CompletedCap \in Nat \ {0}
  /\ MaxDeliveries \in Nat /\ MaxSessions \in Nat
  /\ MaxCrashes \in Nat /\ MaxForgets \in Nat

VARIABLES
  \* the process
  up,          \* the startup check is over and connectLoop runs
  connected,   \* a session owns the send channel
  reader,      \* the command the reader is submitting, if any
  active,      \* cmdActive
  queue,       \* cmdCh
  work,        \* the task of the worker (or of the startup check), if any
  acks,        \* exec_result_ack messages whose goroutine has not run
  \* the files
  pending,     \* pending_acks.json
  completed,   \* completed_jobs.json, oldest entry first
  checkpoint,  \* the self-update checkpoint, if any
  \* the outside
  outbox,      \* results on the current connection
  received,    \* results the server has received
  past,        \* jobs whose expire_at has passed
  runs,        \* runs[j]: times the handler of j touched the PC (history)
  forgotten,   \* forgotten[j]: times the agent lost track of j (history)
  deliveries, sessions, crashes, forgets

files  == <<pending, completed, checkpoint>>
world  == <<outbox, received, past>>
counts == <<deliveries, sessions, crashes, forgets>>
vars   == <<up, connected, reader, active, queue, work, acks, files, world,
            runs, forgotten, counts>>

-----------------------------------------------------------------------------
Command  == [job : Jobs, attempt : Attempts]
Statuses == Outcomes \cup {"error", "success", "expired"}

\* run tells which run of the job a result reports, 0 when none was started.
Result == [job : Jobs, attempt : Attempts, status : Statuses, run : Nat]

\* processCommand at work: what it does next, and the result as known so far.
Task == [pc : {"recheck", "start", "run", "clear", "persist", "record", "send",
               "done"},
         job : Jobs, attempt : Attempts, status : Statuses \cup {"none"},
         run : Nat]

TypeOK ==
  /\ up \in BOOLEAN /\ connected \in BOOLEAN
  /\ reader \subseteq Command /\ Cardinality(reader) <= 1
  /\ active \subseteq Jobs
  /\ queue \in Seq(Command) /\ Len(queue) <= QueueCap
  /\ work \subseteq Task /\ Cardinality(work) <= 1
  /\ acks \subseteq Jobs
  /\ pending \subseteq Result
  /\ completed \in Seq(Result) /\ Len(completed) <= CompletedCap
  /\ checkpoint \subseteq Command /\ Cardinality(checkpoint) <= 1
  /\ outbox \subseteq Result /\ received \subseteq Result
  /\ past \subseteq Expiring
  /\ runs \in [Jobs -> Nat] /\ forgotten \in [Jobs -> Nat]
  /\ {deliveries, sessions, crashes, forgets} \subseteq Nat

Init ==
  /\ up = FALSE /\ connected = FALSE
  /\ reader = {} /\ active = {} /\ queue = <<>> /\ work = {} /\ acks = {}
  /\ pending = {} /\ completed = <<>> /\ checkpoint = {}
  /\ outbox = {} /\ received = {} /\ past = {}
  /\ runs = [j \in Jobs |-> 0] /\ forgotten = [j \in Jobs |-> 0]
  /\ deliveries = 0 /\ sessions = 0 /\ crashes = 0 /\ forgets = 0

-----------------------------------------------------------------------------
(* Helpers.                                                                 *)

\* completedJobResult: the stored results of a job (at most one).
Stored(j) == {r \in Elements(completed) : r.job = j}

\* wsSend: dropped without a session, and when the channel is full.
WsSend(R) ==
  \/ connected /\ outbox' = outbox \cup R
  \/ (~connected \/ FullBuffers) /\ UNCHANGED outbox

ResultOf(t) == [job |-> t.job, attempt |-> t.attempt, status |-> t.status,
                run |-> t.run]

\* The worker goes on to pc with its task t.
Goto(t, pc) == work' = {[t EXCEPT !.pc = pc]}

\* A job whose entry is dropped can be run again.
Forget(R) == forgotten' = [j \in Jobs |->
               forgotten[j] + Cardinality({r \in R : r.job = j})]

-----------------------------------------------------------------------------
(* The reader: submitCommand, in two steps.                                 *)

\* A finished job is answered from completed_jobs.json; otherwise the reader
\* goes on with what it has just seen.
Submit(c) ==
  /\ connected /\ reader = {}
  /\ deliveries < MaxDeliveries /\ deliveries' = deliveries + 1
  /\ \/ /\ Stored(c.job) # {}
        /\ WsSend(Stored(c.job))
        /\ UNCHANGED reader
     \/ /\ Stored(c.job) = {}
        /\ reader' = {c}
        /\ UNCHANGED outbox
  /\ UNCHANGED <<up, connected, active, queue, work, acks, files, received, past,
                 runs, forgotten, sessions, crashes, forgets>>

MutEnqueue(c) ==                       \* the claim is kept when the queue is full
  /\ c \in reader
  /\ reader' = {}
  /\ active' = active \cup {c.job}
  /\ queue' = IF c.job \notin active /\ Len(queue) < QueueCap
              THEN Append(queue, c) ELSE queue
  /\ UNCHANGED <<up, connected, work, acks, files, world, runs, forgotten, counts>>

\* A job already queued or running is ignored; a full queue drops the command
\* and releases the claim.
Enqueue(c) ==
  /\ c \in reader
  /\ reader' = {}
  /\ IF c.job \notin active /\ Len(queue) < QueueCap
     THEN active' = active \cup {c.job} /\ queue' = Append(queue, c)
     ELSE UNCHANGED <<active, queue>>
  /\ UNCHANGED <<up, connected, work, acks, files, world, runs, forgotten, counts>>

-----------------------------------------------------------------------------
(* The worker: processCommand and the handlers, one step per store update.   *)

TakeCommand ==
  /\ up /\ work = {} /\ queue # <<>>
  /\ work' = {[pc |-> "recheck", job |-> Head(queue).job,
               attempt |-> Head(queue).attempt, status |-> "none", run |-> 0]}
  /\ queue' = Tail(queue)
  /\ UNCHANGED <<up, connected, reader, active, acks, files, world, runs,
                 forgotten, counts>>

MutRecheck(t) ==                       \* completion is not checked again
  /\ t \in work /\ t.pc = "recheck"
  /\ IF t.job \in past
     THEN work' = {[t EXCEPT !.pc = "persist", !.status = "expired"]}
     ELSE Goto(t, "start")
  /\ UNCHANGED <<up, connected, reader, active, queue, acks, files, world, runs,
                 forgotten, counts>>

\* The second look at completed_jobs.json, then the expiry check.
Recheck(t) ==
  /\ t \in work /\ t.pc = "recheck"
  /\ \/ /\ Stored(t.job) # {}
        /\ WsSend(Stored(t.job))
        /\ Goto(t, "done")
     \/ /\ Stored(t.job) = {} /\ t.job \in past
        /\ work' = {[t EXCEPT !.pc = "persist", !.status = "expired"]}
        /\ UNCHANGED outbox
     \/ /\ Stored(t.job) = {} /\ t.job \notin past
        /\ Goto(t, "start")
        /\ UNCHANGED outbox
  /\ UNCHANGED <<up, connected, reader, active, queue, acks, files, received,
                 past, runs, forgotten, counts>>

\* The handler refuses (failed download, bad arguments): an error, nothing ran.
Refuse(t) ==
  /\ t \in work /\ t.pc = "start"
  /\ work' = {[t EXCEPT !.pc = "persist", !.status = "error"]}
  /\ UNCHANGED <<up, connected, reader, active, queue, acks, files, world, runs,
                 forgotten, counts>>

\* The command runs on the PC; deployFile writes its checkpoint first.  A write
\* that fails is only logged: what it leaves is no text or a corrupt one, and the
\* startup check takes the two alike.
Begin(t) ==
  /\ t \in work /\ t.pc = "start"
  /\ IF t.job \in FileJobs
     THEN checkpoint' = {[job |-> t.job, attempt |-> t.attempt]} \/ checkpoint' = {}
     ELSE UNCHANGED checkpoint
  /\ runs' = [runs EXCEPT ![t.job] = @ + 1]
  /\ work' = {[t EXCEPT !.pc = "run", !.run = runs[t.job] + 1]}
  /\ UNCHANGED <<up, connected, reader, active, queue, acks, pending, completed,
                 world, forgotten, counts>>

\* runPSCommand returned: exit status, error or timeout.
Finish(t) ==
  /\ t \in work /\ t.pc = "run"
  /\ \E st \in Outcomes :
       work' = {[t EXCEPT !.status = st,
                          !.pc = IF t.job \in FileJobs THEN "clear" ELSE "persist"]}
  /\ UNCHANGED <<up, connected, reader, active, queue, acks, files, world, runs,
                 forgotten, counts>>

ClearCheckpoint(t) ==
  /\ t \in work /\ t.pc = "clear"
  /\ checkpoint' = {}
  /\ Goto(t, "persist")
  /\ UNCHANGED <<up, connected, reader, active, queue, acks, pending, completed,
                 world, runs, forgotten, counts>>

\* persistPendingResult replaces any earlier entry of the job.
PersistPending(t) ==
  /\ t \in work /\ t.pc = "persist"
  /\ pending' = {r \in pending : r.job # t.job} \cup {ResultOf(t)}
  /\ Goto(t, "record")
  /\ UNCHANGED <<up, connected, reader, active, queue, acks, completed, checkpoint,
                 world, runs, forgotten, counts>>

\* recordCompletedResult replaces the entry of the job, appends it as the
\* newest and drops the oldest entries over the cap.
RecordCompleted(t) ==
  /\ t \in work /\ t.pc = "record"
  /\ LET others == Filter(completed, {r \in Elements(completed) : r.job # t.job})
         list   == Append(others, ResultOf(t))
         extra  == IF Len(list) > CompletedCap THEN Len(list) - CompletedCap ELSE 0
     IN  /\ completed' = SubSeq(list, extra + 1, Len(list))
         /\ Forget({list[i] : i \in 1..extra})
  /\ Goto(t, "send")
  /\ UNCHANGED <<up, connected, reader, active, queue, acks, pending, checkpoint,
                 world, runs, counts>>

MutSendResult(t) ==                    \* delivery is assumed once it is sent
  /\ t \in work /\ t.pc = "send"
  /\ WsSend({ResultOf(t)})
  /\ pending' = pending \ {ResultOf(t)}
  /\ Goto(t, "done")
  /\ UNCHANGED <<up, connected, reader, active, queue, acks, completed, checkpoint,
                 received, past, runs, forgotten, counts>>

SendResult(t) ==
  /\ t \in work /\ t.pc = "send"
  /\ WsSend({ResultOf(t)})
  /\ Goto(t, "done")
  /\ UNCHANGED <<up, connected, reader, active, queue, acks, files, received, past,
                 runs, forgotten, counts>>

MutTrackDone(t) ==                     \* called at the end of the handlers, not deferred
  /\ up /\ t \in work /\ t.pc = "done"
  /\ active' = IF t.status = "none" THEN active ELSE active \ {t.job}
  /\ work' = {}
  /\ UNCHANGED <<up, connected, reader, queue, acks, files, world, runs, forgotten,
                 counts>>

\* The deferred trackCommandDone.
TrackDone(t) ==
  /\ up /\ t \in work /\ t.pc = "done"
  /\ active' = active \ {t.job}
  /\ work' = {}
  /\ UNCHANGED <<up, connected, reader, queue, acks, files, world, runs, forgotten,
                 counts>>

-----------------------------------------------------------------------------
(* Startup: checkSelfUpdateCheckpoint, before anything else runs.  A         *)
(* leftover checkpoint is reported through the same stores; the outcome      *)
(* depends on whether agent.exe was replaced by then.  A corrupt one (a      *)
(* write that failed, or one the process died in, before the command ran) is *)
(* discarded: it counts as none.                                             *)

MutBootCheck ==                        \* a leftover checkpoint is only removed
  /\ ~up /\ work = {}
  /\ up' = TRUE /\ checkpoint' = {}
  /\ UNCHANGED <<connected, reader, active, queue, work, acks, pending, completed,
                 world, runs, forgotten, counts>>

BootCheck ==
  /\ ~up /\ work = {}
  /\ \/ /\ checkpoint = {}
        /\ up' = TRUE
        /\ UNCHANGED work
     \/ /\ \E c \in checkpoint, st \in {"success", "error"} :
             work' = {[pc |-> "persist", job |-> c.job, attempt |-> c.attempt,
                       status |-> st, run |-> runs[c.job]]}
        /\ UNCHANGED up
  /\ UNCHANGED <<connected, reader, active, queue, acks, files, world, runs,
                 forgotten, counts>>

BootDone(t) ==
  /\ ~up /\ t \in work /\ t.pc = "done"
  /\ checkpoint' = {}
  /\ work' = {}
  /\ up' = TRUE
  /\ UNCHANGED <<connected, reader, active, queue, acks, pending, completed, world,
                 runs, forgotten, counts>>

-----------------------------------------------------------------------------
(* Sessions and acknowledgements.                                           *)

\* runSession: the send channel is installed and every unacknowledged result
\* is sent again.
Connect ==
  /\ up /\ ~connected
  /\ sessions < MaxSessions /\ sessions' = sessions + 1
  /\ connected' = TRUE
  /\ outbox' = pending
  /\ UNCHANGED <<up, reader, active, queue, work, acks, files, received, past,
                 runs, forgotten, deliveries, crashes, forgets>>

\* What the server has not read by then is lost.
Disconnect ==
  /\ connected
  /\ connected' = FALSE
  /\ outbox' = {}
  /\ UNCHANGED <<up, reader, active, queue, work, acks, files, received, past,
                 runs, forgotten, counts>>

\* The server reads a result: it fails to store it, or stores it and sends an
\* acknowledgement, which may be lost.
ServerReads(r) ==
  /\ r \in outbox
  /\ outbox' = outbox \ {r}
  /\ \/ UNCHANGED <<received, acks>>
     \/ /\ received' = received \cup {r}
        /\ acks' = acks \cup {r.job} \/ UNCHANGED acks
  /\ UNCHANGED <<up, connected, reader, active, queue, work, files, past, runs,
                 forgotten, counts>>

\* "go clearPendingResult(jobID)": keyed by the job alone.
ClearPending(j) ==
  /\ j \in acks
  /\ acks' = acks \ {j}
  /\ pending' = {r \in pending : r.job # j}
  /\ UNCHANGED <<up, connected, reader, active, queue, work, completed, checkpoint,
                 world, runs, forgotten, counts>>

-----------------------------------------------------------------------------
(* Time and death.                                                          *)

ExpiryPasses(j) ==
  /\ j \in Expiring \ past
  /\ past' = past \cup {j}
  /\ UNCHANGED <<up, connected, reader, active, queue, work, acks, files, outbox,
                 received, runs, forgotten, counts>>

\* completedJobsTTL: the oldest entry is pruned by the next access.
EntryExpires ==
  /\ completed # <<>>
  /\ forgets < MaxForgets /\ forgets' = forgets + 1
  /\ completed' = Tail(completed)
  /\ Forget({Head(completed)})
  /\ UNCHANGED <<up, connected, reader, active, queue, work, acks, pending,
                 checkpoint, world, runs, deliveries, sessions, crashes>>

\* Task t ran the command or stored a result, but completed_jobs.json has no
\* entry yet and no checkpoint leads the next startup to it.
Unrecorded(t) ==
  /\ t.pc = "record" \/ (t.run > 0 /\ t.pc \in {"run", "clear", "persist"})
  /\ \A c \in checkpoint : c.job # t.job

\* The process dies (crash, power loss, a restart it was told to perform, an
\* update that kills it) and is started again.
Crash ==
  /\ crashes < MaxCrashes /\ crashes' = crashes + 1
  /\ up' = FALSE /\ connected' = FALSE
  /\ reader' = {} /\ active' = {} /\ queue' = <<>> /\ work' = {} /\ acks' = {}
  /\ outbox' = {}
  /\ Forget({t \in work : Unrecorded(t)})
  /\ UNCHANGED <<files, received, past, runs, deliveries, sessions, forgets>>

-----------------------------------------------------------------------------
TaskStep(t) ==
  \/ Recheck(t) \/ Refuse(t) \/ Begin(t) \/ Finish(t) \/ ClearCheckpoint(t)
  \/ PersistPending(t) \/ RecordCompleted(t) \/ SendResult(t) \/ TrackDone(t)
  \/ BootDone(t)

WorkerStep == TakeCommand \/ BootCheck \/ \E t \in work : TaskStep(t)

Next ==
  \/ WorkerStep
  \/ \E c \in Command : Submit(c) \/ Enqueue(c)
  \/ \E r \in outbox : ServerReads(r)
  \/ \E j \in Jobs : ClearPending(j) \/ ExpiryPasses(j)
  \/ Connect \/ Disconnect \/ EntryExpires \/ Crash

Spec == Init /\ [][Next]_vars

\* The worker is inside a handler: downloading, or waiting for a command.
InHandler(t) == t.pc \in {"start", "run"}

\* The worker goroutine and the startup check keep running outside the handlers.
\* Nothing is assumed inside: DFC.exe and the OpenSSH steps have no time limit,
\* and the timeout of runPSCommand kills the command but not what it started,
\* which can hold the output open (CombinedOutput without a WaitDelay).
FairStep == \/ TakeCommand \/ BootCheck
            \/ \E t \in work : ~InHandler(t) /\ TaskStep(t)

FairSpec == Spec /\ WF_vars(FairStep)

-----------------------------------------------------------------------------
(* Properties.                                                              *)

\* A command runs again only after the agent lost track of it - it died before
\* the result was recorded (and no checkpoint was left), or the entry fell out
\* of completed_jobs.json: not through redelivery, whichever way submitCommand
\* and the worker interleave (cmdqueue.go, cmddedup.go).
AtMostOnce == \A j \in Jobs : runs[j] <= 1 + forgotten[j]

\* cmdActive holds exactly the jobs queued or in the worker, each once: a leak
\* would block the job for the life of the process, a gap would let it be
\* queued twice (cmdqueue.go:73-121).
TrackedExactly ==
  up =>
    /\ active = {c.job : c \in Elements(queue)} \cup {t.job : t \in work}
    /\ \A i, k \in 1..Len(queue) : queue[i].job = queue[k].job => i = k
    /\ \A c \in Elements(queue), t \in work : c.job # t.job

\* A re-delivered command gets the answer it got before, as long as the agent
\* has not lost track of it: all results of the job are the same result,
\* attempt number included (cmdqueue.go:178, cmddedup.go:12).
SameAnswer ==
  \A r, s \in received \cup outbox :
    r.job = s.job /\ forgotten[r.job] = 0 => r = s

\* A persisted result survives crashes, restarts and lost connections until
\* the server has received a result of that job or a newer run of the job
\* replaces it (ack.go:63-99).
ResultKept ==
  [][\A p \in pending \ pending' :
       \/ \E q \in pending' : q.job = p.job
       \/ \E r \in received : r.job = p.job]_vars

\* A file deploy that ran, and may have killed the agent, has an outcome on disk
\* or at the server once the process is up and not busy with it, unless the
\* agent lost track of it: it died between clearing the checkpoint and storing
\* the result, or the entry was dropped (executor.go:139-149, selfupdate.go).
FileOutcomeKnown ==
  up => \A j \in FileJobs :
    runs[j] > 0 /\ forgotten[j] = 0 /\ (\A t \in work : t.job # j) =>
      \E r \in pending \cup received \cup Elements(completed) : r.job = j

\* If every handler returns (the code does not see to that: one that does not
\* blocks the worker for the life of the process), a tracked job does not stay
\* tracked for ever: whatever is queued before it, on every path out of
\* submitCommand and processCommand and through a crash (cmdqueue.go:50-62,
\* 112-142).
TrackingEnds ==
  []<>(\A t \in work : ~InHandler(t)) =>
    \A j \in Jobs : j \in active ~> j \notin active

=============================================================================
