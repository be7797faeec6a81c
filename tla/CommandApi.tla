----------------------------- MODULE CommandApi -----------------------------
(***************************************************************************)
(* A command of POST /api/v1/commands that is carried out while the request *)
(* waits: a network toggle or a Wake-on-LAN (server/commands.go).  It never *)
(* enters the queue of DeployQueue; its job, its rows and its line of       *)
(* command_requests are written one statement at a time, while              *)
(* GET /api/v1/commands/{job_id} reads them one statement at a time.  What  *)
(* a toggle does to the PC is NetworkMode.                                  *)
(***************************************************************************)
EXTENDS Naturals, FiniteSets

CONSTANTS
  Directory,  \* per agent: the id, host, group and floor it is known by
  Targets,    \* values of a request's target, "all" among them
  MaxPolls    \* bound on polls

Agents == DOMAIN Directory

ASSUME CommandAssumptions ==
  /\ IsFiniteSet(Agents) /\ MaxPolls \in Nat
  /\ \A a, b \in Agents : Directory[a].id = Directory[b].id => a = b

Kinds == {"toggle", "wake"}
NoAnswer == [code |-> 0]

VARIABLES
  cmd,       \* the request's handler: step, kind, targets, targets not done yet
  jobRow,    \* deploy_jobs: status, or "none"
  rows,      \* deploy_results: per agent its status, or "none"
  metaRow,   \* the line of command_requests exists
  poll,      \* the poller's handler: step, and the job's status it read
  answer,    \* the last answer to a poll
  missing,   \* history: PCs whose row could not be inserted, or was deleted
  polls

cmdVars == <<cmd, jobRow, rows, metaRow, poll, answer, missing, polls>>

RowStatuses == {"success", "failed", "deferred"}

CmdTypeOK ==
  /\ cmd.pc \in {"idle", "job", "rows", "meta", "answered", "refused", "crashed"}
  /\ cmd.left \subseteq cmd.targets /\ cmd.targets \subseteq Agents
  /\ jobRow \in {"none", "pending", "done"}
  /\ rows \in [Agents -> RowStatuses \cup {"none"}] /\ metaRow \in BOOLEAN
  /\ missing \subseteq Agents /\ polls \in 0..MaxPolls

CmdInit ==
  /\ cmd = [pc |-> "idle", kind |-> "toggle", targets |-> {}, left |-> {}]
  /\ jobRow = "none" /\ rows = [a \in Agents |-> "none"] /\ metaRow = FALSE
  /\ poll = [pc |-> "idle", status |-> "none"] /\ answer = NoAnswer
  /\ missing = {} /\ polls = 0

-----------------------------------------------------------------------------
(* The handler of the command.                                              *)

\* resolveCommandTargets: everybody; else the agent of that ID; else one agent
\* of that host name; else a group; else a floor; else nobody (404).
Resolved(t) ==
  LET by(field) == {a \in Agents : Directory[a][field] = t}
  IN  IF t = "all" THEN {Agents}
      ELSE IF by("id") # {} THEN {by("id")}
      ELSE IF by("host") # {} THEN {{a} : a \in by("host")}
      ELSE IF by("group") # {} THEN {by("group")}
      ELSE {by("floor")}

\* handlePostCommand up to the job.  A command that a look at its only target
\* (or, for wake, at the settings) shows to be impossible is refused.
PostCommand(kind, t) ==
  /\ cmd.pc = "idle"
  /\ \E ts \in Resolved(t) :
       cmd' = [pc |-> IF ts = {} THEN "refused" ELSE "job", kind |-> kind,
               targets |-> ts, left |-> ts]
  /\ UNCHANGED <<jobRow, rows, metaRow, poll, answer, missing, polls>>

RefuseCommand ==
  /\ cmd.pc = "job"
  /\ cmd.kind = "wake" \/ Cardinality(cmd.targets) = 1
  /\ cmd' = [cmd EXCEPT !.pc = "refused"]
  /\ UNCHANGED <<jobRow, rows, metaRow, poll, answer, missing, polls>>

\* createNetworkToggleCommand, createWakeCommand: InsertDeployJob, ...
InsertJob(ok) ==
  /\ cmd.pc = "job"
  /\ IF ok THEN jobRow' = "pending" /\ cmd' = [cmd EXCEPT !.pc = "rows"]
           ELSE cmd' = [cmd EXCEPT !.pc = "refused"] /\ UNCHANGED jobRow
  /\ UNCHANGED <<rows, metaRow, poll, answer, missing, polls>>

\* ... for each target the action itself and insertDeployResultRow, which only
\* logs when it fails; a toggle for a PC that is off line is "deferred", ...
DoTarget(a, status, ok) ==
  /\ cmd.pc = "rows" /\ a \in cmd.left
  /\ status = "deferred" => cmd.kind = "toggle"
  /\ cmd' = [cmd EXCEPT !.left = @ \ {a}]
  /\ IF ok THEN rows' = [rows EXCEPT ![a] = status] /\ UNCHANGED missing
           ELSE missing' = missing \cup {a} /\ UNCHANGED rows
  /\ UNCHANGED <<jobRow, metaRow, poll, answer, polls>>

\* ... UpdateDeployJobStatus, whose failure leaves the job "pending" ...
FinishJob(ok) ==
  /\ cmd.pc = "rows" /\ cmd.left = {}
  /\ jobRow' = IF ok THEN "done" ELSE jobRow
  /\ cmd' = [cmd EXCEPT !.pc = "meta"]
  /\ UNCHANGED <<rows, metaRow, poll, answer, missing, polls>>

\* ... and InsertCommandRequest, whose failure is logged.
InsertCommandRequest(ok) ==
  /\ cmd.pc = "meta"
  /\ metaRow' = ok
  /\ cmd' = [cmd EXCEPT !.pc = "answered"]
  /\ UNCHANGED <<jobRow, rows, poll, answer, missing, polls>>

\* The server stops; nothing resumes the command.
CrashCommand ==
  /\ cmd.pc \in {"job", "rows", "meta"}
  /\ cmd' = [cmd EXCEPT !.pc = "crashed"]
  /\ poll' = [pc |-> "idle", status |-> "none"]
  /\ UNCHANGED <<jobRow, rows, metaRow, answer, missing, polls>>

\* DELETE /agents/:id: the rows of the PC go in one transaction.  A row of it that
\* is still to come fails in DoTarget, unless the PC registers anew before.
DeleteAgent(a) ==
  /\ rows[a] # "none"
  /\ rows' = [rows EXCEPT ![a] = "none"]
  /\ missing' = missing \cup {a}
  /\ UNCHANGED <<cmd, jobRow, metaRow, poll, answer, polls>>

-----------------------------------------------------------------------------
(* handleGetCommand: the job, the line of command_requests, the results.    *)

NotFound == [code |-> 404]
Found(status) ==
  LET n(S) == Cardinality({a \in Agents : rows[a] \in S})
  IN  [code |-> 200, status |-> status, total |-> n(RowStatuses), pending |-> n({"deferred"}),
       succeeded |-> n({"success"}), failed |-> n({"failed"})]

GetJob ==
  /\ poll.pc = "idle" /\ polls < MaxPolls /\ polls' = polls + 1
  /\ IF jobRow = "none" THEN answer' = NotFound /\ UNCHANGED poll
     ELSE poll' = [pc |-> "meta", status |-> jobRow] /\ UNCHANGED answer
  /\ UNCHANGED <<cmd, jobRow, rows, metaRow, missing>>

MutGetMeta ==                          \* command_requests is not asked for
  /\ poll.pc = "meta"
  /\ poll' = [poll EXCEPT !.pc = "rows"]
  /\ UNCHANGED <<cmd, jobRow, rows, metaRow, answer, missing, polls>>

GetMeta ==
  /\ poll.pc = "meta"
  /\ IF metaRow THEN poll' = [poll EXCEPT !.pc = "rows"] /\ UNCHANGED answer
     ELSE answer' = NotFound /\ poll' = [poll EXCEPT !.pc = "idle"]
  /\ UNCHANGED <<cmd, jobRow, rows, metaRow, missing, polls>>

GetResults ==
  /\ poll.pc = "rows"
  /\ answer' = Found(poll.status)
  /\ poll' = [poll EXCEPT !.pc = "idle"]
  /\ UNCHANGED <<cmd, jobRow, rows, metaRow, missing, polls>>

CmdNext ==
  \/ \E kind \in Kinds, t \in Targets : PostCommand(kind, t)
  \/ RefuseCommand \/ CrashCommand
  \/ \E ok \in BOOLEAN : InsertJob(ok) \/ FinishJob(ok) \/ InsertCommandRequest(ok)
  \/ \E a \in Agents, status \in RowStatuses, ok \in BOOLEAN : DoTarget(a, status, ok)
  \/ \E a \in Agents : DeleteAgent(a)
  \/ GetJob \/ GetMeta \/ GetResults

CmdSpec == CmdInit /\ [][CmdNext]_cmdVars

-----------------------------------------------------------------------------
(* Properties.                                                              *)

\* An answer accounts for every target of the command, except those whose row
\* could not be written or has been deleted with its PC, and each in one of its
\* counts, although it is put together from three reads while the command may still
\* be writing: the line of command_requests, written last and read before the
\* rows, makes it so (commands.go:582-584, 610-640).
CommandCounted ==
  [][poll.pc = "rows" /\ poll'.pc = "idle" /\ answer'.code = 200 =>
       /\ answer'.total = Cardinality(cmd.targets \ missing)
       /\ answer'.pending + answer'.succeeded + answer'.failed = answer'.total
       /\ cmd.kind = "wake" => answer'.pending = 0]_cmdVars
=============================================================================
