----------------------------- MODULE NetworkMode -----------------------------
(***************************************************************************)
(* The desired network mode of one PC: the admin's requests that set or     *)
(* toggle it (commands.go, api.go), the push over the WebSocket and the     *)
(* wait for its result (hub.go), and the agent's worker that brings the two *)
(* adapters to that mode (agent/network.go).                                *)
(*                                                                          *)
(* Every SQL statement, message and adapter command is a step of its own.   *)
(* Rows, waiters and adapters are kept per agent, so one PC is modelled.    *)
(***************************************************************************)
EXTENDS Naturals, Sequences, FiniteSets

CONSTANTS
  Requests,     \* the admin's calls
  AskModes,     \* the modes they may set
  AskActions,   \* the toggles they may ask for
  Adapters,     \* subset of {"wifi", "eth"}: the adapters the PC has
  Faults,       \* subset of {"status", "enable", "disable", "full"}: what may fail
  MaxSessions,  \* connections of the agent
  MaxCrashes,   \* deaths of the agent process
  None

Modes   == {"ethernet", "wifi", "both"}
Actions == {"enable_wifi", "disable_wifi", "enable_lan", "disable_lan"}

ASSUME NetworkAssumptions ==
  /\ AskModes \subseteq Modes /\ AskActions \subseteq Actions
  /\ Adapters \subseteq {"wifi", "eth"}
  /\ Faults \subseteq {"status", "enable", "disable", "full"}
  /\ MaxSessions \in Nat /\ MaxCrashes \in Nat
  /\ None \notin Modes \cup Actions

VARIABLES
  faulty,      \* what fails in this behaviour: nothing, or any of Faults
  desired,     \* agents.desired_network_mode
  reported,    \* agents.current_network_mode and network_mode_status
  req,         \* the requests: next step, toggle and mode in hand
  online,      \* the connection
  greeting,    \* handleMetrics between its read of the mode and its send
  down,        \* pushes on the way to, or queued in, the agent
  results,     \* network_mode_result messages on their way back
  on,          \* the enabled adapters
  task,        \* reconcileNetworkMode at work
  hung,        \* the command worker waits for something that does not end
  lastSent,    \* history: the last push of this session
  sessions, crashes

vars == <<faulty, desired, reported, req, online, greeting, down, results, on,
          task, hung, lastSent, sessions, crashes>>

server  == <<desired, reported, req>>
network == <<online, greeting, down, results, lastSent>>
agent   == <<on, task>>
counts  == <<faulty, hung, sessions, crashes>>

-----------------------------------------------------------------------------
Wanted(m) == CASE m = "ethernet" -> {"eth"}
               [] m = "wifi"     -> {"wifi"}
               [] OTHER          -> {"wifi", "eth"}

\* currentCombinedMode of the adapters seen enabled.
CombinedMode(S) == CASE S = {"wifi", "eth"} -> "both"
                     [] S = {"wifi"}        -> "wifi"
                     [] S = {"eth"}         -> "ethernet"
                     [] OTHER               -> "none"

\* computeNetworkModeTransition: "none" stands for ok = false.
Transition(action, m) ==
  CASE action = "enable_wifi"  -> IF m = "ethernet" THEN "both" ELSE m
    [] action = "disable_wifi" -> CASE m = "both" -> "ethernet"
                                    [] m = "wifi" -> "none"
                                    [] OTHER      -> m
    [] action = "enable_lan"   -> IF m = "wifi" THEN "both" ELSE m
    [] action = "disable_lan"  -> CASE m = "both"     -> "wifi"
                                    [] m = "ethernet" -> "none"
                                    [] OTHER          -> m

\* A result, with what was asked and what was true then (history).
Result == [mode : Modes \cup {"none"}, status : {"ok", "partial", "error"},
           asked : Modes, real : SUBSET Adapters]
Task   == [pc : {"inspect", "enable", "confirm", "disable", "report"},
           mode : Modes, found : SUBSET Adapters, enable : SUBSET Adapters,
           disable : SUBSET Adapters, errs : BOOLEAN]

TypeOK ==
  /\ faulty \subseteq Faults
  /\ desired \in Modes
  /\ reported \in Result \cup {None}
  /\ req \in [Requests -> [pc : {"new", "read", "set", "push", "done"},
                          action : Actions \cup {None}, mode : Modes \cup {None}]]
  /\ online \in BOOLEAN
  /\ greeting \in Modes \cup {None}
  /\ down \in Seq(Modes) /\ results \in Seq(Result)
  /\ on \subseteq Adapters
  /\ task \subseteq Task /\ Cardinality(task) <= 1 /\ hung \in BOOLEAN
  /\ lastSent \in Modes \cup {None}
  /\ sessions \in 0..MaxSessions /\ crashes \in 0..MaxCrashes

Init ==
  /\ faulty \in {{}, Faults}
  /\ desired = "both" /\ reported = None
  /\ req = [r \in Requests |-> [pc |-> "new", action |-> None, mode |-> None]]
  /\ online = FALSE /\ greeting = None /\ down = <<>> /\ results = <<>>
  /\ on = Adapters
  /\ task = {} /\ hung = FALSE /\ lastSent = None
  /\ sessions = 0 /\ crashes = 0

-----------------------------------------------------------------------------
(* The admin's requests.                                                    *)

Goto(r, pc) == req' = [req EXCEPT ![r].pc = pc]

\* POST /agents/:id/network-mode with a valid mode.
PostMode(r) ==
  /\ req[r].pc = "new"
  /\ \E m \in AskModes :
       req' = [req EXCEPT ![r] = [pc |-> "set", action |-> None, mode |-> m]]
  /\ UNCHANGED <<desired, reported, network, agent, counts>>

\* A toggle of one PC is refused at once when it would cut it off.
PostToggle(r) ==
  /\ req[r].pc = "new"
  /\ \E act \in AskActions :
       req' = [req EXCEPT ![r] =
                 [pc     |-> IF Transition(act, desired) = "none" THEN "done" ELSE "read",
                  action |-> act, mode |-> None]]
  /\ UNCHANGED <<desired, reported, network, agent, counts>>

\* The loop over the targets reads the mode again.
ToggleRead(r) ==
  /\ req[r].pc = "read"
  /\ LET m == Transition(req[r].action, desired)
     IN  req' = [req EXCEPT ![r].pc   = IF m = "none" THEN "done" ELSE "set",
                            ![r].mode = IF m = "none" THEN @ ELSE m]
  /\ UNCHANGED <<desired, reported, network, agent, counts>>

SetDesired(r) ==
  /\ req[r].pc = "set"
  /\ desired' = req[r].mode
  /\ Goto(r, "push")
  /\ UNCHANGED <<reported, network, agent, counts>>

\* Hub.SetNetworkMode: an offline agent ends the call.  What remains, the wait
\* for the result, changes no state but the waiters (RequestWaiters).
PushMode(r) ==
  /\ req[r].pc = "push"
  /\ IF online
     THEN down' = Append(down, req[r].mode) /\ lastSent' = req[r].mode
     ELSE UNCHANGED <<down, lastSent>>
  /\ Goto(r, "done")
  /\ UNCHANGED <<desired, reported, online, greeting, results, agent, counts>>

-----------------------------------------------------------------------------
(* The connection.                                                          *)

\* The first metrics message registers the client and reads the mode ...
RegisterClient ==
  /\ ~online /\ greeting = None
  /\ sessions < MaxSessions /\ sessions' = sessions + 1
  /\ online' = TRUE
  /\ greeting' = desired
  /\ down' = <<>> /\ results' = <<>> /\ lastSent' = None
  /\ UNCHANGED <<server, agent, faulty, hung, crashes>>

\* ... which is sent in a later step, if the client is still there.
PushGreeting ==
  /\ greeting # None
  /\ greeting' = None
  /\ IF online THEN down' = Append(down, greeting) /\ lastSent' = greeting
               ELSE UNCHANGED <<down, lastSent>>
  /\ UNCHANGED <<server, online, results, agent, counts>>

LoseConnection ==
  /\ online
  /\ online' = FALSE
  /\ down' = <<>> /\ results' = <<>>
  /\ UNCHANGED <<server, greeting, lastSent, agent, counts>>

\* handleNetworkModeResult stores the outcome.
HandleResult ==
  /\ results # <<>>
  /\ results' = Tail(results)
  /\ reported' = Head(results)
  /\ UNCHANGED <<desired, req, online, greeting, down, lastSent, agent, counts>>

-----------------------------------------------------------------------------
(* The agent: reconcileNetworkMode in the command worker.                   *)

\* A status check may fail for any adapter; what it does not see is "not
\* found" and not enabled.
Unseen == IF "status" \in faulty THEN SUBSET Adapters ELSE {{}}

Report(t, seen, status) ==
  /\ task' = {}
  /\ results' = IF online
                THEN Append(results, [mode |-> CombinedMode(seen), status |-> status,
                                      asked |-> t.mode, real |-> on])
                ELSE results

MutTakePush ==                         \* a push is dropped while one is at work
  /\ ~hung /\ down # <<>> /\ task = {}
  /\ down' = <<>>
  /\ task' = {[pc |-> "inspect", mode |-> Head(down), found |-> {},
               enable |-> {}, disable |-> {}, errs |-> FALSE]}
  /\ UNCHANGED <<server, online, greeting, results, lastSent, on, counts>>

\* submitCommand: the command waits for the worker, which it shares with all
\* deploy commands, or is dropped by a full queue.
TakePush ==
  /\ ~hung /\ down # <<>> /\ task = {}
  /\ down' = Tail(down)
  /\ \/ task' = {[pc |-> "inspect", mode |-> Head(down), found |-> {},
                  enable |-> {}, disable |-> {}, errs |-> FALSE]}
     \/ "full" \in faulty /\ UNCHANGED task
  /\ UNCHANGED <<server, online, greeting, results, lastSent, on, counts>>

\* The live state decides what has to change; nothing to change is reported
\* at once.
Inspect(t) ==
  /\ t \in task /\ t.pc = "inspect"
  /\ \E U \in Unseen :
       LET found == Adapters \ U
           seen  == on \ U
           up    == (Wanted(t.mode) \cap found) \ seen
           dn    == seen \ Wanted(t.mode)
       IN  IF up \cup dn = {}
           THEN Report(t, seen, IF U = {} THEN "ok" ELSE "error")
           ELSE /\ task' = {[t EXCEPT !.pc = "enable", !.found = found, !.enable = up,
                                      !.disable = dn, !.errs = (U # {})]}
                /\ UNCHANGED results
  /\ UNCHANGED <<server, online, greeting, down, lastSent, on, counts>>

\* Phase 1: wifi first, then ethernet; a failure is noted.
EnableAdapters(t) ==
  /\ t \in task /\ t.pc = "enable"
  /\ \E F \in SUBSET t.enable :
       /\ F # {} => "enable" \in faulty
       /\ on' = on \cup (t.enable \ F)
       /\ task' = {[t EXCEPT !.pc = "confirm", !.errs = @ \/ F # {}]}
  /\ UNCHANGED <<server, network, counts>>

\* pollUntilEnabled: t.enable keeps the adapters that were not confirmed.
ConfirmEnabled(t) ==
  /\ t \in task /\ t.pc = "confirm"
  /\ \E U \in Unseen :
       LET missing == t.enable \ (on \ U)
       IN  task' = {[t EXCEPT !.pc = "disable", !.enable = missing,
                              !.errs = @ \/ missing # {}]}
  /\ UNCHANGED <<server, network, on, counts>>

MutDisableAdapters(t) ==               \* the replacement need not be confirmed
  /\ t \in task /\ t.pc = "disable"
  /\ \/ on' = on \ t.disable /\ task' = {[t EXCEPT !.pc = "report"]}
     \/ /\ "disable" \in faulty /\ t.disable # {}
        /\ task' = {[t EXCEPT !.pc = "report", !.errs = TRUE]}
        /\ UNCHANGED on
  /\ UNCHANGED <<server, network, counts>>

\* Phase 2: an adapter goes down only if no replacement was needed or the
\* replacement is confirmed up.
DisableAdapters(t) ==
  /\ t \in task /\ t.pc = "disable"
  /\ \/ /\ t.enable = {}
        /\ on' = on \ t.disable
        /\ task' = {[t EXCEPT !.pc = "report"]}
     \/ /\ t.disable # {}
        /\ t.enable # {} \/ "disable" \in faulty
        /\ task' = {[t EXCEPT !.pc = "report", !.errs = TRUE]}
        /\ UNCHANGED on
     \/ /\ t.disable = {} /\ t.enable # {}
        /\ task' = {[t EXCEPT !.pc = "report"]}
        /\ UNCHANGED on
  /\ UNCHANGED <<server, network, counts>>

MutReportTruth(t) ==                   \* success although a step failed
  /\ t \in task /\ t.pc = "report"
  /\ \E U \in Unseen : Report(t, on \ U, "ok")
  /\ UNCHANGED <<server, online, greeting, down, lastSent, on, counts>>

\* The adapters are read once more; what is wanted and there must be up.
ReportTruth(t) ==
  /\ t \in task /\ t.pc = "report"
  /\ \E U \in Unseen :
       LET seen   == on \ U
           up     == (Wanted(t.mode) \cap t.found) \subseteq seen /\ seen # {}
           status == IF ~up THEN "error" ELSE IF t.errs THEN "partial" ELSE "ok"
       IN  Report(t, seen, status)
  /\ UNCHANGED <<server, online, greeting, down, lastSent, on, counts>>

\* The worker stops for good, in the handler of another command or in one of the
\* calls of this one: some have no time limit (ssh.go, deepfreeze.go), and the
\* timeout of the others does not end what their command has started.
WorkerHangs ==
  /\ ~hung
  /\ hung' = TRUE
  /\ UNCHANGED <<server, network, agent, faulty, sessions, crashes>>

\* The agent dies; the adapters keep their state.
Crash ==
  /\ crashes < MaxCrashes /\ crashes' = crashes + 1
  /\ task' = {} /\ hung' = FALSE
  /\ online' = FALSE /\ down' = <<>> /\ results' = <<>>
  /\ UNCHANGED <<server, greeting, lastSent, on, faulty, sessions>>

-----------------------------------------------------------------------------
TaskStep(t) ==
  /\ ~hung
  /\ \/ Inspect(t) \/ EnableAdapters(t) \/ ConfirmEnabled(t)
     \/ DisableAdapters(t) \/ ReportTruth(t)

RequestStep(r) == \/ PostMode(r) \/ PostToggle(r) \/ ToggleRead(r) \/ SetDesired(r) \/ PushMode(r)

Next ==
  \/ \E r \in Requests : RequestStep(r)
  \/ RegisterClient \/ PushGreeting \/ LoseConnection \/ HandleResult
  \/ TakePush \/ WorkerHangs \/ Crash
  \/ \E t \in task : TaskStep(t)

\* The server's handlers keep going, and so does the worker unless it hangs, which
\* nothing rules out; the queue is served in order, so a command that ends only
\* delays the next.  Nothing is assumed of the admin or the connection.
Fairness ==
  /\ WF_vars(TakePush \/ \E t \in task : TaskStep(t))
  /\ WF_vars(PushGreeting) /\ WF_vars(HandleResult)
  /\ \A r \in Requests : WF_vars(ToggleRead(r) \/ SetDesired(r) \/ PushMode(r))

Spec == Init /\ [][Next]_vars /\ Fairness

-----------------------------------------------------------------------------
(* Properties.                                                              *)

\* The worker never switches off the last enabled adapter unless none of the
\* adapters that were asked for was found when it looked, which is also what a
\* failed status query says (network.go:133-142, 185-206): whatever fails,
\* whichever modes are pushed in whatever order, and wherever it dies in between
\* (network.go:86-93, 195-213).
KeepsNetwork ==
  [][on # {} /\ on' = {} =>
       \E t \in task : Wanted(t.mode) \cap t.found = {}]_vars

\* "report truth, not intent" (network.go:215): an "ok" means that every adapter
\* the PC has is enabled exactly when it was asked for, and the reported mode is
\* the real one.
OkMeansConverged ==
  reported # None /\ reported.status = "ok" =>
    /\ reported.real = Wanted(reported.asked) \cap Adapters
    /\ reported.mode = CombinedMode(reported.real)

\* No request is between its write of the desired mode and its push, and the
\* last push of the session carried the mode that is stored.
InSync ==
  /\ online /\ greeting = None /\ lastSent = desired
  /\ \A r \in Requests : req[r].pc \in {"new", "done"}

\* The last push wins: if the command worker does not hang for good (the code
\* does not see to that), a connected PC that was last sent the stored mode gets
\* there, unless an adapter fails, the connection goes or a new mode is set,
\* however many older pushes are still queued (network.go:113-121).
NetworkConverges ==
  []<>~hung =>
    ((InSync /\ faulty = {}) ~> (on = Wanted(desired) \cap Adapters \/ ~InSync))

=============================================================================
