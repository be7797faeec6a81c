----------------------------- MODULE PolicySync -----------------------------
(***************************************************************************)
(* How an edit of the policy reaches the local copy of one agent: the       *)
(* admin's write, the version counter and the broadcast (api.go, db.go,     *)
(* hub.go), the agent's version check on connect and on its 45-minute       *)
(* ticker, and the copy in memory and in policy_cache.json                  *)
(* (agent/policycache.go).                                                  *)
(*                                                                          *)
(* The content of the policy is what an edit can change: how many edits of  *)
(* policy_rules and of applications it holds (the device group that goes    *)
(* with it belongs to the agent and has no version).  Every SQL statement,  *)
(* message and file operation is a step of its own.                         *)
(***************************************************************************)
EXTENDS Naturals, Sequences, FiniteSets

CONSTANTS
  RuleEditors,      \* admins that each write policy_rules once
  AppEditors,       \* admins that each write applications once
  Check,            \* the hub's handler of a version check
  MaxSessions, MaxCrashes, MaxBumpFailures, MaxSendFailures,
  Foreign           \* the version another server left in the file, or None
CONSTANTS None, Truncated, Torn

Editors == RuleEditors \cup AppEditors

\* A policy_update, and a policy as the agent keeps it with the server it names:
\* this one, another, or none (a file from before ServerURL was kept).
Update == [version : Nat, rules : Nat, apps : Nat, tag : {"this", "other", "untagged"}]

ASSUME PolicyAssumptions ==
  /\ Check \notin Editors
  /\ MaxSessions \in Nat /\ MaxCrashes \in Nat
  /\ MaxBumpFailures \in Nat /\ MaxSendFailures \in Nat
  /\ Foreign \in Nat \cup {None} /\ None \notin Nat
  /\ Truncated # None /\ Torn \notin {None, Truncated}
  /\ {None, Truncated, Torn} \cap Update = {}

VARIABLES
  rules, apps,      \* committed edits of the two tables
  version,          \* settings.policy_version
  sender,           \* the handlers that build an update: step and what they read
  linked,           \* the connection
  registered,       \* the hub knows the client
  up,               \* version checks on their way to the server
  wire,             \* policy_update messages on their way to the agent
  cache,            \* policyCache
  tasks,            \* the goroutines of handlePolicyUpdate
  tmp, file,        \* policy_cache.json.tmp and policy_cache.json
  sessions, crashes, bumpFailures, sendFailures

vars == <<rules, apps, version, sender, linked, registered, up, wire, cache,
          tasks, tmp, file, sessions, crashes, bumpFailures, sendFailures>>

store  == <<rules, apps, version>>
link   == <<linked, registered, up, wire>>
disk   == <<tmp, file>>
agent  == <<cache, tasks, disk>>
counts == <<sessions, crashes, bumpFailures, sendFailures>>

-----------------------------------------------------------------------------
Senders == Editors \cup {Check}

Empty  == [version |-> 0, rules |-> 0, apps |-> 0, tag |-> "this"]

\* The steps of a handler that builds an update, and of the goroutine that
\* applies one.
SenderSteps == {"idle", "bump", "version", "rules", "apps", "send", "done"}
TaskSteps   == {"store", "open", "write", "rename"}

At(pc) == [pc |-> pc, version |-> 0, rules |-> 0, apps |-> 0]

\* policy_cache.json is never a file that was only opened (Truncated).  A mixture
\* of two texts (Torn) is among the states of both files: see FileWhole.
TypeOK ==
  /\ rules \in Nat /\ apps \in Nat /\ version \in Nat
  /\ sender \in [Senders -> [pc : SenderSteps, version : Nat, rules : Nat, apps : Nat]]
  /\ linked \in BOOLEAN /\ registered \in BOOLEAN
  /\ up \in Seq(Nat) /\ wire \in Seq(Update)
  /\ cache \in Update
  /\ tasks \subseteq [u : Update, pc : TaskSteps]
  /\ tmp \in Update \cup {None, Truncated, Torn}
  /\ file \in Update \cup {None, Torn}
  /\ {sessions, crashes, bumpFailures, sendFailures} \subseteq Nat

MutInitPolicyCache(f) ==               \* the copy of another server is trusted
  IF f # None /\ f # Torn THEN f ELSE Empty

\* What the agent uses at its start: a corrupt file is no file, and a copy that
\* names another server is not used; one that names no server is.
InitPolicyCache(f) ==
  IF f # None /\ f # Torn /\ f.tag # "other" THEN f ELSE Empty

Init ==
  /\ rules = 0 /\ apps = 0 /\ version = 0
  /\ sender = [x \in Senders |-> At("idle")]
  /\ linked = FALSE /\ registered = FALSE /\ up = <<>> /\ wire = <<>>
  /\ tasks = {} /\ tmp = None
  /\ \/ Foreign = None /\ file = None
     \/ /\ Foreign # None
        /\ \E t \in {"other", "untagged"} :
             file = [version |-> Foreign, rules |-> 0, apps |-> 0, tag |-> t]
  /\ cache = InitPolicyCache(file)
  /\ sessions = 0 /\ crashes = 0 /\ bumpFailures = 0 /\ sendFailures = 0

-----------------------------------------------------------------------------
(* The server.                                                              *)

\* The write of POST, PATCH and DELETE /policy-rules ...
WriteRules(e) ==
  /\ e \in RuleEditors
  /\ sender[e].pc = "idle"
  /\ rules' = rules + 1
  /\ sender' = [sender EXCEPT ![e].pc = "bump"]
  /\ UNCHANGED <<apps, version, link, agent, counts>>

\* ... and of PATCH /applications/:id.
WriteApps(e) ==
  /\ e \in AppEditors
  /\ sender[e].pc = "idle"
  /\ apps' = apps + 1
  /\ sender' = [sender EXCEPT ![e].pc = "bump"]
  /\ UNCHANGED <<rules, version, link, agent, counts>>

\* bumpPolicyVersionAndBroadcast: one statement increments the counter ...
BumpPolicyVersion(e) ==
  /\ sender[e].pc = "bump"
  /\ version' = version + 1
  /\ sender' = [sender EXCEPT ![e].pc = "version"]
  /\ UNCHANGED <<rules, apps, link, agent, counts>>

\* ... and a failure (or the end of the server process after the write) is only
\* logged: the edit stays, nothing is pushed.
BumpFails(e) ==
  /\ sender[e].pc = "bump"
  /\ bumpFailures < MaxBumpFailures /\ bumpFailures' = bumpFailures + 1
  /\ sender' = [sender EXCEPT ![e] = At("done")]
  /\ UNCHANGED <<store, link, agent, sessions, crashes, sendFailures>>

\* BroadcastPolicyUpdate: the version is read, then the clients are listed.
Broadcast(e) ==
  /\ sender[e].pc = "version"
  /\ sender' = [sender EXCEPT ![e] = IF registered THEN [At("rules") EXCEPT !.version = version]
                                               ELSE At("done")]
  /\ UNCHANGED <<store, link, agent, counts>>

MutHandlePolicyVersionCheck ==         \* an agent one version behind is current
  /\ up # <<>> /\ sender[Check].pc = "idle"
  /\ up' = Tail(up)
  /\ sender' = IF Head(up) + 1 >= version THEN sender
               ELSE [sender EXCEPT ![Check] = [At("rules") EXCEPT !.version = version]]
  /\ UNCHANGED <<store, linked, registered, wire, agent, counts>>

\* An agent whose version is current gets no answer.
HandlePolicyVersionCheck ==
  /\ up # <<>> /\ sender[Check].pc = "idle"
  /\ up' = Tail(up)
  /\ sender' = IF Head(up) >= version THEN sender
               ELSE [sender EXCEPT ![Check] = [At("rules") EXCEPT !.version = version]]
  /\ UNCHANGED <<store, linked, registered, wire, agent, counts>>

\* sendPolicyUpdateTo: two queries, one after the other, and the send.
GetEnabledPolicyRules(x) ==
  /\ sender[x].pc = "rules"
  /\ sender' = [sender EXCEPT ![x].rules = rules, ![x].pc = "apps"]
  /\ UNCHANGED <<store, link, agent, counts>>

GetPolicyRelevantApps(x) ==
  /\ sender[x].pc = "apps"
  /\ sender' = [sender EXCEPT ![x].apps = apps, ![x].pc = "send"]
  /\ UNCHANGED <<store, link, agent, counts>>

Built(s, v) == [version |-> v, rules |-> s.rules, apps |-> s.apps, tag |-> "this"]

MutSendPolicyUpdate(x) ==              \* the version is read when the update is sent
  /\ sender[x].pc = "send"
  /\ wire' = IF registered THEN Append(wire, Built(sender[x], version)) ELSE wire
  /\ sender' = [sender EXCEPT ![x] = At(IF x = Check THEN "idle" ELSE "done")]
  /\ UNCHANGED <<store, linked, registered, up, agent, counts>>

\* An update for an agent the hub does not know is dropped.
SendPolicyUpdate(x) ==
  /\ sender[x].pc = "send"
  /\ wire' = IF registered THEN Append(wire, Built(sender[x], sender[x].version)) ELSE wire
  /\ sender' = [sender EXCEPT ![x] = At(IF x = Check THEN "idle" ELSE "done")]
  /\ UNCHANGED <<store, linked, registered, up, agent, counts>>

\* The read of the version, of the rules or of the applications fails, or the
\* client's send buffer is full: logged, nothing is sent and nobody tries again.
SendFails(x) ==
  /\ sender[x].pc \in {"version", "rules", "apps", "send"}
  /\ sendFailures < MaxSendFailures /\ sendFailures' = sendFailures + 1
  /\ sender' = [sender EXCEPT ![x] = At(IF x = Check THEN "idle" ELSE "done")]
  /\ UNCHANGED <<store, link, agent, sessions, crashes, bumpFailures>>

\* So does the read of the version for a check, which is then not answered.
CheckFails ==
  /\ up # <<>> /\ sender[Check].pc = "idle"
  /\ sendFailures < MaxSendFailures /\ sendFailures' = sendFailures + 1
  /\ up' = Tail(up)
  /\ UNCHANGED <<store, sender, linked, registered, wire, agent, sessions, crashes,
                 bumpFailures>>

-----------------------------------------------------------------------------
(* The connection.                                                          *)

\* runSession queues its version check behind the first metrics message ...
Connect ==
  /\ ~linked
  /\ sessions < MaxSessions /\ sessions' = sessions + 1
  /\ linked' = TRUE
  /\ up' = <<cache.version>>
  /\ UNCHANGED <<store, sender, registered, wire, agent, crashes, bumpFailures,
                 sendFailures>>

\* ... which registers the client.  When the metrics could not be collected it
\* comes with a later tick, after the check.
Register ==
  /\ linked /\ ~registered
  /\ registered' = TRUE
  /\ UNCHANGED <<store, sender, linked, up, wire, agent, counts>>

\* startPolicyFallbackTicker: 45 minutes are longer than any update is under way.
FallbackTick ==
  /\ linked /\ up = <<>> /\ wire = <<>> /\ tasks = {} /\ sender[Check].pc = "idle"
  /\ up' = <<cache.version>>
  /\ UNCHANGED <<store, sender, linked, registered, wire, agent, counts>>

Unlink == linked' = FALSE /\ registered' = FALSE /\ up' = <<>> /\ wire' = <<>>

Disconnect ==
  /\ linked
  /\ Unlink
  /\ UNCHANGED <<store, sender, agent, counts>>

-----------------------------------------------------------------------------
(* The agent.                                                               *)

\* handleServerMessage starts a goroutine per update.
ReceiveUpdate ==
  /\ wire # <<>>
  /\ wire' = Tail(wire)
  /\ tasks' = tasks \cup {[u |-> Head(wire), pc |-> "store"]}
  /\ UNCHANGED <<store, sender, linked, registered, up, cache, disk, counts>>

Step(t, pc) == tasks' = (tasks \ {t}) \cup {[t EXCEPT !.pc = pc]}

\* setPolicyCache: the copy in memory is replaced whatever its version ...
StoreCache(t) ==
  /\ t.pc = "store"
  /\ cache' = t.u
  /\ Step(t, "open")
  /\ UNCHANGED <<store, sender, link, disk, counts>>

\* ... then savePolicyCacheFile: every goroutine uses the same temporary file.
OpenTmp(t) ==
  /\ t.pc = "open"
  /\ tmp' = Truncated
  /\ Step(t, "write")
  /\ UNCHANGED <<store, sender, link, cache, file, counts>>

\* Two writers that have the file open leave the last text, or a mixture.
WriteTmp(t) ==
  /\ t.pc = "write"
  /\ \/ tmp' = t.u
     \/ tmp # Truncated /\ tmp' = Torn
  /\ Step(t, "rename")
  /\ UNCHANGED <<store, sender, link, cache, file, counts>>

MutRenameTmp(t) ==                     \* the rename works under an open writer
  /\ t.pc = "rename"
  /\ IF tmp = None THEN UNCHANGED disk ELSE file' = tmp /\ tmp' = None
  /\ tasks' = tasks \ {t}
  /\ UNCHANGED <<store, sender, link, cache, counts>>

\* Windows refuses to rename a file another goroutine has open or has renamed.
RenameTmp(t) ==
  /\ t.pc = "rename"
  /\ IF tmp = None \/ \E o \in tasks : o.pc = "write"
     THEN UNCHANGED disk
     ELSE file' = tmp /\ tmp' = None
  /\ tasks' = tasks \ {t}
  /\ UNCHANGED <<store, sender, link, cache, counts>>

\* The process ends anywhere in these steps; the service is started again and
\* loads the file.
Restart ==
  /\ crashes < MaxCrashes /\ crashes' = crashes + 1
  /\ cache' = InitPolicyCache(file) /\ tasks' = {}
  /\ Unlink
  /\ UNCHANGED <<store, sender, disk, sessions, bumpFailures, sendFailures>>

-----------------------------------------------------------------------------
EditorStep(e) == BumpPolicyVersion(e) \/ BumpFails(e) \/ Broadcast(e)
SenderStep(x) == \/ GetEnabledPolicyRules(x) \/ GetPolicyRelevantApps(x)
                 \/ SendPolicyUpdate(x) \/ SendFails(x)
TaskStep(t)   == StoreCache(t) \/ OpenTmp(t) \/ WriteTmp(t) \/ RenameTmp(t)

Next ==
  \/ \E e \in Editors : WriteRules(e) \/ WriteApps(e) \/ EditorStep(e)
  \/ \E x \in Senders : SenderStep(x)
  \/ \E t \in tasks : TaskStep(t)
  \/ HandlePolicyVersionCheck \/ CheckFails \/ Connect \/ Register \/ FallbackTick \/ Disconnect
  \/ ReceiveUpdate \/ Restart

\* Handlers and goroutines run to their end, and the agent sends metrics every
\* 30 seconds and ticks; edits, failures and the state of the network are not
\* assumed.
Fairness ==
  /\ \A e \in Editors : WF_vars(EditorStep(e) \/ SenderStep(e))
  /\ WF_vars(HandlePolicyVersionCheck \/ SenderStep(Check))
  /\ WF_vars(\E t \in tasks : TaskStep(t)) /\ WF_vars(ReceiveUpdate)
  /\ WF_vars(Register) /\ WF_vars(FallbackTick)

Spec == Init /\ [][Next]_vars /\ Fairness

-----------------------------------------------------------------------------
(* Properties.                                                              *)

\* The copies of a policy, wherever they are.
Copies ==
  {cache} \cup {t.u : t \in tasks} \cup {wire[i] : i \in DOMAIN wire}
    \cup ({tmp, file} \ {None, Truncated, Torn})

\* A copy holds at least as many edits as the version it carries, although the
\* version, the rules and the applications are read by separate statements
\* between which any number of edits and bumps happen (hub.go:389-424): so an
\* agent with the current version misses no edit that was bumped.
VersionHonest == \A u \in Copies : u.tag = "this" => u.rules + u.apps >= u.version

\* No copy the agent uses is ahead of the server's counter, which would silence
\* the version check for good (policycache.go:134-144), whatever another server
\* left in the file - unless that file names no server, as one does that was
\* written before ServerURL was kept: it is trusted (policycache.go:151).
NeverAhead == cache.version <= version \/ cache.tag = "untagged"

\* With the agent connected from some time on, its policy ends up as the
\* server's: whatever updates were lost, not built because a read failed, dropped
\* by a full buffer, overtaken by newer ones or applied in the wrong order, and
\* whatever a crash left in the file, provided that every edit got its version
\* and the agent does not go on with a file that names no server (api.go:129-133,
\* policycache.go:217-223).
PolicyConverges ==
  <>[](linked /\ bumpFailures = 0 /\ cache.tag # "untagged") =>
    <>[](cache.rules = rules /\ cache.apps = apps)

\* "a crash or power loss mid-write can never leave policy_cache.json
\* half-written" (policycache.go:117-119): the file is never a mixture.  It can
\* be: every policy_update has a goroutine of its own, and two of them that write
\* the one temporary file at the same time leave it to be renamed.
FileWhole == file # Torn

=============================================================================
