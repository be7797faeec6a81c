--------------------------- MODULE KillByIdentity ---------------------------
(***************************************************************************)
(* Ending a blocked program on one PC: killByIdentity (killidentity.go) and *)
(* the kill that verifies itself (killverify.go), run at the same time by   *)
(* the realtime enforcement (procwatch.go) and by the server's request      *)
(* (server/policy.go), while programs start, end and PIDs are used again.   *)
(* Every look at a PID and every taskkill is a step.                        *)
(***************************************************************************)
EXTENDS Naturals, FiniteSets

CONSTANTS
  Pids,
  Blocked,    \* the blocked program
  Namesake,   \* another company's program of the same name
  Other,      \* a program of another name
  Free,       \* no process has the PID
  MaxStarts   \* bound on processes ever started

Killers == {"realtime", "server"}
Programs == {Blocked, Namesake, Other}

ASSUME KillAssumptions ==
  /\ Cardinality({Blocked, Namesake, Other, Free}) = 4
  /\ MaxStarts \in Nat

VARIABLES
  running,       \* program per PID
  birth,         \* number of the process that has, or last had, the PID
  started,       \* processes started so far
  companyKnown,  \* the blocked application's row names a company
  killer,        \* per killer: its step, and the locals of killByIdentity
  astray,        \* history: a taskkill ended a process whose look-up had not matched
  outcome        \* per killer: the action recorded for the event

killVars == <<running, birth, started, companyKnown, killer, astray, outcome>>

\* "idle"; "check": killSpecificPIDIfMatches; "sweep"; "kill": verifyAndKillPID;
\* "report".  pid, of: the process the decision is about.  at, was: the one being
\* killed, as it was looked up.  turn: the next operation of verifyAndKillPID.
KillSteps == {"idle", "check", "sweep", "kill", "report"}
Idle == [pc |-> "idle", pid |-> 0, of |-> 0, at |-> 0, was |-> 0, turn |-> 0,
         left |-> {}, targeted |-> FALSE, success |-> FALSE, blind |-> FALSE]

KillTypeOK ==
  /\ running \in [Pids -> Programs \cup {Free}]
  /\ birth \in [Pids -> 0..MaxStarts] /\ started \in 0..MaxStarts
  /\ companyKnown \in BOOLEAN /\ astray \in BOOLEAN
  /\ \A k \in Killers : /\ killer[k].pc \in KillSteps /\ killer[k].turn \in 0..8
                        /\ killer[k].left \subseteq Pids
                        /\ outcome[k] \in {"none", "killed", "log"}

KillInit ==
  /\ running = [p \in Pids |-> Free] /\ birth = [p \in Pids |-> 0] /\ started = 0
  /\ companyKnown \in BOOLEAN          \* fixed by the application's row
  /\ killer = [k \in Killers |-> Idle]
  /\ astray = FALSE /\ outcome = [k \in Killers |-> "none"]

-----------------------------------------------------------------------------
(* The PC.                                                                  *)

Start(p, program) ==
  /\ running[p] = Free
  /\ started < MaxStarts /\ started' = started + 1
  /\ running' = [running EXCEPT ![p] = program]
  /\ birth' = [birth EXCEPT ![p] = started']
  /\ UNCHANGED <<companyKnown, killer, astray, outcome>>

\* A process ends, by itself or because of the WM_CLOSE it was sent.
Exit(p) ==
  /\ running[p] # Free
  /\ running' = [running EXCEPT ![p] = Free]
  /\ UNCHANGED <<birth, started, companyKnown, killer, astray, outcome>>

-----------------------------------------------------------------------------
(* The agent.                                                               *)

\* The identity test: the name, and the company when it is known.
IsTarget(program) ==
  program = Blocked \/ (program = Namesake /\ ~companyKnown)

\* enforceLocalPolicy, or handleKillByIdentity on a message that the server made
\* from a process list: a process of the blocked name is to be ended.
DecideKill(k, p) ==
  /\ killer[k].pc = "idle" /\ outcome[k] = "none"
  /\ running[p] \in {Blocked, Namesake}
  /\ killer' = [killer EXCEPT ![k] = [Idle EXCEPT !.pc = "check", !.pid = p, !.of = birth[p]]]
  /\ UNCHANGED <<running, birth, started, companyKnown, astray, outcome>>

Attack(k, p, targeted) ==
  killer' = [killer EXCEPT ![k].pc = "kill", ![k].at = p, ![k].was = birth[p],
                           ![k].turn = 0, ![k].targeted = targeted]

MutCheckPid(k) ==                      \* the PID of the decision is killed as it is
  /\ killer[k].pc = "check"
  /\ IF running[killer[k].pid] # Free
     THEN Attack(k, killer[k].pid, TRUE)
     ELSE killer' = [killer EXCEPT ![k].pc = "sweep", ![k].left = {p \in Pids : running[p] # Free}]
  /\ UNCHANGED <<running, birth, started, companyKnown, astray, outcome>>

\* killSpecificPIDIfMatches; when the PID is not the target's, or its name or file
\* cannot be read, every process is listed for the sweep.  blind: the process of
\* the decision was still there.
CheckPid(k) ==
  LET p == killer[k].pid IN
  /\ killer[k].pc = "check"
  /\ \/ IsTarget(running[p]) /\ Attack(k, p, TRUE)
     \/ killer' = [killer EXCEPT
          ![k].pc = "sweep", ![k].left = {q \in Pids : running[q] # Free},
          ![k].blind = running[p] # Free /\ birth[p] = killer[k].of]
  /\ UNCHANGED <<running, birth, started, companyKnown, astray, outcome>>

\* The sweep over the listed processes, each looked up again.
Sweep(k) ==
  /\ killer[k].pc = "sweep"
  /\ \/ /\ killer[k].left = {}
        /\ killer' = [killer EXCEPT ![k].pc = "report"]
     \/ \E p \in killer[k].left :
          killer' = [killer EXCEPT
            ![k] = IF IsTarget(running[p])
                   THEN [killer[k] EXCEPT !.left = @ \ {p}, !.pc = "kill", !.at = p,
                                          !.was = birth[p], !.turn = 0, !.targeted = FALSE]
                   ELSE [killer[k] EXCEPT !.left = @ \ {p}]]
  /\ UNCHANGED <<running, birth, started, companyKnown, astray, outcome>>

\* verifyAndKillPID: turns 0, 2, 4, 6 and 8 ask whether the PID exists, 1, 3 and 7
\* call taskkill, 5 sends WM_CLOSE.  A failing query reads as "gone".
Conclude(k, success, seen) ==
  killer' = [killer EXCEPT ![k] =
    [Idle EXCEPT !.pc = IF killer[k].targeted THEN "report" ELSE "sweep",
                 !.pid = killer[k].pid, !.of = killer[k].of, !.left = killer[k].left,
                 !.success = success, !.blind = killer[k].blind \/ ~seen]]

MutVerifyGone(k) ==                    \* taskkill was run: that is success
  /\ killer[k].pc = "kill" /\ killer[k].turn \in {0, 2, 4, 6, 8}
  /\ IF running[killer[k].at] = Free \/ killer[k].turn = 2 THEN Conclude(k, TRUE, TRUE)
     ELSE killer' = [killer EXCEPT ![k].turn = @ + 1]
  /\ UNCHANGED <<running, birth, started, companyKnown, astray, outcome>>

VerifyGone(k) ==
  /\ killer[k].pc = "kill" /\ killer[k].turn \in {0, 2, 4, 6, 8}
  /\ \/ running[killer[k].at] = Free /\ Conclude(k, TRUE, TRUE)
     \/ running[killer[k].at] # Free /\ Conclude(k, TRUE, FALSE)
     \/ /\ running[killer[k].at] # Free
        /\ IF killer[k].turn = 8 THEN Conclude(k, FALSE, TRUE)
           ELSE killer' = [killer EXCEPT ![k].turn = @ + 1]
  /\ UNCHANGED <<running, birth, started, companyKnown, astray, outcome>>

\* taskkill ends whatever process has the PID now, or is refused.
Terminate(k) ==
  LET p == killer[k].at IN
  /\ killer[k].pc = "kill" /\ killer[k].turn \in {1, 3, 7}
  /\ killer' = [killer EXCEPT ![k].turn = @ + 1]
  /\ \/ UNCHANGED <<running, astray>>
     \/ /\ running[p] # Free
        /\ running' = [running EXCEPT ![p] = Free]
        /\ astray' = (astray \/ (birth[p] = killer[k].was /\ ~IsTarget(running[p])))
  /\ UNCHANGED <<birth, started, companyKnown, outcome>>

CloseWindows(k) ==
  /\ killer[k].pc = "kill" /\ killer[k].turn = 5
  /\ killer' = [killer EXCEPT ![k].turn = 6]
  /\ UNCHANGED <<running, birth, started, companyKnown, astray, outcome>>

\* enforceLocalPolicy records what the kill says; the server's actOnExecution
\* records "killed" for any answer, and "log" when none came in 10 seconds.
Report(k) ==
  /\ killer[k].pc = "report"
  /\ killer' = [killer EXCEPT ![k] =
        [Idle EXCEPT !.pid = killer[k].pid, !.of = killer[k].of, !.blind = killer[k].blind]]
  /\ \E a \in IF k = "server" THEN {"killed", "log"}
              ELSE {IF killer[k].success THEN "killed" ELSE "log"} :
       outcome' = [outcome EXCEPT ![k] = a]
  /\ UNCHANGED <<running, birth, started, companyKnown, astray>>

KillNext ==
  \/ \E p \in Pids : Exit(p) \/ \E program \in Programs : Start(p, program)
  \/ \E k \in Killers :
       \/ \E p \in Pids : DecideKill(k, p)
       \/ CheckPid(k) \/ Sweep(k) \/ VerifyGone(k) \/ Terminate(k) \/ CloseWindows(k)
       \/ Report(k)

KillSpec == KillInit /\ [][KillNext]_killVars

-----------------------------------------------------------------------------
(* Properties.                                                              *)

\* A process is ended only if it had the blocked program's name, and its company
\* where one is known, when the killer looked: a PID of the decision that went to
\* somebody else in the meantime is spared.  Only a PID that changes hands after
\* the look-up, within the half seconds of one kill, can hit a stranger
\* (killidentity.go:121-144).
OnlyMatchingKilled == ~astray

\* The realtime path records "killed" only when the process it decided about is
\* gone: "killed only once verifyAndKillPID actually confirms the process is gone"
\* (procwatch.go:228-233), whatever PIDs were used again meanwhile and whoever
\* else was killing.  Excepted are the cases the code accepts: the process was not
\* the target or could not be read and the sweep ended another one, or the query
\* for the PID failed.
KilledMeansGone ==
  LET k == killer["realtime"] IN
  outcome["realtime"] = "killed" /\ ~k.blind =>
    running[k.pid] = Free \/ birth[k.pid] # k.of
=============================================================================
