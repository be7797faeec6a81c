------------------------------ MODULE Alerter ------------------------------
(***************************************************************************)
(* Alerter.CheckMetrics for one PC (alert.go): a reading above the          *)
(* threshold is counted, the third in a row raises an alert unless the last *)
(* one is less than the cooldown ago, and a blacklisted program raises one  *)
(* per program and cooldown.  CPU and RAM run the same code on counters of  *)
(* their own.  The readers of two connections of one PC may run it at the   *)
(* same time; a step is one access to the counter or one statement.         *)
(***************************************************************************)
EXTENDS Naturals, FiniteSets

CONSTANTS
  Readers,              \* connections of the PC
  ConsecutiveRequired,  \* consecutiveRequired
  Cooldown,             \* cpuRAMCooldown and blacklistCooldown
  Apps,                 \* blacklisted programs
  NamePart,             \* <<a, b>>: the name of program a is part of the name of b
  Readings,             \* messages: <<reading is high, blacklisted program or NoApp>>
  MaxAlertTime,         \* bound on the clock
  MaxStreak             \* bound on the counter

NoApp == "none"

ASSUME AlerterAssumptions ==
  /\ ConsecutiveRequired \in Nat \ {0} /\ Cooldown \in Nat
  /\ Readings \subseteq BOOLEAN \X (Apps \cup {NoApp})
  /\ MaxAlertTime \in Nat \ {0} /\ MaxStreak \in Nat

VARIABLES
  checks,      \* per reader: its step, the count it read, the program it saw, and
               \* (history) whether its read of the last alert failed
  consecutive, \* the counter
  lastAlert,   \* time of the last alert: "high" for cpu_high, else per program; 0 for none
  streak,      \* history: readings above the threshold since the last low one or
               \* the last alert that was recorded
  since,       \* history: those of them since the last restart and failed insert
  due,         \* history: whether the last reading had to be the alert
  raced,       \* history: two readers were in CheckMetrics at once
  alertClock

alertVars == <<checks, consecutive, lastAlert, streak, since, due, raced, alertClock>>

CheckSteps == {"idle", "store", "query", "fire", "reset", "app", "fireApp"}

AlertTypeOK ==
  /\ checks \in [Readers -> [pc : CheckSteps, n : 0..MaxStreak, app : Apps \cup {NoApp},
                           blind : BOOLEAN]]
  /\ consecutive \in 0..MaxStreak /\ streak \in 0..MaxStreak /\ since \in 0..MaxStreak
  /\ lastAlert \in [Apps \cup {"high"} -> 0..MaxAlertTime]
  /\ due \in BOOLEAN /\ raced \in BOOLEAN
  /\ alertClock \in 1..MaxAlertTime

AtRest == [pc |-> "idle", n |-> 0, app |-> NoApp, blind |-> FALSE]

AlertInit ==
  /\ checks = [r \in Readers |-> AtRest]
  /\ consecutive = 0 /\ streak = 0 /\ since = 0
  /\ lastAlert = [k \in Apps \cup {"high"} |-> 0]
  /\ due = FALSE /\ raced = FALSE
  /\ alertClock = 1

At(r, pc) ==
  checks' = [checks EXCEPT ![r] = IF pc = "idle" THEN AtRest ELSE [@ EXCEPT !.pc = pc]]

\* No row of one of these kinds is younger than the cooldown.
CooledDown(kinds) ==
  \A k \in kinds : lastAlert[k] = 0 \/ alertClock - lastAlert[k] >= Cooldown

\* The rows GetLastAlertForApp finds with LIKE '%name%'.
NamedIn(app) == {b \in Apps : b = app \/ <<app, b>> \in NamePart}

\* CheckMetrics begins: the counter is read, or reset by a low reading.  A message
\* for which the settings cannot be read is as good as none.
CheckMetrics(r, high, app) ==
  /\ checks[r].pc = "idle" /\ streak < MaxStreak /\ consecutive < MaxStreak
  /\ raced' = (raced \/ \E q \in Readers \ {r} : checks[q].pc # "idle")
  /\ IF high
     THEN /\ checks' = [checks EXCEPT ![r] = [AtRest EXCEPT !.pc = "store",
                                              !.n = consecutive + 1, !.app = app]]
          /\ streak' = streak + 1 /\ since' = since + 1
          /\ due' = (since' >= ConsecutiveRequired /\ CooledDown({"high"}))
          /\ UNCHANGED consecutive
     ELSE /\ checks' = [checks EXCEPT ![r] = [AtRest EXCEPT !.pc = "app", !.app = app]]
          /\ consecutive' = 0 /\ streak' = 0 /\ since' = 0 /\ due' = FALSE
  /\ UNCHANGED <<lastAlert, alertClock>>

StoreCount(r) ==
  /\ checks[r].pc = "store"
  /\ consecutive' = checks[r].n
  /\ At(r, IF checks[r].n >= ConsecutiveRequired THEN "query" ELSE "app")
  /\ UNCHANGED <<lastAlert, streak, since, due, raced, alertClock>>

MutQueryLast(r, ok) ==                 \* a suppressed alert starts the count again
  /\ checks[r].pc = "query"
  /\ At(r, IF CooledDown({"high"}) THEN "fire" ELSE "app")
  /\ consecutive' = IF CooledDown({"high"}) THEN consecutive ELSE 0
  /\ UNCHANGED <<lastAlert, streak, since, due, raced, alertClock>>

\* GetLastAlert: within the cooldown nothing is sent and the count goes on.  Its
\* error is ignored and counts as "no alert yet".
QueryLast(r, ok) ==
  /\ checks[r].pc = "query"
  /\ checks' = [checks EXCEPT ![r].pc = IF ~ok \/ CooledDown({"high"}) THEN "fire" ELSE "app",
                              ![r].blind = ~ok]
  /\ UNCHANGED <<consecutive, lastAlert, streak, since, due, raced, alertClock>>

\* fire inserts the row; telegram and mail are sent by goroutines.  When the row
\* cannot be inserted nothing is sent, and the count is reset all the same.
FireHigh(r, ok) ==
  /\ checks[r].pc = "fire"
  /\ IF ok THEN /\ lastAlert' = [lastAlert EXCEPT !["high"] = alertClock]
                /\ streak' = 0 /\ UNCHANGED due
           ELSE UNCHANGED <<lastAlert, streak>> /\ due' = FALSE
  /\ At(r, "reset")
  /\ since' = 0
  /\ UNCHANGED <<consecutive, raced, alertClock>>

ResetCount(r) ==
  /\ checks[r].pc = "reset"
  /\ consecutive' = 0
  /\ At(r, "app")
  /\ UNCHANGED <<lastAlert, streak, since, due, raced, alertClock>>

\* The blacklist loop: GetLastAlertForApp, then fire.  Auto-kill is a request of
\* RequestWaiters and leaves no state here.
CheckApp(r, ok) ==
  LET app == checks[r].app IN
  /\ checks[r].pc = "app"
  /\ At(r, IF app # NoApp /\ (~ok \/ CooledDown(NamedIn(app))) THEN "fireApp" ELSE "idle")
  /\ UNCHANGED <<consecutive, lastAlert, streak, since, due, raced, alertClock>>

FireApp(r, ok) ==
  /\ checks[r].pc = "fireApp"
  /\ lastAlert' = IF ok THEN [lastAlert EXCEPT ![checks[r].app] = alertClock] ELSE lastAlert
  /\ At(r, "idle")
  /\ UNCHANGED <<consecutive, streak, since, due, raced, alertClock>>

\* Handlers are short: the clock moves between them.
AlertTick ==
  /\ alertClock < MaxAlertTime /\ alertClock' = alertClock + 1
  /\ \A r \in Readers : checks[r].pc = "idle"
  /\ UNCHANGED <<checks, consecutive, lastAlert, streak, since, due, raced>>

\* A new server process: the counters are gone, the rows are not.
RestartAlerter ==
  /\ checks' = [r \in Readers |-> AtRest]
  /\ consecutive' = 0 /\ since' = 0 /\ due' = FALSE
  /\ UNCHANGED <<lastAlert, streak, raced, alertClock>>

\* The deletion of the PC takes its alerts along.
DeleteAlerts ==
  /\ lastAlert' = [k \in Apps \cup {"high"} |-> 0]
  /\ due' = FALSE
  /\ UNCHANGED <<checks, consecutive, streak, since, raced, alertClock>>

AlertNext ==
  \/ \E r \in Readers :
       \/ \E m \in Readings : CheckMetrics(r, m[1], m[2])
       \/ StoreCount(r) \/ ResetCount(r)
       \/ \E ok \in BOOLEAN : \/ QueryLast(r, ok) \/ FireHigh(r, ok)
                             \/ CheckApp(r, ok) \/ FireApp(r, ok)
  \/ AlertTick \/ RestartAlerter \/ DeleteAlerts

AlertSpec == AlertInit /\ [][AlertNext]_alertVars

-----------------------------------------------------------------------------
(* Properties.                                                              *)

\* As long as the PC's connections do not overlap: an alert is raised only by a
\* reading that is at least the third high one in a row since the last low one or
\* the last recorded alert, restarts or not, and inside the cooldown only when
\* the read of the last alert failed; and the reading that is due for one - the
\* third also since the last restart and the last failed insert, which both make
\* the count start again - has it recorded when it is done with, unless that very
\* insert fails.  A suppressed alert costs no count (alert.go:58-73, 200-204).
AlertExactlyWhenDue ==
  ~raced =>
    \A r \in Readers :
      /\ checks[r].pc = "fire" => /\ streak >= ConsecutiveRequired
                                  /\ checks[r].blind \/ CooledDown({"high"})
      /\ checks[r].pc \in {"app", "fireApp"} /\ due => lastAlert["high"] = alertClock
=============================================================================
