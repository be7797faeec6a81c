------------------------------ MODULE Presence ------------------------------
(***************************************************************************)
(* Which connection stands for one PC, and what the server says of it: the  *)
(* hub's client registry (hub.go), the agents row with its status and       *)
(* last_seen (db.go), and the offline checker and the recovery alert        *)
(* (alert.go).                                                              *)
(*                                                                          *)
(* Every connection has a reader goroutine: its steps up to the next lock,  *)
(* statement or channel operation are one action.  Time is a counter.       *)
(***************************************************************************)
EXTENDS Naturals

CONSTANTS
  Conns,         \* connections the agent makes, one after the other or overlapping
  NoConn,
  OfflineAfter,  \* offline_after_minutes
  MaxTime,       \* bound on the clock
  MaxRestarts,   \* bound on server restarts
  MaxDbFaults    \* bound on failing statements

ASSUME PresenceAssumptions ==
  /\ NoConn \notin Conns
  /\ OfflineAfter \in Nat \ {0} /\ MaxTime \in Nat \ {0}
  /\ MaxRestarts \in Nat /\ MaxDbFaults \in Nat

VARIABLES
  reader,      \* the reader of each connection: its step, the status it read, and
               \* (history) whether the row holds a message of this connection
  open,        \* the connections whose send channel is open
  client,      \* hub.clients[pc]
  status,      \* agents.status
  lastSeen,    \* agents.last_seen
  offlineAt,   \* time of the last "offline" row of alerts, 0 for none
  recoveries,  \* "recovery" alerts in flight or sent: connections that fired one
  check,       \* the offline checker: what it read of the row
  alertedFor,  \* history: the last_seen values an offline alert was fired for
  clock, restarts, dbFaults

presVars == <<reader, open, client, status, lastSeen, offlineAt, recoveries, check,
              alertedFor, clock, restarts, dbFaults>>

row    == <<status, lastSeen>>
alerts == <<offlineAt, recoveries, alertedFor>>
rest   == <<clock, restarts, dbFaults>>

\* "new": not made; "open": no metrics yet; "add": before addClient; "upsert":
\* before UpsertAgent; "idle": waiting for the next message; "gone".
ReaderSteps == {"new", "open", "add", "upsert", "idle", "gone"}
NoCheck == [on |-> FALSE, status |-> "offline", seen |-> 0, cutoff |-> 0]

PresTypeOK ==
  /\ reader \in [Conns -> [pc : ReaderSteps, wasOffline : BOOLEAN, stored : BOOLEAN]]
  /\ open \subseteq Conns
  /\ client \in Conns \cup {NoConn}
  /\ client # NoConn => client \in open
  /\ status \in {"none", "online", "offline"}
  /\ lastSeen \in 0..MaxTime /\ offlineAt \in 0..MaxTime /\ clock \in 1..MaxTime
  /\ recoveries \subseteq Conns
  /\ check \in [on : BOOLEAN, status : {"none", "online", "offline"},
                seen : 0..MaxTime, cutoff : 0..MaxTime]
  /\ alertedFor \subseteq 0..MaxTime
  /\ restarts \in 0..MaxRestarts /\ dbFaults \in 0..MaxDbFaults

PresInit ==
  /\ reader = [c \in Conns |-> [pc |-> "new", wasOffline |-> FALSE, stored |-> FALSE]]
  /\ open = {} /\ client = NoConn
  /\ status = "none" /\ lastSeen = 0
  /\ offlineAt = 0 /\ recoveries = {} /\ alertedFor = {}
  /\ check = NoCheck
  /\ clock = 1 /\ restarts = 0 /\ dbFaults = 0

-----------------------------------------------------------------------------
(* The hub.                                                                 *)

Goto(c, pc) == reader' = [reader EXCEPT ![c].pc = pc]

Gone == [pc |-> "gone", wasOffline |-> FALSE, stored |-> FALSE]

\* The statement of a step goes through, or fails.
Statement(ok) ==
  /\ ok \/ dbFaults < MaxDbFaults
  /\ dbFaults' = IF ok THEN dbFaults ELSE dbFaults + 1

ServeWS(c) ==
  /\ reader[c].pc = "new"
  /\ Goto(c, "open")
  /\ open' = open \cup {c}
  /\ UNCHANGED <<client, row, alerts, check, rest>>

\* The first metrics message: the old status is read before it is overwritten; a
\* read that fails counts as "not offline".
FirstMetrics(c, ok) ==
  /\ reader[c].pc = "open"
  /\ Statement(ok)
  /\ reader' = [reader EXCEPT ![c].pc = "add", ![c].wasOffline = ok /\ status = "offline"]
  /\ UNCHANGED <<open, client, row, alerts, check, clock, restarts>>

\* addClient closes the channel of the connection it replaces; a PC that was
\* offline is reported back by CheckRecovery.
AddClient(c) ==
  /\ reader[c].pc = "add"
  /\ client' = c
  /\ open' = open \ ({client} \ {c})
  /\ recoveries' = IF reader[c].wasOffline THEN recoveries \cup {c} ELSE recoveries
  /\ reader' = [reader EXCEPT ![c].pc = "upsert", ![c].wasOffline = FALSE]
  /\ UNCHANGED <<row, offlineAt, alertedFor, check, rest>>

NextMetrics(c) ==
  /\ reader[c].pc = "idle"
  /\ Goto(c, "upsert")
  /\ UNCHANGED <<open, client, row, alerts, check, rest>>

\* When the statement fails the rest of the message is dropped with it; the
\* connection stays.
UpsertAgent(c, ok) ==
  /\ reader[c].pc = "upsert"
  /\ Statement(ok)
  /\ IF ok THEN status' = "online" /\ lastSeen' = clock ELSE UNCHANGED row
  /\ reader' = [reader EXCEPT ![c].pc = "idle", ![c].stored = @ \/ ok]
  /\ UNCHANGED <<open, client, alerts, check, clock, restarts>>

MutRemoveClient(c, ok) ==              \* the status is written before the comparison
  /\ reader[c].pc \in {"open", "idle"} /\ ok
  /\ IF reader[c].pc = "idle" THEN status' = "offline" /\ lastSeen' = clock ELSE UNCHANGED row
  /\ client' = IF client = c THEN NoConn ELSE client
  /\ open' = open \ {c}
  /\ reader' = [reader EXCEPT ![c] = Gone]
  /\ UNCHANGED <<alerts, check, rest>>

MutKeepClient(c, ok) ==                \* the channel is closed, the entry stays
  /\ reader[c].pc \in {"open", "idle"} /\ ok
  /\ IF client = c
     THEN status' = "offline" /\ lastSeen' = clock
     ELSE UNCHANGED row
  /\ open' = open \ {c}
  /\ reader' = [reader EXCEPT ![c] = Gone]
  /\ UNCHANGED <<client, alerts, check, rest>>

\* The reader ends: only the connection that is still the client takes the PC
\* offline, under the hub's lock; a failure of that statement is only logged.
RemoveClient(c, ok) ==
  /\ reader[c].pc \in {"open", "idle"}
  /\ IF client = c
     THEN /\ client' = NoConn /\ Statement(ok)
          /\ IF ok /\ status # "none" THEN status' = "offline" /\ lastSeen' = clock
             ELSE UNCHANGED row
     ELSE ok /\ UNCHANGED <<client, row, dbFaults>>
  /\ open' = open \ {c}
  /\ reader' = [reader EXCEPT ![c] = Gone]
  /\ UNCHANGED <<alerts, check, clock, restarts>>

\* DELETE /agents/:id: the row and its alerts go; the connection stays, and its
\* next message makes a new row.
DeleteAgent ==
  /\ status # "none"
  /\ status' = "none" /\ lastSeen' = 0
  /\ offlineAt' = 0 /\ alertedFor' = {}
  /\ reader' = [c \in Conns |-> [reader[c] EXCEPT !.stored = FALSE]]
  /\ UNCHANGED <<open, client, recoveries, check, rest>>

\* A new server process knows no client; the rows stay as they were.
RestartServer ==
  /\ restarts < MaxRestarts /\ restarts' = restarts + 1
  /\ reader' = [c \in Conns |-> IF reader[c].pc = "new" THEN reader[c]
                                ELSE Gone]
  /\ open' = {} /\ client' = NoConn
  /\ check' = NoCheck
  /\ UNCHANGED <<row, alerts, clock, dbFaults>>

-----------------------------------------------------------------------------
(* The offline checker.                                                     *)

\* A tick whose reads of the settings or the rows fail is one that does not come.
ReadAgents ==
  /\ ~check.on
  /\ check' = [on |-> TRUE, status |-> status, seen |-> lastSeen,
               cutoff |-> IF clock > OfflineAfter THEN clock - OfflineAfter ELSE 0]
  /\ UNCHANGED <<reader, open, client, row, alerts, rest>>

\* Whether the row that was read calls for an alert.
Overdue == check.status = "offline" /\ check.seen < check.cutoff

MutCheckAgent(read, insert) ==         \* alerts at every check of an outage
  /\ check.on /\ read /\ insert
  /\ check' = NoCheck
  /\ IF Overdue
     THEN offlineAt' = clock /\ alertedFor' = alertedFor \cup {check.seen}
     ELSE UNCHANGED <<offlineAt, alertedFor>>
  /\ UNCHANGED <<reader, open, client, row, recoveries, rest>>

MutCheckNone(read, insert) ==          \* a PC without an earlier alert is passed over
  /\ check.on /\ read /\ insert
  /\ check' = NoCheck
  /\ IF Overdue /\ offlineAt # 0 /\ offlineAt <= check.seen
     THEN offlineAt' = clock /\ alertedFor' = alertedFor \cup {check.seen}
     ELSE UNCHANGED <<offlineAt, alertedFor>>
  /\ UNCHANGED <<reader, open, client, row, recoveries, rest>>

\* An outage is alerted once: not when the last offline alert is later than the
\* last_seen that was read.  The error of reading that alert is ignored and counts
\* as "no alert yet"; an alert that cannot be inserted (also because the PC was
\* deleted) is not sent, and the next tick tries again.
CheckAgent(read, insert) ==
  /\ check.on
  /\ check' = NoCheck
  /\ Statement(read /\ insert)
  /\ IF Overdue /\ ~(read /\ offlineAt > check.seen) /\ insert /\ status # "none"
     THEN offlineAt' = clock /\ alertedFor' = alertedFor \cup {check.seen}
     ELSE UNCHANGED <<offlineAt, alertedFor>>
  /\ UNCHANGED <<reader, open, client, row, recoveries, clock, restarts>>

TickClock ==
  /\ clock < MaxTime /\ clock' = clock + 1
  /\ UNCHANGED <<reader, open, client, row, alerts, check, restarts, dbFaults>>

-----------------------------------------------------------------------------
PresNext ==
  \/ \E c \in Conns :
       \/ ServeWS(c) \/ AddClient(c) \/ NextMetrics(c)
       \/ \E ok \in BOOLEAN : FirstMetrics(c, ok) \/ UpsertAgent(c, ok) \/ RemoveClient(c, ok)
  \/ DeleteAgent \/ RestartServer
  \/ ReadAgents \/ TickClock
  \/ \E read, insert \in BOOLEAN : CheckAgent(read, insert)

PresSpec == PresInit /\ [][PresNext]_presVars

-----------------------------------------------------------------------------
(* Properties.                                                              *)

\* From the first of its messages that is stored to its end, the row of the
\* registered connection says "online": the late end of a connection it replaced
\* never takes the PC offline, and neither do failing statements (hub.go:216-227,
\* 528-531).
ConnectedShownOnline ==
  \A c \in Conns : client = c /\ reader[c].stored => status = "online"

\* One outage, told by its last_seen, is alerted at most once as long as the PC is
\* not deleted, however often and how late the checker looks - but again at each
\* check whose own read of the last alert fails, since that error is ignored
\* (alert.go:189-196): a step in which no statement fails never repeats an alert.
OneAlertPerOutage ==
  [][(offlineAt' \notin {0, offlineAt} \/ ~(alertedFor' \subseteq alertedFor))
       => dbFaults' # dbFaults \/ check.seen \notin alertedFor]_presVars

\* An outage that lasts is alerted, whatever outages and alerts there were
\* before and although some statements fail.  The alert that falls into it may
\* still name the outage before: the checker can have read the row when that one
\* was under way, and the code then takes its alert for one of the new outage
\* (alert.go:184-196).
OfflineAlerted ==
  \A s \in 1..MaxTime :
    (status = "offline" /\ lastSeen = s /\ clock > s + OfflineAfter)
      ~> (status # "offline" \/ lastSeen # s \/ s \in alertedFor \/ offlineAt > s)

=============================================================================
