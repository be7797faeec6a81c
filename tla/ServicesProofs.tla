---------------------------- MODULE ServicesProofs ----------------------------
(* Theorems about the hub - the registry of connections with the offline    *)
(* checker, and the requests that wait for an agent's answer - and about    *)
(* the server's smaller services: the alerter, the software inventory, the  *)
(* login limiter and the metrics batcher, for every value of their          *)
(* constants.                                                               *)
EXTENDS MCServices, ListProofs, FiniteSetTheorems

-----------------------------------------------------------------------------
(* Presence: the inductive invariant.                                        *)

\* A connection that is not registered yet has its channel open and is not the
\* client: nobody can have replaced it.  No message of it is stored.
FreshConnections ==
  \A c \in Conns :
    /\ reader[c].pc \in {"new", "open", "add"} => client # c /\ ~reader[c].stored
    /\ reader[c].pc \in {"open", "add"} => c \in open

\* The last offline alert is later than every outage that was alerted and not
\* in the future, and neither is the cut-off the checker works with.
AlertsFollowOutages ==
  /\ \A s \in alertedFor : s < offlineAt
  /\ offlineAt <= clock /\ check.cutoff <= clock

PresInv == PresTypeOK /\ FreshConnections /\ AlertsFollowOutages /\ ConnectedShownOnline

\* The new process has no connection and no row.
LEMMA PresInvInit == PresInit => PresInv
<1> SUFFICES ASSUME PresInit PROVE PresInv
  OBVIOUS
<1> USE PresenceAssumptions DEF PresInit
<1>1. reader \in [Conns -> [pc : ReaderSteps, wasOffline : BOOLEAN, stored : BOOLEAN]]
  BY DEF ReaderSteps
<1>2. check \in [on : BOOLEAN, status : {"none", "online", "offline"},
                 seen : 0..MaxTime, cutoff : 0..MaxTime]
  BY DEF NoCheck
<1>3. PresTypeOK
  <2>1. 0 \in 0..MaxTime /\ 1 \in 1..MaxTime /\ 0 \in 0..MaxRestarts /\ 0 \in 0..MaxDbFaults
    OBVIOUS
  <2> QED
    BY <1>1, <1>2, <2>1, Zenon DEF PresTypeOK
<1>4. FreshConnections /\ ConnectedShownOnline
  BY DEF FreshConnections, ConnectedShownOnline
<1>5. AlertsFollowOutages
  BY DEF AlertsFollowOutages, NoCheck
<1> QED
  BY <1>3, <1>4, <1>5 DEF PresInv

\* Two fields of one reader are set one after the other.
LEMMA ReaderUpdated ==
  ASSUME NEW S, NEW f \in [Conns -> S], NEW c \in Conns, NEW g,
         NEW p, NEW b,
         \/ g = [f EXCEPT ![c].pc = p, ![c].wasOffline = b]
            /\ [f[c] EXCEPT !.pc = p, !.wasOffline = b] \in S
         \/ g = [f EXCEPT ![c].pc = p, ![c].stored = b]
            /\ [f[c] EXCEPT !.pc = p, !.stored = b] \in S
  PROVE  g \in [Conns -> S]
OBVIOUS

\* The readers, the hub and a restart keep the registry's types.
LEMMA PresTypeNext == PresInv /\ [PresNext]_presVars => PresTypeOK'
<1> SUFFICES ASSUME PresInv, [PresNext]_presVars PROVE PresTypeOK'
  OBVIOUS
<1> USE PresenceAssumptions DEF row, alerts, rest
<1> DEFINE Reader == [pc : ReaderSteps, wasOffline : BOOLEAN, stored : BOOLEAN]
           Check  == [on : BOOLEAN, status : {"none", "online", "offline"},
                      seen : 0..MaxTime, cutoff : 0..MaxTime]
<1>0. /\ PresTypeOK /\ FreshConnections /\ reader \in [Conns -> Reader]
      /\ check \in Check /\ clock \in 1..MaxTime
  BY DEF PresInv, PresTypeOK
<1>1. ASSUME NEW c \in Conns, NEW p \in ReaderSteps, Goto(c, p)
      PROVE  reader' \in [Conns -> Reader]
  BY <1>0, <1>1 DEF Goto
<1>2. /\ {"open", "add", "upsert", "idle", "gone"} \subseteq ReaderSteps
      /\ Gone \in Reader
  BY DEF ReaderSteps, Gone
<1>s. ASSUME NEW ok \in BOOLEAN, Statement(ok) PROVE dbFaults' \in 0..MaxDbFaults
  BY <1>0, <1>s DEF Statement, PresTypeOK
<1>3. ASSUME NEW c \in Conns, ServeWS(c) PROVE PresTypeOK'
  <2>1. reader' \in [Conns -> Reader]
    BY <1>1, <1>2, <1>3 DEF ServeWS
  <2> QED
    BY <1>0, <1>3, <2>1 DEF ServeWS, PresTypeOK
<1>4. ASSUME NEW c \in Conns, NEW ok \in BOOLEAN, FirstMetrics(c, ok) PROVE PresTypeOK'
  <2>1. reader' \in [Conns -> Reader]
    <3>1. (ok /\ status = "offline") \in BOOLEAN
      OBVIOUS
    <3>2. PICK b \in BOOLEAN :
             reader' = [reader EXCEPT ![c].pc = "add", ![c].wasOffline = b]
      BY <1>4, <3>1, Zenon DEF FirstMetrics
    <3>3. [reader[c] EXCEPT !.pc = "add", !.wasOffline = b] \in Reader
      BY <1>0, <1>2
    <3> QED
      BY <1>0, <3>2, <3>3, ReaderUpdated
  <2>2. dbFaults' \in 0..MaxDbFaults
    BY <1>s, <1>4 DEF FirstMetrics
  <2>3. UNCHANGED <<open, client, status, lastSeen, alerts, check, clock, restarts>>
    BY <1>4 DEF FirstMetrics
  <2> QED
    BY <1>0, <2>1, <2>2, <2>3 DEF PresTypeOK
<1>5. ASSUME NEW c \in Conns, AddClient(c) PROVE PresTypeOK'
  <2>1. reader' \in [Conns -> Reader]
    BY <1>0, <1>2, <1>5 DEF AddClient
  <2>2. c \in open
    BY <1>0, <1>5 DEF AddClient, FreshConnections
  <2> QED
    BY <1>0, <1>5, <2>1, <2>2 DEF AddClient, PresTypeOK
<1>6. ASSUME NEW c \in Conns, NextMetrics(c) PROVE PresTypeOK'
  <2>1. reader' \in [Conns -> Reader]
    BY <1>1, <1>2, <1>6 DEF NextMetrics
  <2> QED
    BY <1>0, <1>6, <2>1 DEF NextMetrics, PresTypeOK
<1>7. ASSUME NEW c \in Conns, NEW ok \in BOOLEAN, UpsertAgent(c, ok) PROVE PresTypeOK'
  <2>1. reader' \in [Conns -> Reader]
    <3>1. (reader[c].stored \/ ok) \in BOOLEAN
      BY <1>0
    <3>2. PICK b \in BOOLEAN : reader' = [reader EXCEPT ![c].pc = "idle", ![c].stored = b]
      BY <1>7, <3>1, Zenon DEF UpsertAgent
    <3>3. [reader[c] EXCEPT !.pc = "idle", !.stored = b] \in Reader
      BY <1>0, <1>2
    <3> QED
      BY <1>0, <3>2, <3>3, ReaderUpdated
  <2>2. dbFaults' \in 0..MaxDbFaults
    BY <1>s, <1>7 DEF UpsertAgent
  <2>3. /\ status' \in {"none", "online", "offline"} /\ lastSeen' \in 0..MaxTime
        /\ UNCHANGED <<open, client, alerts, check, clock, restarts>>
    BY <1>0, <1>7 DEF UpsertAgent, PresTypeOK
  <2> QED
    BY <1>0, <2>1, <2>2, <2>3 DEF PresTypeOK
<1>8. ASSUME NEW c \in Conns, NEW ok \in BOOLEAN, RemoveClient(c, ok) PROVE PresTypeOK'
  <2>1. reader' \in [Conns -> Reader]
    BY <1>0, <1>2, <1>8 DEF RemoveClient
  <2>2. dbFaults' \in 0..MaxDbFaults
    BY <1>0, <1>s, <1>8 DEF RemoveClient, PresTypeOK
  <2>3. /\ client' \in Conns \cup {NoConn} /\ open' \subseteq Conns
        /\ client' # NoConn => client' \in open'
    BY <1>0, <1>8 DEF RemoveClient, PresTypeOK
  <2>4. status' \in {"none", "online", "offline"} /\ lastSeen' \in 0..MaxTime
    BY <1>0, <1>8 DEF RemoveClient, PresTypeOK
  <2>5. UNCHANGED <<alerts, check, clock, restarts>>
    BY <1>8 DEF RemoveClient
  <2> QED
    BY <1>0, <2>1, <2>2, <2>3, <2>4, <2>5 DEF PresTypeOK
<1>9. CASE DeleteAgent
  <2>1. reader' \in [Conns -> Reader]
    BY <1>0, <1>9 DEF DeleteAgent
  <2> QED
    BY <1>0, <1>9, <2>1 DEF DeleteAgent, PresTypeOK
<1>11. CASE RestartServer
  <2>1. reader' \in [Conns -> Reader]
    BY <1>0, <1>2, <1>11 DEF RestartServer
  <2>2. check' \in Check
    BY <1>11 DEF RestartServer, NoCheck
  <2>3. restarts' \in 0..MaxRestarts
    BY <1>0, <1>11 DEF RestartServer, PresTypeOK
  <2>4. /\ open' = {} /\ client' = NoConn
        /\ UNCHANGED <<row, alerts, clock, dbFaults>>
    BY <1>11 DEF RestartServer
  <2> QED
    BY <1>0, <2>1, <2>2, <2>3, <2>4 DEF PresTypeOK
<1>12. CASE ReadAgents
  <2>1. (IF clock > OfflineAfter THEN clock - OfflineAfter ELSE 0) \in 0..MaxTime
    BY <1>0
  <2>2. check' \in Check
    BY <1>0, <1>12, <2>1 DEF ReadAgents, PresTypeOK
  <2> QED
    BY <1>0, <1>12, <2>2 DEF ReadAgents, PresTypeOK
<1>13. ASSUME NEW read \in BOOLEAN, NEW insert \in BOOLEAN, CheckAgent(read, insert)
       PROVE  PresTypeOK'
  <2>1. check' \in Check
    BY <1>13 DEF CheckAgent, NoCheck
  <2>2. check.seen \in 0..MaxTime
    BY <1>0
  <2>3. offlineAt' \in 0..MaxTime /\ alertedFor' \subseteq 0..MaxTime
    <3>1. offlineAt \in 0..MaxTime /\ alertedFor \subseteq 0..MaxTime /\ clock \in 0..MaxTime
      BY <1>0 DEF PresTypeOK
    <3>2. \/ UNCHANGED <<offlineAt, alertedFor>>
          \/ offlineAt' = clock /\ alertedFor' = alertedFor \cup {check.seen}
      BY <1>13 DEF CheckAgent
    <3> QED
      BY <2>2, <3>1, <3>2
  <2>4. UNCHANGED <<reader, open, client, row, recoveries, clock, restarts>>
    BY <1>13 DEF CheckAgent
  <2>5. dbFaults' \in 0..MaxDbFaults
    BY <1>s, <1>13 DEF CheckAgent
  <2> QED
    BY <1>0, <2>1, <2>3, <2>4, <2>5 DEF PresTypeOK
<1>14. CASE TickClock
  BY <1>0, <1>14 DEF TickClock, PresTypeOK
<1>15. CASE UNCHANGED presVars
  BY <1>0, <1>15 DEF presVars, PresTypeOK
<1> QED
  BY <1>3, <1>4, <1>5, <1>6, <1>7, <1>8, <1>9, <1>11, <1>12, <1>13, <1>14, <1>15
     DEF PresNext

\* The rest of the invariant: connections, alerts and the row agree.
LEMMA PresInvNext == PresInv /\ [PresNext]_presVars => PresInv'
<1> SUFFICES ASSUME PresInv, [PresNext]_presVars PROVE PresInv'
  OBVIOUS
<1> USE PresenceAssumptions DEF row, alerts, rest
<1>0. /\ PresTypeOK /\ FreshConnections /\ AlertsFollowOutages /\ ConnectedShownOnline
      /\ \A c \in Conns : reader[c] \in [pc : ReaderSteps, wasOffline : BOOLEAN, stored : BOOLEAN]
      /\ reader \in [Conns -> [pc : ReaderSteps, wasOffline : BOOLEAN, stored : BOOLEAN]]
  BY DEF PresInv, PresTypeOK
<1>1. ASSUME NEW c \in Conns, NEW p, Goto(c, p)
      PROVE  /\ reader'[c].pc = p /\ reader'[c].stored = reader[c].stored
             /\ \A d \in Conns : d # c => reader'[d] = reader[d]
  BY <1>0, <1>1 DEF Goto
<1>2. FreshConnections' /\ ConnectedShownOnline'
  <2> USE DEF FreshConnections, ConnectedShownOnline
  <2>1. ASSUME NEW c \in Conns, ServeWS(c)
        PROVE  FreshConnections' /\ ConnectedShownOnline'
    BY <1>0, <1>1, <2>1 DEF ServeWS
  <2>2. ASSUME NEW c \in Conns, NEW ok \in BOOLEAN, FirstMetrics(c, ok)
        PROVE  FreshConnections' /\ ConnectedShownOnline'
    <3>1. /\ reader'[c].pc = "add" /\ reader'[c].stored = reader[c].stored
          /\ \A d \in Conns : d # c => reader'[d] = reader[d]
      BY <1>0, <2>2 DEF FirstMetrics
    <3> QED
      BY <1>0, <2>2, <3>1 DEF FirstMetrics
  <2>3. ASSUME NEW c \in Conns, AddClient(c)
        PROVE  FreshConnections' /\ ConnectedShownOnline'
    <3>1. /\ reader'[c].pc = "upsert" /\ reader'[c].stored = reader[c].stored
          /\ \A d \in Conns : d # c => reader'[d] = reader[d]
      BY <1>0, <2>3 DEF AddClient
    <3>2. /\ client' = c /\ open' = open \ ({client} \ {c}) /\ status' = status
          /\ reader[c].pc = "add"
      BY <2>3 DEF AddClient
    <3>3. FreshConnections'
      BY <1>0, <3>1, <3>2
    <3>4. ConnectedShownOnline'
      BY <1>0, <3>1, <3>2
    <3> QED
      BY <3>3, <3>4
  <2>4. ASSUME NEW c \in Conns, NextMetrics(c)
        PROVE  FreshConnections' /\ ConnectedShownOnline'
    BY <1>0, <1>1, <2>4 DEF NextMetrics
  <2>5. ASSUME NEW c \in Conns, NEW ok \in BOOLEAN, UpsertAgent(c, ok)
        PROVE  FreshConnections' /\ ConnectedShownOnline'
    <3>1. /\ reader'[c].pc = "idle" /\ reader'[c].stored = (reader[c].stored \/ ok)
          /\ \A d \in Conns : d # c => reader'[d] = reader[d]
      BY <1>0, <2>5 DEF UpsertAgent
    <3> QED
      BY <1>0, <2>5, <3>1 DEF UpsertAgent
  <2>6. ASSUME NEW c \in Conns, NEW ok \in BOOLEAN, RemoveClient(c, ok)
        PROVE  FreshConnections' /\ ConnectedShownOnline'
    <3>1. /\ reader'[c].pc = "gone" /\ ~reader'[c].stored
          /\ \A d \in Conns : d # c => reader'[d] = reader[d]
      BY <1>0, <2>6 DEF RemoveClient, Gone
    <3>2. IF client = c THEN client' = NoConn ELSE UNCHANGED <<client, row>>
      BY <2>6 DEF RemoveClient
    <3>3. open' = open \ {c}
      BY <2>6 DEF RemoveClient
    <3> QED
      BY <1>0, <3>1, <3>2, <3>3
  <2>7. CASE RestartServer
    <3>1. /\ client' = NoConn
          /\ \A d \in Conns : /\ reader'[d].pc \in {"new", "gone"}
                              /\ ~reader'[d].stored
      BY <1>0, <2>7 DEF RestartServer, Gone
    <3> QED
      BY <3>1
  <2>9. CASE DeleteAgent
    <3>1. \A d \in Conns : reader'[d].pc = reader[d].pc /\ ~reader'[d].stored
      BY <1>0, <2>9 DEF DeleteAgent
    <3> QED
      BY <1>0, <2>9, <3>1 DEF DeleteAgent
  <2>8. CASE UNCHANGED <<reader, open, client, status>>
    BY <1>0, <2>8
  <2> QED
    BY <2>1, <2>2, <2>3, <2>4, <2>5, <2>6, <2>7, <2>8, <2>9 DEF PresNext,
       ReadAgents, CheckAgent, TickClock, presVars
<1>3. AlertsFollowOutages'
  <2>1. CASE ReadAgents
    BY <1>0, <2>1 DEF ReadAgents, AlertsFollowOutages, PresTypeOK
  <2>2. ASSUME NEW read \in BOOLEAN, NEW insert \in BOOLEAN, CheckAgent(read, insert)
        PROVE  AlertsFollowOutages'
    <3>1. check'.cutoff = 0 /\ clock' = clock
      BY <2>2 DEF CheckAgent, NoCheck
    <3>2. /\ clock \in Nat /\ offlineAt \in Nat /\ alertedFor \subseteq Nat
          /\ check.seen \in Nat /\ check.cutoff \in Nat
      BY <1>0 DEF PresTypeOK
    <3>3. CASE UNCHANGED <<offlineAt, alertedFor>>
      BY <1>0, <3>1, <3>2, <3>3 DEF AlertsFollowOutages
    <3>4. CASE Overdue /\ offlineAt' = clock /\ alertedFor' = alertedFor \cup {check.seen}
      BY <1>0, <3>1, <3>2, <3>4 DEF Overdue, AlertsFollowOutages
    <3> QED
      BY <2>2, <3>3, <3>4 DEF CheckAgent
  <2>3. CASE TickClock
    BY <1>0, <2>3 DEF TickClock, AlertsFollowOutages, PresTypeOK
  <2>4. CASE RestartServer
    BY <1>0, <2>4 DEF RestartServer, NoCheck, AlertsFollowOutages, PresTypeOK
  <2>5. CASE UNCHANGED <<alertedFor, offlineAt, clock, check>>
    BY <1>0, <2>5 DEF AlertsFollowOutages
  <2>6. CASE DeleteAgent
    BY <1>0, <2>6 DEF DeleteAgent, AlertsFollowOutages, PresTypeOK
  <2> QED
    BY <2>1, <2>2, <2>3, <2>4, <2>5, <2>6 DEF PresNext, ServeWS, FirstMetrics,
       AddClient, UpsertAgent, NextMetrics, RemoveClient, presVars
<1> QED
  BY <1>2, <1>3, PresTypeNext DEF PresInv

\* PresInv holds throughout.
LEMMA PresInvariant == PresSpec => []PresInv
BY PresInvInit, PresInvNext, PTL DEF PresSpec

\* The row of a PC whose registered connection has had a message stored says
\* "online", for any number of overlapping connections that end in any order and
\* any failing statements (addClient, removeClient, UpsertAgent).
THEOREM ConnectedShownOnlineHolds == PresSpec => []ConnectedShownOnline
<1>1. PresInv => ConnectedShownOnline
  BY DEF PresInv
<1> QED
  BY <1>1, PresInvariant, PTL

\* No outage of a PC that is not deleted is alerted twice by a check whose read
\* of the last alert works, however stale the row that it works with has become
\* and whatever statements failed before (checkOffline).
THEOREM OneAlertPerOutageHolds == PresSpec => OneAlertPerOutage
<1>1. PresInv /\ [PresNext]_presVars =>
        [(offlineAt' \notin {0, offlineAt} \/ ~(alertedFor' \subseteq alertedFor))
           => dbFaults' # dbFaults \/ check.seen \notin alertedFor]_presVars
  <2> SUFFICES ASSUME PresInv, PresNext, dbFaults' = dbFaults,
                      offlineAt' \notin {0, offlineAt} \/ ~(alertedFor' \subseteq alertedFor)
               PROVE  check.seen \notin alertedFor
    BY DEF presVars
  <2>1. PICK read \in BOOLEAN, insert \in BOOLEAN : CheckAgent(read, insert)
    BY DEF PresNext, ServeWS, FirstMetrics, AddClient, UpsertAgent, NextMetrics,
       RemoveClient, DeleteAgent, RestartServer, ReadAgents, TickClock, alerts
  <2>2. read
    BY <2>1 DEF CheckAgent, Statement, PresInv, PresTypeOK
  <2>3. ~(offlineAt > check.seen)
    BY <2>1, <2>2 DEF CheckAgent
  <2> QED
    BY <2>3 DEF PresInv, PresTypeOK, AlertsFollowOutages
<1> QED
  BY <1>1, PresInvariant, PTL DEF PresSpec, OneAlertPerOutage

-----------------------------------------------------------------------------
(* RequestWaiters: the inductive invariant.                                  *)

\* The request is between its store and its return.
Active(r) == req[r].pc \notin {"new", "returned"}

\* The map holds requests of its kind that have not returned.
WaitersActive ==
  \A k \in Kinds : waiter[k] # NoRequest => req[waiter[k]].kind = k /\ Active(waiter[k])

\* A request that met no other of its kind has the map's entry while it is
\* active, has its kind to itself until its answer is in, and its channel is
\* empty as long as the agent works on it.
LoneHasItsKind ==
  \A r \in Requests \ crowded :
    /\ Active(r) => waiter[req[r].kind] = r
    /\ Active(r) \/ r \in atAgent =>
         \A q \in Requests : q # r /\ req[q].kind = req[r].kind =>
            ~Active(q) /\ q \notin atAgent
    /\ req[r].pc \in {"new", "stored"} => box[r] = NoRequest
    /\ r \in atAgent => box[r] = NoRequest

ReqInv == ReqTypeOK /\ WaitersActive /\ LoneHasItsKind /\ LoneRequestGetsItsAnswer

\* At the start nobody waits.
LEMMA ReqInvInit == ReqInit => ReqInv
<1> SUFFICES ASSUME ReqInit PROVE ReqInv
  OBVIOUS
<1> USE RequestAssumptions DEF ReqInit
<1>1. \A r \in Requests : req[r].pc = "new"
  OBVIOUS
<1>2. req \in [Requests -> [pc : RequestSteps, kind : Kinds]]
  BY DEF RequestSteps
<1>3. ReqTypeOK
  BY <1>2 DEF ReqTypeOK
<1>4. WaitersActive /\ LoneHasItsKind /\ LoneRequestGetsItsAnswer
  BY <1>1 DEF WaitersActive, LoneHasItsKind, LoneRequestGetsItsAnswer, Active
<1> QED
  BY <1>3, <1>4 DEF ReqInv

\* Moving one request on changes neither its kind nor another request.
LEMMA StepMoves ==
  ASSUME ReqTypeOK, NEW r \in Requests, NEW p \in RequestSteps, Step(r, p)
  PROVE  /\ req' \in [Requests -> [pc : RequestSteps, kind : Kinds]]
         /\ req'[r].pc = p
         /\ \A q \in Requests : req'[q].kind = req[q].kind
         /\ \A q \in Requests : q # r => req'[q].pc = req[q].pc
BY DEF ReqTypeOK, Step

\* Every step keeps the types: an answer is never kept for an unsent request.
LEMMA ReqTypeNext == ReqInv /\ [ReqNext]_reqVars => ReqTypeOK'
<1> SUFFICES ASSUME ReqInv, [ReqNext]_reqVars PROVE ReqTypeOK'
  OBVIOUS
<1> USE RequestAssumptions
<1>0. /\ ReqTypeOK /\ \A r \in Requests : req[r].kind \in Kinds
      /\ {"stored", "waiting", "answered", "failed", "returned"} \subseteq RequestSteps
  BY DEF ReqInv, ReqTypeOK, RequestSteps
<1>1. ASSUME NEW r \in Requests, StoreWaiter(r) PROVE ReqTypeOK'
  <2>1. Step(r, "stored") /\ req[r].pc = "new"
    BY <1>1 DEF StoreWaiter
  <2>2. /\ req' \in [Requests -> [pc : RequestSteps, kind : Kinds]]
        /\ \A q \in Requests : req'[q].pc \in {"new", "stored"} =>
              req[q].pc \in {"new", "stored"}
    BY <1>0, <2>1, StepMoves
  <2>3. waiter' \in [Kinds -> Requests \cup {NoRequest}] /\ crowded' \subseteq Requests
    BY <1>0, <1>1 DEF StoreWaiter, ReqTypeOK, Rivals
  <2> QED
    BY <1>0, <1>1, <2>2, <2>3 DEF StoreWaiter, ReqTypeOK
<1>2. ASSUME NEW r \in Requests, SendRequest(r) PROVE ReqTypeOK'
  <2>1. CASE Step(r, "waiting") /\ atAgent' = atAgent \cup {r}
    <3>1. /\ req' \in [Requests -> [pc : RequestSteps, kind : Kinds]]
          /\ \A q \in Requests : req'[q].pc \in {"new", "stored"} =>
                q # r /\ req[q].pc \in {"new", "stored"}
      BY <1>0, <2>1, StepMoves
    <3> QED
      BY <1>0, <1>2, <2>1, <3>1 DEF SendRequest, ReqTypeOK
  <2>2. CASE Step(r, "failed") /\ UNCHANGED atAgent
    <3>1. /\ req' \in [Requests -> [pc : RequestSteps, kind : Kinds]]
          /\ \A q \in Requests : req'[q].pc \in {"new", "stored"} =>
                req[q].pc \in {"new", "stored"}
      BY <1>0, <2>2, StepMoves
    <3> QED
      BY <1>0, <1>2, <2>2, <3>1 DEF SendRequest, ReqTypeOK
  <2> QED
    BY <1>2, <2>1, <2>2 DEF SendRequest
<1>3. ASSUME NEW r \in Requests, HandleResult(r) PROVE ReqTypeOK'
  <2>1. box' \in [Requests -> Requests \cup {NoRequest}]
    BY <1>0, <1>3 DEF HandleResult, ReqTypeOK
  <2>2. dropped' \subseteq dropped \cup {r} /\ r \in atAgent
    BY <1>3 DEF HandleResult
  <2> QED
    BY <1>0, <1>3, <2>1, <2>2 DEF HandleResult, ReqTypeOK
<1>4. ASSUME NEW r \in Requests, TakeAnswer(r) \/ TimeOut(r) \/ Return(r) PROVE ReqTypeOK'
  <2>1. PICK p \in {"answered", "failed", "returned"} : Step(r, p)
    BY <1>4 DEF TakeAnswer, TimeOut, Return
  <2>2. /\ req' \in [Requests -> [pc : RequestSteps, kind : Kinds]]
        /\ \A q \in Requests : req'[q].pc \in {"new", "stored"} =>
              req[q].pc \in {"new", "stored"}
    <3>1. p \in RequestSteps
      BY <1>0
    <3> QED
      BY <1>0, <2>1, <3>1, StepMoves
  <2>3. waiter' \in [Kinds -> Requests \cup {NoRequest}]
    BY <1>0, <1>4 DEF TakeAnswer, TimeOut, Return, ReqTypeOK
  <2>4. UNCHANGED <<box, atAgent, online, dropped, crowded>>
    BY <1>4 DEF TakeAnswer, TimeOut, Return
  <2> QED
    BY <1>0, <2>2, <2>3, <2>4 DEF ReqTypeOK
<1>5. CASE LoseAgent
  BY <1>0, <1>5 DEF LoseAgent, ReqTypeOK
<1>6. CASE UNCHANGED reqVars
  BY <1>0, <1>6 DEF reqVars, ReqTypeOK
<1> QED
  BY <1>1, <1>2, <1>3, <1>4, <1>5, <1>6 DEF ReqNext

\* Every step keeps the rest of the invariant.
LEMMA ReqInvNext == ReqInv /\ [ReqNext]_reqVars => ReqInv'
<1> SUFFICES ASSUME ReqInv, [ReqNext]_reqVars PROVE ReqInv'
  OBVIOUS
<1> USE RequestAssumptions
<1> DEFINE Rest == WaitersActive /\ LoneHasItsKind /\ LoneRequestGetsItsAnswer
<1>0. /\ ReqTypeOK /\ WaitersActive /\ LoneHasItsKind /\ LoneRequestGetsItsAnswer
      /\ \A r \in Requests : req[r].kind \in Kinds
      /\ {"stored", "waiting", "answered", "failed", "returned"} \subseteq RequestSteps
      /\ waiter \in [Kinds -> Requests \cup {NoRequest}]
      /\ box \in [Requests -> Requests \cup {NoRequest}]
      /\ \A r \in Requests : req[r].pc \in {"new", "stored"} => r \notin atAgent \cup dropped
  BY DEF ReqInv, ReqTypeOK, RequestSteps
<1> USE DEF WaitersActive, LoneHasItsKind, LoneRequestGetsItsAnswer, Active
<1>1. ASSUME NEW r \in Requests, StoreWaiter(r) PROVE Rest'
  <2>1. /\ req'[r].pc = "stored" /\ req[r].pc = "new"
        /\ \A q \in Requests : req'[q].kind = req[q].kind
        /\ \A q \in Requests : q # r => req'[q].pc = req[q].pc
        /\ UNCHANGED <<box, atAgent, online, dropped>>
    BY <1>0, <1>1, StepMoves DEF StoreWaiter
  <2>2. /\ waiter'[req[r].kind] = r
        /\ \A k \in Kinds : k # req[r].kind => waiter'[k] = waiter[k]
    BY <1>0, <1>1 DEF StoreWaiter
  <2>3. /\ crowded \subseteq crowded'
        /\ \A q \in Requests \ crowded' : q # r /\ req[q].kind = req[r].kind =>
              ~Active(q) /\ q \notin atAgent
        /\ r \notin crowded' => \A q \in Requests : q # r /\ req[q].kind = req[r].kind =>
              ~Active(q) /\ q \notin atAgent
    BY <1>1 DEF StoreWaiter, Rivals
  <2>4. WaitersActive'
    BY <1>0, <2>1, <2>2
  <2>5. LoneHasItsKind'
    BY <1>0, <2>1, <2>2, <2>3
  <2>6. LoneRequestGetsItsAnswer'
    BY <1>0, <2>1, <2>3
  <2> QED
    BY <2>4, <2>5, <2>6
<1>2. ASSUME NEW r \in Requests, SendRequest(r) PROVE Rest'
  <2>1. PICK p \in {"waiting", "failed"} : Step(r, p)
    BY <1>2 DEF SendRequest
  <2>2. /\ req'[r].pc = p /\ req[r].pc = "stored"
        /\ \A q \in Requests : req'[q].kind = req[q].kind
        /\ \A q \in Requests : q # r => req'[q].pc = req[q].pc
        /\ UNCHANGED <<waiter, box, online, dropped, crowded>>
        /\ atAgent' \subseteq atAgent \cup {r} /\ atAgent \subseteq atAgent'
    BY <1>0, <1>2, <2>1, StepMoves DEF SendRequest
  <2>3. WaitersActive'
    BY <1>0, <2>2
  <2>4. LoneHasItsKind'
    BY <1>0, <2>2
  <2>5. LoneRequestGetsItsAnswer'
    BY <1>0, <2>2
  <2> QED
    BY <2>3, <2>4, <2>5
<1>3. ASSUME NEW r \in Requests, HandleResult(r) PROVE Rest'
  <2> DEFINE w == waiter[req[r].kind]
  <2>1. /\ r \in atAgent /\ online /\ atAgent' = atAgent \ {r}
        /\ UNCHANGED <<req, waiter, online, crowded>>
        /\ IF w # NoRequest /\ box[w] = NoRequest
           THEN box' = [box EXCEPT ![w] = r] /\ UNCHANGED dropped
           ELSE dropped' = dropped \cup {r} /\ UNCHANGED box
    BY <1>3 DEF HandleResult
  <2>2. w \in Requests \cup {NoRequest}
        /\ (w # NoRequest => req[w].kind = req[r].kind /\ Active(w))
    BY <1>0
  <2>3. r \notin crowded => w = r \/ w = NoRequest
    BY <1>0, <2>1, <2>2
  <2>4. r \notin crowded /\ Active(r) => w = r /\ box[r] = NoRequest
    BY <1>0, <2>1
  <2>5. \A q \in Requests \ crowded : q = w => q = r
    BY <1>0, <2>1, <2>2
  <2> HIDE DEF w
  <2>6. CASE w # NoRequest /\ box[w] = NoRequest
    <3>1. \A q \in Requests : box'[q] = IF q = w THEN r ELSE box[q]
      BY <1>0, <2>1, <2>2, <2>6
    <3>2. dropped' = dropped
      BY <2>1, <2>6
    <3>3. WaitersActive'
      BY <1>0, <2>1
    <3>4. LoneHasItsKind'
      BY <1>0, <2>1, <2>2, <2>5, <3>1
    <3>5. LoneRequestGetsItsAnswer'
      BY <1>0, <2>1, <2>5, <3>1, <3>2
    <3> QED
      BY <3>3, <3>4, <3>5
  <2>7. CASE ~(w # NoRequest /\ box[w] = NoRequest)
    <3>1. dropped' = dropped \cup {r} /\ box' = box
      BY <2>1, <2>7
    <3>2. r \notin crowded => req[r].pc = "returned"
      BY <1>0, <2>1, <2>4, <2>7
    <3>3. WaitersActive'
      BY <1>0, <2>1
    <3>4. LoneHasItsKind'
      BY <1>0, <2>1, <3>1
    <3>5. LoneRequestGetsItsAnswer'
      BY <1>0, <2>1, <3>1, <3>2
    <3> QED
      BY <3>3, <3>4, <3>5
  <2> QED
    BY <2>6, <2>7
<1>4. ASSUME NEW r \in Requests, TakeAnswer(r) \/ TimeOut(r) PROVE Rest'
  <2>1. PICK p \in {"answered", "failed"} : Step(r, p)
    BY <1>4 DEF TakeAnswer, TimeOut
  <2>2. /\ req'[r].pc = p /\ req[r].pc = "waiting"
        /\ \A q \in Requests : req'[q].kind = req[q].kind
        /\ \A q \in Requests : q # r => req'[q].pc = req[q].pc
        /\ UNCHANGED <<waiter, box, atAgent, online, dropped, crowded>>
    BY <1>0, <1>4, <2>1, StepMoves DEF TakeAnswer, TimeOut
  <2>3. WaitersActive'
    BY <1>0, <2>2
  <2>4. LoneHasItsKind'
    BY <1>0, <2>2
  <2>5. LoneRequestGetsItsAnswer'
    BY <1>0, <2>2
  <2> QED
    BY <2>3, <2>4, <2>5
<1>5. ASSUME NEW r \in Requests, Return(r) PROVE Rest'
  <2>1. /\ req'[r].pc = "returned" /\ req[r].pc \in {"answered", "failed"}
        /\ \A q \in Requests : req'[q].kind = req[q].kind
        /\ \A q \in Requests : q # r => req'[q].pc = req[q].pc
        /\ UNCHANGED <<box, atAgent, online, dropped, crowded>>
    BY <1>0, <1>5, StepMoves DEF Return
  <2>2. /\ waiter'[req[r].kind] = NoRequest
        /\ \A k \in Kinds : k # req[r].kind => waiter'[k] = waiter[k]
    BY <1>0, <1>5 DEF Return
  <2>3. WaitersActive'
    BY <1>0, <2>1, <2>2
  <2>4. LoneHasItsKind'
    BY <1>0, <2>1, <2>2
  <2>5. LoneRequestGetsItsAnswer'
    BY <1>0, <2>1
  <2> QED
    BY <2>3, <2>4, <2>5
<1>6. ASSUME LoseAgent PROVE Rest'
  <2>1. /\ online' = FALSE /\ atAgent' = {}
        /\ UNCHANGED <<req, waiter, box, crowded>>
    BY <1>6 DEF LoseAgent
  <2> QED
    BY <1>0, <2>1
<1>7. ASSUME UNCHANGED reqVars PROVE Rest'
  BY <1>0, <1>7 DEF reqVars
<1> QED
  <2>1. Rest'
    BY <1>1, <1>2, <1>3, <1>4, <1>5, <1>6, <1>7 DEF ReqNext
  <2> QED
    BY <2>1, ReqTypeNext DEF ReqInv

\* A request that met no other of its kind gets its own answer, for any number
\* of requests, late answers and timeouts (KillProcess, RequestAgentLogs and
\* the waiter maps of the hub).
THEOREM LoneRequestGetsItsAnswerHolds == ReqSpec => []LoneRequestGetsItsAnswer
<1>1. ReqInv => LoneRequestGetsItsAnswer
  BY DEF ReqInv
<1> QED
  BY <1>1, ReqInvInit, ReqInvNext, PTL DEF ReqSpec

-----------------------------------------------------------------------------
(* The alerter: the inductive invariant.                                     *)

\* What holds of the counter at each point of CheckMetrics when one reader runs
\* it at a time: the count and the history agree, and a reading that is due for
\* an alert stays on the way to it.
ReaderSound(r) ==
  /\ checks[r].pc = "store" =>
       /\ checks[r].n = since
       /\ due => since >= ConsecutiveRequired /\ CooledDown({"high"})
  /\ checks[r].pc = "query" =>
       /\ consecutive = since /\ since >= ConsecutiveRequired
       /\ due => CooledDown({"high"})
  /\ checks[r].pc = "fire" =>
       since >= ConsecutiveRequired /\ (checks[r].blind \/ CooledDown({"high"}))
  /\ checks[r].pc = "reset" => since = 0 /\ (due => lastAlert["high"] = alertClock)
  /\ checks[r].pc \in {"app", "fireApp"} =>
       consecutive = since /\ (due => lastAlert["high"] = alertClock)

OneAtATime ==
  \A r, q \in Readers : checks[r].pc # "idle" /\ checks[q].pc # "idle" => r = q

CountKept ==
  (\A r \in Readers : checks[r].pc = "idle") => consecutive = since

\* A restart and a failed insert only shorten the count.
SinceWithinStreak == since <= streak

AlertInv ==
  /\ AlertTypeOK /\ SinceWithinStreak
  /\ ~raced => OneAtATime /\ CountKept /\ \A r \in Readers : ReaderSound(r)

CheckType == [pc : CheckSteps, n : 0..MaxStreak, app : Apps \cup {NoApp}, blind : BOOLEAN]

\* No check is under way at the start, and the counts agree.
LEMMA AlertStarts == AlertInit => AlertInv
<1> SUFFICES ASSUME AlertInit PROVE AlertInv
  OBVIOUS
<1> USE AlerterAssumptions DEF AlertInit
<1>1. checks \in [Readers -> CheckType]
  BY DEF CheckSteps, CheckType, AtRest
<1>2. lastAlert \in [Apps \cup {"high"} -> 0..MaxAlertTime]
  OBVIOUS
<1>3. due \in BOOLEAN /\ raced \in BOOLEAN
  OBVIOUS
<1>4. /\ consecutive \in 0..MaxStreak /\ streak \in 0..MaxStreak /\ since \in 0..MaxStreak
      /\ alertClock \in 1..MaxAlertTime
  OBVIOUS
<1>5. AlertTypeOK
  BY <1>1, <1>2, <1>3, <1>4 DEF AlertTypeOK, CheckType
<1>6. \A r \in Readers : checks[r].pc = "idle"
  BY DEF AtRest
<1> QED
  BY <1>5, <1>6 DEF AlertInv, SinceWithinStreak, OneAtATime, CountKept, ReaderSound

\* A reader's own step leaves the other readers alone.
LEMMA AtMoves ==
  ASSUME AlertTypeOK, NEW r \in Readers, NEW p \in CheckSteps, At(r, p)
  PROVE  /\ checks' \in [Readers -> CheckType]
         /\ checks'[r].pc = p
         /\ \A q \in Readers : q # r => checks'[q] = checks[q]
<1>1. checks \in [Readers -> CheckType] /\ AtRest \in CheckType /\ AtRest.pc = "idle"
  BY AlerterAssumptions DEF AlertTypeOK, CheckType, AtRest, CheckSteps
<1>2. CASE p = "idle"
  <2>1. checks' = [checks EXCEPT ![r] = AtRest]
    BY <1>2 DEF At
  <2> QED
    BY <1>1, <1>2, <2>1
<1>3. CASE p # "idle"
  <2>1. checks' = [checks EXCEPT ![r] = [checks[r] EXCEPT !.pc = p]]
    BY <1>3 DEF At
  <2> QED
    BY <1>1, <2>1 DEF CheckType
<1> QED
  BY <1>2, <1>3

\* The look-up of the last alert moves its reader alone, and notes its failure.
LEMMA QueryMoves ==
  ASSUME AlertTypeOK, NEW r \in Readers, NEW ok \in BOOLEAN, QueryLast(r, ok)
  PROVE  /\ checks' \in [Readers -> CheckType]
         /\ checks'[r].pc = IF ~ok \/ CooledDown({"high"}) THEN "fire" ELSE "app"
         /\ checks'[r].blind = ~ok
         /\ \A q \in Readers : q # r => checks'[q] = checks[q]
<1>1. checks \in [Readers -> CheckType] /\ {"fire", "app"} \subseteq CheckSteps
  BY DEF AlertTypeOK, CheckType, CheckSteps
<1> DEFINE p == IF ~ok \/ CooledDown({"high"}) THEN "fire" ELSE "app"
           b == ~ok
<1>2. checks' = [checks EXCEPT ![r].pc = p, ![r].blind = b]
  BY DEF QueryLast
<1>3. p \in CheckSteps /\ b \in BOOLEAN
  BY <1>1
<1> HIDE DEF p, b
<1>4. /\ checks' \in [Readers -> CheckType] /\ checks'[r].pc = p /\ checks'[r].blind = b
      /\ \A q \in Readers : q # r => checks'[q] = checks[q]
  BY <1>1, <1>2, <1>3 DEF CheckType
<1> QED
  BY <1>4 DEF p, b

\* Every step keeps the types, and the count within the streak.
LEMMA AlertTypeNext ==
  AlertTypeOK /\ SinceWithinStreak /\ [AlertNext]_alertVars
    => AlertTypeOK' /\ SinceWithinStreak'
<1> SUFFICES ASSUME AlertTypeOK, SinceWithinStreak, [AlertNext]_alertVars
             PROVE  AlertTypeOK' /\ SinceWithinStreak'
  OBVIOUS
<1> USE AlerterAssumptions DEF SinceWithinStreak
<1>0. /\ checks \in [Readers -> CheckType] /\ consecutive \in 0..MaxStreak
      /\ streak \in 0..MaxStreak /\ since \in 0..MaxStreak /\ alertClock \in 1..MaxAlertTime
      /\ lastAlert \in [Apps \cup {"high"} -> 0..MaxAlertTime]
      /\ {"idle", "store", "query", "fire", "reset", "app", "fireApp"} = CheckSteps
  BY DEF AlertTypeOK, CheckType, CheckSteps
<1>1. ASSUME NEW r \in Readers, NEW m \in Readings, CheckMetrics(r, m[1], m[2])
      PROVE  AlertTypeOK' /\ SinceWithinStreak'
  <2>1. m[2] \in Apps \cup {NoApp}
    OBVIOUS
  <2>2. /\ consecutive + 1 \in 0..MaxStreak /\ streak + 1 \in 0..MaxStreak
        /\ since + 1 \in 0..MaxStreak
    BY <1>0, <1>1 DEF CheckMetrics
  <2>3. /\ [AtRest EXCEPT !.pc = "store", !.n = consecutive + 1, !.app = m[2]] \in CheckType
        /\ [AtRest EXCEPT !.pc = "app", !.app = m[2]] \in CheckType
    <3>1. AtRest \in CheckType
      BY <1>0 DEF AtRest, CheckType
    <3> QED
      BY <1>0, <2>1, <2>2, <3>1 DEF CheckType
  <2>4. checks' \in [Readers -> CheckType]
    BY <1>0, <1>1, <2>3 DEF CheckMetrics
  <2>5. /\ consecutive' \in 0..MaxStreak /\ streak' \in 0..MaxStreak
        /\ since' \in 0..MaxStreak /\ since' <= streak'
    BY <1>0, <1>1, <2>2 DEF CheckMetrics
  <2>6. due' \in BOOLEAN /\ raced' \in BOOLEAN
    BY <1>1, Zenon DEF CheckMetrics
  <2> QED
    BY <1>0, <1>1, <2>4, <2>5, <2>6 DEF CheckMetrics, AlertTypeOK, CheckType
<1>2. ASSUME NEW r \in Readers, NEW ok \in BOOLEAN,
             StoreCount(r) \/ QueryLast(r, ok) \/ ResetCount(r) \/ CheckApp(r, ok)
      PROVE  AlertTypeOK' /\ SinceWithinStreak'
  <2>1. (\E p \in CheckSteps : At(r, p)) \/ QueryLast(r, ok)
    BY <1>0, <1>2 DEF StoreCount, ResetCount, CheckApp
  <2>2. checks' \in [Readers -> CheckType]
    BY <2>1, AtMoves, QueryMoves
  <2>3. consecutive' \in 0..MaxStreak
    BY <1>0, <1>2 DEF StoreCount, QueryLast, ResetCount, CheckApp, CheckType
  <2>4. UNCHANGED <<lastAlert, streak, since, due, raced, alertClock>>
    BY <1>2 DEF StoreCount, QueryLast, ResetCount, CheckApp
  <2> QED
    BY <1>0, <2>2, <2>3, <2>4 DEF AlertTypeOK, CheckType
<1>3. ASSUME NEW r \in Readers, NEW ok \in BOOLEAN, FireHigh(r, ok) \/ FireApp(r, ok)
      PROVE  AlertTypeOK' /\ SinceWithinStreak'
  <2>1. \E p \in CheckSteps : At(r, p)
    BY <1>0, <1>3 DEF FireHigh, FireApp
  <2>2. checks' \in [Readers -> CheckType]
    BY <2>1, AtMoves
  <2>3. lastAlert' \in [Apps \cup {"high"} -> 0..MaxAlertTime]
    BY <1>0, <1>3 DEF FireHigh, FireApp
  <2>4. /\ streak' \in 0..MaxStreak /\ since' \in 0..MaxStreak /\ since' <= streak'
        /\ UNCHANGED <<consecutive, raced, alertClock>>
    BY <1>0, <1>3 DEF FireHigh, FireApp
  <2>5. due' \in BOOLEAN
    BY <1>0, <1>3 DEF FireHigh, FireApp, AlertTypeOK
  <2> QED
    BY <1>0, <2>2, <2>3, <2>4, <2>5 DEF AlertTypeOK, CheckType
<1>4. CASE AlertTick
  BY <1>0, <1>4 DEF AlertTick, AlertTypeOK
<1>5. CASE RestartAlerter
  <2>1. checks' \in [Readers -> CheckType]
    BY <1>0, <1>5 DEF RestartAlerter, AtRest, CheckType
  <2>2. /\ consecutive' \in 0..MaxStreak /\ since' \in 0..MaxStreak /\ since' <= streak'
        /\ UNCHANGED <<lastAlert, streak, raced, alertClock>>
    BY <1>0, <1>5 DEF RestartAlerter
  <2>3. due' \in BOOLEAN
    BY <1>5 DEF RestartAlerter
  <2> QED
    BY <1>0, <2>1, <2>2, <2>3 DEF AlertTypeOK, CheckType
<1>6. CASE DeleteAlerts
  <2>1. lastAlert' \in [Apps \cup {"high"} -> 0..MaxAlertTime]
    BY <1>6 DEF DeleteAlerts
  <2>2. due' \in BOOLEAN
    BY <1>6 DEF DeleteAlerts
  <2>3. UNCHANGED <<checks, consecutive, streak, since, raced, alertClock>>
    BY <1>6 DEF DeleteAlerts
  <2> QED
    BY <1>0, <2>1, <2>2, <2>3 DEF AlertTypeOK, CheckType
<1>7. CASE UNCHANGED alertVars
  BY <1>7 DEF alertVars, AlertTypeOK
<1> QED
  BY <1>1, <1>2, <1>3, <1>4, <1>5, <1>6, <1>7 DEF AlertNext

\* The count follows the history as long as no two readers overlap.
LEMMA AlertInvNext == AlertInv /\ [AlertNext]_alertVars => AlertInv'
<1> SUFFICES ASSUME AlertInv, [AlertNext]_alertVars, ~raced'
             PROVE  OneAtATime' /\ CountKept' /\ \A r \in Readers : ReaderSound(r)'
  BY AlertTypeNext DEF AlertInv
<1> USE AlerterAssumptions
<1> DEFINE Goal == OneAtATime' /\ CountKept' /\ \A r \in Readers : ReaderSound(r)'
<1>0. /\ AlertTypeOK /\ alertClock \in Nat /\ since \in Nat /\ consecutive \in Nat
      /\ checks \in [Readers -> CheckType]
      /\ {"idle", "store", "query", "fire", "reset", "app", "fireApp"} = CheckSteps
  BY DEF AlertInv, AlertTypeOK, CheckType, CheckSteps
<1>1. ~raced
  BY DEF AlertNext, CheckMetrics, StoreCount, QueryLast, FireHigh, ResetCount, CheckApp,
     FireApp, AlertTick, RestartAlerter, DeleteAlerts, alertVars
<1>2. OneAtATime /\ CountKept /\ \A r \in Readers : ReaderSound(r)
  BY <1>1 DEF AlertInv
\* A step of a reader that runs alone settles the goal by what it leaves behind.
<1>3. ASSUME NEW r \in Readers, \A q \in Readers : q # r => checks'[q].pc = "idle",
             ReaderSound(r)', checks'[r].pc = "idle" => consecutive' = since'
      PROVE  Goal
  BY <1>3 DEF OneAtATime, CountKept, ReaderSound
<1>4. ASSUME NEW r \in Readers, checks[r].pc # "idle", NEW p \in CheckSteps, At(r, p)
      PROVE  /\ checks'[r].pc = p
             /\ \A q \in Readers : q # r => checks'[q].pc = "idle"
  <2>1. \A q \in Readers : q # r => checks[q].pc = "idle"
    BY <1>2, <1>4 DEF OneAtATime
  <2> QED
    BY <1>0, <1>4, <2>1, AtMoves
<1>5. ASSUME NEW r \in Readers, NEW m \in Readings, CheckMetrics(r, m[1], m[2])
      PROVE  Goal
  <2>1. \A q \in Readers : checks[q].pc = "idle"
    BY <1>5 DEF CheckMetrics
  <2>2. consecutive = since
    BY <1>2, <2>1 DEF CountKept
  <2>3. CASE m[1]
    <3>1. /\ checks' = [checks EXCEPT ![r] = [AtRest EXCEPT !.pc = "store",
                                              !.n = consecutive + 1, !.app = m[2]]]
          /\ since' = since + 1 /\ lastAlert' = lastAlert /\ alertClock' = alertClock
          /\ due' = (since' >= ConsecutiveRequired /\ CooledDown({"high"}))
      BY <1>5, <2>3 DEF CheckMetrics
    <3>2. /\ checks'[r].pc = "store" /\ checks'[r].n = since'
          /\ \A q \in Readers : q # r => checks'[q].pc = "idle"
      BY <1>0, <2>1, <2>2, <3>1 DEF AtRest
    <3>3. CooledDown({"high"})' <=> CooledDown({"high"})
      BY <3>1 DEF CooledDown
    <3>4. due' => since' >= ConsecutiveRequired /\ CooledDown({"high"})'
      BY <3>1, <3>3
    <3>5. ReaderSound(r)'
      BY <3>2, <3>4 DEF ReaderSound
    <3> QED
      BY <1>3, <3>2, <3>5
  <2>4. CASE ~m[1]
    <3>1. /\ checks' = [checks EXCEPT ![r] = [AtRest EXCEPT !.pc = "app", !.app = m[2]]]
          /\ since' = 0 /\ consecutive' = 0 /\ ~due'
      BY <1>5, <2>4 DEF CheckMetrics
    <3>2. /\ checks'[r].pc = "app"
          /\ \A q \in Readers : q # r => checks'[q].pc = "idle"
      BY <1>0, <2>1, <3>1 DEF AtRest
    <3>3. ReaderSound(r)'
      BY <3>1, <3>2 DEF ReaderSound
    <3> QED
      BY <1>3, <3>2, <3>3
  <2> QED
    BY <2>3, <2>4
<1>6. ASSUME NEW r \in Readers, StoreCount(r) PROVE Goal
  <2> DEFINE p == IF checks[r].n >= ConsecutiveRequired THEN "query" ELSE "app"
  <2>1. /\ checks[r].pc = "store" /\ At(r, p) /\ consecutive' = checks[r].n
        /\ UNCHANGED <<lastAlert, since, due, raced, alertClock>>
    BY <1>6 DEF StoreCount
  <2>2. p \in CheckSteps
    BY <1>0
  <2>3. /\ checks[r].n = since
        /\ due => since >= ConsecutiveRequired /\ CooledDown({"high"})
    BY <1>2, <2>1 DEF ReaderSound
  <2>4. CooledDown({"high"})' <=> CooledDown({"high"})
    BY <2>1 DEF CooledDown
  <2>5. /\ p \in {"query", "app"}
        /\ p = "query" => since >= ConsecutiveRequired /\ (due => CooledDown({"high"}))
        /\ p = "app" => ~due
    BY <1>0, <2>3
  <2>6. p # "idle" /\ checks[r].pc # "idle"
    BY <2>1, <2>5
  <2> HIDE DEF p
  <2>7. /\ checks'[r].pc = p
        /\ \A q \in Readers : q # r => checks'[q].pc = "idle"
    BY <1>4, <2>1, <2>2, <2>6
  <2>8. ReaderSound(r)'
    BY <2>1, <2>3, <2>4, <2>5, <2>7 DEF ReaderSound
  <2> QED
    BY <1>3, <2>6, <2>7, <2>8
<1>7. ASSUME NEW r \in Readers, NEW ok \in BOOLEAN, QueryLast(r, ok) PROVE Goal
  <2>1. /\ checks[r].pc = "query"
        /\ UNCHANGED <<consecutive, lastAlert, since, due, raced, alertClock>>
    BY <1>7 DEF QueryLast
  <2>2. /\ consecutive = since /\ since >= ConsecutiveRequired
        /\ due => CooledDown({"high"})
    BY <1>2, <2>1 DEF ReaderSound
  <2>3. \A q \in Readers : q # r => checks[q].pc = "idle"
    BY <1>2, <2>1 DEF OneAtATime
  <2>4. /\ checks'[r].pc = IF ~ok \/ CooledDown({"high"}) THEN "fire" ELSE "app"
        /\ checks'[r].blind = ~ok
        /\ \A q \in Readers : q # r => checks'[q].pc = "idle"
    BY <1>0, <1>7, <2>3, QueryMoves
  <2>5. CooledDown({"high"})' <=> CooledDown({"high"})
    BY <2>1 DEF CooledDown
  <2>6. \/ /\ checks'[r].pc = "fire"
           /\ checks'[r].blind \/ CooledDown({"high"})
        \/ checks'[r].pc = "app" /\ ~due
    BY <2>2, <2>4
  <2>7. ReaderSound(r)'
    BY <2>1, <2>2, <2>5, <2>6 DEF ReaderSound
  <2> QED
    BY <1>3, <2>4, <2>6, <2>7
<1>8. ASSUME NEW r \in Readers, NEW ok \in BOOLEAN, FireHigh(r, ok) PROVE Goal
  <2>1. /\ checks[r].pc = "fire" /\ At(r, "reset") /\ since' = 0
        /\ IF ok THEN lastAlert' = [lastAlert EXCEPT !["high"] = alertClock] ELSE ~due'
        /\ alertClock' = alertClock
    BY <1>8 DEF FireHigh
  <2>2. due' => lastAlert'["high"] = alertClock'
    BY <1>0, <2>1 DEF AlertTypeOK
  <2>3. /\ checks'[r].pc = "reset"
        /\ \A q \in Readers : q # r => checks'[q].pc = "idle"
    BY <1>0, <1>4, <2>1
  <2>4. ReaderSound(r)'
    BY <2>1, <2>2, <2>3 DEF ReaderSound
  <2> QED
    BY <1>3, <2>3, <2>4
<1>9. ASSUME NEW r \in Readers, ResetCount(r) PROVE Goal
  <2>1. /\ checks[r].pc = "reset" /\ At(r, "app") /\ consecutive' = 0
        /\ UNCHANGED <<lastAlert, since, due, raced, alertClock>>
    BY <1>9 DEF ResetCount
  <2>2. since = 0 /\ (due => lastAlert["high"] = alertClock)
    BY <1>2, <2>1 DEF ReaderSound
  <2>3. /\ checks'[r].pc = "app"
        /\ \A q \in Readers : q # r => checks'[q].pc = "idle"
    BY <1>0, <1>4, <2>1
  <2>4. ReaderSound(r)'
    BY <2>1, <2>2, <2>3 DEF ReaderSound
  <2> QED
    BY <1>3, <2>3, <2>4
<1>10. ASSUME NEW r \in Readers, NEW ok \in BOOLEAN, CheckApp(r, ok) PROVE Goal
  <2>1. PICK p \in {"fireApp", "idle"} :
          /\ checks[r].pc = "app" /\ At(r, p)
          /\ UNCHANGED <<consecutive, lastAlert, since, due, raced, alertClock>>
    BY <1>10 DEF CheckApp
  <2>2. consecutive = since /\ (due => lastAlert["high"] = alertClock)
    BY <1>2, <2>1 DEF ReaderSound
  <2>3. p \in CheckSteps
    BY <1>0
  <2>4. /\ checks'[r].pc = p
        /\ \A q \in Readers : q # r => checks'[q].pc = "idle"
    BY <1>4, <2>1, <2>3
  <2>5. ReaderSound(r)'
    BY <2>1, <2>2, <2>4 DEF ReaderSound
  <2> QED
    BY <1>3, <2>1, <2>2, <2>4, <2>5
<1>11. ASSUME NEW r \in Readers, NEW ok \in BOOLEAN, FireApp(r, ok) PROVE Goal
  <2>1. /\ checks[r].pc = "fireApp" /\ At(r, "idle")
        /\ UNCHANGED <<consecutive, since>>
    BY <1>11 DEF FireApp
  <2>2. consecutive = since
    BY <1>2, <2>1 DEF ReaderSound
  <2>3. /\ checks'[r].pc = "idle"
        /\ \A q \in Readers : q # r => checks'[q].pc = "idle"
    BY <1>0, <1>4, <2>1
  <2>4. ReaderSound(r)'
    BY <2>3 DEF ReaderSound
  <2> QED
    BY <1>3, <2>1, <2>2, <2>3, <2>4
<1>12. ASSUME AlertTick PROVE Goal
  <2>1. /\ \A r \in Readers : checks[r].pc = "idle"
        /\ UNCHANGED <<checks, consecutive, since>>
    BY <1>12 DEF AlertTick
  <2> QED
    BY <1>2, <2>1 DEF OneAtATime, CountKept, ReaderSound
<1>13. ASSUME RestartAlerter PROVE Goal
  <2>1. /\ \A r \in Readers : checks'[r].pc = "idle"
        /\ consecutive' = 0 /\ since' = 0
    BY <1>13 DEF RestartAlerter, AtRest
  <2> QED
    BY <2>1 DEF OneAtATime, CountKept, ReaderSound
<1>14. ASSUME DeleteAlerts PROVE Goal
  <2>1. /\ CooledDown({"high"})' /\ ~due'
        /\ UNCHANGED <<checks, consecutive, since>>
    BY <1>14 DEF DeleteAlerts, CooledDown
  <2> QED
    BY <1>2, <2>1 DEF OneAtATime, CountKept, ReaderSound
<1>15. ASSUME UNCHANGED alertVars PROVE Goal
  BY <1>2, <1>15 DEF alertVars, OneAtATime, CountKept, ReaderSound, CooledDown
<1> QED
  BY <1>5, <1>6, <1>7, <1>8, <1>9, <1>10, <1>11, <1>12, <1>13, <1>14, <1>15 DEF AlertNext

\* Until two connections of a PC overlap, an alert is raised only when the count and
\* the cooldown call for it or the cooldown could not be read, and a reading that is
\* due for one has it recorded unless that insert fails: for every threshold,
\* cooldown and blacklist, across restarts, deletions and suppressed alerts
\* (CheckMetrics).
THEOREM AlertExactlyWhenDueHolds == AlertSpec => []AlertExactlyWhenDue
<1>1. AlertInv => AlertExactlyWhenDue
  BY AlerterAssumptions
     DEF AlertInv, AlertTypeOK, SinceWithinStreak, ReaderSound, AlertExactlyWhenDue
<1> QED
  BY <1>1, AlertStarts, AlertInvNext, PTL DEF AlertSpec

-----------------------------------------------------------------------------
(* The software inventory: the inductive invariant.                          *)

\* Every snapshot the agent still has to send, every one on the connection and
\* the table itself come from one scan each.
FromOneScan ==
  /\ table \in scans
  /\ \A b \in Builders : builder[b].pc \in {"swap", "send"} => builder[b].snap \in scans
  /\ \A i \in 1..Len(wire) : wire[i] \in scans
  /\ Nothing \in scans

InventoryInv == InvTypeOK /\ FromOneScan

\* At the start the table is empty and so is every snapshot.
LEMMA InventoryInit == InvInit => InventoryInv
<1> SUFFICES ASSUME InvInit PROVE InventoryInv
  OBVIOUS
<1> USE InventoryAssumptions DEF InvInit
<1>1. Nothing \in Snapshots
  BY DEF Nothing, Snapshots
<1>2. builder \in [Builders -> [pc : {"idle", "due", "swap", "send"}, snap : Snapshots]]
  BY <1>1
<1>3. wire \in Seq(Snapshots) /\ Len(wire) = 0
  OBVIOUS
<1>4. firstSeen \in [Products -> 0..MaxReconciled] /\ reconciled \in 0..MaxReconciled
  BY DEF MaxReconciled
<1>5. \A p \in Products : table[p] = NotInstalled <=> firstSeen[p] = 0
  BY DEF Nothing
<1>6. changes \in 0..MaxChanges /\ uninstalls \in 0..MaxUninstalls
      /\ mishaps \in 0..MaxMishaps
  OBVIOUS
<1>7. InvTypeOK
  BY <1>1, <1>2, <1>3, <1>4, <1>5, <1>6 DEF InvTypeOK
<1>8. FromOneScan
  BY <1>3 DEF FromOneScan
<1> QED
  BY <1>7, <1>8 DEF InventoryInv

\* Reconciling with one snapshot replaces the table and keeps its types.
LEMMA ReconcileType ==
  ASSUME InvTypeOK, NEW s \in Snapshots, ReconcileSoftwareInventory(s),
         reconciled' \in 0..MaxReconciled, reconciled' # 0
  PROVE  /\ table' = s
         /\ firstSeen' \in [Products -> 0..MaxReconciled]
         /\ \A p \in Products : table'[p] = NotInstalled <=> firstSeen'[p] = 0
         /\ \A p \in Products : table[p] # NotInstalled /\ table'[p] # NotInstalled =>
              firstSeen'[p] = firstSeen[p]
<1>1. /\ firstSeen \in [Products -> 0..MaxReconciled]
      /\ \A p \in Products : table[p] = NotInstalled <=> firstSeen[p] = 0
  BY DEF InvTypeOK
<1>2. table' = s
  BY DEF ReconcileSoftwareInventory
<1>3. ASSUME NEW p \in Products
      PROVE  /\ s[p] = NotInstalled => firstSeen'[p] = 0
             /\ s[p] # NotInstalled /\ table[p] = NotInstalled => firstSeen'[p] = reconciled'
             /\ s[p] # NotInstalled /\ table[p] # NotInstalled => firstSeen'[p] = firstSeen[p]
  BY DEF ReconcileSoftwareInventory
<1>4. DOMAIN firstSeen' = Products /\ firstSeen' = [p \in Products |-> firstSeen'[p]]
  BY DEF ReconcileSoftwareInventory
<1>5. 0 \in 0..MaxReconciled
  BY DEF MaxReconciled
<1>6. firstSeen' \in [Products -> 0..MaxReconciled]
  BY <1>1, <1>3, <1>4, <1>5
<1> QED
  BY <1>1, <1>2, <1>3, <1>6

\* Every step of the scans, the messages and the reconciliation keeps the invariant.
LEMMA InventoryNext == InventoryInv /\ [InvNext]_invVars => InventoryInv'
<1> SUFFICES ASSUME InventoryInv, [InvNext]_invVars PROVE InventoryInv'
  OBVIOUS
<1> USE InventoryAssumptions DEF agentSide
<1> DEFINE Builder == [pc : {"idle", "due", "swap", "send"}, snap : Snapshots]
<1>0. /\ InvTypeOK /\ FromOneScan
      /\ builder \in [Builders -> Builder] /\ registry \in Snapshots
      /\ wire \in Seq(Snapshots) /\ Len(wire) \in Nat
      /\ "loop" \in Builders /\ "trigger" \in Builders
  BY DEF InventoryInv, InvTypeOK, Builders
<1>1. ASSUME NEW p \in Products, NEW v \in Versions \cup {NotInstalled}, Change(p, v)
      PROVE  InventoryInv'
  <2>1. registry' \in Snapshots /\ changes' \in 0..MaxChanges
    BY <1>0, <1>1 DEF Change, Snapshots, InvTypeOK
  <2>2. InvTypeOK'
    BY <1>0, <1>1, <2>1 DEF Change, InvTypeOK
  <2> QED
    BY <1>0, <1>1, <2>2 DEF Change, FromOneScan, InventoryInv
<1>2. CASE LoopTicks
  <2>1. builder' \in [Builders -> Builder]
    BY <1>0, <1>2 DEF LoopTicks
  <2>2. \A b \in Builders : builder'[b].pc \in {"swap", "send"} => builder'[b] = builder[b]
    BY <1>0, <1>2 DEF LoopTicks
  <2>3. InvTypeOK'
    BY <1>0, <1>2, <2>1 DEF LoopTicks, InvTypeOK
  <2> QED
    BY <1>0, <1>2, <2>2, <2>3 DEF LoopTicks, FromOneScan, InventoryInv
<1>3. ASSUME NEW b \in Builders, NEW missed \in SUBSET Products, Scan(b, missed)
      PROVE  InventoryInv'
  <2> DEFINE seen == [p \in Products |-> IF p \in missed THEN NotInstalled ELSE registry[p]]
  <2>0. /\ builder' = [builder EXCEPT ![b] = [pc |-> "swap", snap |-> seen]]
        /\ scans' = scans \cup {seen}
        /\ UNCHANGED <<registry, invByKey, wire, table, firstSeen, reconciled, jobs,
                       changes, uninstalls>>
    BY <1>3 DEF Scan
  <2>1. seen \in Snapshots
    BY <1>0 DEF Snapshots
  <2>2. mishaps' \in 0..MaxMishaps
    BY <1>0, <1>3 DEF Scan, InvTypeOK
  <2> HIDE DEF seen
  <2>3. /\ builder' \in [Builders -> Builder]
        /\ builder'[b].snap = seen
        /\ \A c \in Builders : c # b => builder'[c] = builder[c]
    BY <1>0, <2>0, <2>1
  <2>4. InvTypeOK'
    BY <1>0, <2>0, <2>2, <2>3 DEF InvTypeOK
  <2> QED
    BY <1>0, <2>0, <2>3, <2>4 DEF FromOneScan, InventoryInv
<1>4. ASSUME NEW b \in Builders, SwapMap(b) PROVE InventoryInv'
  <2>1. builder' \in [Builders -> Builder] /\ invByKey' \in Snapshots
    BY <1>0, <1>4 DEF SwapMap
  <2>2. \A c \in Builders : /\ builder'[c].snap = builder[c].snap
                            /\ c # b => builder'[c] = builder[c]
    BY <1>0, <1>4 DEF SwapMap
  <2>3. builder[b].pc = "swap"
    BY <1>4 DEF SwapMap
  <2>4. InvTypeOK'
    BY <1>0, <1>4, <2>1 DEF SwapMap, InvTypeOK
  <2> QED
    BY <1>0, <1>4, <2>2, <2>3, <2>4 DEF SwapMap, FromOneScan, InventoryInv
<1>5. ASSUME NEW b \in Builders, SendSnapshot(b) PROVE InventoryInv'
  <2>1. builder' \in [Builders -> Builder] /\ builder[b].snap \in Snapshots
    BY <1>0, <1>5 DEF SendSnapshot
  <2>2. \A c \in Builders : builder'[c].pc \in {"swap", "send"} => builder'[c] = builder[c]
    BY <1>0, <1>5 DEF SendSnapshot
  <2>3. /\ wire' = Append(wire, builder[b].snap) /\ Len(wire) < MaxWire
        /\ builder[b].pc = "send"
    BY <1>5 DEF SendSnapshot
  <2>4. /\ wire' \in Seq(Snapshots) /\ Len(wire') = Len(wire) + 1
        /\ \A i \in 1..Len(wire') : wire'[i] = builder[b].snap
                                   \/ (i \in 1..Len(wire) /\ wire'[i] = wire[i])
    BY <1>0, <2>1, <2>3
  <2>5. Len(wire') <= MaxWire
    BY <1>0, <2>3, <2>4
  <2>6. InvTypeOK'
    BY <1>0, <1>5, <2>1, <2>4, <2>5 DEF SendSnapshot, InvTypeOK
  <2>7. builder[b].snap \in scans
    BY <1>0, <2>3 DEF FromOneScan
  <2> QED
    BY <1>0, <1>5, <2>2, <2>4, <2>6, <2>7 DEF SendSnapshot, FromOneScan, InventoryInv
<1>6. CASE CutConnection
  <2>1. wire' = <<>> /\ wire' \in Seq(Snapshots) /\ Len(wire') = 0
    BY <1>6 DEF CutConnection
  <2>2. mishaps' \in 0..MaxMishaps
    BY <1>0, <1>6 DEF CutConnection, InvTypeOK
  <2>3. InvTypeOK'
    BY <1>0, <1>6, <2>1, <2>2 DEF CutConnection, InvTypeOK
  <2> QED
    BY <1>0, <1>6, <2>1, <2>3 DEF CutConnection, FromOneScan, InventoryInv
<1>7. ASSUME NEW job \in jobs, NEW works \in BOOLEAN, RunUninstall(job, works)
      PROVE  InventoryInv'
  <2>1. job.product \in Products
    BY <1>0 DEF InvTypeOK
  <2>2. registry' \in Snapshots
    BY <1>0, <1>7, <2>1 DEF RunUninstall, Snapshots
  <2>3. builder' = builder \/ builder' = [builder EXCEPT !["trigger"].pc = "due"]
    BY <1>7 DEF RunUninstall
  <2>4. builder' \in [Builders -> Builder]
    BY <1>0, <2>3
  <2>5. \A c \in Builders : builder'[c].pc \in {"swap", "send"} => builder'[c] = builder[c]
    BY <1>0, <2>3
  <2>6. jobs' \subseteq jobs
        /\ UNCHANGED <<invByKey, wire, table, firstSeen, reconciled, scans, changes,
                       uninstalls, mishaps>>
    BY <1>7 DEF RunUninstall
  <2>7. InvTypeOK'
    BY <1>0, <2>2, <2>4, <2>6 DEF InvTypeOK
  <2> QED
    BY <1>0, <2>5, <2>6, <2>7 DEF FromOneScan, InventoryInv
<1>8. ASSUME NEW ok \in BOOLEAN, HandleSoftwareInventory(ok) PROVE InventoryInv'
  <2>1. /\ wire # <<>> /\ wire' = Tail(wire)
        /\ reconciled' = IF reconciled = MaxReconciled THEN MaxReconciled ELSE reconciled + 1
        /\ \/ ReconcileSoftwareInventory(Head(wire))
           \/ UNCHANGED <<table, firstSeen>>
        /\ UNCHANGED <<registry, builder, invByKey, scans, changes, jobs, uninstalls, mishaps>>
    BY <1>8 DEF HandleSoftwareInventory
  <2>2. /\ Head(wire) \in Snapshots /\ Head(wire) \in scans /\ wire' \in Seq(Snapshots)
        /\ Len(wire') = Len(wire) - 1
        /\ \A i \in 1..Len(wire') : i + 1 \in 1..Len(wire) /\ wire'[i] = wire[i + 1]
    <3>1. Head(wire) = wire[1] /\ 1 \in 1..Len(wire)
      BY <1>0, <2>1
    <3> QED
      BY <1>0, <2>1, <3>1 DEF FromOneScan
  <2>3. reconciled' \in 0..MaxReconciled /\ reconciled' # 0
    BY <1>0, <2>1 DEF InvTypeOK, MaxReconciled
  <2>4. /\ table' \in Snapshots /\ table' \in scans
        /\ firstSeen' \in [Products -> 0..MaxReconciled]
        /\ \A p \in Products : table'[p] = NotInstalled <=> firstSeen'[p] = 0
    <3>1. CASE ReconcileSoftwareInventory(Head(wire))
      BY <1>0, <2>2, <2>3, <3>1, ReconcileType
    <3>2. CASE UNCHANGED <<table, firstSeen>>
      BY <1>0, <3>2 DEF InvTypeOK, FromOneScan
    <3> QED
      BY <2>1, <3>1, <3>2
  <2>5. InvTypeOK'
    <3>1. Len(wire') <= MaxWire
      BY <1>0, <2>2 DEF InvTypeOK
    <3> QED
      BY <1>0, <2>1, <2>2, <2>3, <2>4, <3>1 DEF InvTypeOK
  <2>6. \A i \in 1..Len(wire') : wire'[i] \in scans
    BY <1>0, <2>2 DEF FromOneScan
  <2> QED
    BY <1>0, <2>1, <2>4, <2>5, <2>6 DEF FromOneScan, InventoryInv
<1>9. ASSUME NEW p \in Products, PostSoftwareUninstall(p) PROVE InventoryInv'
  <2>1. table[p] \in Versions
    BY <1>0, <1>9 DEF PostSoftwareUninstall, InvTypeOK, Snapshots
  <2>2. jobs' \subseteq [product : Products, payload : Versions]
    BY <1>0, <1>9, <2>1 DEF PostSoftwareUninstall, InvTypeOK
  <2>3. uninstalls' \in 0..MaxUninstalls
    BY <1>0, <1>9 DEF PostSoftwareUninstall, InvTypeOK
  <2>4. UNCHANGED <<agentSide, wire, table, firstSeen, reconciled, mishaps>>
    BY <1>9 DEF PostSoftwareUninstall
  <2>5. InvTypeOK'
    BY <1>0, <2>2, <2>3, <2>4 DEF InvTypeOK
  <2> QED
    BY <1>0, <2>4, <2>5 DEF FromOneScan, InventoryInv
<1>10. CASE DeleteInventory
  <2>1. /\ table' = Nothing /\ firstSeen' = [p \in Products |-> 0]
        /\ UNCHANGED <<agentSide, wire, reconciled, jobs, uninstalls>>
    BY <1>10 DEF DeleteInventory
  <2>2. /\ Nothing \in Snapshots /\ mishaps' \in 0..MaxMishaps
        /\ firstSeen' \in [Products -> 0..MaxReconciled]
    BY <1>0, <1>10, <2>1 DEF DeleteInventory, InvTypeOK, Nothing, Snapshots, MaxReconciled
  <2>3. \A p \in Products : table'[p] = NotInstalled <=> firstSeen'[p] = 0
    BY <2>1 DEF Nothing
  <2>4. Nothing \in scans
    BY <1>0 DEF FromOneScan
  <2>5. InvTypeOK'
    BY <1>0, <2>1, <2>2, <2>3 DEF InvTypeOK
  <2> QED
    BY <1>0, <2>1, <2>4, <2>5 DEF FromOneScan, InventoryInv
<1>11. CASE UNCHANGED invVars
  <2>1. InvTypeOK'
    BY <1>0, <1>11 DEF invVars, InvTypeOK
  <2> QED
    BY <1>0, <1>11, <2>1 DEF invVars, FromOneScan, InventoryInv
<1> QED
  BY <1>1, <1>2, <1>3, <1>4, <1>5, <1>6, <1>7, <1>8, <1>9, <1>10, <1>11 DEF InvNext, BuilderStep

\* The table shows one scan at a time and a product keeps its first_seen while it
\* stays listed, for any products, versions and overlap of the two snapshot
\* builders (buildAndSendSnapshot, ReconcileSoftwareInventory).
THEOREM TableIsOneScanHolds == InvSpec => TableIsOneScan
<1>1. InventoryInv /\ [InvNext]_invVars =>
        [/\ table' \in scans
         /\ \A p \in Products : table[p] # NotInstalled /\ table'[p] # NotInstalled
                                  => firstSeen'[p] = firstSeen[p]]_invVars
  <2> SUFFICES ASSUME InventoryInv, InvNext
               PROVE  /\ table' \in scans
                      /\ \A p \in Products : table[p] # NotInstalled /\ table'[p] # NotInstalled
                                               => firstSeen'[p] = firstSeen[p]
    OBVIOUS
  <2>1. CASE UNCHANGED <<table, firstSeen>>
    BY <2>1 DEF InventoryInv, FromOneScan
  <2>2. ASSUME NEW ok \in BOOLEAN, HandleSoftwareInventory(ok)
        PROVE  /\ table' \in scans
               /\ \A p \in Products : table[p] # NotInstalled /\ table'[p] # NotInstalled
                                        => firstSeen'[p] = firstSeen[p]
    <3>1. CASE ReconcileSoftwareInventory(Head(wire))
      <4>1. wire # <<>> /\ wire \in Seq(Snapshots)
        BY <2>2 DEF HandleSoftwareInventory, InventoryInv, InvTypeOK
      <4>2. Head(wire) \in Snapshots /\ Head(wire) = wire[1] /\ 1 \in 1..Len(wire)
        BY <4>1
      <4>3. reconciled' \in 0..MaxReconciled /\ reconciled' # 0
        BY <2>2 DEF HandleSoftwareInventory, InventoryInv, InvTypeOK, MaxReconciled
      <4>4. Head(wire) \in scans
        BY <4>2 DEF InventoryInv, FromOneScan
      <4> QED
        BY <3>1, <4>2, <4>3, <4>4, ReconcileType DEF InventoryInv
    <3> QED
      BY <2>1, <2>2, <3>1 DEF HandleSoftwareInventory
  <2>3. CASE DeleteInventory
    <3>1. table' = Nothing /\ Nothing \in scans
      BY <2>3 DEF DeleteInventory, InventoryInv, FromOneScan
    <3> QED
      BY <3>1 DEF Nothing
  <2> QED
    BY <2>1, <2>2, <2>3 DEF InvNext, BuilderStep, Change, LoopTicks, Scan, SwapMap, SendSnapshot,
       CutConnection, RunUninstall, PostSoftwareUninstall
<1> QED
  BY <1>1, InventoryInit, InventoryNext, PTL DEF InvSpec, TableIsOneScan

-----------------------------------------------------------------------------
(* The login limiter.                                                        *)

\* The limiter's list is in the order of time, so that evicting a prefix leaves
\* exactly the failures inside the window.
InOrder ==
  /\ failures \in Seq(Nat) /\ authClock \in Nat
  /\ \A i, j \in 1..Len(failures) : i <= j => failures[i] <= failures[j]
  /\ \A i \in 1..Len(failures) : failures[i] <= authClock

LimiterInv ==
  /\ LimiterSound /\ InOrder
  /\ peak \in Nat
  /\ login \in [Logins -> [pc : LoginSteps, at : Nat]]

UnderWay == {l \in Logins : Checking(l)}

\* The size of an interval.
LEMMA IntervalSize ==
  ASSUME NEW a \in Nat, NEW b \in Nat, a <= b + 1
  PROVE  Cardinality(a..b) = b - a + 1
<1>1. a \in Int /\ b \in Int
  OBVIOUS
<1>2. Cardinality(a..b) = IF a > b THEN 0 ELSE b - a + 1
  BY <1>1, FS_Interval
<1> QED
  BY <1>2

\* The set counts the limiter compares are finite.
LEMMA CountsFinite ==
  ASSUME InOrder
  PROVE  /\ IsFiniteSet(Recent) /\ Cardinality(Recent) \in Nat
         /\ IsFiniteSet(UnderWay) /\ Cardinality(UnderWay) \in Nat
<1>1. Len(failures) \in Nat
  BY DEF InOrder
<1>2. IsFiniteSet(1..Len(failures)) /\ Recent \in SUBSET (1..Len(failures))
  BY <1>1, FS_Interval DEF Recent
<1>3. IsFiniteSet(Logins) /\ UnderWay \in SUBSET Logins
  BY SessionAssumptions DEF UnderWay
<1> QED
  BY <1>2, <1>3, FS_Subset, FS_CardinalityType

\* What the limiter counts is finite.
LEMMA CountsFiniteNext ==
  ASSUME InOrder'
  PROVE  Cardinality(Recent') \in Nat /\ Cardinality(UnderWay') \in Nat
<1>1. Len(failures') \in Nat
  BY DEF InOrder
<1>2. \A m \in Nat : IsFiniteSet(1..m)
  BY FS_Interval
<1>3. IsFiniteSet(1..Len(failures')) /\ Recent' \in SUBSET (1..Len(failures'))
  BY <1>1, <1>2 DEF Recent
<1>4. IsFiniteSet(Logins) /\ UnderWay' \in SUBSET Logins
  BY SessionAssumptions DEF UnderWay
<1> QED
  BY <1>3, <1>4, FS_Subset, FS_CardinalityType

\* Eviction keeps the failures inside the window, all of them and nothing else.
LEMMA EvictedIsRecent ==
  ASSUME InOrder
  PROVE  /\ Evicted \in Seq(Nat) /\ Len(Evicted) = Cardinality(Recent)
         /\ \A i \in 1..Len(Evicted) : ~Outside(Evicted[i]) /\ Evicted[i] <= authClock
         /\ \A i, j \in 1..Len(Evicted) : i <= j => Evicted[i] <= Evicted[j]
<1> DEFINE n == Len(failures)
           from == IF Recent = {} THEN n + 1
                   ELSE CHOOSE i \in Recent : \A k \in Recent : i <= k
<1>1. n \in Nat /\ failures \in Seq(Nat) /\ authClock \in Nat /\ Window \in Nat
  BY SessionAssumptions DEF InOrder
<1>2. Evicted = SubSeq(failures, from, n)
  BY DEF Evicted, Recent
<1>3. Recent = from..n /\ from \in 1..(n + 1)
  <2>1. CASE Recent = {}
    BY <1>1, <2>1
  <2>2. CASE Recent # {}
    <3>1. Recent \in SUBSET Nat /\ Recent \subseteq 1..n
      BY <1>1 DEF Recent
    <3>2. \E i \in Recent : \A k \in Recent : i <= k
      BY <2>2, <3>1, LeastNat
    <3>3. from \in Recent /\ \A k \in Recent : from <= k
      BY <2>2, <3>2
    <3> HIDE DEF from
    <3>4. from \in 1..n /\ ~Outside(failures[from])
      BY <3>3 DEF Recent
    <3>5. ASSUME NEW k \in from..n PROVE k \in Recent
      <4>1. k \in 1..n /\ failures[from] <= failures[k]
        BY <1>1, <3>4 DEF InOrder
      <4>2. failures[from] \in Nat /\ failures[k] \in Nat
        BY <1>1, <3>4, <4>1
      <4> QED
        BY <1>1, <3>4, <4>1, <4>2 DEF Recent, Outside
    <3>6. \A k \in from..n : k \in Recent
      BY <3>5
    <3>7. \A k \in Recent : k \in from..n
      BY <1>1, <3>1, <3>3, <3>4
    <3>8. from \in 1..(n + 1)
      BY <1>1, <3>4
    <3> QED
      BY <3>6, <3>7, <3>8
  <2> QED
    BY <2>1, <2>2
<1> HIDE DEF from
<1> HIDE DEF n
<1>4. /\ Len(Evicted) = n - from + 1 /\ Evicted \in Seq(Nat)
      /\ \A i \in 1..(n - from + 1) : Evicted[i] = failures[from + i - 1]
  BY <1>1, <1>2, <1>3 DEF n
<1>5. Cardinality(Recent) = n - from + 1
  BY <1>1, <1>3, IntervalSize
<1>6. ASSUME NEW i \in 1..Len(Evicted)
      PROVE  /\ from + i - 1 \in Recent /\ from + i - 1 \in 1..n
             /\ Evicted[i] = failures[from + i - 1]
  BY <1>1, <1>3, <1>4
<1>7. \A i \in 1..Len(Evicted) : ~Outside(Evicted[i]) /\ Evicted[i] <= authClock
  BY <1>6 DEF Recent, InOrder, n
<1>8. ASSUME NEW i \in 1..Len(Evicted), NEW j \in 1..Len(Evicted), i <= j
      PROVE  Evicted[i] <= Evicted[j]
  <2>1. from \in Nat /\ from + i - 1 <= from + j - 1
    BY <1>1, <1>3, <1>8
  <2>2. \A k, m \in 1..n : k <= m => failures[k] <= failures[m]
    BY DEF InOrder, n
  <2> QED
    BY <1>6, <2>1, <2>2
<1> QED
  BY <1>4, <1>5, <1>7, <1>8

\* After an eviction the whole list lies inside the window.
LEMMA AfterEviction ==
  ASSUME InOrder, failures' = Evicted, authClock' = authClock
  PROVE  /\ InOrder' /\ Cardinality(Recent') = Len(failures')
         /\ Cardinality(Recent') = Cardinality(Recent)
<1>1. /\ failures' \in Seq(Nat) /\ Len(failures') = Cardinality(Recent)
      /\ \A i \in 1..Len(failures') : ~Outside(failures'[i]) /\ failures'[i] <= authClock
      /\ \A i, j \in 1..Len(failures') : i <= j => failures'[i] <= failures'[j]
  BY EvictedIsRecent
<1>2. InOrder'
  BY <1>1 DEF InOrder
<1>3. Recent' = 1..Len(failures')
  BY <1>1 DEF Recent, Outside
<1>4. Len(failures') \in Nat
  BY <1>1
<1>5. ASSUME NEW m \in Nat PROVE Cardinality(1..m) = m
  BY IntervalSize
<1> QED
  BY <1>1, <1>2, <1>3, <1>4, <1>5

\* At the start no login has failed and none is under way.
LEMMA LimiterInit == AuthInit => LimiterInv
<1> SUFFICES ASSUME AuthInit PROVE LimiterInv
  OBVIOUS
<1>1. InOrder
  BY DEF AuthInit, InOrder
<1>2. Recent = {} /\ UnderWay = {}
  BY DEF AuthInit, Recent, UnderWay, Checking
<1>3. Cardinality(Recent) = 0 /\ Cardinality(UnderWay) = 0
  BY <1>2, FS_EmptySet
<1>4. MaxAttempts \in Nat \ {0} /\ peak = 0 /\ refusedAt = <<>>
  BY SessionAssumptions DEF AuthInit
<1>5. LimiterSound
  BY <1>3, <1>4 DEF LimiterSound, UnderWay
<1>6. login \in [Logins -> [pc : LoginSteps, at : Nat]] /\ peak \in Nat
  BY DEF AuthInit, LoginSteps
<1> QED
  BY <1>1, <1>5, <1>6 DEF LimiterInv

\* A step that adds neither a recent failure nor a request under way, and refuses
\* nobody, keeps the bound.
LEMMA BoundKept ==
  ASSUME LimiterInv, InOrder', peak' = peak, refusedAt' = refusedAt,
         Cardinality(Recent') <= Cardinality(Recent), UnderWay' \subseteq UnderWay
  PROVE  LimiterSound'
<1>1. /\ Cardinality(Recent) \in Nat /\ Cardinality(UnderWay) \in Nat
      /\ IsFiniteSet(UnderWay)
  BY CountsFinite DEF LimiterInv
<1>2. Cardinality(Recent') \in Nat /\ Cardinality(UnderWay') \in Nat
  BY CountsFiniteNext
<1>3. Cardinality(UnderWay') <= Cardinality(UnderWay)
  BY <1>1, FS_Subset
<1>4. Cardinality(Recent) + Cardinality(UnderWay) < MaxAttempts + peak
  BY DEF LimiterInv, LimiterSound, UnderWay
<1>5. peak \in Nat /\ MaxAttempts \in Nat
  BY SessionAssumptions DEF LimiterInv
<1>6. Cardinality(Recent') + Cardinality(UnderWay') < MaxAttempts + peak'
  BY <1>1, <1>2, <1>3, <1>4, <1>5
<1>7. refusedAt' # <<>> =>
        \A i \in DOMAIN refusedAt'[2] : refusedAt'[2][i] + Window >= refusedAt'[1]
  BY DEF LimiterInv, LimiterSound
<1> QED
  BY <1>6, <1>7 DEF LimiterSound, UnderWay

\* Every step of the logins, the clock and the cleanup keeps the invariant.
LEMMA LimiterNext == LimiterInv /\ [AuthNext]_authVars => LimiterInv'
<1> SUFFICES ASSUME LimiterInv, [AuthNext]_authVars PROVE LimiterInv'
  OBVIOUS
<1> USE SessionAssumptions
<1> DEFINE LoginType == login \in [Logins -> [pc : LoginSteps, at : Nat]]
<1>0. /\ LimiterSound /\ InOrder /\ peak \in Nat /\ LoginType
      /\ failures \in Seq(Nat) /\ authClock \in Nat /\ Len(failures) \in Nat
  BY DEF LimiterInv, InOrder
<1>1. ASSUME NEW l \in Logins, Allow(l) PROVE LimiterInv'
  <2>1. login' \in [Logins -> [pc : LoginSteps, at : Nat]]
    <3>1. PICK pc \in {"verify", "done"} : login' = [login EXCEPT ![l] = [pc |-> pc, at |-> authClock]]
      BY <1>1 DEF Allow, Goes
    <3>2. pc \in LoginSteps
      BY DEF LoginSteps
    <3> QED
      BY <1>0, <3>1, <3>2
  <2>2. failures' = Evicted /\ authClock' = authClock
    BY <1>1 DEF Allow
  <2>3. /\ InOrder' /\ Cardinality(Recent') = Len(failures')
        /\ Cardinality(Recent') = Cardinality(Recent)
    BY <1>0, <2>2, AfterEviction
  <2>4. Cardinality(Recent) \in Nat /\ Cardinality(Recent') \in Nat
    BY <1>0, <2>3, CountsFinite
  <2>5. Cardinality(UnderWay') \in Nat
    BY <2>3, CountsFiniteNext
  <2>6. peak' = IF Cardinality(UnderWay') > peak THEN Cardinality(UnderWay') ELSE peak
    BY <1>1 DEF Allow, CountPeak, UnderWay
  <2>7. peak' \in Nat /\ peak' >= Cardinality(UnderWay') /\ peak' >= peak
    BY <1>0, <2>5, <2>6
  <2>8. CASE Len(failures') < MaxAttempts
    <3>1. refusedAt' = refusedAt
      BY <1>1, <2>8 DEF Allow
    <3>2. Cardinality(Recent') + Cardinality(UnderWay') < MaxAttempts + peak'
      BY <2>3, <2>4, <2>5, <2>7, <2>8
    <3>3. refusedAt' # <<>> =>
            \A i \in DOMAIN refusedAt'[2] : refusedAt'[2][i] + Window >= refusedAt'[1]
      BY <1>0, <3>1 DEF LimiterSound
    <3>4. LimiterSound'
      BY <3>2, <3>3 DEF LimiterSound, UnderWay
    <3> QED
      BY <2>1, <2>3, <2>7, <3>4 DEF LimiterInv
  <2>9. CASE ~(Len(failures') < MaxAttempts)
    <3>1. refusedAt' = <<authClock, failures'>> /\ Goes(l, "done") /\ login[l].pc = "new"
      BY <1>1, <2>9 DEF Allow
    <3>2. UnderWay' \subseteq UnderWay
      <4>1. login'[l].pc = "done" /\ \A m \in Logins \ {l} : login'[m] = login[m]
        BY <1>0, <3>1 DEF Goes
      <4> QED
        BY <3>1, <4>1 DEF UnderWay, Checking
    <3>3. IsFiniteSet(UnderWay) /\ Cardinality(UnderWay) \in Nat
      BY <1>0, CountsFinite
    <3>4. Cardinality(UnderWay') <= Cardinality(UnderWay)
      BY <3>2, <3>3, FS_Subset
    <3>5. Cardinality(Recent) + Cardinality(UnderWay) < MaxAttempts + peak
      BY <1>0 DEF LimiterSound, UnderWay
    <3>6. Cardinality(Recent') + Cardinality(UnderWay') < MaxAttempts + peak'
      BY <1>0, <2>3, <2>4, <2>5, <2>7, <3>3, <3>4, <3>5
    <3>7. \A i \in 1..Len(failures') : ~Outside(failures'[i]) /\ failures'[i] \in Nat
      BY <1>0, <2>2, EvictedIsRecent
    <3>8. \A i \in DOMAIN failures' : failures'[i] + Window >= authClock
      <4>1. DOMAIN failures' = 1..Len(failures')
        BY <1>0, <2>2, EvictedIsRecent
      <4>2. \A x \in Nat : ~Outside(x) => x + Window >= authClock
        BY <1>0 DEF Outside
      <4> QED
        BY <3>7, <4>1, <4>2
    <3>9. refusedAt'[1] = authClock /\ refusedAt'[2] = failures'
      BY <3>1
    <3>10. LimiterSound'
      BY <3>6, <3>8, <3>9 DEF LimiterSound, UnderWay
    <3> QED
      BY <2>1, <2>3, <2>7, <3>10 DEF LimiterInv
  <2> QED
    BY <2>8, <2>9
<1>2. ASSUME NEW l \in Logins, NEW good \in BOOLEAN, Login(l, good) PROVE LimiterInv'
  <2>1. login' \in [Logins -> [pc : LoginSteps, at : Nat]]
    BY <1>0, <1>2 DEF Login, LoginSteps
  <2>2. UNCHANGED <<failures, refusedAt, peak, authClock>>
    BY <1>2 DEF Login
  <2>3. UnderWay' \subseteq UnderWay
    <3>1. login[l].pc = "verify" /\ \A m \in Logins \ {l} : login'[m] = login[m]
      BY <1>0, <1>2 DEF Login
    <3> QED
      BY <3>1 DEF UnderWay, Checking
  <2>4. InOrder' /\ Recent' = Recent
    BY <1>0, <2>2 DEF InOrder, Recent, Outside
  <2>5. Cardinality(Recent') <= Cardinality(Recent)
    BY <1>0, <2>4, CountsFinite
  <2>6. LimiterSound'
    BY <2>2, <2>3, <2>4, <2>5, BoundKept
  <2> QED
    BY <1>0, <2>1, <2>2, <2>4, <2>6 DEF LimiterInv
<1>3. ASSUME NEW l \in Logins, RecordFailure(l) PROVE LimiterInv'
  <2> DEFINE n == Len(failures)
  <2>1. login' \in [Logins -> [pc : LoginSteps, at : Nat]]
    BY <1>0, <1>3 DEF RecordFailure, Goes, LoginSteps
  <2>2. UNCHANGED <<refusedAt, peak, authClock>> /\ failures' = Append(failures, authClock)
    BY <1>3 DEF RecordFailure
  <2>3. /\ failures' \in Seq(Nat) /\ Len(failures') = n + 1 /\ failures'[n + 1] = authClock
        /\ \A i \in 1..n : failures'[i] = failures[i]
    BY <1>0, <2>2
  <2>4. InOrder'
    BY <1>0, <2>2, <2>3 DEF InOrder
  <2>5. Recent' = Recent \cup {n + 1} /\ n + 1 \notin Recent
    <3>1. \A i \in 1..n : i \in Recent' <=> i \in Recent
      BY <1>0, <2>2, <2>3 DEF Recent, Outside
    <3>2. n + 1 \in Recent' /\ n + 1 \notin Recent
      BY <1>0, <2>2, <2>3 DEF Recent, Outside
    <3>3. Recent' \subseteq 1..(n + 1) /\ Recent \subseteq 1..n
      BY <2>3 DEF Recent
    <3> HIDE DEF n
    <3>4. n \in Nat
      BY <1>0 DEF n
    <3>5. \A i \in 1..(n + 1) : i \in 1..n \/ i = n + 1
      BY <3>4
    <3> QED
      BY <3>1, <3>2, <3>3, <3>5
  <2>6. IsFiniteSet(Recent) /\ Cardinality(Recent) \in Nat
        /\ IsFiniteSet(UnderWay) /\ Cardinality(UnderWay) \in Nat
    BY <1>0, CountsFinite
  <2>7. Cardinality(Recent') = Cardinality(Recent) + 1
    BY <2>5, <2>6, FS_AddElement
  <2>8. UnderWay' = UnderWay \ {l} /\ l \in UnderWay
    <3>1. /\ login[l].pc = "reject" /\ login'[l].pc = "done"
          /\ \A m \in Logins \ {l} : login'[m] = login[m]
      BY <1>0, <1>3 DEF RecordFailure, Goes
    <3> QED
      BY <3>1 DEF UnderWay, Checking
  <2>9. Cardinality(UnderWay') = Cardinality(UnderWay) - 1
    BY <2>6, <2>8, FS_RemoveElement
  <2>10. Cardinality(Recent') + Cardinality(UnderWay') < MaxAttempts + peak'
    <3>1. Cardinality(Recent) + Cardinality(UnderWay) < MaxAttempts + peak
      BY <1>0 DEF LimiterSound, UnderWay
    <3> QED
      BY <1>0, <2>2, <2>6, <2>7, <2>9, <3>1
  <2>11. LimiterSound'
    BY <1>0, <2>2, <2>10 DEF LimiterSound, UnderWay
  <2> QED
    BY <1>0, <2>1, <2>2, <2>4, <2>11 DEF LimiterInv
<1>4. ASSUME NEW l \in Logins, Reset(l) PROVE LimiterInv'
  <2>1. login' \in [Logins -> [pc : LoginSteps, at : Nat]]
    BY <1>0, <1>4 DEF Reset, Goes, LoginSteps
  <2>2. UNCHANGED <<refusedAt, peak, authClock>> /\ failures' = <<>>
    BY <1>4 DEF Reset
  <2>3. InOrder' /\ Recent' = {}
    BY <1>0, <2>2 DEF InOrder, Recent
  <2>4. UnderWay' \subseteq UnderWay
    <3>1. login'[l].pc = "done" /\ \A m \in Logins \ {l} : login'[m] = login[m]
      BY <1>0, <1>4 DEF Reset, Goes
    <3> QED
      BY <3>1 DEF UnderWay, Checking
  <2>5. Cardinality(Recent') <= Cardinality(Recent)
    <3>1. Cardinality(Recent) \in Nat
      BY <1>0, CountsFinite
    <3> QED
      BY <2>3, <3>1, FS_EmptySet
  <2>6. LimiterSound'
    BY <2>2, <2>3, <2>4, <2>5, BoundKept
  <2> QED
    BY <1>0, <2>1, <2>2, <2>3, <2>6 DEF LimiterInv
<1>9. ASSUME NEW l \in Logins, BadRequest(l) PROVE LimiterInv'
  <2>1. login' \in [Logins -> [pc : LoginSteps, at : Nat]]
    BY <1>0, <1>9 DEF BadRequest, Goes, LoginSteps
  <2>2. UNCHANGED <<failures, refusedAt, peak, authClock>>
    BY <1>9 DEF BadRequest
  <2>3. UnderWay' \subseteq UnderWay
    <3>1. login'[l].pc = "done" /\ \A m \in Logins \ {l} : login'[m] = login[m]
      BY <1>0, <1>9 DEF BadRequest, Goes
    <3> QED
      BY <3>1 DEF UnderWay, Checking
  <2>4. InOrder' /\ Recent' = Recent
    BY <1>0, <2>2 DEF InOrder, Recent, Outside
  <2>5. Cardinality(Recent') <= Cardinality(Recent)
    BY <1>0, <2>4, CountsFinite
  <2>6. LimiterSound'
    BY <2>2, <2>3, <2>4, <2>5, BoundKept
  <2> QED
    BY <1>0, <2>1, <2>2, <2>4, <2>6 DEF LimiterInv
<1>5. ASSUME NEW t \in Logins, Logout(t) PROVE LimiterInv'
  BY <1>5 DEF Logout, LimiterInv, LimiterSound, InOrder, Recent, Outside, Checking
<1>6. CASE Cleanup
  <2>1. UNCHANGED <<login, refusedAt, peak, authClock>> /\ failures' = Evicted
    BY <1>6 DEF Cleanup
  <2>2. InOrder' /\ Cardinality(Recent') = Cardinality(Recent)
    BY <1>0, <2>1, AfterEviction
  <2>3. UnderWay' \subseteq UnderWay
    BY <2>1 DEF UnderWay, Checking
  <2>4. Cardinality(Recent') <= Cardinality(Recent)
    BY <1>0, <2>2, CountsFinite
  <2>5. LimiterSound'
    BY <2>1, <2>2, <2>3, <2>4, BoundKept
  <2> QED
    BY <1>0, <2>1, <2>2, <2>5 DEF LimiterInv
<1>7. CASE AuthTick
  <2>1. UNCHANGED <<login, failures, refusedAt, peak>> /\ authClock' = authClock + 1
    BY <1>7 DEF AuthTick
  <2>2. InOrder'
    BY <1>0, <2>1 DEF InOrder
  <2>3. Recent' \subseteq Recent
    BY <1>0, <2>1 DEF Recent, Outside
  <2>4. Cardinality(Recent') <= Cardinality(Recent)
    BY <1>0, <2>3, CountsFinite, FS_Subset
  <2>5. UnderWay' \subseteq UnderWay
    BY <2>1 DEF UnderWay, Checking
  <2>6. LimiterSound'
    BY <2>1, <2>2, <2>4, <2>5, BoundKept
  <2> QED
    BY <1>0, <2>1, <2>2, <2>6 DEF LimiterInv
<1>8. CASE UNCHANGED authVars
  BY <1>8 DEF authVars, LimiterInv, LimiterSound, InOrder, Recent, Outside, Checking
<1> QED
  BY <1>1, <1>2, <1>3, <1>4, <1>5, <1>6, <1>7, <1>8, <1>9 DEF AuthNext

\* The limiter counts what it should, for any number of login requests, limit,
\* window and clock: the failures in the window and the requests that may still
\* fail stay below the limit and the most requests ever under way, and a refused
\* request met a full window (Allow, RecordFailure, evict in auth.go).
THEOREM LimiterSoundHolds == AuthSpec => []LimiterSound
<1>1. LimiterInv => LimiterSound
  BY DEF LimiterInv
<1> QED
  BY <1>1, LimiterInit, LimiterNext, PTL DEF AuthSpec
-----------------------------------------------------------------------------
(* The metrics batcher.                                                      *)

\* The three lists are sorted, follow each other, and hold numbers given so far.
BatInv ==
  /\ added \in Nat
  /\ stored \in Seq(Nat) /\ buf \in Seq(Nat) /\ channel \in Seq(Nat)
  /\ Increasing(stored) /\ Increasing(buf) /\ Increasing(channel)
  /\ Precedes(stored, buf) /\ Precedes(stored, channel) /\ Precedes(buf, channel)
  /\ \A n \in Elements(stored) \cup Elements(buf) \cup Elements(channel) : n <= added

\* The empty list is increasing and precedes every list.
LEMMA EmptyList ==
  /\ <<>> \in Seq(Nat) /\ Elements(<<>>) = {} /\ Increasing(<<>>)
  /\ \A s : Precedes(<<>>, s) /\ Precedes(s, <<>>)
<1>1. Len(<<>>) = 0 /\ <<>> \in Seq(Nat)
  OBVIOUS
<1>2. Elements(<<>>) = {}
  BY <1>1 DEF Elements
<1>3. Increasing(<<>>)
  BY <1>1 DEF Increasing
<1> QED
  BY <1>1, <1>2, <1>3 DEF Precedes

\* Appending a larger number keeps a list increasing.
LEMMA AppendIncreasing ==
  ASSUME NEW s \in Seq(Nat), Increasing(s), NEW n \in Nat, \A x \in Elements(s) : x < n
  PROVE  Increasing(Append(s, n))
<1>1. <<n>> \in Seq(Nat) /\ Len(<<n>>) = 1 /\ <<n>>[1] = n
  OBVIOUS
<1>2. \A y \in Elements(<<n>>) : y = n
  BY <1>1 DEF Elements
<1>3. Increasing(<<n>>) /\ Precedes(s, <<n>>)
  BY <1>1, <1>2 DEF Increasing, Precedes
<1>4. Append(s, n) = s \o <<n>>
  OBVIOUS
<1> QED
  BY <1>1, <1>3, <1>4, ConcatIncreasing

\* A flush appends a sublist of what it is given, in order.
LEMMA FlushFacts ==
  ASSUME NEW s \in Seq(Nat), Flush(s), stored \in Seq(Nat), Increasing(s),
         Increasing(stored), Precedes(stored, s)
  PROVE  /\ stored' \in Seq(Nat) /\ Increasing(stored')
         /\ Elements(stored') \subseteq Elements(stored) \cup Elements(s)
<1>1. PICK T : stored' = stored \o Filter(s, T)
  BY DEF Flush
<1>2. PICK q : q = Filter(s, T)
  OBVIOUS
<1>3. q \in Seq(Nat) /\ Elements(q) \subseteq Elements(s) /\ Increasing(q)
  <2>1. Filter(s, T) \in Seq(Nat) /\ Elements(Filter(s, T)) = Elements(s) \cap T
    BY FilterElements
  <2>2. Increasing(Filter(s, T))
    BY FilterIncreasing
  <2> QED
    BY <1>2, <2>1, <2>2
<1>4. Precedes(stored, q)
  BY <1>3 DEF Precedes
<1>5. stored' = stored \o q
  BY <1>1, <1>2
<1>6. /\ stored \o q \in Seq(Nat)
      /\ Elements(stored \o q) = Elements(stored) \cup Elements(q)
  BY <1>3, ConcatFacts
<1>7. Increasing(stored \o q)
  BY <1>3, <1>4, ConcatIncreasing
<1> QED
  BY <1>3, <1>5, <1>6, <1>7

\* Every step of Add, flush and Stop keeps the entries in order.
LEMMA BatStep ==
  ASSUME BatInv, [BatNext]_batVars
  PROVE  BatInv'
<1>0. /\ \A s \in Seq(Nat) : Elements(s) \subseteq Nat
      /\ added \in Nat /\ stored \in Seq(Nat) /\ buf \in Seq(Nat) /\ channel \in Seq(Nat)
      /\ Increasing(stored) /\ Increasing(buf) /\ Increasing(channel)
      /\ Precedes(stored, buf) /\ Precedes(stored, channel) /\ Precedes(buf, channel)
      /\ \A n \in Elements(stored) \cup Elements(buf) \cup Elements(channel) : n <= added
  BY ListFacts DEF BatInv
<1>1. CASE Add
  <2>1. added' = added + 1 /\ UNCHANGED <<buf, stored>>
    BY <1>1 DEF Add
  <2>2. CASE channel' = channel
    BY <1>0, <2>1, <2>2 DEF BatInv
  <2>3. CASE channel' = Append(channel, added')
    <3>1. PICK n \in Nat : n = added'
      BY <1>0, <2>1
    <3>2. \A x \in Elements(stored) \cup Elements(buf) \cup Elements(channel) : x < n
      BY <1>0, <2>1, <3>1
    <3>3. Increasing(Append(channel, n))
      BY <1>0, <3>2, AppendIncreasing
    <3>4. /\ Append(channel, n) \in Seq(Nat)
          /\ Elements(Append(channel, n)) = Elements(channel) \cup {n}
      BY <1>0, ListFacts
    <3>5. /\ channel' \in Seq(Nat) /\ Increasing(channel')
          /\ Elements(channel') = Elements(channel) \cup {n}
      BY <2>3, <3>1, <3>3, <3>4
    <3>6. Precedes(stored, channel') /\ Precedes(buf, channel')
      BY <1>0, <3>2, <3>5 DEF Precedes
    <3>7. \A x \in Elements(stored) \cup Elements(buf) \cup Elements(channel') : x <= n
      BY <1>0, <2>1, <3>1, <3>5
    <3> QED
      BY <1>0, <2>1, <3>1, <3>5, <3>6, <3>7 DEF BatInv
  <2> QED
    BY <1>1, <2>2, <2>3 DEF Add
<1>2. CASE TakeEntry
  <2>1. PICK h : h = Head(channel)
    OBVIOUS
  <2>2. PICK grown : grown = Append(buf, h)
    OBVIOUS
  <2>3. /\ channel # <<>> /\ channel' = Tail(channel) /\ added' = added
        /\ \/ Flush(grown) /\ buf' = <<>>
           \/ buf' = grown /\ UNCHANGED stored
    BY <1>2, <2>1, <2>2 DEF TakeEntry
  <2>4. /\ channel' \in Seq(Nat) /\ h \in Elements(channel) /\ h \in Nat
        /\ Elements(channel) = {h} \cup Elements(channel')
    BY <1>0, <2>1, <2>3, ListFacts
  <2>5. Increasing(channel') /\ \A y \in Elements(channel') : h < y
    BY <1>0, <2>1, <2>3, TailIncreasing
  <2>6. /\ grown \in Seq(Nat) /\ Elements(grown) = Elements(buf) \cup {h}
    <3>1. h \in Nat
      BY <2>4
    <3>2. Append(buf, h) \in Seq(Nat) /\ Elements(Append(buf, h)) = Elements(buf) \cup {h}
      BY <1>0, <3>1, ListFacts
    <3> QED
      BY <2>2, <3>2
  <2>7. Increasing(grown)
    <3>1. \A x \in Elements(buf) : x < h
      BY <1>0, <2>4 DEF Precedes
    <3> QED
      BY <1>0, <2>2, <2>4, <3>1, AppendIncreasing
  <2>8. Precedes(stored, grown) /\ Precedes(grown, channel') /\ Precedes(stored, channel')
    BY <1>0, <2>4, <2>5, <2>6 DEF Precedes
  <2>9. CASE Flush(grown) /\ buf' = <<>>
    <3>1. /\ stored' \in Seq(Nat) /\ Increasing(stored')
          /\ Elements(stored') \subseteq Elements(stored) \cup Elements(grown)
      BY <1>0, <2>6, <2>7, <2>8, <2>9, FlushFacts
    <3>2. Precedes(stored', channel')
      BY <2>8, <3>1 DEF Precedes
    <3>3. /\ buf' \in Seq(Nat) /\ Increasing(buf') /\ Elements(buf') = {}
          /\ Precedes(stored', buf') /\ Precedes(buf', channel')
      BY <2>9, EmptyList
    <3>4. \A n \in Elements(stored') \cup Elements(channel') : n <= added
      BY <1>0, <2>4, <2>6, <3>1
    <3> QED
      BY <1>0, <2>3, <2>4, <2>5, <3>1, <3>2, <3>3, <3>4 DEF BatInv
  <2>10. CASE buf' = grown /\ UNCHANGED stored
    <3>1. \A n \in Elements(stored) \cup Elements(grown) \cup Elements(channel') : n <= added
      BY <1>0, <2>4, <2>6
    <3> QED
      BY <1>0, <2>3, <2>4, <2>5, <2>6, <2>7, <2>8, <2>10, <3>1 DEF BatInv
  <2> QED
    BY <2>3, <2>9, <2>10
<1>3. CASE TickerFires
  <2>1. Flush(buf) /\ buf' = <<>> /\ UNCHANGED <<added, channel>>
    BY <1>3 DEF TickerFires
  <2>2. /\ stored' \in Seq(Nat) /\ Increasing(stored')
        /\ Elements(stored') \subseteq Elements(stored) \cup Elements(buf)
    BY <1>0, <2>1, FlushFacts
  <2>3. Precedes(stored', channel')
    BY <1>0, <2>1, <2>2 DEF Precedes
  <2>4. /\ buf' \in Seq(Nat) /\ Increasing(buf') /\ Elements(buf') = {}
        /\ Precedes(stored', buf') /\ Precedes(buf', channel')
    BY <2>1, EmptyList
  <2>5. \A n \in Elements(stored') \cup Elements(channel') : n <= added
    BY <1>0, <2>1, <2>2
  <2> QED
    BY <1>0, <2>1, <2>2, <2>3, <2>4, <2>5 DEF BatInv
<1>4. CASE Drain
  <2>1. PICK s : s = buf \o channel
    OBVIOUS
  <2>2. Flush(s) /\ buf' = <<>> /\ channel' = <<>> /\ added' = added
    BY <1>4, <2>1 DEF Drain
  <2>3. s \in Seq(Nat) /\ Elements(s) = Elements(buf) \cup Elements(channel)
    BY <1>0, <2>1, ConcatFacts
  <2>4. Increasing(s)
    BY <1>0, <2>1, ConcatIncreasing
  <2>5. Precedes(stored, s)
    BY <1>0, <2>3 DEF Precedes
  <2>6. /\ stored' \in Seq(Nat) /\ Increasing(stored')
        /\ Elements(stored') \subseteq Elements(stored) \cup Elements(s)
    BY <1>0, <2>2, <2>3, <2>4, <2>5, FlushFacts
  <2>7. /\ buf' \in Seq(Nat) /\ Increasing(buf') /\ Elements(buf') = {}
        /\ channel' \in Seq(Nat) /\ Increasing(channel') /\ Elements(channel') = {}
        /\ Precedes(stored', buf') /\ Precedes(buf', channel') /\ Precedes(stored', channel')
    BY <2>2, EmptyList
  <2>8. \A n \in Elements(stored') : n <= added
    BY <1>0, <2>3, <2>6
  <2> QED
    BY <1>0, <2>2, <2>6, <2>7, <2>8 DEF BatInv
<1>5. CASE Stop \/ UNCHANGED batVars
  BY <1>0, <1>5 DEF Stop, batVars, BatInv
<1> QED
  BY <1>1, <1>2, <1>3, <1>4, <1>5 DEF BatNext

\* The entries reach the table in the order in which they were added and none of
\* them twice, whatever is flushed when and whichever flush fails
\* (batcher.go:54-76): for buffers of every size.
THEOREM RowsInOrderHolds == BatSpec => []RowsInOrder
<1>1. BatInit => BatInv
  BY EmptyList DEF BatInit, BatInv
<1>2. BatInv /\ [BatNext]_batVars => BatInv'
  BY BatStep
<1>3. BatInv => RowsInOrder
  <2>1. SUFFICES ASSUME BatInv PROVE RowsInOrder
    OBVIOUS
  <2>2. /\ stored \in Seq(Nat) /\ buf \in Seq(Nat) /\ channel \in Seq(Nat)
        /\ Increasing(stored) /\ Increasing(buf) /\ Increasing(channel)
        /\ Precedes(stored, buf) /\ Precedes(stored, channel) /\ Precedes(buf, channel)
    BY <2>1 DEF BatInv
  <2>3. PICK sb : sb = stored \o buf
    OBVIOUS
  <2>4. sb \in Seq(Nat) /\ Elements(sb) = Elements(stored) \cup Elements(buf)
    BY <2>2, <2>3, ConcatFacts
  <2>5. Increasing(sb)
    BY <2>2, <2>3, ConcatIncreasing
  <2>6. Precedes(sb, channel)
    BY <2>2, <2>4 DEF Precedes
  <2>7. Increasing(sb \o channel) /\ sb \o channel \in Seq(Nat)
    BY <2>2, <2>4, <2>5, <2>6, ConcatIncreasing, ConcatFacts
  <2>8. PICK all : all = sb \o channel
    OBVIOUS
  <2>9. all \in Seq(Nat) /\ DOMAIN all = 1..Len(all) /\ Increasing(all)
    BY <2>7, <2>8
  <2> QED
    BY <2>3, <2>8, <2>9 DEF RowsInOrder, Increasing
<1> QED
  BY <1>1, <1>2, <1>3, PTL DEF BatSpec

\* A flush stores or loses what it is given, all of it.
LEMMA FlushKeeps ==
  ASSUME NEW s \in Seq(Nat), Flush(s), stored \in Seq(Nat)
  PROVE  Elements(stored') \cup lost' = Elements(stored) \cup Elements(s) \cup lost
<1>1. PICK failed \in SUBSET Elements(s) :
        /\ stored' = stored \o Filter(s, Elements(s) \ failed)
        /\ lost' = lost \cup failed
  BY DEF Flush
<1>2. PICK T : T = Elements(s) \ failed
  OBVIOUS
<1>3. Filter(s, T) \in Seq(Nat) /\ Elements(Filter(s, T)) = Elements(s) \cap T
  BY FilterElements
<1>4. Elements(stored \o Filter(s, T)) = Elements(stored) \cup Elements(Filter(s, T))
  BY <1>3, ConcatFacts
<1> QED
  BY <1>1, <1>2, <1>3, <1>4

\* Every entry is in the channel, in the buffer, in the table or counted as lost,
\* and neither buffer grows past its size.
LEMMA BatTypeStep ==
  ASSUME BatInv, BatTypeOK, [BatNext]_batVars
  PROVE  BatTypeOK'
<1>0. /\ stored \in Seq(Nat) /\ buf \in Seq(Nat) /\ channel \in Seq(Nat) /\ added \in Nat
      /\ Len(channel) \in Nat /\ Len(buf) \in Nat
      /\ BatchBufferSize \in Nat \ {0} /\ MaxEntries \in Nat
  BY BatcherAssumptions DEF BatInv
<1>1. /\ added <= MaxEntries /\ Len(channel) <= BatchBufferSize
      /\ running # "no" => Len(buf) < BatchBufferSize
      /\ Elements(channel) \cup Elements(buf) \cup Elements(stored) \cup lost = 1..added
      /\ running \in {"yes", "stopping", "no"}
  BY <1>0 DEF BatTypeOK
<1>2. Len(<<>>) = 0 /\ Elements(<<>>) = {}
  BY EmptyList
<1>3. CASE Add
  <2>1. /\ added < MaxEntries /\ added' = added + 1 /\ UNCHANGED <<buf, stored, running>>
        /\ \/ /\ Len(channel) < BatchBufferSize /\ lost' = lost
              /\ channel' = Append(channel, added + 1)
           \/ lost' = lost \cup {added + 1} /\ channel' = channel
    BY <1>3 DEF Add
  <2>2. /\ Len(Append(channel, added + 1)) = Len(channel) + 1
        /\ Elements(Append(channel, added + 1)) = Elements(channel) \cup {added + 1}
    <3>1. \A e \in Nat : /\ Len(Append(channel, e)) = Len(channel) + 1
                         /\ Elements(Append(channel, e)) = Elements(channel) \cup {e}
      <4>1. channel \in Seq(Nat)
        BY <1>0
      <4> QED
        BY <4>1, ListFacts
    <3>2. added + 1 \in Nat
      BY <1>0
    <3> QED
      BY <3>1, <3>2
  <2>3. 1..(added + 1) = (1..added) \cup {added + 1}
    BY <1>0
  <2>4. Elements(channel') \cup Elements(buf') \cup Elements(stored') \cup lost' = 1..added'
    BY <1>1, <2>1, <2>2, <2>3
  <2>5. added' \in 0..MaxEntries /\ Len(channel') <= BatchBufferSize
    BY <1>0, <1>1, <2>1, <2>2
  <2> QED
    BY <1>1, <2>1, <2>4, <2>5 DEF BatTypeOK
<1>4. CASE TakeEntry
  <2>1. PICK h : h = Head(channel)
    OBVIOUS
  <2>2. PICK grown : grown = Append(buf, h)
    OBVIOUS
  <2>3. /\ channel # <<>> /\ channel' = Tail(channel) /\ added' = added /\ running' = running
        /\ \/ Flush(grown) /\ buf' = <<>>
           \/ /\ buf' = grown /\ UNCHANGED <<stored, lost>>
              /\ ~(Len(grown) >= BatchBufferSize)
    BY <1>4, <2>1, <2>2 DEF TakeEntry
  <2>4. /\ h \in Nat /\ Elements(channel) = {h} \cup Elements(channel')
        /\ Len(channel') = Len(channel) - 1
    BY <1>0, <2>1, <2>3, ListFacts
  <2>5. grown \in Seq(Nat) /\ Elements(grown) = Elements(buf) \cup {h} /\ Len(grown) \in Nat
    <3>1. Append(buf, h) \in Seq(Nat) /\ Elements(Append(buf, h)) = Elements(buf) \cup {h}
      <4>1. buf \in Seq(Nat) /\ h \in Nat
        BY <1>0, <2>4
      <4> QED
        BY <4>1, ListFacts
    <3> QED
      BY <2>2, <3>1
  <2>6. Elements(channel') \cup Elements(buf') \cup Elements(stored') \cup lost' = 1..added'
    <3>1. CASE Flush(grown) /\ buf' = <<>>
      <4>1. Elements(stored') \cup lost' = Elements(stored) \cup Elements(grown) \cup lost
        BY <1>0, <2>5, <3>1, FlushKeeps
      <4> QED
        BY <1>1, <1>2, <2>3, <2>4, <2>5, <3>1, <4>1
    <3>2. CASE buf' = grown /\ UNCHANGED <<stored, lost>>
      BY <1>1, <2>3, <2>4, <2>5, <3>2
    <3> QED
      BY <2>3, <3>1, <3>2
  <2>7. Len(buf') < BatchBufferSize /\ Len(channel') <= BatchBufferSize
    BY <1>0, <1>1, <1>2, <2>3, <2>4, <2>5
  <2> QED
    BY <1>0, <1>1, <2>3, <2>6, <2>7 DEF BatTypeOK
<1>5. CASE TickerFires
  <2>1. Flush(buf) /\ buf' = <<>> /\ UNCHANGED <<added, channel, running>>
    BY <1>5 DEF TickerFires
  <2>2. Elements(stored') \cup lost' = Elements(stored) \cup Elements(buf) \cup lost
    BY <1>0, <2>1, FlushKeeps
  <2>3. Elements(channel') \cup Elements(buf') \cup Elements(stored') \cup lost' = 1..added'
    BY <1>1, <1>2, <2>1, <2>2
  <2>4. Len(buf') < BatchBufferSize
    BY <1>0, <1>2, <2>1
  <2> QED
    BY <1>0, <1>1, <2>1, <2>3, <2>4 DEF BatTypeOK
<1>6. CASE Drain
  <2>1. PICK s : s = buf \o channel
    OBVIOUS
  <2>2. Flush(s) /\ buf' = <<>> /\ channel' = <<>> /\ added' = added /\ running' = "no"
    BY <1>6, <2>1 DEF Drain
  <2>3. s \in Seq(Nat) /\ Elements(s) = Elements(buf) \cup Elements(channel)
    BY <1>0, <2>1, ConcatFacts
  <2>4. Elements(stored') \cup lost' = Elements(stored) \cup Elements(s) \cup lost
    BY <1>0, <2>2, <2>3, FlushKeeps
  <2>5. Elements(channel') \cup Elements(buf') \cup Elements(stored') \cup lost' = 1..added'
    BY <1>1, <1>2, <2>2, <2>3, <2>4
  <2>6. Len(channel') <= BatchBufferSize
    BY <1>0, <1>2, <2>2
  <2> QED
    BY <1>0, <1>1, <2>2, <2>5, <2>6 DEF BatTypeOK
<1>7. CASE Stop
  BY <1>7 DEF Stop, BatTypeOK
<1>8. CASE UNCHANGED batVars
  BY <1>8 DEF batVars, BatTypeOK
<1> QED
  BY <1>3, <1>4, <1>5, <1>6, <1>7, <1>8 DEF BatNext

\* At the start the batcher is empty.
LEMMA BatStarts == BatInit => BatInv /\ BatTypeOK
<1> SUFFICES ASSUME BatInit PROVE BatInv /\ BatTypeOK
  OBVIOUS
<1>1. BatInv
  BY EmptyList DEF BatInit, BatInv
<1>2. Len(<<>>) = 0 /\ Elements(<<>>) = {} /\ 1..0 = {}
  BY EmptyList
<1>3. BatTypeOK
  BY <1>2, BatcherAssumptions DEF BatInit, BatTypeOK
<1> QED
  BY <1>1, <1>3

-----------------------------------------------------------------------------
(* Type correctness of the six services together.                            *)

\* The times of failed logins lie inside the clock's range.
LEMMA TimesInRange ==
  ASSUME InOrder, AuthTypeOK
  PROVE  /\ \A i \in 1..Len(failures) : failures[i] \in 0..MaxAuthTime
         /\ \A i \in 1..Len(Evicted) : Evicted[i] \in 0..MaxAuthTime
         /\ DOMAIN failures = 1..Len(failures) /\ DOMAIN Evicted = 1..Len(Evicted)
         /\ authClock \in 0..MaxAuthTime
<1>1. /\ failures \in Seq(Nat) /\ authClock \in Nat /\ authClock <= MaxAuthTime
      /\ MaxAuthTime \in Nat
  BY SessionAssumptions DEF InOrder, AuthTypeOK
<1>2. Evicted \in Seq(Nat) /\ \A i \in 1..Len(Evicted) : Evicted[i] <= authClock
  BY EvictedIsRecent
<1>3. \A i \in 1..Len(Evicted) : Evicted[i] \in Nat
  BY <1>2
<1>4. \A n \in Nat : n <= authClock => n \in 0..MaxAuthTime
  BY <1>1
<1>5. \A i \in 1..Len(Evicted) : Evicted[i] \in 0..MaxAuthTime
  BY <1>2, <1>3, <1>4
<1>6. DOMAIN failures = 1..Len(failures) /\ DOMAIN Evicted = 1..Len(Evicted)
  BY <1>1, <1>2
<1> QED
  BY <1>1, <1>4, <1>5, <1>6 DEF AuthTypeOK

\* A session belongs to a login that succeeded, and every time is in range.
LEMMA AuthTypeStep ==
  ASSUME LimiterInv, AuthTypeOK, [AuthNext]_authVars
  PROVE  AuthTypeOK'
<1> USE SessionAssumptions
<1>0. /\ InOrder /\ authClock \in 0..MaxAuthTime /\ authClock \in 1..MaxAuthTime
      /\ login \in [Logins -> [pc : LoginSteps, at : 0..MaxAuthTime]]
      /\ sessions \in [Logins -> 0..(MaxAuthTime + SessionDuration)]
      /\ \A t \in Logins : sessions[t] # 0 => login[t].pc \in {"reset", "done"}
      /\ loggedOut \subseteq Logins /\ failures \in Seq(Nat)
  BY TimesInRange DEF LimiterInv, AuthTypeOK, InOrder
<1>1. /\ \A i \in 1..Len(failures) : failures[i] \in 0..MaxAuthTime
      /\ \A i \in DOMAIN failures : failures[i] \in 0..MaxAuthTime
      /\ \A i \in DOMAIN Evicted : Evicted[i] \in 0..MaxAuthTime
  BY <1>0, TimesInRange
<1>2. ASSUME NEW l \in Logins, NEW p \in LoginSteps, Goes(l, p)
      PROVE  /\ login' \in [Logins -> [pc : LoginSteps, at : 0..MaxAuthTime]]
             /\ login'[l].pc = p /\ \A t \in Logins \ {l} : login'[t] = login[t]
  BY <1>0, <1>2 DEF Goes
<1>3. ASSUME NEW l \in Logins, Allow(l) PROVE AuthTypeOK'
  <2>1. /\ failures' = Evicted /\ login[l].pc = "new"
        /\ \E p \in {"verify", "done"} : Goes(l, p)
        /\ UNCHANGED <<sessions, loggedOut, authClock>>
    BY <1>3 DEF Allow
  <2>2. PICK p \in {"verify", "done"} : Goes(l, p)
    BY <2>1
  <2>3. /\ login' \in [Logins -> [pc : LoginSteps, at : 0..MaxAuthTime]]
        /\ \A t \in Logins \ {l} : login'[t] = login[t]
    BY <1>2, <2>2 DEF LoginSteps
  <2>4. sessions[l] = 0
    BY <1>0, <2>1
  <2>5. \A t \in Logins : sessions'[t] # 0 => login'[t].pc \in {"reset", "done"}
    BY <1>0, <2>1, <2>3, <2>4
  <2> QED
    BY <1>0, <1>1, <2>1, <2>3, <2>5 DEF AuthTypeOK
<1>4. ASSUME NEW l \in Logins, RecordFailure(l) PROVE AuthTypeOK'
  <2>1. /\ failures' = Append(failures, authClock) /\ Goes(l, "done")
        /\ UNCHANGED <<sessions, loggedOut, authClock>>
    BY <1>4 DEF RecordFailure
  <2>2. /\ login' \in [Logins -> [pc : LoginSteps, at : 0..MaxAuthTime]]
        /\ login'[l].pc = "done" /\ \A t \in Logins \ {l} : login'[t] = login[t]
    BY <1>2, <2>1 DEF LoginSteps
  <2>3. \A i \in DOMAIN failures' : failures'[i] \in 0..MaxAuthTime
    BY <1>0, <1>1, <2>1
  <2>4. \A t \in Logins : sessions'[t] # 0 => login'[t].pc \in {"reset", "done"}
    BY <1>0, <2>1, <2>2
  <2> QED
    BY <1>0, <2>1, <2>2, <2>3, <2>4 DEF AuthTypeOK
<1>5. ASSUME NEW l \in Logins, Reset(l) PROVE AuthTypeOK'
  <2>1. /\ failures' = <<>> /\ Goes(l, "done") /\ UNCHANGED <<sessions, loggedOut, authClock>>
    BY <1>5 DEF Reset
  <2>2. /\ login' \in [Logins -> [pc : LoginSteps, at : 0..MaxAuthTime]]
        /\ login'[l].pc = "done" /\ \A t \in Logins \ {l} : login'[t] = login[t]
    BY <1>2, <2>1 DEF LoginSteps
  <2>3. \A i \in DOMAIN failures' : failures'[i] \in 0..MaxAuthTime
    BY <2>1
  <2>4. \A t \in Logins : sessions'[t] # 0 => login'[t].pc \in {"reset", "done"}
    BY <1>0, <2>1, <2>2
  <2> QED
    BY <1>0, <2>1, <2>2, <2>3, <2>4 DEF AuthTypeOK
<1>11. ASSUME NEW l \in Logins, BadRequest(l) PROVE AuthTypeOK'
  <2>1. Goes(l, "done") /\ UNCHANGED <<failures, sessions, loggedOut, authClock>>
    BY <1>11 DEF BadRequest
  <2>2. /\ login' \in [Logins -> [pc : LoginSteps, at : 0..MaxAuthTime]]
        /\ login'[l].pc = "done" /\ \A t \in Logins \ {l} : login'[t] = login[t]
    BY <1>2, <2>1 DEF LoginSteps
  <2>3. \A t \in Logins : sessions'[t] # 0 => login'[t].pc \in {"reset", "done"}
    BY <1>0, <2>1, <2>2
  <2> QED
    BY <1>0, <1>1, <2>1, <2>2, <2>3 DEF AuthTypeOK
<1>6. ASSUME NEW t \in Logins, Logout(t) PROVE AuthTypeOK'
  <2>1. /\ sessions' = [sessions EXCEPT ![t] = 0] /\ loggedOut' = loggedOut \cup {t}
        /\ UNCHANGED <<login, failures, authClock>>
    BY <1>6 DEF Logout
  <2>2. /\ sessions' \in [Logins -> 0..(MaxAuthTime + SessionDuration)]
        /\ \A u \in Logins : sessions'[u] # 0 => sessions[u] # 0
    BY <1>0, <2>1
  <2> QED
    BY <1>0, <1>1, <2>1, <2>2 DEF AuthTypeOK
<1>7. ASSUME NEW l \in Logins, NEW good \in BOOLEAN, Login(l, good) PROVE AuthTypeOK'
  <2>1. /\ login[l].pc = "verify" /\ UNCHANGED <<failures, loggedOut, authClock>>
        /\ \E p \in {"reset", "reject"} : login' = [login EXCEPT ![l].pc = p]
        /\ \/ sessions' = sessions
           \/ /\ sessions' = [sessions EXCEPT ![l] = authClock + SessionDuration]
              /\ login' = [login EXCEPT ![l].pc = "reset"]
    BY <1>7 DEF Login
  <2>2. /\ login' \in [Logins -> [pc : LoginSteps, at : 0..MaxAuthTime]]
        /\ \A t \in Logins \ {l} : login'[t] = login[t]
    <3>1. PICK p \in {"reset", "reject"} : login' = [login EXCEPT ![l].pc = p]
      BY <2>1
    <3>2. p \in LoginSteps
      BY DEF LoginSteps
    <3> QED
      BY <1>0, <3>1, <3>2
  <2>3. sessions[l] = 0
    BY <1>0, <2>1
  <2>4. authClock + SessionDuration \in 0..(MaxAuthTime + SessionDuration)
    BY <1>0
  <2>5. /\ sessions' \in [Logins -> 0..(MaxAuthTime + SessionDuration)]
        /\ \A t \in Logins : sessions'[t] # 0 => login'[t].pc \in {"reset", "done"}
    <3>1. CASE sessions' = sessions
      BY <1>0, <2>2, <2>3, <3>1
    <3>2. CASE /\ sessions' = [sessions EXCEPT ![l] = authClock + SessionDuration]
               /\ login' = [login EXCEPT ![l].pc = "reset"]
      <4>1. login'[l].pc = "reset"
        BY <1>0, <3>2
      <4> QED
        BY <1>0, <2>2, <2>4, <3>2, <4>1
    <3> QED
      BY <2>1, <3>1, <3>2
  <2> QED
    BY <1>0, <1>1, <2>1, <2>2, <2>5 DEF AuthTypeOK
<1>8. CASE Cleanup
  <2>1. /\ failures' = Evicted /\ UNCHANGED <<login, loggedOut, authClock>>
        /\ sessions' = [t \in Logins |-> IF authClock > sessions[t] THEN 0 ELSE sessions[t]]
    BY <1>8 DEF Cleanup
  <2>2. /\ sessions' \in [Logins -> 0..(MaxAuthTime + SessionDuration)]
        /\ \A u \in Logins : sessions'[u] # 0 => sessions[u] # 0
    BY <1>0, <2>1
  <2> QED
    BY <1>0, <1>1, <2>1, <2>2 DEF AuthTypeOK
<1>9. CASE AuthTick
  <2>1. /\ UNCHANGED <<login, failures, sessions, loggedOut>>
        /\ authClock < MaxAuthTime /\ authClock' = authClock + 1
    BY <1>9 DEF AuthTick
  <2>2. authClock' \in 1..MaxAuthTime
    BY <1>0, <2>1
  <2> QED
    BY <1>0, <1>1, <2>1, <2>2 DEF AuthTypeOK
<1>10. CASE UNCHANGED authVars
  BY <1>10 DEF authVars, AuthTypeOK
<1> QED
  BY <1>3, <1>4, <1>5, <1>6, <1>7, <1>8, <1>9, <1>10, <1>11 DEF AuthNext

\* At the start nobody has logged in.
LEMMA AuthTypeInit == AuthInit => AuthTypeOK
BY SessionAssumptions DEF AuthInit, AuthTypeOK, LoginSteps

ServicesInv ==
  /\ PresInv /\ ReqInv /\ AlertInv /\ InventoryInv
  /\ BatInv /\ BatTypeOK /\ LimiterInv /\ AuthTypeOK

\* The tables, maps, queues and buffers of the six services keep their types, the
\* bounds of the batcher's and the limiter's buffers among them, and no metrics
\* entry goes missing uncounted: in every behaviour of the run's specification.
THEOREM ServicesTypeHolds == Spec => []ServicesTypeOK
<1>1. Init => ServicesInv
  <2>1. AlertInit => AlertInv
    BY AlertStarts
  <2> QED
    BY <2>1, PresInvInit, ReqInvInit, InventoryInit, BatStarts, LimiterInit, AuthTypeInit
       DEF Init, ServicesInv
<1>2. [Next]_services =>
        /\ [PresNext]_presVars /\ [ReqNext]_reqVars /\ [BatNext]_batVars
        /\ [AlertNext]_alertVars /\ [AuthNext]_authVars /\ [InvNext]_invVars
  BY DEF Next, services
<1>3. ServicesInv /\ [Next]_services => ServicesInv'
  BY <1>2, PresInvNext, ReqInvNext, AlertInvNext, InventoryNext, BatStep, BatTypeStep,
     LimiterNext, AuthTypeStep DEF ServicesInv
<1>4. ServicesInv => ServicesTypeOK
  BY DEF ServicesInv, ServicesTypeOK, PresInv, ReqInv, AlertInv, InventoryInv
<1> QED
  BY <1>1, <1>3, <1>4, PTL DEF Spec
=============================================================================
