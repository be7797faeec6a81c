--------------------------- MODULE RequestWaiters ---------------------------
(***************************************************************************)
(* Requests the server makes of one connected agent and waits for: killing  *)
(* a process and reading the log (hub.go).  A request stores a one-slot     *)
(* channel in a map keyed by the agent alone, sends its message, waits for  *)
(* the channel or a timeout, and deletes the map's entry.  The agent works  *)
(* on each message in a goroutine of its own and its answer carries no      *)
(* request identity.                                                        *)
(***************************************************************************)
EXTENDS Naturals

CONSTANTS Requests, NoRequest

ASSUME RequestAssumptions == NoRequest \notin Requests

Kinds == {"kill", "logs"}              \* killWaiters, logWaiters

VARIABLES
  req,       \* per request: its step and its kind
  waiter,    \* killWaiters[agent], logWaiters[agent]: the request whose channel is stored
  box,       \* per request: the answer in its channel, told by the request it answers
  atAgent,   \* requests the agent is working on
  online,    \* whether SendToAgent can queue the message
  dropped,   \* history: answers that found no channel or a full one
  crowded    \* history: requests that met another one of their kind

reqVars == <<req, waiter, box, atAgent, online, dropped, crowded>>

RequestSteps == {"new", "stored", "waiting", "answered", "failed", "returned"}

ReqTypeOK ==
  /\ req \in [Requests -> [pc : RequestSteps, kind : Kinds]]
  /\ waiter \in [Kinds -> Requests \cup {NoRequest}]
  /\ box \in [Requests -> Requests \cup {NoRequest}]
  /\ atAgent \subseteq Requests /\ dropped \subseteq Requests
  /\ crowded \subseteq Requests /\ online \in BOOLEAN
  \* An answer is only ever kept for a request that was sent.
  /\ \A r \in Requests : req[r].pc \in {"new", "stored"} => r \notin atAgent \cup dropped

ReqInit ==
  /\ req \in [Requests -> [pc : {"new"}, kind : Kinds]]
  /\ waiter = [k \in Kinds |-> NoRequest]
  /\ box = [r \in Requests |-> NoRequest]
  /\ atAgent = {} /\ dropped = {} /\ crowded = {}
  /\ online = TRUE

Step(r, pc) == req' = [req EXCEPT ![r].pc = pc]

\* The other requests of r's kind that are not over, or whose answer is not.
Rivals(r) ==
  {q \in Requests \ {r} : /\ req[q].kind = req[r].kind
                          /\ req[q].pc \notin {"new", "returned"} \/ q \in atAgent}

\* KillProcess, KillProcessByIdentity, RequestAgentLogs: a fresh channel replaces
\* whatever the map holds for the agent.
StoreWaiter(r) ==
  /\ req[r].pc = "new"
  /\ Step(r, "stored")
  /\ waiter' = [waiter EXCEPT ![req[r].kind] = r]
  /\ crowded' = IF Rivals(r) = {} THEN crowded ELSE crowded \cup Rivals(r) \cup {r}
  /\ UNCHANGED <<box, atAgent, online, dropped>>

\* SendToAgent: queued, or the agent is not online and the request fails.
SendRequest(r) ==
  /\ req[r].pc = "stored"
  /\ IF online THEN Step(r, "waiting") /\ atAgent' = atAgent \cup {r}
               ELSE Step(r, "failed") /\ UNCHANGED atAgent
  /\ UNCHANGED <<waiter, box, online, dropped, crowded>>

MutHandleResult(r) ==                  \* kill_result looks in the map of the log requests
  LET w == waiter["logs"] IN
  /\ r \in atAgent /\ online
  /\ atAgent' = atAgent \ {r}
  /\ IF w # NoRequest /\ box[w] = NoRequest
     THEN box' = [box EXCEPT ![w] = r] /\ UNCHANGED dropped
     ELSE dropped' = dropped \cup {r} /\ UNCHANGED box
  /\ UNCHANGED <<req, waiter, online, crowded>>

\* The agent's goroutine for r ends and its answer reaches handleKillResult or
\* handleLogResult: the channel stored for the agent takes it if it is empty.
HandleResult(r) ==
  LET w == waiter[req[r].kind] IN
  /\ r \in atAgent /\ online
  /\ atAgent' = atAgent \ {r}
  /\ IF w # NoRequest /\ box[w] = NoRequest
     THEN box' = [box EXCEPT ![w] = r] /\ UNCHANGED dropped
     ELSE dropped' = dropped \cup {r} /\ UNCHANGED box
  /\ UNCHANGED <<req, waiter, online, crowded>>

\* The select of the waiting request: its channel ...
TakeAnswer(r) ==
  /\ req[r].pc = "waiting" /\ box[r] # NoRequest
  /\ Step(r, "answered")
  /\ UNCHANGED <<waiter, box, atAgent, online, dropped, crowded>>

\* ... or the timer, 10 seconds for a kill, 15 for the log.
TimeOut(r) ==
  /\ req[r].pc = "waiting"
  /\ Step(r, "failed")
  /\ UNCHANGED <<waiter, box, atAgent, online, dropped, crowded>>

\* The deferred Delete removes the entry of the agent, whoever stored it.
Return(r) ==
  /\ req[r].pc \in {"answered", "failed"}
  /\ Step(r, "returned")
  /\ waiter' = [waiter EXCEPT ![req[r].kind] = NoRequest]
  /\ UNCHANGED <<box, atAgent, online, dropped, crowded>>

\* The agent's connection ends: answers under way are dropped by its wsSend.
LoseAgent ==
  /\ online /\ online' = FALSE
  /\ dropped' = dropped \cup atAgent /\ atAgent' = {}
  /\ UNCHANGED <<req, waiter, box, crowded>>

ReqNext ==
  \/ \E r \in Requests :
       \/ StoreWaiter(r) \/ SendRequest(r) \/ HandleResult(r)
       \/ TakeAnswer(r) \/ TimeOut(r) \/ Return(r)
  \/ LoseAgent

ReqSpec == ReqInit /\ [][ReqNext]_reqVars

-----------------------------------------------------------------------------
(* Properties.                                                              *)

\* A request that met no other of its kind gets its own answer and no other,
\* and on a connection that stays up it loses it only by giving up first
\* (hub.go:686-715).
LoneRequestGetsItsAnswer ==
  \A r \in Requests \ crowded :
    /\ box[r] \in {NoRequest, r}
    /\ r \in dropped /\ online => req[r].pc \in {"failed", "returned"}

=============================================================================
