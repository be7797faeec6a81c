--------------------------- MODULE CommandDelivery ---------------------------
(***************************************************************************)
(* The command queue of the server composed with one agent over the        *)
(* WebSocket between them.  Every step is a step of DeployQueue, a step of  *)
(* AgentCommands, or both: a command sent by Dispatch is what the agent's   *)
(* reader submits, and a result the agent sends is what handleExecResult    *)
(* records.                                                                 *)
(*                                                                          *)
(* A connection keeps the order of messages and duplicates none, but it may *)
(* be lost with everything on it, and the two ends notice at different      *)
(* times: a command sent to a dead connection counts as sent.               *)
(***************************************************************************)
EXTENDS DeployQueue, Sequences

CONSTANTS
  pc,               \* the agent
  FileJobs, QueueCap, CompletedCap, MaxDeliveries, MaxSessions, MaxAgentCrashes

ASSUME DeliveryAssumptions ==
  /\ Agents = {pc}
  /\ FileJobs \subseteq Jobs
  /\ QueueCap \in Nat \ {0} /\ CompletedCap \in Nat \ {0}
  /\ MaxDeliveries \in Nat /\ MaxSessions \in Nat /\ MaxAgentCrashes \in Nat

VARIABLES
  link,   \* the agent's connection: "none", "opened" (the first metrics message
          \* is on its way), "registered" as the hub's client, or "dead" (the
          \* server closed it, the agent has not noticed)
  down,   \* commands on the way to the agent
  up, connected, reader, active, queue, work, acks, pending, completed,
  checkpoint, outbox, received, past, runs, forgotten, deliveries, sessions,
  agentCrashes, forgets

Agent == INSTANCE AgentCommands WITH
  Attempts <- Nat, Outcomes <- Reports \ {"expired"}, Expiring <- {},
  FullBuffers <- FALSE, MaxForgets <- 0, MaxCrashes <- MaxAgentCrashes,
  crashes <- agentCrashes

serverVars == vars
agentVars  == <<up, connected, reader, active, queue, work, acks, pending,
                completed, checkpoint, outbox, received, past, runs, forgotten,
                deliveries, sessions, agentCrashes, forgets>>
allVars    == <<serverVars, agentVars, link, down>>

DeliveryInit == Init /\ Agent!Init /\ link = "none" /\ down = <<>>

-----------------------------------------------------------------------------
(* Steps of both ends.                                                      *)

\* A command handed to the registered client travels; one handed to a client
\* whose connection is gone does not.
SendCommand(c) ==
  /\ Dispatch(c)
  /\ down' = IF link = "registered"
             THEN Append(down, [job |-> c.job, attempt |-> c.attempt]) ELSE down
  /\ UNCHANGED <<agentVars, link>>

DeliverCommand ==
  /\ down # <<>>
  /\ Agent!Submit(Head(down))
  /\ down' = Tail(down)
  /\ UNCHANGED <<serverVars, link>>

\* The hub reads a result: recorded or ignored as stale, acknowledged either
\* way.  It may arrive before the metrics message that registers the client;
\* the acknowledgement then goes to an older client or to none.
DeliverResult(r) ==
  /\ link \in {"opened", "registered"}
  /\ Agent!ServerReads(r)
  /\ r \in received'
  /\ link = "opened" => UNCHANGED acks
  /\ \/ HandleExecResult(pc, r.job, r.attempt, r.status)
     \/ ~Fenced(r.job, pc, r.attempt) /\ UNCHANGED serverVars
  /\ UNCHANGED <<link, down>>

OpenConnection ==
  /\ Agent!Connect
  /\ link' = "opened"
  /\ down' = <<>>
  /\ UNCHANGED serverVars

\* The first metrics message registers the client and pumps the queue.
RegisterClient ==
  /\ link = "opened"
  /\ Connect(pc)
  /\ link' = "registered"
  /\ UNCHANGED <<agentVars, down>>

\* The agent's end of the connection goes; the hub keeps its client until it
\* notices.
AgentLosesConnection ==
  /\ Agent!Disconnect
  /\ link' = "none"
  /\ down' = <<>>
  /\ UNCHANGED serverVars

HubDropsClient ==
  /\ Disconnect(pc)
  /\ link' = IF link = "registered" THEN "dead" ELSE link
  /\ down' = <<>>
  /\ UNCHANGED agentVars

AgentDies ==
  /\ Agent!Crash
  /\ link' = "none"
  /\ down' = <<>>
  /\ UNCHANGED serverVars

ServerDies ==
  /\ Crash
  /\ link' = IF link = "none" THEN "none" ELSE "dead"
  /\ down' = <<>>
  /\ UNCHANGED agentVars

\* Everything else the server does does not concern the connection.
ServerWorks ==
  /\ \/ \E c \in claims : DispatchFails(c) \/ Release(c)
     \/ \E a \in Agents : PumpStep(a)
     \/ \E j \in Jobs : CreateStep(j)
     \/ \E m \in marks : MarkStep(m)
     \/ SweepStep \/ TimeStep \/ AdminStep
  /\ UNCHANGED <<agentVars, link, down>>

AgentWorks ==
  /\ \/ Agent!WorkerStep
     \/ \E c \in reader : Agent!Enqueue(c)
     \/ \E j \in Jobs : Agent!ClearPending(j)
  /\ UNCHANGED <<serverVars, link, down>>

DeliveryNext ==
  \/ \E c \in claims : SendCommand(c)
  \/ DeliverCommand
  \/ \E r \in outbox : DeliverResult(r)
  \/ OpenConnection \/ RegisterClient \/ AgentLosesConnection \/ HubDropsClient
  \/ AgentDies \/ ServerDies \/ ServerWorks \/ AgentWorks

DeliverySpec == DeliveryInit /\ [][DeliveryNext]_allVars

-----------------------------------------------------------------------------
(* End-to-end properties.                                                   *)

\* A shutdown or restart is performed at most once on a PC, whatever is lost,
\* late or restarted on the way ("so a restart/shutdown can't fire twice off
\* one request", docs/adr/0009:34).
DestructiveRunsOnce == \A j \in Destructive : runs[j] <= 1

\* Once the server has recorded the success of a command, the PC does not start
\* it again: no redelivery is left that would run it.
SuccessIsFinal ==
  [][\A j \in Jobs : status[j][pc] = "success" => runs'[j] = runs[j]]_allVars

=============================================================================
