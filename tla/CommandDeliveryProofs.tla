------------------------ MODULE CommandDeliveryProofs ------------------------
(* The end-to-end theorems.                                                  *)
(*                                                                           *)
(* The composition is both a DeployQueue and an AgentCommands: every attempt *)
(* the agent holds was sent to it, so every result it returns is an answer   *)
(* the queue expects.                                                        *)
(*                                                                           *)
(* A command that shuts a PC down or restarts it is handed out at most once  *)
(* (DeployQueueProofs), and every copy of it on the way to the agent's       *)
(* worker stems from that one send, so the agent performs it at most once.   *)
(*                                                                           *)
(* A command whose result was recorded is not started again: attempts travel *)
(* in order from the claim to the worker, so once the row's own attempt has  *)
(* been answered nothing newer, and nothing older, is left on the way.       *)
EXTENDS CommandDelivery, DeployQueueProofs

\* The theorems about the agent, for the agent of this composition.
AP == INSTANCE AgentCommandsProofs WITH
  Attempts <- Nat, Outcomes <- Reports \ {"expired"}, Expiring <- {},
  FullBuffers <- FALSE, MaxForgets <- 0, MaxCrashes <- MaxAgentCrashes,
  crashes <- agentCrashes

-----------------------------------------------------------------------------
(* The inductive invariant.                                                  *)

\* Where a command of job j may be between the server's send and its run.
InDown(j)   == \E i \in 1..Len(down) : down[i].job = j
InReader(j) == \E c \in reader : c.job = j
InQueue(j)  == \E i \in 1..Len(queue) : queue[i].job = j
InWork(j)   == \E t \in work : t.job = j /\ t.pc \in {"recheck", "start"}
Once(s, j)  == \A i, k \in 1..Len(s) : s[i].job = j /\ s[k].job = j => i = k

\* The command is in one of these places, in one copy, or it has run, once; and
\* only if it was sent.
OneCopy(j) ==
  /\ Once(down, j) /\ Once(queue, j)
  /\ InDown(j) => ~InReader(j) /\ ~InQueue(j) /\ ~InWork(j) /\ runs[j] = 0
  /\ InReader(j) => ~InQueue(j) /\ ~InWork(j) /\ runs[j] = 0
  /\ InQueue(j) => ~InWork(j) /\ runs[j] = 0
  /\ InWork(j) => runs[j] = 0
  /\ runs[j] <= 1
  /\ InDown(j) \/ InReader(j) \/ InQueue(j) \/ InWork(j) \/ runs[j] > 0
       => dispatches[j][pc] > 0

\* Everything on the connection or in the agent that carries an attempt number
\* was sent to the agent.
OnTheWay   == AP!Carried \cup AP!Elements(down)
Provenance == \A x \in OnTheWay : x.job \in Jobs /\ x.attempt \in attempts[x.job][pc]

\* What holds of the two ends and the connection whatever the faults.
EndsInv ==
  /\ TypeOK /\ FreshRows /\ AP!AgentInv
  /\ down \in Seq(AP!Command)
  /\ Provenance

DeliveryInv ==
  /\ EndsInv /\ DestructiveOnce /\ SendableOnce
  /\ \A j \in Destructive : OneCopy(j)

-----------------------------------------------------------------------------
(* Every step is a step of the agent, of the server, or of both.             *)

\* The constants of the composition satisfy the assumptions of AgentCommands.
LEMMA AgentConstants == AP!AgentAssumptions
BY QueueAssumptions, DeliveryAssumptions DEF AP!AgentAssumptions

\* A step of the server alone is a stutter of the agent.
LEMMA AgentUnmoved ==
  ASSUME UNCHANGED agentVars
  PROVE  [AP!Next]_AP!vars
BY DEF agentVars, AP!vars, AP!files, AP!world, AP!counts

\* The next lemmas: each agent action used in the composition is a step of
\* AgentCommands. First a command read from the connection,
LEMMA AgentSubmits ==
  ASSUME NEW c \in AP!Command, Agent!Submit(c)
  PROVE  AP!Next
<1>1. AP!Submit(c)
  BY DEF Agent!Submit, AP!Submit, Agent!Stored, AP!Stored, Agent!WsSend, AP!WsSend,
         Agent!Elements, AP!Elements, Agent!files, AP!files
<1> QED
  BY <1>1 DEF AP!Next

\* the claim and the send on cmdCh,
LEMMA AgentEnqueues ==
  ASSUME NEW c \in reader, c \in AP!Command, Agent!Enqueue(c)
  PROVE  AP!Next
<1>1. AP!Enqueue(c)
  BY DEF Agent!Enqueue, AP!Enqueue, Agent!files, AP!files, Agent!world, AP!world,
         Agent!counts, AP!counts
<1> QED
  BY <1>1 DEF AP!Next

\* a result read by the server,
LEMMA AgentReceives ==
  ASSUME NEW r \in outbox, Agent!ServerReads(r)
  PROVE  AP!Next
<1>1. AP!ServerReads(r)
  BY DEF Agent!ServerReads, AP!ServerReads, Agent!files, AP!files, Agent!counts, AP!counts
<1> QED
  BY <1>1 DEF AP!Next

\* an acknowledgement that arrives,
LEMMA AgentClears ==
  ASSUME NEW j \in Jobs, Agent!ClearPending(j)
  PROVE  AP!Next
<1>1. AP!ClearPending(j)
  BY DEF Agent!ClearPending, AP!ClearPending, Agent!world, AP!world, Agent!counts, AP!counts
<1> QED
  BY <1>1 DEF AP!Next

\* a session that begins or ends,
LEMMA AgentSessions ==
  ASSUME Agent!Connect \/ Agent!Disconnect
  PROVE  AP!Next
<1>1. AP!Connect \/ AP!Disconnect
  BY DEF Agent!Connect, AP!Connect, Agent!Disconnect, AP!Disconnect, Agent!files, AP!files,
         Agent!counts, AP!counts
<1> QED
  BY <1>1 DEF AP!Next

\* (the two instances of the agent share their operators: the size of a set,
LEMMA AgentCounts ==
  ASSUME NEW S
  PROVE  Agent!Cardinality(S) = AP!Cardinality(S)
BY DEF Agent!Cardinality, AP!Cardinality, Agent!IsFiniteSet, AP!IsFiniteSet

\* what is counted as forgotten,
LEMMA AgentForgets ==
  ASSUME NEW R, Agent!Forget(R)
  PROVE  AP!Forget(R)
BY AgentCounts DEF Agent!Forget, AP!Forget

\* and the filtered list)
LEMMA AgentFilters ==
  ASSUME NEW s, NEW T
  PROVE  Agent!Filter(s, T) = AP!Filter(s, T)
BY DEF Agent!Filter, AP!Filter

\* the death of the process,
LEMMA AgentCrashes ==
  ASSUME Agent!Crash
  PROVE  AP!Next
<1>1. PICK R : R = {t \in work : Agent!Unrecorded(t)}
  OBVIOUS
<1>2. R = {t \in work : AP!Unrecorded(t)}
  BY <1>1 DEF Agent!Unrecorded, AP!Unrecorded
<1>3. AP!Forget(R)
  BY <1>1, AgentForgets DEF Agent!Crash
<1>4. AP!Crash
  BY <1>2, <1>3 DEF Agent!Crash, AP!Crash, Agent!files, AP!files
<1> QED
  BY <1>4 DEF AP!Next

\* the recording of a finished job,
LEMMA AgentRecords ==
  ASSUME NEW t, Agent!RecordCompleted(t)
  PROVE  AP!RecordCompleted(t)
<1>1. PICK T : T = {r \in Agent!Elements(completed) : r.job # t.job}
  OBVIOUS
<1>2. T = {r \in AP!Elements(completed) : r.job # t.job}
  BY <1>1 DEF Agent!Elements, AP!Elements
<1>3. PICK list : list = Append(Agent!Filter(completed, T), Agent!ResultOf(t))
  OBVIOUS
<1>4. list = Append(AP!Filter(completed, T), AP!ResultOf(t))
  BY <1>3, AgentFilters DEF Agent!ResultOf, AP!ResultOf
<1>5. PICK extra : extra = IF Len(list) > CompletedCap THEN Len(list) - CompletedCap ELSE 0
  OBVIOUS
<1>6. /\ completed' = SubSeq(list, extra + 1, Len(list))
      /\ Agent!Forget({list[i] : i \in 1..extra})
  BY <1>1, <1>3, <1>5 DEF Agent!RecordCompleted
<1>7. AP!Forget({list[i] : i \in 1..extra})
  BY <1>6, AgentForgets
<1>8. /\ t \in work /\ t.pc = "record" /\ AP!Goto(t, "send")
      /\ UNCHANGED <<up, connected, reader, active, queue, acks, pending, checkpoint,
                     AP!world, runs, AP!counts>>
  BY DEF Agent!RecordCompleted, Agent!Goto, AP!Goto, Agent!world, AP!world,
         Agent!counts, AP!counts
<1> QED
  BY <1>2, <1>4, <1>5, <1>6, <1>7, <1>8 DEF AP!RecordCompleted

\* and a step of the worker or of the startup check.
LEMMA AgentRuns ==
  ASSUME Agent!WorkerStep
  PROVE  AP!Next
<1> USE DEF Agent!files, AP!files, Agent!world, AP!world, Agent!counts, AP!counts,
            Agent!Goto, AP!Goto, Agent!Stored, AP!Stored, Agent!WsSend, AP!WsSend,
            Agent!Elements, AP!Elements, Agent!ResultOf, AP!ResultOf
<1>1. Agent!TakeCommand => AP!TakeCommand
  BY DEF Agent!TakeCommand, AP!TakeCommand
<1>2. Agent!BootCheck => AP!BootCheck
  BY DEF Agent!BootCheck, AP!BootCheck
<1>3. ASSUME NEW t \in work, Agent!TaskStep(t) PROVE AP!TaskStep(t)
  <2>1. Agent!Recheck(t) => AP!Recheck(t)
    BY DEF Agent!Recheck, AP!Recheck
  <2>2. Agent!Refuse(t) => AP!Refuse(t)
    BY DEF Agent!Refuse, AP!Refuse
  <2>3. Agent!Begin(t) => AP!Begin(t)
    BY DEF Agent!Begin, AP!Begin
  <2>4. Agent!Finish(t) => AP!Finish(t)
    BY DEF Agent!Finish, AP!Finish
  <2>5. Agent!ClearCheckpoint(t) => AP!ClearCheckpoint(t)
    BY DEF Agent!ClearCheckpoint, AP!ClearCheckpoint
  <2>6. Agent!PersistPending(t) => AP!PersistPending(t)
    BY DEF Agent!PersistPending, AP!PersistPending
  <2>7. Agent!RecordCompleted(t) => AP!RecordCompleted(t)
    BY AgentRecords
  <2>8. Agent!SendResult(t) => AP!SendResult(t)
    BY DEF Agent!SendResult, AP!SendResult
  <2>9. Agent!TrackDone(t) => AP!TrackDone(t)
    BY DEF Agent!TrackDone, AP!TrackDone
  <2>10. Agent!BootDone(t) => AP!BootDone(t)
    BY DEF Agent!BootDone, AP!BootDone
  <2> QED
    BY <1>3, <2>1, <2>2, <2>3, <2>4, <2>5, <2>6, <2>7, <2>8, <2>9, <2>10
       DEF Agent!TaskStep, AP!TaskStep
<1> HIDE DEF Agent!files, AP!files, Agent!world, AP!world, Agent!counts, AP!counts,
             Agent!Goto, AP!Goto, Agent!Stored, AP!Stored, Agent!WsSend, AP!WsSend,
             Agent!Elements, AP!Elements, Agent!ResultOf, AP!ResultOf
<1>4. AP!WorkerStep
  BY <1>1, <1>2, <1>3 DEF Agent!WorkerStep, AP!WorkerStep
<1> QED
  BY <1>4 DEF AP!Next

\* What the agent does in any step of the composition is a step of AgentCommands.
LEMMA AgentSide ==
  ASSUME EndsInv, [DeliveryNext]_allVars
  PROVE  [AP!Next]_AP!vars
<1>1. reader \subseteq AP!Command /\ down \in Seq(AP!Command)
  BY DEF EndsInv, AP!AgentInv, AP!AgentType, AP!Single
<1>2. CASE DeliverCommand
  <2>1. Head(down) \in AP!Command
    BY <1>1, <1>2 DEF DeliverCommand
  <2> QED
    BY <1>2, <2>1, AgentSubmits DEF DeliverCommand
<1>3. CASE \E r \in outbox : DeliverResult(r)
  BY <1>3, AgentReceives DEF DeliverResult
<1>4. CASE OpenConnection \/ AgentLosesConnection
  BY <1>4, AgentSessions DEF OpenConnection, AgentLosesConnection
<1>5. CASE AgentDies
  BY <1>5, AgentCrashes DEF AgentDies
<1>6. CASE AgentWorks
  BY <1>1, <1>6, AgentRuns, AgentEnqueues, AgentClears DEF AgentWorks
<1>7. CASE \/ \E c \in claims : SendCommand(c)
           \/ RegisterClient \/ HubDropsClient \/ ServerDies \/ ServerWorks
  <2>1. UNCHANGED agentVars
    BY <1>7 DEF SendCommand, RegisterClient, HubDropsClient, ServerDies, ServerWorks
  <2> QED
    BY <2>1, AgentUnmoved
<1>8. CASE UNCHANGED allVars
  BY <1>8, AgentUnmoved DEF allVars
<1> QED
  BY <1>2, <1>3, <1>4, <1>5, <1>6, <1>7, <1>8 DEF DeliveryNext

\* The agent of the composition starts as an AgentCommands.
LEMMA AgentStarts == DeliveryInit => AP!Init
BY DEF DeliveryInit, Agent!Init, AP!Init

\* What the server does on its own: every step but the recording of a result.
OwnStep ==
  \/ \E c \in claims : ClaimStep(c)
  \/ \E a \in Agents : PumpStep(a) \/ Connect(a) \/ Disconnect(a)
  \/ \E j \in Jobs : CreateStep(j)
  \/ \E m \in marks : MarkStep(m)
  \/ SweepStep \/ TimeStep \/ AdminStep \/ Crash

\* handleExecResult records what the agent sent.
Records(r) == DeliverResult(r) /\ HandleExecResult(pc, r.job, r.attempt, r.status)

\* What the server does in any step is a step of its own, or it records a result.
LEMMA ServerSide ==
  ASSUME [DeliveryNext]_allVars
  PROVE  [OwnStep]_vars \/ \E r \in outbox : Records(r)
<1>1. pc \in Agents
  BY DeliveryAssumptions
<1>2. ASSUME NEW c \in claims, SendCommand(c) PROVE OwnStep
  BY <1>2 DEF SendCommand, OwnStep, ClaimStep
<1>3. ASSUME NEW r \in outbox, DeliverResult(r) PROVE [OwnStep]_vars \/ Records(r)
  BY <1>3 DEF DeliverResult, Records, serverVars
<1>4. CASE RegisterClient
  BY <1>1, <1>4 DEF RegisterClient, OwnStep
<1>5. CASE HubDropsClient
  BY <1>1, <1>5 DEF HubDropsClient, OwnStep
<1>6. CASE ServerDies
  BY <1>6 DEF ServerDies, OwnStep
<1>7. CASE ServerWorks
  BY <1>7 DEF ServerWorks, OwnStep, ClaimStep
<1>8. CASE DeliverCommand \/ OpenConnection \/ AgentLosesConnection \/ AgentDies \/ AgentWorks
  BY <1>8 DEF DeliverCommand, OpenConnection, AgentLosesConnection, AgentDies, AgentWorks,
              serverVars
<1>9. CASE UNCHANGED allVars
  BY <1>9 DEF allVars, serverVars
<1> QED
  BY <1>2, <1>3, <1>4, <1>5, <1>6, <1>7, <1>8, <1>9 DEF DeliveryNext

\* Its own steps are steps of DeployQueue.
LEMMA OwnIsNext == [OwnStep]_vars => [Next]_vars
BY DEF OwnStep, Next, AgentStep

\* What the agent sends is typed and was asked for.
LEMMA ResultKnown ==
  ASSUME EndsInv, NEW r \in outbox
  PROVE  /\ r \in AP!Result /\ r \in AP!Spent
         /\ r.job \in Jobs /\ r.attempt \in attempts[r.job][pc] /\ r.status \in Answered
<1>1. r \in AP!Result
  BY DEF EndsInv, AP!AgentInv, AP!AgentType
<1>2. r \in AP!Spent
  BY DEF AP!Spent
<1>3. r.job \in Jobs /\ r.attempt \in attempts[r.job][pc]
  BY <1>2 DEF EndsInv, Provenance, OnTheWay, AP!Carried
<1>4. r.status \in Answered
  BY <1>1, QueueAssumptions DEF AP!Result, AP!Statuses, Answered
<1> QED
  BY <1>1, <1>2, <1>3, <1>4

\* So every step is a step of the queue with an agent that may answer anything it
\* was sent.
LEMMA ServerStep ==
  ASSUME EndsInv, [DeliveryNext]_allVars
  PROVE  [QueueNext]_vars
<1>1. CASE [OwnStep]_vars
  BY <1>1, OwnIsNext, NextIsQueueNext
<1>2. ASSUME NEW r \in outbox, Records(r) PROVE QueueNext
  <2>1. r.job \in Jobs /\ r.attempt \in attempts[r.job][pc] /\ r.status \in Answered
    BY ResultKnown
  <2>2. Answer(pc)
    BY <1>2, <2>1 DEF Records, Answer
  <2> QED
    BY <2>2, DeliveryAssumptions DEF QueueNext
<1> QED
  BY <1>1, <1>2, ServerSide

-----------------------------------------------------------------------------
(* The connection.                                                           *)

CommandOf(c) == [job |-> c.job, attempt |-> c.attempt]

\* A send appends the claim's command, the reader takes the first one, and any
\* other step leaves the connection alone or loses it.
LEMMA LinkStep ==
  ASSUME [DeliveryNext]_allVars
  PROVE  \/ reader' \subseteq reader /\ (down' = down \/ down' = <<>>)
         \/ /\ UNCHANGED agentVars
            /\ \E c \in claims : SendCommand(c) /\ down' = Append(down, CommandOf(c))
         \/ /\ DeliverCommand /\ down # <<>> /\ reader = {} /\ reader' \subseteq {Head(down)}
            /\ down' = Tail(down)
<1>1. CASE \E c \in claims : SendCommand(c)
  BY <1>1 DEF SendCommand, CommandOf, agentVars
<1>2. CASE DeliverCommand
  BY <1>2 DEF DeliverCommand, Agent!Submit
<1>3. CASE \/ \E r \in outbox : DeliverResult(r)
           \/ OpenConnection \/ RegisterClient \/ AgentLosesConnection \/ HubDropsClient
           \/ AgentDies \/ ServerDies \/ ServerWorks \/ UNCHANGED allVars
  BY <1>3 DEF DeliverResult, OpenConnection, RegisterClient, AgentLosesConnection,
     HubDropsClient, AgentDies, ServerDies, ServerWorks, allVars, agentVars,
     Agent!ServerReads, Agent!Connect, Agent!Disconnect, Agent!Crash
<1>4. CASE AgentWorks
  <2>1. reader' \subseteq reader
    <3>1. CASE Agent!TakeCommand \/ Agent!BootCheck
      BY <3>1 DEF Agent!TakeCommand, Agent!BootCheck
    <3>2. CASE \E t \in work : Agent!TaskStep(t)
      BY <3>2 DEF Agent!TaskStep, Agent!Recheck, Agent!Refuse, Agent!Begin, Agent!Finish,
         Agent!ClearCheckpoint, Agent!PersistPending, Agent!RecordCompleted,
         Agent!SendResult, Agent!TrackDone, Agent!BootDone
    <3>3. CASE \/ \E c \in reader : Agent!Enqueue(c)
               \/ \E j \in Jobs : Agent!ClearPending(j)
      BY <3>3 DEF Agent!Enqueue, Agent!ClearPending
    <3> QED
      BY <1>4, <3>1, <3>2, <3>3 DEF AgentWorks, Agent!WorkerStep
  <2> QED
    BY <1>4, <2>1 DEF AgentWorks
<1> QED
  BY <1>1, <1>2, <1>3, <1>4 DEF DeliveryNext

\* The elements of what is left on the connection, of what was appended, of nothing.
LEMMA DownElements ==
  ASSUME down \in Seq(AP!Command)
  PROVE  /\ \A x \in AP!Command : /\ Append(down, x) \in Seq(AP!Command)
                                  /\ AP!Elements(Append(down, x)) = AP!Elements(down) \cup {x}
         /\ down # <<>> => /\ Tail(down) \in Seq(AP!Command)
                           /\ AP!Elements(Tail(down)) \subseteq AP!Elements(down)
                           /\ Head(down) \in AP!Elements(down)
         /\ <<>> \in Seq(AP!Command) /\ AP!Elements(<<>>) = {}
<1>1. <<>> \in Seq(AP!Command) /\ AP!Elements(<<>>) = {}
  BY DEF AP!Elements
<1>2. ASSUME NEW x \in AP!Command
      PROVE  /\ Append(down, x) \in Seq(AP!Command)
             /\ AP!Elements(Append(down, x)) = AP!Elements(down) \cup {x}
  BY AgentConstants, AP!ListFacts
<1>3. ASSUME down # <<>>
      PROVE  /\ Tail(down) \in Seq(AP!Command)
             /\ AP!Elements(Tail(down)) \subseteq AP!Elements(down)
             /\ Head(down) \in AP!Elements(down)
  BY <1>3, AgentConstants, AP!ListFacts
<1> QED
  BY <1>1, <1>2, <1>3

\* A claim of this server is for its one agent.
LEMMA ClaimsOfPc ==
  ASSUME TypeOK, NEW c \in claims
  PROVE  /\ c \in ClaimsOn(c.job, pc) /\ c.agent = pc /\ pc \in Agents
         /\ c.job \in Jobs /\ c.attempt \in Nat
         /\ CommandOf(c) \in AP!Command /\ CommandOf(c).job = c.job
         /\ CommandOf(c).attempt = c.attempt
<1>1. c.job \in Jobs /\ c.agent = pc /\ c.attempt \in Nat /\ pc \in Agents
  BY DeliveryAssumptions DEF TypeOK, Claim
<1> QED
  BY <1>1 DEF ClaimsOn, CommandOf, AP!Command

\* The agent and the connection hold nothing that was not sent, and what was sent
\* stays recorded as sent.
LEMMA ProvenanceStep ==
  ASSUME EndsInv, [DeliveryNext]_allVars
  PROVE  Provenance' /\ down' \in Seq(AP!Command)
<1>1. TypeOK /\ AP!AgentType /\ down \in Seq(AP!Command) /\ Provenance /\ pc \in Agents
  BY DeliveryAssumptions DEF EndsInv, AP!AgentInv
<1>2. \A j \in Jobs : attempts[j][pc] \subseteq attempts'[j][pc]
  <2>1. \A j \in Jobs : HandOver(j, pc)
    BY <1>1, ServerStep, HandOverNext
  <2> SUFFICES ASSUME NEW j \in Jobs PROVE attempts[j][pc] \subseteq attempts'[j][pc]
    OBVIOUS
  <2>2. HandOver(j, pc)
    BY <2>1
  <2>3. attempts'[j][pc] = attempts[j][pc] \/ SentNow(j, pc)
    BY <2>2 DEF HandOver
  <2>4. CASE SentNow(j, pc)
    BY <2>4 DEF SentNow
  <2> QED
    BY <2>3, <2>4
<1>3. /\ \A x \in AP!Carried' : (\E y \in AP!Carried : AP!Like(x, y)) \/ x \in reader' \ reader
  <2>1. AP!AgentType /\ [AP!Next]_AP!vars
    BY <1>1, AgentSide
  <2> QED
    BY <2>1, AgentConstants, AP!HeldStep DEF AP!HeldBefore
<1>4. ASSUME NEW x, NEW y \in OnTheWay, AP!Like(x, y)
      PROVE  x.job \in Jobs /\ x.attempt \in attempts'[x.job][pc]
  BY <1>1, <1>2, <1>4 DEF Provenance, AP!Like
<1>5. \A x : AP!Like(x, x)
  BY DEF AP!Like
<1>6. CASE reader' \subseteq reader /\ (down' = down \/ down' = <<>>)
  <2>1. AP!Elements(down') \subseteq AP!Elements(down) /\ down' \in Seq(AP!Command)
    BY <1>1, <1>6, DownElements
  <2>2. \A x \in OnTheWay' : \E y \in OnTheWay : AP!Like(x, y)
    BY <1>3, <1>5, <1>6, <2>1 DEF OnTheWay
  <2> QED
    BY <1>4, <2>1, <2>2 DEF Provenance
<1>7. ASSUME NEW c \in claims, SendCommand(c), UNCHANGED agentVars,
             down' = Append(down, CommandOf(c))
      PROVE  Provenance' /\ down' \in Seq(AP!Command)
  <2>1. /\ c.job \in Jobs /\ c.agent = pc
        /\ CommandOf(c) \in AP!Command /\ CommandOf(c).job = c.job
        /\ CommandOf(c).attempt = c.attempt
    BY <1>1, ClaimsOfPc
  <2>2. /\ down' \in Seq(AP!Command)
        /\ AP!Elements(down') = AP!Elements(down) \cup {CommandOf(c)}
    BY <1>1, <1>7, <2>1, DownElements
  <2>3. c.attempt \in attempts'[c.job][pc]
    BY <1>1, <1>7, <2>1 DEF SendCommand, Dispatch, TypeOK
  <2>4. \A x \in OnTheWay' : x = CommandOf(c) \/ \E y \in OnTheWay : AP!Like(x, y)
    <3>1. reader' = reader
      BY <1>7 DEF agentVars
    <3> QED
      BY <1>3, <1>5, <2>2, <3>1 DEF OnTheWay
  <2> QED
    BY <1>4, <2>1, <2>2, <2>3, <2>4 DEF Provenance
<1>8. CASE /\ down # <<>> /\ reader' \subseteq {Head(down)}
           /\ down' = Tail(down)
  <2>1. /\ down' \in Seq(AP!Command) /\ AP!Elements(down') \subseteq AP!Elements(down)
        /\ Head(down) \in AP!Elements(down)
    BY <1>1, <1>8, DownElements
  <2>2. \A x \in OnTheWay' : \E y \in OnTheWay : AP!Like(x, y)
    BY <1>3, <1>5, <1>8, <2>1 DEF OnTheWay
  <2> QED
    BY <1>4, <2>1, <2>2 DEF Provenance
<1> QED
  BY <1>6, <1>7, <1>8, LinkStep

\* The two ends and the connection, at the start
LEMMA EndsInitial == DeliveryInit => EndsInv
<1> SUFFICES ASSUME DeliveryInit PROVE EndsInv
  OBVIOUS
<1>1. TypeOK
  BY TypeInit DEF DeliveryInit
<1>2. FreshRows
  BY DEF DeliveryInit, Init, FreshRows, ClaimsOn
<1>3. AP!AgentInv
  BY AgentStarts, AgentConstants, AP!AgentInitial
<1>4. down \in Seq(AP!Command) /\ AP!Elements(down) = {}
  BY DEF DeliveryInit, AP!Elements
<1>5. AP!Carried = {}
  <2>1. /\ outbox = {} /\ pending = {} /\ completed = <<>> /\ checkpoint = {} /\ work = {}
        /\ queue = <<>> /\ reader = {}
    BY DEF DeliveryInit, Agent!Init
  <2> QED
    BY <2>1 DEF AP!Carried, AP!Spent, AP!Waits, AP!Ready, AP!Elements
<1> QED
  BY <1>1, <1>2, <1>3, <1>4, <1>5 DEF EndsInv, Provenance, OnTheWay

\* and after every step.
LEMMA EndsStep ==
  ASSUME EndsInv, [DeliveryNext]_allVars
  PROVE  EndsInv'
<1>1. TypeOK /\ FreshRows /\ AP!AgentInv
  BY DEF EndsInv
<1>2. [QueueNext]_vars
  BY ServerStep
<1>3. TypeOK'
  BY <1>1, <1>2, TypeNext
<1>4. FreshRows'
  BY <1>1, <1>2, RowNext, InsertsOnce, FreshRowsNext
<1>5. AP!AgentInv'
  <2>1. AP!AgentInv /\ [AP!Next]_AP!vars
    BY <1>1, AgentSide
  <2> QED
    BY <2>1, AgentConstants, AP!AgentStep
<1> QED
  BY <1>3, <1>4, <1>5, ProvenanceStep DEF EndsInv

-----------------------------------------------------------------------------
(* The copies of a command.                                                  *)

\* The counter of sends moves in SendCommand alone.
LEMMA OnlySendsCount ==
  ASSUME [DeliveryNext]_allVars, ~\E c \in claims : SendCommand(c)
  PROVE  dispatches' = dispatches
<1> USE DEF history, threads, tables
<1>1. CASE \E r \in outbox : DeliverResult(r)
  BY <1>1 DEF DeliverResult, HandleExecResult, serverVars, vars
<1>2. CASE RegisterClient \/ HubDropsClient \/ ServerDies
  BY <1>2 DEF RegisterClient, HubDropsClient, ServerDies, Connect, Disconnect, Crash
<1>3. CASE DeliverCommand \/ OpenConnection \/ AgentLosesConnection \/ AgentDies \/ AgentWorks
  BY <1>3 DEF DeliverCommand, OpenConnection, AgentLosesConnection, AgentDies, AgentWorks,
              serverVars, vars
<1>4. CASE ServerWorks
  <2>1. CASE \E c \in claims : DispatchFails(c) \/ Release(c)
    BY <2>1 DEF DispatchFails, Release
  <2>2. CASE \E a \in Agents : PumpStep(a)
    BY <2>2 DEF PumpStep, PumpAgent
  <2>3. CASE \E j \in Jobs : CreateStep(j)
    BY <2>3 DEF CreateStep, StartPumping, CheckDispatched, MarkDispatched, InsertRow, CreatePump
  <2>4. CASE \E m \in marks : MarkStep(m)
    <3>1. PICK m \in marks : MarkStep(m)
      BY <2>4
    <3> QED
      BY <3>1, MarkMoves
  <2>5. CASE SweepStep
    BY <2>5 DEF SweepStep, SweepLeases, SweepPending, SweepDone, FailLease, RequeueLease,
                ExpirePending, SweepPump
  <2>6. CASE TimeStep
    BY <2>6 DEF TimeStep, ExpiryPasses, LeasePasses
  <2>7. CASE AdminStep
    BY <2>7 DEF AdminStep, CreateJob, CancelJob, CancelRows, DeleteAgent
  <2> QED
    BY <1>4, <2>1, <2>2, <2>3, <2>4, <2>5, <2>6, <2>7 DEF ServerWorks
<1>5. CASE UNCHANGED allVars
  BY <1>5 DEF allVars, serverVars, vars
<1> QED
  BY <1>1, <1>2, <1>3, <1>4, <1>5 DEF DeliveryNext

\* An empty list holds no command.
LEMMA Nowhere ==
  ASSUME NEW j, NEW s, s = <<>>
  PROVE  Once(s, j) /\ ~\E i \in 1..Len(s) : s[i].job = j
BY DEF Once

\* A step that moves no command, or loses the ones on the connection.
LEMMA CopiesKept ==
  ASSUME NEW j, OneCopy(j), dispatches' = dispatches, runs' = runs,
         reader' = reader \/ reader' = {}, queue' = queue \/ queue' = <<>>,
         work' = work \/ work' = {}, down' = down \/ down' = <<>>
  PROVE  OneCopy(j)'
<1>1. /\ InDown(j)' => InDown(j)
      /\ Once(down', j)
  BY Nowhere DEF OneCopy, InDown
<1>2. /\ InQueue(j)' => InQueue(j)
      /\ Once(queue', j)
  BY Nowhere DEF OneCopy, InQueue
<1>3. InReader(j)' => InReader(j)
  BY DEF InReader
<1>4. InWork(j)' => InWork(j)
  BY DEF InWork
<1> QED
  BY <1>1, <1>2, <1>3, <1>4 DEF OneCopy

\* Appending a command that is not there yet keeps one copy of each.
LEMMA AppendOnce ==
  ASSUME NEW S, NEW s \in Seq(S), NEW x \in S, NEW j, Once(s, j),
         x.job = j => ~\E i \in 1..Len(s) : s[i].job = j
  PROVE  /\ Once(Append(s, x), j)
         /\ (\E i \in 1..Len(Append(s, x)) : Append(s, x)[i].job = j) =>
              x.job = j \/ \E i \in 1..Len(s) : s[i].job = j
<1> DEFINE r == Append(s, x)
<1>1. /\ Len(s) \in Nat /\ Len(r) = Len(s) + 1 /\ r[Len(s) + 1] = x
      /\ \A i \in 1..Len(s) : r[i] = s[i]
  OBVIOUS
<1> HIDE DEF r
<1>2. \A i \in 1..Len(r) : i \in 1..Len(s) \/ i = Len(s) + 1
  BY <1>1
<1>3. Once(r, j)
  BY <1>1, <1>2 DEF Once
<1>4. (\E i \in 1..Len(r) : r[i].job = j) => x.job = j \/ \E i \in 1..Len(s) : s[i].job = j
  BY <1>1, <1>2
<1> QED
  BY <1>3, <1>4 DEF r

\* Taking the first command keeps one copy of each, and the first is gone.
LEMMA TailOnce ==
  ASSUME NEW S, NEW s \in Seq(S), s # <<>>, NEW j, Once(s, j)
  PROVE  /\ Once(Tail(s), j)
         /\ (\E i \in 1..Len(Tail(s)) : Tail(s)[i].job = j) =>
              Head(s).job # j /\ \E i \in 1..Len(s) : s[i].job = j
         /\ Head(s).job = j => \E i \in 1..Len(s) : s[i].job = j
<1> DEFINE r == Tail(s)
<1>1. /\ Len(s) \in Nat /\ Len(s) >= 1 /\ Len(r) = Len(s) - 1 /\ Head(s) = s[1]
      /\ \A i \in 1..Len(r) : r[i] = s[i + 1]
  OBVIOUS
<1> HIDE DEF r
<1>2. \A i \in 1..Len(r) : i + 1 \in 1..Len(s) /\ i + 1 # 1
  BY <1>1
<1>3. 1 \in 1..Len(s)
  BY <1>1
<1>4. Once(r, j)
  <2>1. SUFFICES ASSUME NEW i \in 1..Len(r), NEW k \in 1..Len(r), r[i].job = j, r[k].job = j
                 PROVE  i = k
    BY DEF Once
  <2>2. i + 1 = k + 1
    BY <1>1, <1>2, <2>1 DEF Once
  <2> QED
    BY <2>2
<1>5. ASSUME NEW i \in 1..Len(r), r[i].job = j PROVE s[1].job # j /\ s[i + 1].job = j
  BY <1>1, <1>2, <1>3, <1>5 DEF Once
<1>6. (\E i \in 1..Len(r) : r[i].job = j) =>
        Head(s).job # j /\ \E i \in 1..Len(s) : s[i].job = j
  BY <1>1, <1>2, <1>5
<1>7. Head(s).job = j => \E i \in 1..Len(s) : s[i].job = j
  BY <1>1, <1>3
<1> QED
  BY <1>4, <1>6, <1>7 DEF r

\* The one send.
LEMMA SendMoves ==
  ASSUME DeliveryInv, DestructiveOnce', NEW c \in claims, SendCommand(c), NEW j \in Destructive
  PROVE  OneCopy(j)'
<1> DEFINE x == [job |-> c.job, attempt |-> c.attempt]
<1>1. /\ c.job \in Jobs /\ c.agent = pc /\ c.attempt \in Nat /\ j \in Jobs /\ pc \in Agents
  BY QueueAssumptions, DeliveryAssumptions DEF DeliveryInv, EndsInv, TypeOK, Claim
<1>2. x \in AP!Command /\ x.job = c.job /\ down \in Seq(AP!Command)
  BY <1>1 DEF DeliveryInv, EndsInv, AP!Command
<1>3. /\ reader' = reader /\ queue' = queue /\ work' = work /\ runs' = runs
      /\ down' = down \/ down' = Append(down, x)
  BY DEF SendCommand, agentVars
<1>4. /\ dispatches \in [Jobs -> [Agents -> Nat]]
      /\ dispatches' = [dispatches EXCEPT ![c.job][c.agent] = @ + 1]
  BY DEF SendCommand, Dispatch, DeliveryInv, EndsInv, TypeOK
<1>5. OneCopy(j)
  BY DEF DeliveryInv
<1>6. /\ InReader(j)' <=> InReader(j)
      /\ InQueue(j)' <=> InQueue(j)
      /\ InWork(j)' <=> InWork(j)
      /\ Once(queue', j)
  BY <1>3, <1>5 DEF InReader, InQueue, InWork, OneCopy
<1> HIDE DEF x
<1>7. CASE c.job = j
  <2>1. dispatches[j][pc] = 0 /\ dispatches'[j][pc] = 1
    <3>1. dispatches'[j][pc] = dispatches[j][pc] + 1 /\ dispatches[j][pc] \in Nat
      BY <1>1, <1>4, <1>7
    <3>2. dispatches'[j][pc] <= 1
      BY <1>1 DEF DestructiveOnce
    <3> QED
      BY <3>1, <3>2
  <2>2. /\ ~InDown(j) /\ ~InReader(j) /\ ~InQueue(j) /\ ~InWork(j) /\ ~(runs[j] > 0)
        /\ runs[j] <= 1 /\ Once(down, j)
    BY <1>5, <2>1 DEF OneCopy
  <2>3. runs[j] \in Nat
    BY <1>1 DEF DeliveryInv, EndsInv, AP!AgentInv, AP!AgentType
  <2>4. Once(down', j)
    <3>1. Once(Append(down, x), j)
      BY <1>2, <2>2, AppendOnce DEF InDown
    <3> QED
      BY <1>3, <2>2, <3>1
  <2> QED
    BY <1>3, <1>6, <2>1, <2>2, <2>3, <2>4 DEF OneCopy
<1>8. CASE c.job # j
  <2>1. dispatches'[j][pc] = dispatches[j][pc]
    BY <1>1, <1>4, <1>8
  <2>2. Once(down', j) /\ (InDown(j)' => InDown(j))
    <3>1. Once(down, j)
      BY <1>5 DEF OneCopy
    <3>2. /\ Once(Append(down, x), j)
          /\ (\E i \in 1..Len(Append(down, x)) : Append(down, x)[i].job = j) => InDown(j)
      BY <1>2, <1>8, <3>1, AppendOnce DEF InDown
    <3>3. CASE down' = down
      BY <3>1, <3>3 DEF InDown
    <3>4. CASE down' = Append(down, x)
      BY <3>2, <3>4 DEF InDown
    <3> QED
      BY <1>3, <3>3, <3>4
  <2> QED
    BY <1>3, <1>5, <1>6, <2>1, <2>2 DEF OneCopy
<1> QED
  BY <1>7, <1>8

\* From the connection to the reader.
LEMMA ReceiveMoves ==
  ASSUME DeliveryInv, DeliverCommand, dispatches' = dispatches, NEW j \in Destructive
  PROVE  OneCopy(j)'
<1>1. OneCopy(j) /\ down \in Seq(AP!Command) /\ down # <<>>
  BY DEF DeliveryInv, EndsInv, DeliverCommand
<1>2. /\ reader = {} /\ reader' \in {{}, {Head(down)}} /\ down' = Tail(down)
      /\ queue' = queue /\ work' = work /\ runs' = runs
  BY DEF DeliverCommand, Agent!Submit
<1>3. Once(down, j)
  BY <1>1 DEF OneCopy
<1>4. /\ Once(down', j)
      /\ InDown(j)' => Head(down).job # j /\ InDown(j)
      /\ Head(down).job = j => InDown(j)
  BY <1>1, <1>2, <1>3, TailOnce DEF InDown
<1>5. InReader(j)' => Head(down).job = j
  BY <1>2 DEF InReader
<1>6. /\ InQueue(j)' <=> InQueue(j)
      /\ InWork(j)' <=> InWork(j)
      /\ Once(queue', j)
  BY <1>1, <1>2 DEF InQueue, InWork, OneCopy
<1> QED
  BY <1>1, <1>2, <1>4, <1>5, <1>6 DEF OneCopy

\* From the reader to the queue.
LEMMA EnqueueMoves ==
  ASSUME DeliveryInv, NEW c \in reader, Agent!Enqueue(c), down' = down,
         dispatches' = dispatches, NEW j \in Destructive
  PROVE  OneCopy(j)'
<1>1. OneCopy(j) /\ queue \in Seq(AP!Command) /\ c \in AP!Command
  BY DEF DeliveryInv, EndsInv, AP!AgentInv, AP!AgentType, AP!Single
<1>2. /\ reader' = {}
      /\ queue' = queue \/ queue' = Append(queue, c)
      /\ work' = work /\ runs' = runs
  BY DEF Agent!Enqueue
<1>3. Once(queue, j)
  BY <1>1 DEF OneCopy
<1>4. c.job = j => InReader(j) /\ ~InQueue(j)
  BY <1>1 DEF InReader, OneCopy
<1>5. /\ Once(queue', j)
      /\ InQueue(j)' => c.job = j \/ InQueue(j)
  <2>1. /\ Once(Append(queue, c), j)
        /\ (\E i \in 1..Len(Append(queue, c)) : Append(queue, c)[i].job = j) =>
             c.job = j \/ InQueue(j)
    BY <1>1, <1>3, <1>4, AppendOnce DEF InQueue
  <2>2. CASE queue' = queue
    BY <1>3, <2>2 DEF InQueue
  <2>3. CASE queue' = Append(queue, c)
    BY <2>1, <2>3 DEF InQueue
  <2> QED
    BY <1>2, <2>2, <2>3
<1>6. ~InReader(j)'
  BY <1>2 DEF InReader
<1>7. /\ InDown(j)' <=> InDown(j)
      /\ InWork(j)' <=> InWork(j)
      /\ Once(down', j)
  BY <1>1, <1>2 DEF InDown, InWork, OneCopy
<1> QED
  BY <1>1, <1>2, <1>4, <1>5, <1>6, <1>7 DEF OneCopy

\* From the queue to the worker.
LEMMA TakeMoves ==
  ASSUME DeliveryInv, Agent!TakeCommand, down' = down, dispatches' = dispatches,
         NEW j \in Destructive
  PROVE  OneCopy(j)'
<1>1. OneCopy(j) /\ queue \in Seq(AP!Command)
  BY DEF DeliveryInv, EndsInv, AP!AgentInv, AP!AgentType
<1>2. /\ queue # <<>> /\ queue' = Tail(queue) /\ reader' = reader /\ runs' = runs
      /\ work' = {[pc |-> "recheck", job |-> Head(queue).job,
                   attempt |-> Head(queue).attempt, status |-> "none", run |-> 0]}
  BY DEF Agent!TakeCommand
<1>3. Once(queue, j)
  BY <1>1 DEF OneCopy
<1>4. /\ Once(queue', j)
      /\ InQueue(j)' => Head(queue).job # j /\ InQueue(j)
      /\ Head(queue).job = j => InQueue(j)
  <2>1. queue # <<>> /\ queue' = Tail(queue)
    BY <1>2
  <2>2. /\ Once(Tail(queue), j)
        /\ (\E i \in 1..Len(Tail(queue)) : Tail(queue)[i].job = j) =>
             Head(queue).job # j /\ \E i \in 1..Len(queue) : queue[i].job = j
        /\ Head(queue).job = j => \E i \in 1..Len(queue) : queue[i].job = j
    BY <1>1, <1>3, <2>1, TailOnce
  <2> QED
    BY <2>1, <2>2 DEF InQueue
<1>5. InWork(j)' => Head(queue).job = j
  BY <1>2 DEF InWork
<1>6. /\ InDown(j)' <=> InDown(j)
      /\ InReader(j)' <=> InReader(j)
      /\ Once(down', j)
  BY <1>1, <1>2 DEF InDown, InReader, OneCopy
<1> QED
  BY <1>1, <1>2, <1>4, <1>5, <1>6 DEF OneCopy

\* From the worker to the run.
LEMMA BeginMoves ==
  ASSUME DeliveryInv, NEW t \in work, Agent!Begin(t), down' = down,
         dispatches' = dispatches, NEW j \in Destructive
  PROVE  OneCopy(j)'
<1>1. OneCopy(j) /\ t \in AP!Task /\ runs \in [Jobs -> Nat] /\ j \in Jobs
  BY QueueAssumptions DEF DeliveryInv, EndsInv, AP!AgentInv, AP!AgentType, AP!Single
<1>2. /\ t.pc = "start" /\ queue' = queue /\ reader' = reader
      /\ runs' = [runs EXCEPT ![t.job] = @ + 1]
      /\ work' = {[t EXCEPT !.pc = "run", !.run = runs[t.job] + 1]}
  BY DEF Agent!Begin
<1>3. ~InWork(j)'
  <2>1. \A u \in work' : u.pc = "run"
    BY <1>1, <1>2 DEF AP!Task
  <2> QED
    BY <2>1 DEF InWork
<1>4. t.job = j => InWork(j)
  BY <1>2 DEF InWork
<1>5. /\ t.job = j => runs'[j] = runs[j] + 1
      /\ t.job # j => runs'[j] = runs[j]
  BY <1>1, <1>2
<1>6. /\ InDown(j)' <=> InDown(j)
      /\ InReader(j)' <=> InReader(j)
      /\ InQueue(j)' <=> InQueue(j)
      /\ Once(down', j) /\ Once(queue', j)
  BY <1>1, <1>2 DEF InDown, InReader, InQueue, OneCopy
<1>7. runs[j] \in Nat
  BY <1>1
<1>8. CASE t.job = j
  <2>1. runs[j] = 0 /\ ~InDown(j) /\ ~InReader(j) /\ ~InQueue(j) /\ dispatches[j][pc] > 0
    BY <1>1, <1>4, <1>8 DEF OneCopy
  <2> QED
    BY <1>3, <1>5, <1>6, <1>8, <2>1 DEF OneCopy
<1>9. CASE t.job # j
  BY <1>1, <1>3, <1>5, <1>6, <1>9 DEF OneCopy
<1> QED
  BY <1>8, <1>9

\* The worker's other steps take a command no nearer to its run, or end it.
LEMMA TaskMoves ==
  ASSUME DeliveryInv, NEW t \in work, Agent!TaskStep(t), down' = down,
         dispatches' = dispatches, NEW j \in Destructive
  PROVE  OneCopy(j)'
<1>1. OneCopy(j) /\ t \in AP!Task
  BY DEF DeliveryInv, EndsInv, AP!AgentInv, AP!AgentType, AP!Single
<1>2. CASE Agent!Begin(t)
  BY <1>2, BeginMoves
<1>3. CASE ~Agent!Begin(t)
  <2>1. reader' = reader /\ queue' = queue /\ runs' = runs
    BY <1>3 DEF Agent!TaskStep, Agent!Recheck, Agent!Refuse, Agent!Finish,
       Agent!ClearCheckpoint, Agent!PersistPending, Agent!RecordCompleted,
       Agent!SendResult, Agent!TrackDone, Agent!BootDone
  <2>2. ASSUME NEW u \in work', u.job = j, u.pc \in {"recheck", "start"}
        PROVE  t.job = j /\ t.pc = "recheck"
    <3>1. CASE Agent!Recheck(t)
      <4>1. /\ t.pc = "recheck"
            /\ \/ u = [t EXCEPT !.pc = "done"] \/ u = [t EXCEPT !.pc = "start"]
               \/ u = [t EXCEPT !.pc = "persist", !.status = "expired"]
        BY <2>2, <3>1 DEF Agent!Recheck, Agent!Goto
      <4>2. u.job = t.job
        BY <1>1, <4>1 DEF AP!Task
      <4> QED
        BY <2>2, <4>1, <4>2
    <3>2. CASE Agent!Refuse(t)
      <4>1. u = [t EXCEPT !.pc = "persist", !.status = "error"]
        BY <2>2, <3>2 DEF Agent!Refuse
      <4> QED
        BY <1>1, <2>2, <4>1 DEF AP!Task
    <3>3. CASE Agent!Finish(t)
      <4>1. PICK st : u = [t EXCEPT !.status = st,
                             !.pc = IF t.job \in FileJobs THEN "clear" ELSE "persist"]
        BY <2>2, <3>3 DEF Agent!Finish
      <4> QED
        BY <1>1, <2>2, <4>1 DEF AP!Task
    <3>4. CASE \/ Agent!ClearCheckpoint(t) \/ Agent!PersistPending(t)
               \/ Agent!RecordCompleted(t) \/ Agent!SendResult(t)
      <4>1. \E p \in {"persist", "record", "send", "done"} : u = [t EXCEPT !.pc = p]
        BY <2>2, <3>4 DEF Agent!ClearCheckpoint, Agent!PersistPending,
           Agent!RecordCompleted, Agent!SendResult, Agent!Goto
      <4> QED
        BY <1>1, <2>2, <4>1 DEF AP!Task
    <3>5. CASE Agent!TrackDone(t) \/ Agent!BootDone(t)
      BY <2>2, <3>5 DEF Agent!TrackDone, Agent!BootDone
    <3> QED
      BY <1>3, <3>1, <3>2, <3>3, <3>4, <3>5 DEF Agent!TaskStep
  <2>3. InWork(j)' => InWork(j)
    BY <2>2 DEF InWork
  <2>4. /\ InDown(j)' <=> InDown(j)
        /\ InReader(j)' <=> InReader(j)
        /\ InQueue(j)' <=> InQueue(j)
        /\ Once(down', j) /\ Once(queue', j)
    BY <1>1, <2>1 DEF InDown, InReader, InQueue, OneCopy
  <2> QED
    BY <1>1, <2>1, <2>3, <2>4 DEF OneCopy
<1> QED
  BY <1>2, <1>3

\* The startup check works on a command that has run.
LEMMA BootMoves ==
  ASSUME DeliveryInv, Agent!BootCheck, down' = down, dispatches' = dispatches,
         NEW j \in Destructive
  PROVE  OneCopy(j)'
<1>1. OneCopy(j)
  BY DEF DeliveryInv
<1>2. reader' = reader /\ queue' = queue /\ runs' = runs
  BY DEF Agent!BootCheck
<1>3. ~InWork(j)'
  <2>1. \A u \in work' : u.pc = "persist"
    BY DEF Agent!BootCheck
  <2> QED
    BY <2>1 DEF InWork
<1>4. /\ InDown(j)' <=> InDown(j)
      /\ InReader(j)' <=> InReader(j)
      /\ InQueue(j)' <=> InQueue(j)
      /\ Once(down', j) /\ Once(queue', j)
  BY <1>1, <1>2 DEF InDown, InReader, InQueue, OneCopy
<1> QED
  BY <1>1, <1>2, <1>3, <1>4 DEF OneCopy

\* Every step keeps a destructive command in one place and in one copy.
LEMMA CopiesMove ==
  ASSUME DeliveryInv, DestructiveOnce', [DeliveryNext]_allVars, NEW j \in Destructive
  PROVE  OneCopy(j)'
<1>1. OneCopy(j)
  BY DEF DeliveryInv
<1>2. CASE \E c \in claims : SendCommand(c)
  BY <1>2, SendMoves
<1>3. CASE ~\E c \in claims : SendCommand(c)
  <2>1. dispatches' = dispatches
    BY <1>3, OnlySendsCount
  <2>2. CASE DeliverCommand
    BY <2>1, <2>2, ReceiveMoves
  <2>3. CASE AgentWorks
    <3>1. down' = down
      BY <2>3 DEF AgentWorks
    <3>2. ASSUME NEW c \in reader, Agent!Enqueue(c) PROVE OneCopy(j)'
      BY <2>1, <3>1, <3>2, EnqueueMoves
    <3>3. ASSUME NEW k \in Jobs, Agent!ClearPending(k) PROVE OneCopy(j)'
      BY <1>1, <2>1, <3>1, <3>3, CopiesKept DEF Agent!ClearPending
    <3>4. CASE Agent!WorkerStep
      BY <2>1, <3>1, <3>4, TakeMoves, BootMoves, TaskMoves DEF Agent!WorkerStep
    <3> QED
      BY <2>3, <3>2, <3>3, <3>4 DEF AgentWorks
  <2>4. CASE \/ \E r \in outbox : DeliverResult(r)
             \/ OpenConnection \/ RegisterClient \/ AgentLosesConnection \/ HubDropsClient
             \/ AgentDies \/ ServerDies \/ ServerWorks
    <3>1. /\ runs' = runs
          /\ reader' = reader \/ reader' = {}
          /\ queue' = queue \/ queue' = <<>>
          /\ work' = work \/ work' = {}
          /\ down' = down \/ down' = <<>>
      BY <2>4 DEF DeliverResult, OpenConnection, RegisterClient, AgentLosesConnection,
         HubDropsClient, AgentDies, ServerDies, ServerWorks, agentVars, Agent!ServerReads,
         Agent!Connect, Agent!Disconnect, Agent!Crash
    <3> QED
      BY <1>1, <2>1, <3>1, CopiesKept
  <2>5. CASE UNCHANGED allVars
    BY <1>1, <2>1, <2>5, CopiesKept DEF allVars, agentVars
  <2> QED
    BY <1>3, <2>2, <2>3, <2>4, <2>5 DEF DeliveryNext
<1> QED
  BY <1>2, <1>3

\* Before anything was sent there is no copy of a command anywhere.
LEMMA DeliveryInitial == DeliveryInit => DeliveryInv
<1> SUFFICES ASSUME DeliveryInit PROVE DeliveryInv
  OBVIOUS
<1>1. EndsInv
  BY EndsInitial
<1>2. DestructiveOnce /\ SendableOnce
  BY QueueAssumptions DEF DeliveryInit, Init, DestructiveOnce, SendableOnce, ClaimsOn
<1>3. ASSUME NEW j \in Destructive PROVE OneCopy(j)
  <2>1. /\ down = <<>> /\ queue = <<>> /\ reader = {} /\ work = {} /\ runs[j] = 0
    BY QueueAssumptions DEF DeliveryInit, Agent!Init
  <2>2. /\ Once(down, j) /\ Once(queue, j)
        /\ ~InDown(j) /\ ~InReader(j) /\ ~InQueue(j) /\ ~InWork(j)
    BY <2>1, Nowhere DEF InDown, InReader, InQueue, InWork
  <2> QED
    BY <2>1, <2>2 DEF OneCopy
<1> QED
  BY <1>1, <1>2, <1>3 DEF DeliveryInv

\* Every step of the server, the agent and the connection keeps the invariant.
LEMMA DeliveryStep ==
  ASSUME DeliveryInv, [DeliveryNext]_allVars, "read" \notin Faults
  PROVE  DeliveryInv'
<1>1. EndsInv
  BY DEF DeliveryInv
<1>2. EndsInv'
  BY <1>1, EndsStep
<1>3. DestructiveOnce' /\ SendableOnce'
  <2>1. TypeOK /\ FreshRows /\ DestructiveOnce /\ SendableOnce
    BY DEF DeliveryInv, EndsInv
  <2>2. \A j \in Jobs, a \in Agents : RowStep(j, a)
    BY <1>1, <2>1, ServerStep, RowNext
  <2> QED
    BY <2>1, <2>2, SendableNext
<1>4. \A j \in Destructive : OneCopy(j)'
  BY <1>3, CopiesMove
<1> QED
  BY <1>2, <1>3, <1>4 DEF DeliveryInv

\* Unless the sweeper's read of a job can fail, a PC performs a shutdown or restart
\* at most once, for any number of jobs, lost connections, crashes of either end
\* and late results: PumpAgent, sweepExpiredLeases and handleExecResult on the
\* server, submitCommand and processCommand on the agent.
THEOREM DestructiveRunsOnceHolds ==
  ASSUME "read" \notin Faults PROVE DeliverySpec => []DestructiveRunsOnce
<1>1. DeliveryInit => DeliveryInv
  BY DeliveryInitial
<1>2. DeliveryInv /\ [DeliveryNext]_allVars => DeliveryInv'
  BY DeliveryStep
<1>3. DeliveryInv => DestructiveRunsOnce
  BY DEF DeliveryInv, OneCopy, DestructiveRunsOnce
<1> QED
  BY <1>1, <1>2, <1>3, PTL DEF DeliverySpec

-----------------------------------------------------------------------------
(* What was answered stays answered.                                         *)

\* The statuses of deploy_results that only an agent's result brings about here.
AgentSays == {"success", "ok", "error"}

\* No command of an answered job is claimed, on the connection, read, queued or
\* about to start.
Settled ==
  \A j \in Jobs : status[j][pc] \in AgentSays =>
    /\ ClaimsOn(j, pc) = {}
    /\ \A x \in AP!Waits \cup AP!Elements(down) : x.job # j

\* The attempts of a job are on the connection in the order of their numbers,
\* behind everything the agent holds, which is in order as well.
Ordered ==
  /\ AP!InOrder /\ AP!OldestFirst(down)
  /\ \A x \in AP!Carried, y \in AP!Elements(down) : AP!Older(x, y)

FinalInv == EndsInv /\ AttemptsInv /\ Ordered /\ Settled

NoAnswer(j, a) == status'[j][a] \in AgentSays => status'[j][a] = status[j][a]

\* A row written with another status.
LEMMA OtherStatus ==
  ASSUME TypeOK, NEW k \in Jobs, NEW b \in Agents, NEW st, st \notin AgentSays,
         status' = [status EXCEPT ![k][b] = st], NEW j \in Jobs, NEW a \in Agents
  PROVE  NoAnswer(j, a)
<1>1. status'[j][a] = IF j = k /\ a = b THEN st ELSE status[j][a]
  BY DEF TypeOK
<1> QED
  BY <1>1 DEF NoAnswer

\* The server on its own makes no row a success, a failure of the command or an ok:
\* the sweeper fails, requeues or expires, PumpAgent claims and releases, the admin
\* cancels and deletes.
LEMMA OwnWrites ==
  ASSUME TypeOK, [OwnStep]_vars, NEW j \in Jobs, NEW a \in Agents
  PROVE  NoAnswer(j, a)
<1> USE DEF tables, history, threads
<1>0. status' = status => NoAnswer(j, a)
  BY DEF NoAnswer
<1>a. \A st \in {"running", "pending", "failed", "expired"} : st \notin AgentSays
  BY DEF AgentSays
<1>1. ASSUME NEW o, NEW b \in Agents, AcquireNextJob(o, b) PROVE NoAnswer(j, a)
  <2>1. CASE \E k \in Jobs : status' = [status EXCEPT ![k][b] = "running"]
    <3>1. PICK k \in Jobs : status' = [status EXCEPT ![k][b] = "running"]
      BY <2>1
    <3> QED
      BY <1>a, <3>1, OtherStatus
  <2> QED
    BY <1>0, <1>1, <2>1 DEF AcquireNextJob, NextJobs, Claimable
<1>2. ASSUME NEW k \in Jobs, NEW b \in Agents, NEW st \in {"pending", "failed", "expired"},
             NEW n, UpdateDeployResult(k, b, st, n)
      PROVE  NoAnswer(j, a)
  <2>1. CASE status' = [status EXCEPT ![k][b] = st]
    BY <1>a, <2>1, OtherStatus
  <2> QED
    BY <1>0, <1>2, <2>1 DEF UpdateDeployResult, WriteRow
<1>3. ASSUME NEW c \in claims, ClaimStep(c) PROVE NoAnswer(j, a)
  <2>1. c.job \in Jobs /\ c.agent \in Agents
    BY <1>3 DEF TypeOK, Claim
  <2>2. CASE Dispatch(c) \/ DispatchFails(c)
    BY <1>0, <2>2 DEF Dispatch, DispatchFails
  <2>3. CASE Release(c)
    BY <1>2, <2>1, <2>3 DEF Release
  <2> QED
    BY <1>3, <2>2, <2>3 DEF ClaimStep
<1>4. ASSUME NEW b \in Agents, PumpStep(b) \/ Connect(b) \/ Disconnect(b)
      PROVE  NoAnswer(j, a)
  BY <1>0, <1>1, <1>4 DEF PumpStep, PumpAgent, Connect, Disconnect
<1>5. ASSUME NEW k \in Jobs, CreateStep(k) PROVE NoAnswer(j, a)
  <2>1. CASE StartPumping(k) \/ CheckDispatched(k) \/ MarkDispatched(k)
    BY <1>0, <2>1 DEF StartPumping, CheckDispatched, MarkDispatched
  <2>2. ASSUME NEW b \in Agents, InsertRow(k, b) PROVE NoAnswer(j, a)
    <3>1. CASE status' = [status EXCEPT ![k][b] = "pending"]
      BY <1>a, <3>1, OtherStatus
    <3> QED
      BY <1>0, <2>2, <3>1 DEF InsertRow
  <2>3. ASSUME NEW b \in Agents, CreatePump(k, b) PROVE NoAnswer(j, a)
    BY <1>1, <2>3 DEF CreatePump
  <2> QED
    BY <1>5, <2>1, <2>2, <2>3 DEF CreateStep
<1>6. CASE \E m \in marks : MarkStep(m)
  BY <1>0, <1>6 DEF MarkStep, ReadJobStatus, WriteJobDone
<1>7. CASE SweepStep
  <2>1. /\ \A e \in sweep.todo : e.job \in Jobs /\ e.agent \in Agents
        /\ \A e \in sweep.pump : e.agent \in Agents
    BY DEF TypeOK, SweepState, Snapshot
  <2>2. CASE SweepLeases \/ SweepPending \/ SweepDone
    BY <1>0, <2>2 DEF SweepLeases, SweepPending, SweepDone
  <2>3. ASSUME NEW e \in sweep.todo, FailLease(e) \/ RequeueLease(e) \/ ExpirePending(e)
        PROVE  NoAnswer(j, a)
    BY <1>2, <2>1, <2>3 DEF FailLease, RequeueLease, ExpirePending
  <2>4. ASSUME NEW e \in sweep.pump, SweepPump(e) PROVE NoAnswer(j, a)
    BY <1>1, <2>1, <2>4 DEF SweepPump
  <2> QED
    BY <1>7, <2>2, <2>3, <2>4 DEF SweepStep
<1>8. CASE TimeStep \/ Crash
  BY <1>0, <1>8 DEF TimeStep, ExpiryPasses, LeasePasses, Crash
<1>9. CASE AdminStep
  <2>1. ASSUME NEW k \in Jobs, CreateJob(k) \/ CancelJob(k) PROVE NoAnswer(j, a)
    BY <1>0, <2>1 DEF CreateJob, CancelJob
  <2>2. ASSUME NEW k \in Jobs, CancelRows(k) PROVE NoAnswer(j, a)
    <3>1. CASE status' = [status EXCEPT ![k] = [b \in Agents |->
                  IF @[b] \in PendingLike THEN "cancelled" ELSE @[b]]]
      <4>1. status'[j][a] = status[j][a] \/ status'[j][a] = "cancelled"
        BY <3>1 DEF TypeOK
      <4> QED
        BY <4>1 DEF NoAnswer, AgentSays
    <3> QED
      BY <1>0, <2>2, <3>1 DEF CancelRows
  <2>3. ASSUME NEW b \in Agents, DeleteAgent(b) PROVE NoAnswer(j, a)
    <3>1. status'[j][a] = status[j][a] \/ status'[j][a] = "none"
      BY <2>3 DEF DeleteAgent, TypeOK
    <3> QED
      BY <3>1 DEF NoAnswer, AgentSays
  <2> QED
    BY <1>9, <2>1, <2>2, <2>3 DEF AdminStep
<1>10. CASE UNCHANGED vars
  BY <1>0, <1>10 DEF vars
<1> QED
  BY <1>3, <1>4, <1>5, <1>6, <1>7, <1>8, <1>9, <1>10 DEF OwnStep

\* Attempts leave the server in order and stay so.
LEMMA OrderedStep ==
  ASSUME EndsInv, AttemptsInv, Ordered, [DeliveryNext]_allVars
  PROVE  Ordered'
<1>1. /\ TypeOK /\ AP!AgentType /\ down \in Seq(AP!Command) /\ Provenance
      /\ [AP!Next]_AP!vars
  BY AgentSide DEF EndsInv, AP!AgentInv
<1>2. /\ AP!InOrder /\ AP!OldestFirst(down)
      /\ \A x \in AP!Carried, y \in AP!Elements(down) : AP!Older(x, y)
  BY DEF Ordered
<1>3. \A x \in AP!Carried' : (\E y \in AP!Carried : AP!Like(x, y)) \/ x \in reader' \ reader
  BY <1>1, AgentConstants, AP!HeldStep DEF AP!HeldBefore
<1>4. (\A c \in reader' \ reader : \A x \in AP!Carried : AP!Older(x, c)) => AP!InOrder'
  BY <1>1, <1>2, AgentConstants, AP!OrderStep
<1>5. \A x, y, z : AP!Like(x, y) /\ AP!Older(y, z) => AP!Older(x, z)
  BY AgentConstants, AP!LikeOlder
<1>6. CASE reader' \subseteq reader /\ (down' = down \/ down' = <<>>)
  <2>1. /\ AP!Elements(down') \subseteq AP!Elements(down) /\ AP!OldestFirst(down')
    BY <1>1, <1>2, <1>6, DownElements, AgentConstants, AP!EmptyInOrder
  <2>2. AP!InOrder'
    BY <1>4, <1>6
  <2>3. \A x \in AP!Carried', y \in AP!Elements(down') : AP!Older(x, y)
    BY <1>2, <1>3, <1>5, <1>6, <2>1
  <2> QED
    BY <2>1, <2>2, <2>3 DEF Ordered
<1>7. ASSUME NEW c \in claims, SendCommand(c), UNCHANGED agentVars,
             down' = Append(down, CommandOf(c))
      PROVE  Ordered'
  <2>1. /\ c \in ClaimsOn(c.job, pc) /\ c.job \in Jobs /\ pc \in Agents
        /\ CommandOf(c) \in AP!Command
        /\ CommandOf(c).job = c.job /\ CommandOf(c).attempt = c.attempt
    BY <1>1, ClaimsOfPc
  <2>2. \A n \in attempts[c.job][pc] : n < c.attempt
    BY <2>1 DEF AttemptsInv, ClaimIsNew
  <2>3. \A x \in OnTheWay : AP!Older(x, CommandOf(c))
    BY <1>1, <2>1, <2>2 DEF Provenance, AP!Older
  <2>4. /\ AP!OldestFirst(down')
        /\ AP!Elements(down') = AP!Elements(down) \cup {CommandOf(c)}
    <3>1. \A y \in AP!Elements(down) : AP!Older(y, CommandOf(c))
      BY <2>3 DEF OnTheWay
    <3> QED
      BY <1>1, <1>2, <1>7, <2>1, <3>1, AgentConstants, AP!AppendOlder
  <2>5. reader' = reader
    BY <1>7 DEF agentVars
  <2>6. AP!InOrder'
    BY <1>4, <2>5
  <2>7. \A x \in AP!Carried' : \E y \in AP!Carried : AP!Like(x, y)
    BY <1>3, <2>5
  <2>8. \A y \in AP!Carried, z \in AP!Elements(down') : AP!Older(y, z)
    BY <1>2, <2>3, <2>4 DEF OnTheWay
  <2>9. \A x \in AP!Carried', z \in AP!Elements(down') : AP!Older(x, z)
    BY <1>5, <2>7, <2>8
  <2> QED
    BY <2>4, <2>6, <2>9 DEF Ordered
<1>8. CASE /\ down # <<>> /\ reader = {} /\ reader' \subseteq {Head(down)}
           /\ down' = Tail(down)
  <2>1. /\ AP!OldestFirst(down') /\ AP!Elements(down') \subseteq AP!Elements(down)
        /\ Head(down) \in AP!Elements(down)
        /\ \A y \in AP!Elements(down') : AP!Older(Head(down), y)
    BY <1>1, <1>2, <1>8, AgentConstants, AP!TailOlder
  <2>2. AP!InOrder'
    BY <1>2, <1>4, <1>8, <2>1
  <2>3. \A x \in AP!Carried', y \in AP!Elements(down') : AP!Older(x, y)
    BY <1>2, <1>3, <1>5, <1>8, <2>1
  <2> QED
    BY <2>1, <2>2, <2>3 DEF Ordered
<1> QED
  BY <1>6, <1>7, <1>8, LinkStep

\* When handleExecResult records a result, nothing else of that job is on its way:
\* it answers the row's own attempt, everything that could still run was sent with
\* a newer one, and the server has used none.
LEMMA RecordedLast ==
  ASSUME FinalInv, NEW r \in outbox, Records(r)
  PROVE  /\ ClaimsOn(r.job, pc) = {}
         /\ \A x \in AP!Waits \cup AP!Elements(down) : x.job # r.job
<1>1. /\ r \in AP!Spent /\ r.job \in Jobs /\ r.attempt \in attempts[r.job][pc]
      /\ pc \in Agents /\ TypeOK
  BY ResultKnown, DeliveryAssumptions DEF FinalInv, EndsInv
<1>2. status[r.job][pc] \notin {"none", "cancelled"} /\ retry[r.job][pc] = r.attempt
  BY DEF Records, HandleExecResult, Fenced, RowMatches
<1>3. /\ \A n \in attempts[r.job][pc] : n <= r.attempt
      /\ \A c \in ClaimsOn(r.job, pc) :
           /\ status[r.job][pc] \in {"running", "cancelled", "none"}
           /\ status[r.job][pc] = "running" => c.attempt = retry[r.job][pc]
           /\ \A n \in attempts[r.job][pc] : n < c.attempt
  BY <1>1, <1>2 DEF FinalInv, AttemptsInv, ClaimIsNew, AttemptsPast
<1>4. attempts[r.job][pc] \subseteq Nat
  BY <1>1 DEF TypeOK
<1>5. ClaimsOn(r.job, pc) = {}
  BY <1>1, <1>2, <1>3, <1>4
<1>6. ASSUME NEW x \in AP!Waits \cup AP!Elements(down), x.job = r.job PROVE FALSE
  <2>1. x.attempt \in attempts[r.job][pc]
    BY <1>6 DEF FinalInv, EndsInv, Provenance, OnTheWay, AP!Carried
  <2>2. AP!Older(r, x)
    BY <1>1, <1>6 DEF FinalInv, Ordered, AP!InOrder, AP!Carried
  <2>3. r.attempt < x.attempt
    BY <1>6, <2>2 DEF AP!Older
  <2> QED
    BY <1>1, <1>3, <1>4, <2>1, <2>3
<1> QED
  BY <1>5, <1>6

\* An answered job stays without commands on the way.
LEMMA SettledStep ==
  ASSUME FinalInv, [DeliveryNext]_allVars
  PROVE  Settled'
<1> SUFFICES ASSUME NEW j \in Jobs, status'[j][pc] \in AgentSays
             PROVE  /\ ClaimsOn(j, pc)' = {}
                    /\ \A x \in (AP!Waits \cup AP!Elements(down))' : x.job # j
  BY DEF Settled
<1> DEFINE Clear == /\ ClaimsOn(j, pc) = {}
                    /\ \A x \in AP!Waits \cup AP!Elements(down) : x.job # j
<1>1. /\ TypeOK /\ AP!AgentType /\ down \in Seq(AP!Command) /\ pc \in Agents
      /\ [AP!Next]_AP!vars /\ [QueueNext]_vars
  BY AgentSide, ServerStep, DeliveryAssumptions DEF FinalInv, EndsInv, AP!AgentInv
<1>2. Clear
  <2>1. CASE status[j][pc] \in AgentSays
    BY <2>1 DEF FinalInv, Settled
  <2>2. CASE [OwnStep]_vars
    BY <1>1, <2>1, <2>2, OwnWrites DEF NoAnswer
  <2>3. ASSUME NEW r \in outbox, Records(r), status[j][pc] \notin AgentSays PROVE Clear
    <3>1. r.job \in Jobs
      BY ResultKnown DEF FinalInv
    <3>2. r.job = j
      BY <1>1, <2>3, <3>1 DEF Records, HandleExecResult, WriteRow, TypeOK
    <3> QED
      BY <2>3, <3>2, RecordedLast
  <2> QED
    BY <2>1, <2>2, <2>3, ServerSide
<1> HIDE DEF Clear
<1>3. ClaimsOn(j, pc)' = {}
  <2>1. HandOver(j, pc)
    BY <1>1, HandOverNext
  <2>2. \A c \in ClaimsOn(j, pc)' :
          (\E d \in ClaimsOn(j, pc) : d.attempt = c.attempt) \/ status'[j][pc] = "running"
    BY <2>1 DEF HandOver, ClaimedNow
  <2> QED
    BY <1>2, <2>2 DEF Clear, AgentSays
<1>4. \A x \in AP!Waits' : (\E y \in AP!Waits : AP!Like(x, y)) \/ x \in reader' \ reader
  BY <1>1, AgentConstants, AP!HeldStep DEF AP!HeldBefore
<1>5. /\ \A x \in AP!Elements(down') : x.job # j
      /\ \A x \in reader' \ reader : x.job # j
  <2>1. CASE reader' \subseteq reader /\ (down' = down \/ down' = <<>>)
    <3>1. AP!Elements(down') \subseteq AP!Elements(down)
      BY <1>1, <2>1, DownElements
    <3> QED
      BY <1>2, <2>1, <3>1 DEF Clear
  <2>2. ASSUME NEW c \in claims, UNCHANGED agentVars, down' = Append(down, CommandOf(c))
        PROVE  /\ \A x \in AP!Elements(down') : x.job # j
               /\ \A x \in reader' \ reader : x.job # j
    <3>1. /\ c \in ClaimsOn(c.job, pc) /\ CommandOf(c) \in AP!Command
          /\ CommandOf(c).job = c.job
      BY <1>1, ClaimsOfPc
    <3>2. AP!Elements(down') = AP!Elements(down) \cup {CommandOf(c)}
      BY <1>1, <2>2, <3>1, DownElements
    <3>3. CommandOf(c).job # j
      BY <1>2, <3>1 DEF Clear
    <3>4. reader' = reader
      BY <2>2 DEF agentVars
    <3> QED
      BY <1>2, <3>2, <3>3, <3>4 DEF Clear
  <2>3. CASE down # <<>> /\ reader' \subseteq {Head(down)} /\ down' = Tail(down)
    <3>1. AP!Elements(down') \subseteq AP!Elements(down) /\ Head(down) \in AP!Elements(down)
      BY <1>1, <2>3, DownElements
    <3> QED
      BY <1>2, <2>3, <3>1 DEF Clear
  <2> QED
    BY <2>1, <2>2, <2>3, LinkStep
<1>6. \A x \in AP!Waits' : x.job # j
  BY <1>2, <1>4, <1>5 DEF Clear, AP!Like
<1> QED
  BY <1>3, <1>5, <1>6

\* The invariant holds before anything is queued,
LEMMA FinalInitial == DeliveryInit => FinalInv
<1> SUFFICES ASSUME DeliveryInit PROVE FinalInv
  OBVIOUS
<1>1. EndsInv /\ AttemptsInv
  BY EndsInitial, AttemptsInitial DEF DeliveryInit
<1>2. /\ down = <<>> /\ outbox = {} /\ pending = {} /\ completed = <<>>
      /\ checkpoint = {} /\ work = {} /\ queue = <<>> /\ reader = {}
  BY DEF DeliveryInit, Agent!Init
<1>3. AP!OldestFirst(<<>>) /\ AP!Elements(<<>>) = {}
  BY AgentConstants, AP!EmptyInOrder
<1>4. AP!Waits = {} /\ AP!Spent = {} /\ AP!Ready = {}
  BY <1>2, <1>3 DEF AP!Spent, AP!Waits, AP!Ready
<1>5. Ordered
  BY <1>2, <1>3, <1>4 DEF Ordered, AP!InOrder
<1>6. Settled
  BY <1>2, <1>3, <1>4 DEF Settled, DeliveryInit, Init, ClaimsOn
<1> QED
  BY <1>1, <1>5, <1>6 DEF FinalInv

\* and every step keeps it, if no lease runs out before the send it is for.
LEMMA FinalStep ==
  ASSUME FinalInv, [DeliveryNext]_allVars, PromptPump
  PROVE  FinalInv'
<1>1. EndsInv /\ AttemptsInv /\ Ordered /\ TypeOK /\ FreshRows
  BY DEF FinalInv, EndsInv
<1>2. EndsInv'
  BY <1>1, EndsStep
<1>3. AttemptsInv'
  BY <1>1, ServerStep, AttemptsStep
<1> QED
  BY <1>1, <1>2, <1>3, OrderedStep, SettledStep DEF FinalInv

\* Once the server has recorded what became of a command, whether success or error,
\* the PC does not start it again.
AnswerIsFinal ==
  [][\A j \in Jobs : status[j][pc] \in AgentSays => runs'[j] = runs[j]]_allVars

\* If no lease runs out between a PumpAgent's claim and its send, a command whose
\* answer is recorded is never started again while the row says so: for any number
\* of jobs, retries, database faults, lost connections, crashes of either end,
\* resent results and restarts of the agent (UpdateDeployResult's fence,
\* AcquireNextJob, submitCommand, processCommand, checkSelfUpdateCheckpoint).
THEOREM AnswerIsFinalHolds ==
  ASSUME PromptPump PROVE DeliverySpec => AnswerIsFinal
<1> DEFINE Final1 == \A j \in Jobs : status[j][pc] \in AgentSays => runs'[j] = runs[j]
<1>1. FinalInv /\ [DeliveryNext]_allVars => FinalInv'
  BY FinalStep
<1>2. FinalInv /\ [DeliveryNext]_allVars => [Final1]_allVars
  <2> SUFFICES ASSUME FinalInv, [DeliveryNext]_allVars, NEW j \in Jobs,
                      status[j][pc] \in AgentSays
               PROVE  runs'[j] = runs[j]
    OBVIOUS
  <2>1. AP!AgentType /\ [AP!Next]_AP!vars
    BY AgentSide DEF FinalInv, EndsInv, AP!AgentInv
  <2>2. runs'[j] = runs[j] \/ \E t \in AP!Ready : t.job = j
    BY <2>1, AgentConstants, AP!RunsOnlyReady
  <2>3. ~\E t \in AP!Ready : t.job = j
    BY DEF FinalInv, Settled, AP!Waits
  <2> QED
    BY <2>2, <2>3
<1>3. DeliverySpec => [][Final1]_allVars
  BY <1>1, <1>2, FinalInitial, PTL DEF DeliverySpec
<1> QED
  BY <1>3 DEF AnswerIsFinal

\* In particular a success is final.
THEOREM SuccessIsFinalHolds ==
  ASSUME PromptPump PROVE DeliverySpec => SuccessIsFinal
<1> DEFINE Final1 == \A j \in Jobs : status[j][pc] \in AgentSays => runs'[j] = runs[j]
           Success1 == \A j \in Jobs : status[j][pc] = "success" => runs'[j] = runs[j]
<1>1. [Final1]_allVars => [Success1]_allVars
  BY DEF AgentSays
<1>2. DeliverySpec => [][Final1]_allVars
  BY AnswerIsFinalHolds DEF AnswerIsFinal
<1> HIDE DEF Final1, Success1
<1>3. DeliverySpec => [][Success1]_allVars
  BY <1>1, <1>2, PTL
<1> QED
  BY <1>3 DEF SuccessIsFinal, Success1

-----------------------------------------------------------------------------
(* The composition implements both of its parts.                             *)

\* The agent of the composition is an AgentCommands whose server answers as the
\* queue does: what AgentCommandsProofs proves of the agent holds here.
THEOREM ImplementsAgent == DeliverySpec => AP!Spec
<1>1. DeliveryInit => EndsInv /\ AP!Init
  BY EndsInitial, AgentStarts
<1>2. EndsInv /\ [DeliveryNext]_allVars => EndsInv'
  BY EndsStep
<1>3. EndsInv /\ [DeliveryNext]_allVars => [AP!Next]_AP!vars
  BY AgentSide
<1> QED
  BY <1>1, <1>2, <1>3, PTL DEF DeliverySpec, AP!Spec

\* What the agent sends has a status that DeployQueue's agents report: none of the
\* jobs here carries an expire_at, so none is reported as expired.
LEMMA ReportedStatus ==
  ASSUME EndsInv, AP!ExpiredInv, {"success", "error"} \subseteq Reports, NEW r \in outbox
  PROVE  r.status \in Reports
<1>1. r \in AP!Result /\ past = {}
  BY DEF EndsInv, AP!AgentInv, AP!AgentType
<1>2. r.status # "expired"
  BY <1>1 DEF AP!ExpiredInv, AP!ExpiredHasPassed, AP!Reported
<1> QED
  BY <1>1, <1>2 DEF AP!Result, AP!Statuses

\* The server of the composition is a DeployQueue: the agent only ever answers an
\* attempt it was sent, with a status the queue knows, whatever was lost, late,
\* resent or reported after a restart. What DeployQueueProofs proves of the queue
\* holds with this agent. (An agent reports at least success and error.)
THEOREM ImplementsQueue ==
  ASSUME {"success", "error"} \subseteq Reports PROVE DeliverySpec => Spec
<1> DEFINE Inv == EndsInv /\ AP!ExpiredInv
<1>1. DeliveryInit => Inv /\ Init
  <2>1. DeliveryInit => AP!ExpiredInv
    BY AgentStarts, AgentConstants, AP!ExpiredInitial
  <2> QED
    BY <2>1, EndsInitial DEF DeliveryInit
<1>2. Inv /\ [DeliveryNext]_allVars => Inv'
  <2> SUFFICES ASSUME Inv, [DeliveryNext]_allVars PROVE Inv'
    OBVIOUS
  <2>1. AP!AgentType /\ AP!ExpiredInv /\ [AP!Next]_AP!vars
    BY AgentSide DEF EndsInv, AP!AgentInv
  <2>2. AP!ExpiredInv'
    BY <2>1, AgentConstants, AP!ExpiredStep
  <2> QED
    BY <2>2, EndsStep
<1>3. Inv /\ [DeliveryNext]_allVars => [Next]_vars
  <2> SUFFICES ASSUME Inv, [DeliveryNext]_allVars PROVE [Next]_vars
    OBVIOUS
  <2>1. CASE [OwnStep]_vars
    BY <2>1, OwnIsNext
  <2>2. ASSUME NEW r \in outbox, Records(r) PROVE Next
    <3>1. r.job \in Jobs /\ r.attempt \in attempts[r.job][pc] /\ r.status \in Reports
      BY ResultKnown, ReportedStatus
    <3>2. AgentReports(pc)
      BY <2>2, <3>1 DEF Records, AgentReports
    <3> QED
      BY <3>2, DeliveryAssumptions DEF Next, AgentStep
  <2> QED
    BY <2>1, <2>2, ServerSide
<1> HIDE DEF Inv
<1> QED
  BY <1>1, <1>2, <1>3, PTL DEF DeliverySpec, Spec
=============================================================================
