------------------------- MODULE AgentCommandsProofs -------------------------
(* The agent runs a command once, answers every delivery of it alike and     *)
(* keeps its result: proofs for AgentCommands, for any number of jobs,       *)
(* attempts, sessions, deaths of the process and forgotten entries.          *)
EXTENDS AgentCommands, ListProofs, FiniteSetTheorems

-----------------------------------------------------------------------------
(* The inductive invariant.                                                  *)

Single(X, S) == X \subseteq S /\ \A x, y \in X : x = y

AgentType ==
  /\ up \in BOOLEAN /\ connected \in BOOLEAN
  /\ Single(reader, Command) /\ Single(work, Task) /\ Single(checkpoint, Command)
  /\ active \subseteq Jobs /\ acks \subseteq Jobs
  /\ queue \in Seq(Command) /\ Len(queue) <= QueueCap
  /\ completed \in Seq(Result) /\ Len(completed) <= CompletedCap
  /\ pending \subseteq Result /\ outbox \subseteq Result /\ received \subseteq Result
  /\ past \subseteq Expiring
  /\ runs \in [Jobs -> Nat] /\ forgotten \in [Jobs -> Nat]
  /\ deliveries \in Nat /\ sessions \in Nat /\ crashes \in Nat /\ forgets \in Nat
  \* A task that is about to report knows its status.
  /\ \A t \in work : t.pc \in {"clear", "persist", "record", "send"} => t.status \in Statuses

\* Before connectLoop runs there is no session and nothing is queued.
StartingUp ==
  /\ ~up => ~connected /\ reader = {} /\ active = {} /\ queue = <<>>
  /\ ~connected => outbox = {}

\* A checkpoint of job j is on disk.
Marked(j) == \E c \in checkpoint : c.job = j

\* The checkpoint is that of the command at work, or it is left from before the
\* start and the startup check works on it.
CheckpointUsed ==
  /\ up => \A c \in checkpoint :
             c.job \in FileJobs /\ \E t \in work : t.pc \in {"run", "clear"} /\ t.job = c.job
  /\ \A t \in work : t.pc \in {"run", "clear"} => t.run > 0
  /\ ~up => \A t \in work : /\ t.pc \in {"persist", "record", "send", "done"}
                            /\ Marked(t.job)

\* The worker goes on with a command only if no result of it is stored.
NothingStored ==
  up => \A t \in work : t.pc \in {"start", "run", "clear", "persist", "record"} =>
          Stored(t.job) = {}

\* A run of j is on record, or the agent is on its way to record it.
Accounted(j) ==
  \/ Stored(j) # {}
  \/ Marked(j) /\ \A t \in work : t.job = j => t.pc \notin {"send", "done"}
  \/ \E t \in work : /\ t.job = j
                     /\ \/ t.pc = "record"
                        \/ t.run > 0 /\ t.pc \in {"run", "clear", "persist"}

RunsAccounted ==
  \A j \in Jobs : /\ runs[j] <= 1 + forgotten[j]
                  /\ ~Accounted(j) => runs[j] <= forgotten[j]

\* A result that was sent is the stored one, or is about to be stored.
SentIsStored ==
  \A r \in received \cup outbox : forgotten[r.job] = 0 =>
    /\ ~Marked(r.job)
    /\ \/ r \in Elements(completed)
       \/ up /\ \E t \in work : t.pc = "record" /\ ResultOf(t) = r

\* So is one that waits for its acknowledgement, except that the startup check
\* replaces the one it finds for its checkpoint.
PendingIsStored ==
  \A p \in pending : forgotten[p.job] = 0 =>
    \/ p \in Elements(completed)
    \/ \E t \in work : t.pc = "record" /\ ResultOf(t) = p
    \/ /\ ~up /\ Marked(p.job)
       /\ \A t \in work : t.job = p.job => t.pc = "persist"

\* The task's own result, in each of the stores it has reached.
OwnResult ==
  \A t \in work :
    /\ t.pc = "record" => \A p \in pending : p.job = t.job => p = ResultOf(t)
    /\ t.pc = "send" /\ forgotten[t.job] = 0 => ResultOf(t) \in Elements(completed)

OneStored == \A r, s \in Elements(completed) : r.job = s.job => r = s

Answers == SentIsStored /\ PendingIsStored /\ OwnResult /\ OneStored

\* An acknowledgement names a job of which the server has a result.
AckedReceived == \A j \in acks : \E r \in received : r.job = j

AgentInv ==
  /\ AgentType /\ StartingUp /\ CheckpointUsed /\ NothingStored /\ RunsAccounted
  /\ Answers /\ AckedReceived

-----------------------------------------------------------------------------
(* Sets of at most one element, and counts.                                  *)

\* The element of a set of at most one element is that set.
LEMMA SingleIs ==
  ASSUME NEW X, NEW S, Single(X, S), NEW x \in X
  PROVE  X = {x} /\ x \in S
BY DEF Single

\* The sets of at most one element: the empty one and the singletons.
LEMMA SingleMade ==
  ASSUME NEW S
  PROVE  /\ Single({}, S)
         /\ \A x \in S : Single({x}, S)
BY DEF Single

\* Such a set is finite and counts at most one.
LEMMA SingleSmall ==
  ASSUME NEW X, NEW S, Single(X, S)
  PROVE  IsFiniteSet(X) /\ Cardinality(X) <= 1
<1>1. CASE X = {}
  BY <1>1, FS_EmptySet
<1>2. CASE X # {}
  <2>1. PICK x : X = {x}
    BY <1>2 DEF Single
  <2>2. IsFiniteSet({x}) /\ Cardinality({x}) = 1
    BY FS_Singleton
  <2> QED
    BY <2>1, <2>2
<1> QED
  BY <1>1, <1>2

\* Forget never lowers a count and raises that of every job in R.
LEMMA ForgetFacts ==
  ASSUME NEW R, IsFiniteSet(R), forgotten \in [Jobs -> Nat], Forget(R)
  PROVE  /\ forgotten' \in [Jobs -> Nat]
         /\ \A j \in Jobs : forgotten'[j] >= forgotten[j]
         /\ \A r \in R : r.job \in Jobs => forgotten'[r.job] >= 1 + forgotten[r.job]
<1> DEFINE Of(j) == {r \in R : r.job = j}
<1>1. ASSUME NEW j PROVE IsFiniteSet(Of(j)) /\ Cardinality(Of(j)) \in Nat
  <2>1. Of(j) \in SUBSET R
    OBVIOUS
  <2>2. IsFiniteSet(Of(j))
    BY <2>1, FS_Subset
  <2> QED
    BY <2>2, FS_CardinalityType
<1>2. ASSUME NEW r \in R PROVE Cardinality(Of(r.job)) >= 1
  <2>1. r \in Of(r.job)
    OBVIOUS
  <2>2. IsFiniteSet(Of(r.job)) /\ Cardinality(Of(r.job)) \in Nat
    BY <1>1
  <2>3. Cardinality(Of(r.job)) # 0
    BY <2>1, <2>2, FS_EmptySet
  <2> HIDE DEF Of
  <2> QED
    BY <2>2, <2>3
<1>3. forgotten' = [j \in Jobs |-> forgotten[j] + Cardinality(Of(j))]
  BY DEF Forget
<1> HIDE DEF Of
<1>4. \A j \in Jobs : forgotten[j] \in Nat
  OBVIOUS
<1>5. \A j \in Jobs : forgotten'[j] = forgotten[j] + Cardinality(Of(j))
  BY <1>3
<1>6. forgotten' \in [Jobs -> Nat]
  BY <1>1, <1>3, <1>4
<1> QED
  BY <1>1, <1>2, <1>4, <1>5, <1>6
-----------------------------------------------------------------------------
(* What the steps of a task do.                                              *)

Steps == {"recheck", "start", "run", "clear", "persist", "record", "send", "done"}

\* The fields of a task have their types.
LEMMA TaskFields ==
  ASSUME NEW t \in Task
  PROVE  /\ t.pc \in Steps /\ t.job \in Jobs /\ t.attempt \in Attempts
         /\ t.status \in Statuses \cup {"none"} /\ t.run \in Nat
BY DEF Task, Steps

\* Moving a task to its next step changes its step and nothing else.
LEMMA Moved ==
  ASSUME NEW t \in Task, NEW p \in Steps
  PROVE  LET u == [t EXCEPT !.pc = p]
         IN  /\ u \in Task /\ u.pc = p /\ u.job = t.job /\ u.status = t.status
             /\ u.run = t.run /\ ResultOf(u) = ResultOf(t)
BY DEF Task, Steps, ResultOf

\* The result of a task whose status is known is a result of its job.
LEMMA ResultMade ==
  ASSUME NEW t \in Task, t.status \in Statuses
  PROVE  ResultOf(t) \in Result /\ ResultOf(t).job = t.job
BY DEF Task, Result, ResultOf

\* A task made from a command is a task of that command.
LEMMA Made ==
  ASSUME NEW p \in Steps, NEW c \in Command, NEW st \in Statuses \cup {"none"}, NEW n \in Nat
  PROVE  LET u == [pc |-> p, job |-> c.job, attempt |-> c.attempt, status |-> st,
                   run |-> n]
         IN  /\ u \in Task /\ u.pc = p /\ u.job = c.job /\ u.status = st /\ u.run = n
             /\ c.job \in Jobs /\ c.attempt \in Attempts
BY DEF Task, Steps, Command

\* recordCompletedResult: the task's result is stored, in place of any other of
\* its job; every other entry stays or is counted as forgotten.
LEMMA RecordFacts ==
  ASSUME AgentType, NEW t \in work, t.pc = "record", RecordCompleted(t)
  PROVE  /\ completed' \in Seq(Result) /\ Len(completed') <= CompletedCap
         /\ forgotten' \in [Jobs -> Nat]
         /\ \A j \in Jobs : forgotten'[j] >= forgotten[j]
         /\ ResultOf(t) \in Elements(completed')
         /\ \A r \in Elements(completed') :
              r = ResultOf(t) \/ (r \in Elements(completed) /\ r.job # t.job)
         /\ \A r \in Elements(completed) :
              \/ r.job = t.job
              \/ r \in Elements(completed')
              \/ forgotten'[r.job] >= 1 + forgotten[r.job]
<1> DEFINE T      == {r \in Elements(completed) : r.job # t.job}
           others == Filter(completed, T)
           list   == Append(others, ResultOf(t))
           extra  == IF Len(list) > CompletedCap THEN Len(list) - CompletedCap ELSE 0
           D      == {list[i] : i \in 1..extra}
<1>1. /\ completed' = SubSeq(list, extra + 1, Len(list))
      /\ Forget(D)
  BY DEF RecordCompleted
<1>2. /\ t \in Task /\ ResultOf(t) \in Result /\ ResultOf(t).job = t.job
  <2>1. t \in Task /\ t.status \in Statuses
    BY DEF AgentType, Single
  <2> QED
    BY <2>1, ResultMade
<1>3. /\ completed \in Seq(Result) /\ Len(completed) <= CompletedCap
      /\ Len(completed) \in Nat /\ CompletedCap \in Nat /\ CompletedCap >= 1
      /\ Elements(completed) \subseteq Result
  <2>1. completed \in Seq(Result)
    BY DEF AgentType
  <2> QED
    BY <2>1, ListFacts, AgentAssumptions DEF AgentType
<1>4. others \in Seq(Result) /\ Kept(others, completed, T, Len(completed))
  BY <1>3, FilterFacts
<1>5. Elements(others) = T /\ Len(others) <= Len(completed) /\ Len(others) \in Nat
  <2> HIDE DEF others
  <2>1. \A x \in Elements(others) : x \in T
    <3> HIDE DEF T
    <3>1. \A i \in 1..Len(others) : others[i] \in T
      BY <1>4 DEF Kept
    <3> QED
      BY <3>1 DEF Elements
  <2>2. ASSUME NEW x \in T PROVE x \in Elements(others)
    <3>1. PICK a \in 1..Len(completed) : x = completed[a]
      BY DEF Elements
    <3>2. completed[a] \in T
      BY <3>1, <2>2
    <3> HIDE DEF T
    <3>3. PICK i \in 1..Len(others) : others[i] = completed[a]
      BY <1>4, <3>2 DEF Kept
    <3> QED
      BY <3>1, <3>3 DEF Elements
  <2>3. Len(others) <= Len(completed)
    BY <1>4 DEF Kept
  <2>4. Len(others) \in Nat
    BY <1>4
  <2> HIDE DEF T
  <2> QED
    BY <2>1, <2>2, <2>3, <2>4
<1> HIDE DEF others
<1>6. /\ list \in Seq(Result) /\ Len(list) = Len(others) + 1
      /\ Elements(list) = T \cup {ResultOf(t)}
      /\ list[Len(list)] = ResultOf(t)
  <2>1. list[Len(others) + 1] = ResultOf(t)
    BY <1>2, <1>4, <1>5
  <2>2. /\ list \in Seq(Result) /\ Len(list) = Len(others) + 1
        /\ Elements(list) = Elements(others) \cup {ResultOf(t)}
    BY <1>2, <1>4, ListFacts
  <2> QED
    BY <1>5, <2>1, <2>2
<1> HIDE DEF list
<1>7. Len(list) \in Nat /\ extra \in {0, 1} /\ extra + 1 <= Len(list)
      /\ Len(list) - extra <= CompletedCap
  BY <1>3, <1>5, <1>6
<1> HIDE DEF extra
<1>8. /\ completed' \in Seq(Result) /\ Len(completed') = Len(list) - extra
      /\ \A i \in 1..Len(completed') : completed'[i] = list[i + extra]
  BY <1>1, <1>6, <1>7
<1>9. IsFiniteSet(D)
  <2>1. CASE extra = 0
    <3>1. D = {}
      BY <2>1
    <3> QED
      BY <3>1, FS_EmptySet
  <2>2. CASE extra = 1
    <3>1. D = {list[1]}
      BY <2>2
    <3> QED
      BY <3>1, FS_Singleton
  <2> QED
    BY <1>7, <2>1, <2>2
<1>10. /\ forgotten' \in [Jobs -> Nat]
       /\ \A j \in Jobs : forgotten'[j] >= forgotten[j]
       /\ \A r \in D : r.job \in Jobs => forgotten'[r.job] >= 1 + forgotten[r.job]
  <2>1. forgotten \in [Jobs -> Nat]
    BY DEF AgentType
  <2> HIDE DEF D
  <2> QED
    BY <1>1, <1>9, <2>1, ForgetFacts
<1>11. ResultOf(t) \in Elements(completed')
  <2>1. Len(list) - extra \in 1..Len(completed')
    BY <1>7, <1>8
  <2>2. completed'[Len(list) - extra] = list[Len(list)]
    BY <1>7, <1>8, <2>1
  <2> QED
    BY <1>6, <2>1, <2>2 DEF Elements
<1>12. \A r \in Elements(completed') :
         r = ResultOf(t) \/ (r \in Elements(completed) /\ r.job # t.job)
  <2>1. \A r \in Elements(completed') : r \in Elements(list)
    BY <1>7, <1>8 DEF Elements
  <2> QED
    BY <1>6, <2>1
<1>13. ASSUME NEW r \in Elements(completed), r.job # t.job, r \notin Elements(completed')
       PROVE  forgotten'[r.job] >= 1 + forgotten[r.job]
  <2>1. r \in Elements(list) /\ r.job \in Jobs
    BY <1>3, <1>6, <1>13 DEF Result
  <2>2. PICK i \in 1..Len(list) : r = list[i]
    BY <2>1 DEF Elements
  <2>3. i \in 1..extra
    <3>1. SUFFICES ASSUME i > extra PROVE FALSE
      BY <1>7, <2>2
    <3>2. i - extra \in 1..Len(completed') /\ completed'[i - extra] = r
      BY <1>7, <1>8, <2>2, <3>1
    <3> QED
      BY <1>13, <3>2 DEF Elements
  <2>4. r \in D
    BY <2>2, <2>3
  <2> HIDE DEF D
  <2> QED
    BY <1>10, <2>1, <2>4
<1>14. Len(completed') <= CompletedCap
  BY <1>7, <1>8
<1> HIDE DEF D
<1> QED
  BY <1>8, <1>10, <1>11, <1>12, <1>13, <1>14
-----------------------------------------------------------------------------
(* Types.                                                                    *)

\* The assumptions on the constants, in the form the steps below need.
LEMMA Constants ==
  /\ QueueCap \in Nat /\ CompletedCap \in Nat /\ 0 <= QueueCap /\ 0 <= CompletedCap
  /\ Expiring \subseteq Jobs /\ FileJobs \subseteq Jobs
  /\ Outcomes \subseteq Statuses /\ {"success", "error", "expired"} \subseteq Statuses
BY AgentAssumptions DEF Statuses

\* The task at work and what it is typed as.
LEMMA AtWork ==
  ASSUME AgentType, NEW t \in work
  PROVE  /\ work = {t} /\ t \in Task
         /\ t.pc \in Steps /\ t.job \in Jobs /\ t.attempt \in Attempts
         /\ t.status \in Statuses \cup {"none"} /\ t.run \in Nat
         /\ t.pc \in {"clear", "persist", "record", "send"} =>
              t.status \in Statuses /\ ResultOf(t) \in Result /\ ResultOf(t).job = t.job
<1>1. Single(work, Task)
  BY DEF AgentType
<1>2. work = {t} /\ t \in Task
  BY <1>1, SingleIs
<1> QED
  BY <1>2, TaskFields, ResultMade DEF AgentType

\* A worker's step leaves one well-formed task, or none.
TaskTyped ==
  /\ Single(work, Task)
  /\ \A t \in work : t.pc \in {"clear", "persist", "record", "send"} => t.status \in Statuses

\* The task of the worker is typed if there is none or it was made well.
LEMMA TaskTypedMade ==
  /\ work' = {} => TaskTyped'
  /\ \A u \in Task : work' = {u} /\ (u.pc \in {"clear", "persist", "record", "send"} =>
                                        u.status \in Statuses) => TaskTyped'
BY SingleMade DEF TaskTyped, Single

\* What a step of the task at work makes of it.
Moves(t, u) ==
  \/ Recheck(t) /\ u.pc \in {"start", "persist", "done"}
                /\ (u.pc = "done" <=> Stored(t.job) # {})
  \/ Refuse(t) /\ u.pc = "persist" /\ u.run = t.run
  \/ Begin(t) /\ u.pc = "run" /\ u.run = runs[t.job] + 1
  \/ Finish(t) /\ u.pc \in {"clear", "persist"} /\ u.run = t.run
               /\ (u.pc = "clear" <=> t.job \in FileJobs)
  \/ ClearCheckpoint(t) /\ u.pc = "persist" /\ u.run = t.run
  \/ PersistPending(t) /\ u.pc = "record" /\ ResultOf(u) = ResultOf(t)
  \/ RecordCompleted(t) /\ u.pc = "send" /\ ResultOf(u) = ResultOf(t)
  \/ SendResult(t) /\ u.pc = "done"

\* A step of processCommand, or of the startup check, ends its task or moves it on.
LEMMA TaskGoesOn ==
  ASSUME AgentType, NEW t \in work, TaskStep(t)
  PROVE  /\ TaskTyped'
         /\ \/ work' = {} /\ (TrackDone(t) \/ BootDone(t))
            \/ \E u \in Task : work' = {u} /\ u.job = t.job /\ Moves(t, u)
<1>1. t \in Task /\ TaskTyped /\ t.job \in Jobs
      /\ (t.pc \in {"clear", "persist", "record", "send"} => t.status \in Statuses)
  BY AtWork DEF AgentType, TaskTyped
<1>2. ASSUME NEW p \in Steps, Goto(t, p),
             t.status \in Statuses \/ p \in {"start", "done"}
      PROVE  /\ TaskTyped'
             /\ \E u \in Task : /\ work' = {u} /\ u.job = t.job /\ u.pc = p
                                /\ u.run = t.run /\ ResultOf(u) = ResultOf(t)
  <2>1. PICK u \in Task : /\ work' = {u} /\ u.pc = p /\ u.job = t.job
                          /\ u.status = t.status /\ u.run = t.run
                          /\ ResultOf(u) = ResultOf(t)
    BY <1>1, <1>2, Moved DEF Goto
  <2>2. TaskTyped'
    BY <1>2, <2>1, TaskTypedMade
  <2> QED
    BY <2>1, <2>2
<1>3. ASSUME NEW p \in {"persist", "clear"}, NEW st \in Statuses,
             \/ work' = {[t EXCEPT !.pc = p, !.status = st]}
             \/ work' = {[t EXCEPT !.status = st, !.pc = p]}
      PROVE  /\ TaskTyped'
             /\ \E u \in Task : /\ work' = {u} /\ u.job = t.job /\ u.pc = p
                                /\ u.run = t.run
  <2>1. PICK u \in Task : /\ work' = {u} /\ u.pc = p /\ u.job = t.job /\ u.status = st
                          /\ u.run = t.run
    <3> DEFINE v == [t EXCEPT !.pc = p, !.status = st]
               w == [t EXCEPT !.status = st, !.pc = p]
    <3>1. /\ v \in Task /\ v.pc = p /\ v.job = t.job /\ v.status = st /\ v.run = t.run
          /\ w \in Task /\ w.pc = p /\ w.job = t.job /\ w.status = st /\ w.run = t.run
      BY <1>1 DEF Task
    <3>2. work' = {v} \/ work' = {w}
      BY <1>3
    <3> HIDE DEF v, w
    <3> QED
      BY <3>1, <3>2
  <2>2. TaskTyped'
    BY <2>1, TaskTypedMade
  <2> QED
    BY <2>1, <2>2
<1>4. CASE Recheck(t)
  <2>1. CASE Stored(t.job) # {}
    <3>1. Goto(t, "done")
      BY <1>4, <2>1 DEF Recheck
    <3> QED
      BY <1>2, <1>4, <2>1, <3>1 DEF Moves, Steps
  <2>2. CASE Stored(t.job) = {} /\ t.job \in past
    <3>1. work' = {[t EXCEPT !.pc = "persist", !.status = "expired"]}
      BY <1>4, <2>2 DEF Recheck
    <3> QED
      BY <1>3, <1>4, <2>2, <3>1, Constants DEF Moves
  <2>3. CASE Stored(t.job) = {} /\ t.job \notin past
    <3>1. Goto(t, "start")
      BY <1>4, <2>3 DEF Recheck
    <3> QED
      BY <1>2, <1>4, <2>3, <3>1 DEF Moves, Steps
  <2> QED
    BY <2>1, <2>2, <2>3
<1>5. CASE Refuse(t)
  <2>1. work' = {[t EXCEPT !.pc = "persist", !.status = "error"]}
    BY <1>5 DEF Refuse
  <2> QED
    BY <1>3, <1>5, <2>1, Constants DEF Moves
<1>6. CASE Begin(t)
  <2>1. runs[t.job] + 1 \in Nat /\ work' = {[t EXCEPT !.pc = "run", !.run = runs[t.job] + 1]}
    BY <1>1, <1>6 DEF Begin, AgentType
  <2>2. PICK n \in Nat : n = runs[t.job] + 1
    BY <2>1
  <2>3. PICK u \in Task : work' = {u} /\ u.pc = "run" /\ u.job = t.job /\ u.run = n
    <3> DEFINE v == [t EXCEPT !.pc = "run", !.run = n]
    <3>1. v \in Task /\ v.pc = "run" /\ v.job = t.job /\ v.run = n
      BY <1>1 DEF Task
    <3>2. work' = {v}
      BY <2>1, <2>2
    <3> HIDE DEF v
    <3> QED
      BY <3>1, <3>2
  <2>4. TaskTyped'
    BY <2>3, TaskTypedMade
  <2> QED
    BY <1>6, <2>2, <2>3, <2>4 DEF Moves
<1>7. CASE Finish(t)
  <2>1. PICK st \in Outcomes :
          work' = {[t EXCEPT !.status = st,
                             !.pc = IF t.job \in FileJobs THEN "clear" ELSE "persist"]}
    BY <1>7 DEF Finish
  <2>2. PICK p \in {"persist", "clear"} : p = IF t.job \in FileJobs THEN "clear" ELSE "persist"
    OBVIOUS
  <2>3. work' = {[t EXCEPT !.status = st, !.pc = p]} /\ st \in Statuses
    BY <2>1, <2>2, Constants
  <2> QED
    BY <1>3, <1>7, <2>2, <2>3 DEF Moves
<1>8. CASE ClearCheckpoint(t)
  BY <1>1, <1>2, <1>8 DEF ClearCheckpoint, Moves, Steps
<1>9. CASE PersistPending(t)
  BY <1>1, <1>2, <1>9 DEF PersistPending, Moves, Steps
<1>10. CASE RecordCompleted(t)
  <2>1. t.pc = "record" /\ Goto(t, "send")
    BY <1>10 DEF RecordCompleted
  <2> QED
    BY <1>1, <1>2, <1>10, <2>1 DEF Moves, Steps
<1>11. CASE SendResult(t)
  BY <1>1, <1>2, <1>11 DEF SendResult, Moves, Steps
<1>12. CASE TrackDone(t) \/ BootDone(t)
  BY <1>12, TaskTypedMade DEF TrackDone, BootDone
<1> QED
  BY <1>4, <1>5, <1>6, <1>7, <1>8, <1>9, <1>10, <1>11, <1>12 DEF TaskStep
\* What wsSend adds to the socket are results.
LEMMA SentTyped ==
  ASSUME AgentType, NEW R \in SUBSET Result, WsSend(R)
  PROVE  outbox' \subseteq Result
BY DEF AgentType, WsSend

\* What lookupCompletedResult finds are results.
LEMMA StoredTyped ==
  ASSUME AgentType, NEW j
  PROVE  Stored(j) \subseteq Result
<1>1. completed \in Seq(Result)
  BY DEF AgentType
<1> QED
  BY <1>1, ListFacts DEF Stored

\* A step of the worker keeps the types.
LEMMA TaskType ==
  ASSUME AgentType, NEW t \in work, TaskStep(t)
  PROVE  AgentType'
<1>1. TaskTyped'
  BY TaskGoesOn
<1>2. /\ t.job \in Jobs /\ t.attempt \in Attempts
      /\ (t.pc \in {"clear", "persist", "record", "send"} => ResultOf(t) \in Result)
  BY AtWork
<1>3. [job |-> t.job, attempt |-> t.attempt] \in Command
  BY <1>2 DEF Command
<1>4. CASE Recheck(t)
  <2>1. outbox' \subseteq Result
    BY <1>4, StoredTyped, SentTyped DEF Recheck, AgentType
  <2> QED
    BY <1>1, <1>4, <2>1 DEF Recheck, AgentType, TaskTyped, files, counts
<1>5. CASE Refuse(t)
  BY <1>1, <1>5 DEF Refuse, AgentType, TaskTyped, files, counts, world
<1>6. CASE Begin(t)
  <2>1. Single(checkpoint', Command)
    BY <1>3, <1>6, SingleMade DEF Begin, AgentType
  <2>2. runs' \in [Jobs -> Nat]
    BY <1>2, <1>6 DEF Begin, AgentType
  <2> QED
    BY <1>1, <1>6, <2>1, <2>2 DEF Begin, AgentType, TaskTyped, counts, world
<1>7. CASE Finish(t)
  BY <1>1, <1>7 DEF Finish, AgentType, TaskTyped, files, counts, world
<1>8. CASE ClearCheckpoint(t)
  <2>1. Single(checkpoint', Command)
    BY <1>8, SingleMade DEF ClearCheckpoint
  <2> QED
    BY <1>1, <1>8, <2>1 DEF ClearCheckpoint, AgentType, TaskTyped, counts, world
<1>9. CASE PersistPending(t)
  <2>1. pending' \subseteq Result
    BY <1>2, <1>9 DEF PersistPending, AgentType
  <2> QED
    BY <1>1, <1>9, <2>1 DEF PersistPending, AgentType, TaskTyped, counts, world
<1>10. CASE RecordCompleted(t)
  <2>0. t.pc = "record"
    BY <1>10 DEF RecordCompleted
  <2>1. /\ completed' \in Seq(Result) /\ Len(completed') <= CompletedCap
        /\ forgotten' \in [Jobs -> Nat]
    BY <1>10, <2>0, RecordFacts
  <2>2. UNCHANGED <<up, connected, reader, active, queue, acks, pending, checkpoint,
                 world, runs, counts>>
    BY <1>10 DEF RecordCompleted
  <2> QED
    BY <1>1, <2>1, <2>2 DEF AgentType, TaskTyped, counts, world
<1>11. CASE SendResult(t)
  <2>1. outbox' \subseteq Result
    BY <1>2, <1>11, SentTyped DEF SendResult
  <2> QED
    BY <1>1, <1>11, <2>1 DEF SendResult, AgentType, TaskTyped, files, counts
<1>12. CASE TrackDone(t)
  BY <1>1, <1>12 DEF TrackDone, AgentType, TaskTyped, files, counts, world
<1>13. CASE BootDone(t)
  <2>1. Single(checkpoint', Command)
    BY <1>13, SingleMade DEF BootDone
  <2> QED
    BY <1>1, <1>13, <2>1 DEF BootDone, AgentType, TaskTyped, counts, world
<1> QED
  BY <1>4, <1>5, <1>6, <1>7, <1>8, <1>9, <1>10, <1>11, <1>12, <1>13 DEF TaskStep

\* The queue's first command becomes the task.
LEMMA TakeFacts ==
  ASSUME AgentType, TakeCommand
  PROVE  /\ TaskTyped'
         /\ queue' \in Seq(Command) /\ Len(queue') <= QueueCap
         /\ \E u \in Task : /\ work' = {u} /\ u.pc = "recheck"
                            /\ u.job = Head(queue).job
<1>1. queue \in Seq(Command) /\ queue # <<>> /\ Len(queue) <= QueueCap
  BY DEF AgentType, TakeCommand
<1>2. Head(queue) \in Command /\ queue' \in Seq(Command) /\ Len(queue') <= QueueCap
  <2>1. /\ Head(queue) \in Command /\ Tail(queue) \in Seq(Command)
        /\ Len(Tail(queue)) = Len(queue) - 1 /\ Len(queue) \in Nat
    BY <1>1, ListFacts
  <2> QED
    BY <1>1, <2>1, Constants DEF TakeCommand
<1>3. PICK c \in Command : c = Head(queue)
  BY <1>2
<1>4. PICK u \in Task : work' = {u} /\ u.pc = "recheck" /\ u.job = c.job
  <2> DEFINE v == [pc |-> "recheck", job |-> c.job, attempt |-> c.attempt,
                   status |-> "none", run |-> 0]
  <2>1. v \in Task /\ v.pc = "recheck" /\ v.job = c.job
    BY Made DEF Steps
  <2>2. work' = {v}
    BY <1>3 DEF TakeCommand
  <2> HIDE DEF v
  <2> QED
    BY <2>1, <2>2
<1>5. TaskTyped'
  BY <1>4, TaskTypedMade
<1> QED
  BY <1>2, <1>3, <1>4, <1>5

\* The startup check: done, or a task for the checkpoint it found.
LEMMA BootFacts ==
  ASSUME AgentType, BootCheck
  PROVE  /\ TaskTyped'
         /\ \/ checkpoint = {} /\ up' = TRUE /\ work' = {}
            \/ /\ up' = up
               /\ \E u \in Task : work' = {u} /\ u.pc = "persist" /\ Marked(u.job)
<1>1. CASE checkpoint = {} /\ up' = TRUE /\ UNCHANGED work
  BY <1>1, TaskTypedMade DEF BootCheck
<1>2. CASE up' = up /\ \E c \in checkpoint, st \in {"success", "error"} :
             work' = {[pc |-> "persist", job |-> c.job, attempt |-> c.attempt,
                       status |-> st, run |-> runs[c.job]]}
  <2>1. PICK c \in checkpoint, st \in {"success", "error"} :
             work' = {[pc |-> "persist", job |-> c.job, attempt |-> c.attempt,
                       status |-> st, run |-> runs[c.job]]}
    BY <1>2
  <2>2. c \in Command /\ st \in Statuses /\ runs[c.job] \in Nat
    BY Constants DEF AgentType, Single, Command
  <2>3. PICK n \in Nat : n = runs[c.job]
    BY <2>2
  <2>4. PICK u \in Task : work' = {u} /\ u.pc = "persist" /\ u.job = c.job /\ u.status = st
    <3> DEFINE v == [pc |-> "persist", job |-> c.job, attempt |-> c.attempt,
                     status |-> st, run |-> n]
    <3>1. v \in Task /\ v.pc = "persist" /\ v.job = c.job /\ v.status = st
      BY <2>2, Made DEF Steps
    <3>2. work' = {v}
      BY <2>1, <2>3
    <3> HIDE DEF v
    <3> QED
      BY <3>1, <3>2
  <2>5. TaskTyped'
    BY <2>2, <2>4, TaskTypedMade
  <2>6. Marked(u.job)
    BY <2>4 DEF Marked
  <2> QED
    BY <1>2, <2>4, <2>5, <2>6
<1> QED
  BY <1>1, <1>2 DEF BootCheck
\* pruneCompletedJobs drops the oldest entry, which counts as forgotten.
LEMMA ExpireFacts ==
  ASSUME AgentType, EntryExpires
  PROVE  /\ completed' \in Seq(Result) /\ Len(completed') <= CompletedCap
         /\ forgotten' \in [Jobs -> Nat]
         /\ \A j \in Jobs : forgotten'[j] >= forgotten[j]
         /\ Elements(completed') \subseteq Elements(completed)
         /\ \A r \in Elements(completed) :
              r \in Elements(completed') \/ forgotten'[r.job] >= 1 + forgotten[r.job]
<1>1. /\ completed \in Seq(Result) /\ completed # <<>> /\ Len(completed) <= CompletedCap
      /\ forgotten \in [Jobs -> Nat] /\ completed' = Tail(completed)
      /\ Forget({Head(completed)})
  BY DEF AgentType, EntryExpires
<1>2. /\ Head(completed) \in Elements(completed) /\ completed' \in Seq(Result)
      /\ Len(completed') = Len(completed) - 1 /\ Len(completed) \in Nat
      /\ Elements(completed) = {Head(completed)} \cup Elements(completed')
      /\ Elements(completed) \subseteq Result
  BY <1>1, ListFacts
<1>3. Head(completed).job \in Jobs
  BY <1>2 DEF Result
<1>4. IsFiniteSet({Head(completed)})
  BY FS_Singleton
<1>5. /\ forgotten' \in [Jobs -> Nat]
      /\ \A j \in Jobs : forgotten'[j] >= forgotten[j]
      /\ \A r \in {Head(completed)} : r.job \in Jobs =>
           forgotten'[r.job] >= 1 + forgotten[r.job]
  BY <1>1, <1>4, ForgetFacts
<1> QED
  BY <1>1, <1>2, <1>3, <1>5, Constants

\* A death forgets the task that had run and was not on record.
LEMMA CrashFacts ==
  ASSUME AgentType, Crash
  PROVE  /\ forgotten' \in [Jobs -> Nat]
         /\ \A j \in Jobs : forgotten'[j] >= forgotten[j]
         /\ \A t \in work : Unrecorded(t) => forgotten'[t.job] >= 1 + forgotten[t.job]
<1> DEFINE R == {t \in work : Unrecorded(t)}
<1>1. IsFiniteSet(work)
  BY SingleSmall DEF AgentType
<1>2. IsFiniteSet(R)
  <2>1. R \in SUBSET work
    OBVIOUS
  <2> QED
    BY <1>1, <2>1, FS_Subset
<1>3. forgotten \in [Jobs -> Nat] /\ Forget(R)
  BY DEF AgentType, Crash
<1>4. \A t \in work : t.job \in Jobs
  BY AtWork
<1>5. /\ forgotten' \in [Jobs -> Nat]
      /\ \A j \in Jobs : forgotten'[j] >= forgotten[j]
      /\ \A r \in R : r.job \in Jobs => forgotten'[r.job] >= 1 + forgotten[r.job]
  <2> HIDE DEF R
  <2> QED
    BY <1>2, <1>3, ForgetFacts
<1> QED
  BY <1>4, <1>5

\* Every step of the agent keeps the types.
LEMMA TypeStep ==
  ASSUME AgentType, [Next]_vars
  PROVE  AgentType'
<1>1. CASE TakeCommand
  BY <1>1, TakeFacts DEF TakeCommand, AgentType, TaskTyped, files, counts, world
<1>2. CASE BootCheck
  BY <1>2, BootFacts DEF BootCheck, AgentType, TaskTyped, files, counts, world
<1>3. CASE \E t \in work : TaskStep(t)
  BY <1>3, TaskType
<1>4. ASSUME NEW c \in Command, Submit(c) PROVE AgentType'
  <2>1. outbox' \subseteq Result
    BY <1>4, StoredTyped, SentTyped DEF Submit, AgentType
  <2>2. Single(reader', Command)
    BY <1>4, SingleMade DEF Submit, AgentType
  <2>3. deliveries' \in Nat
    BY <1>4 DEF Submit, AgentType
  <2> QED
    BY <1>4, <2>1, <2>2, <2>3 DEF Submit, AgentType, files
<1>5. ASSUME NEW c \in Command, Enqueue(c) PROVE AgentType'
  <2>1. Single(reader', Command)
    BY <1>5, SingleMade DEF Enqueue
  <2>2. c.job \in Jobs
    BY DEF Command
  <2>3. queue' \in Seq(Command) /\ Len(queue') <= QueueCap /\ active' \subseteq Jobs
    <3>1. queue \in Seq(Command) /\ Len(queue) <= QueueCap /\ active \subseteq Jobs
      BY DEF AgentType
    <3>2. /\ Append(queue, c) \in Seq(Command) /\ Len(Append(queue, c)) = Len(queue) + 1
          /\ Len(queue) \in Nat
      BY <3>1, ListFacts
    <3> QED
      BY <1>5, <2>2, <3>1, <3>2, Constants DEF Enqueue
  <2> QED
    BY <1>5, <2>1, <2>3 DEF Enqueue, AgentType, files, counts, world
<1>6. ASSUME NEW r \in outbox, ServerReads(r) PROVE AgentType'
  <2>1. r \in Result /\ r.job \in Jobs
    BY DEF AgentType, Result
  <2>2. received' \subseteq Result /\ acks' \subseteq Jobs /\ outbox' \subseteq Result
    BY <1>6, <2>1 DEF ServerReads, AgentType
  <2> QED
    BY <1>6, <2>2 DEF ServerReads, AgentType, files, counts
<1>7. ASSUME NEW j \in Jobs, ClearPending(j) PROVE AgentType'
  BY <1>7 DEF ClearPending, AgentType, counts, world
<1>8. ASSUME NEW j \in Jobs, ExpiryPasses(j) PROVE AgentType'
  BY <1>8 DEF ExpiryPasses, AgentType, files, counts
<1>9. CASE Connect
  BY <1>9 DEF Connect, AgentType, files
<1>10. CASE Disconnect
  BY <1>10 DEF Disconnect, AgentType, files, counts
<1>11. CASE EntryExpires
  <2>1. forgets' \in Nat
    BY <1>11 DEF EntryExpires, AgentType
  <2>2. UNCHANGED <<up, connected, reader, active, queue, work, acks, pending,
                    checkpoint, world, runs, deliveries, sessions, crashes>>
    BY <1>11 DEF EntryExpires
  <2> QED
    BY <1>11, <2>1, <2>2, ExpireFacts DEF AgentType, world
<1>12. CASE Crash
  <2>1. /\ up' = FALSE /\ connected' = FALSE /\ reader' = {} /\ active' = {}
        /\ queue' = <<>> /\ work' = {} /\ acks' = {} /\ outbox' = {}
        /\ UNCHANGED <<files, received, past, runs, deliveries, sessions, forgets>>
    BY <1>12 DEF Crash
  <2>2. crashes' \in Nat
    BY <1>12 DEF Crash, AgentType
  <2>3. /\ Single(reader', Command) /\ Single(work', Task) /\ queue' \in Seq(Command)
        /\ Len(queue') <= QueueCap
    BY <2>1, SingleMade, Constants
  <2> QED
    BY <1>12, <2>1, <2>2, <2>3, CrashFacts DEF AgentType, files
<1>13. CASE UNCHANGED vars
  BY <1>13 DEF vars, AgentType, files, counts, world
<1> QED
  BY <1>1, <1>2, <1>3, <1>4, <1>5, <1>6, <1>7, <1>8, <1>9, <1>10, <1>11, <1>12, <1>13
     DEF Next, WorkerStep
-----------------------------------------------------------------------------
(* The startup, the checkpoint and the second look at the store.             *)

\* Nothing is queued and no session is open before the startup check has ended.
LEMMA StartingStep ==
  ASSUME AgentType, StartingUp, [Next]_vars
  PROVE  StartingUp'
<1>0. up \in BOOLEAN /\ connected \in BOOLEAN
  BY DEF AgentType
<1>1. CASE TakeCommand
  BY <1>1 DEF TakeCommand, StartingUp, world
<1>2. CASE BootCheck
  BY <1>2 DEF BootCheck, StartingUp, world
<1>3. ASSUME NEW t \in work, TaskStep(t) PROVE StartingUp'
  <2>1. CASE Recheck(t) \/ SendResult(t)
    BY <2>1 DEF Recheck, SendResult, WsSend, StartingUp
  <2>2. CASE Refuse(t) \/ Begin(t) \/ Finish(t) \/ ClearCheckpoint(t) \/ PersistPending(t)
    <3>1. UNCHANGED <<up, connected, reader, active, queue, world>>
      BY <2>2 DEF Refuse, Begin, Finish, ClearCheckpoint, PersistPending
    <3> QED
      BY <3>1 DEF StartingUp, world
  <2>3. CASE RecordCompleted(t)
    <3>1. UNCHANGED <<up, connected, reader, active, queue, world>>
      BY <2>3 DEF RecordCompleted
    <3> QED
      BY <3>1 DEF StartingUp, world
  <2>4. CASE TrackDone(t) \/ BootDone(t)
    BY <2>4 DEF TrackDone, BootDone, StartingUp, world
  <2> QED
    BY <1>3, <2>1, <2>2, <2>3, <2>4 DEF TaskStep
<1>4. ASSUME NEW c \in Command, Submit(c) \/ Enqueue(c) PROVE StartingUp'
  BY <1>0, <1>4 DEF Submit, Enqueue, WsSend, StartingUp, world
<1>5. ASSUME NEW r \in outbox, ServerReads(r) PROVE StartingUp'
  BY <1>5 DEF ServerReads, StartingUp
<1>6. ASSUME NEW j \in Jobs, ClearPending(j) \/ ExpiryPasses(j) PROVE StartingUp'
  BY <1>6 DEF ClearPending, ExpiryPasses, StartingUp, world
<1>7. CASE Connect \/ Disconnect
  BY <1>0, <1>7 DEF Connect, Disconnect, StartingUp
<1>8. CASE EntryExpires \/ Crash
  BY <1>8 DEF EntryExpires, Crash, StartingUp, world
<1>9. CASE UNCHANGED vars
  BY <1>9 DEF vars, StartingUp, world
<1> QED
  BY <1>1, <1>2, <1>3, <1>4, <1>5, <1>6, <1>7, <1>8, <1>9 DEF Next, WorkerStep

\* The steps that leave the worker, its stores and the checkpoint alone.
SessionStep ==
  \/ \E c \in Command : Submit(c) \/ Enqueue(c)
  \/ \E r \in outbox : ServerReads(r)
  \/ \E j \in Jobs : ClearPending(j) \/ ExpiryPasses(j)
  \/ Connect \/ Disconnect \/ UNCHANGED vars

Aside == UNCHANGED <<up, work, completed, checkpoint, runs, forgotten>>

\* The steps, sorted: those of the session leave the worker and the stores alone.
LEMMA AsideSteps ==
  ASSUME [Next]_vars
  PROVE  \/ Aside /\ SessionStep
         \/ TakeCommand \/ BootCheck \/ (\E t \in work : TaskStep(t))
         \/ EntryExpires \/ Crash
<1>1. ASSUME NEW c \in Command, Submit(c) \/ Enqueue(c) PROVE Aside
  BY <1>1 DEF Submit, Enqueue, Aside, files
<1>2. ASSUME NEW r \in outbox, ServerReads(r) PROVE Aside
  BY <1>2 DEF ServerReads, Aside, files
<1>3. ASSUME NEW j \in Jobs, ClearPending(j) \/ ExpiryPasses(j) PROVE Aside
  BY <1>3 DEF ClearPending, ExpiryPasses, Aside, files
<1>4. ASSUME Connect \/ Disconnect PROVE Aside
  BY <1>4 DEF Connect, Disconnect, Aside, files
<1>5. ASSUME UNCHANGED vars PROVE Aside
  BY <1>5 DEF vars, Aside, files
<1> QED
  BY <1>1, <1>2, <1>3, <1>4, <1>5 DEF Next, WorkerStep, SessionStep

\* The checkpoint stays that of the task at work, and the worker does not go on
\* with a command whose result is stored.
LEMMA CheckpointStep ==
  ASSUME AgentType, CheckpointUsed, NothingStored, [Next]_vars
  PROVE  CheckpointUsed' /\ NothingStored'
<1>0. up \in BOOLEAN
  BY DEF AgentType
<1>1. CASE Aside
  BY <1>1 DEF Aside, CheckpointUsed, NothingStored, Marked, Stored
<1>2. CASE TakeCommand
  <2>1. /\ up /\ up' = up /\ work = {} /\ checkpoint' = checkpoint /\ completed' = completed
    BY <1>2 DEF TakeCommand, files
  <2>2. PICK u \in Task : work' = {u} /\ u.pc = "recheck"
    BY <1>2, TakeFacts
  <2> QED
    BY <2>1, <2>2 DEF CheckpointUsed, NothingStored
<1>3. CASE BootCheck
  <2>1. ~up /\ work = {} /\ checkpoint' = checkpoint /\ completed' = completed
    BY <1>3 DEF BootCheck, files
  <2>2. \/ checkpoint = {} /\ up' = TRUE /\ work' = {}
        \/ /\ up' = up
           /\ \E u \in Task : work' = {u} /\ u.pc = "persist" /\ Marked(u.job)
    BY <1>3, BootFacts
  <2> QED
    BY <2>1, <2>2 DEF CheckpointUsed, NothingStored, Marked
<1>4. ASSUME NEW t \in work, TaskStep(t) PROVE CheckpointUsed' /\ NothingStored'
  <2>0. work = {t} /\ t.job \in Jobs /\ t.run \in Nat /\ runs[t.job] \in Nat
    <3>1. work = {t} /\ t.job \in Jobs /\ t.run \in Nat
      BY AtWork
    <3> QED
      BY <3>1 DEF AgentType
  <2>1. CASE work' = {} /\ TrackDone(t)
    <3>1. up /\ up' = up /\ t.pc = "done" /\ checkpoint' = checkpoint /\ completed' = completed
      BY <2>1 DEF TrackDone, files
    <3> QED
      BY <2>0, <2>1, <3>1 DEF CheckpointUsed, NothingStored
  <2>2. CASE work' = {} /\ BootDone(t)
    <3>1. up' = TRUE /\ checkpoint' = {}
      BY <2>2 DEF BootDone
    <3> QED
      BY <2>2, <3>1 DEF CheckpointUsed, NothingStored
  <2>3. ASSUME NEW u \in Task, work' = {u}, u.job = t.job, Moves(t, u)
        PROVE  CheckpointUsed' /\ NothingStored'
    <3>1. CASE Recheck(t) /\ u.pc \in {"start", "persist", "done"}
                /\ (u.pc = "done" <=> Stored(t.job) # {})
      <4>1. /\ t.pc = "recheck" /\ up' = up /\ checkpoint' = checkpoint
            /\ completed' = completed
        BY <3>1 DEF Recheck, files
      <4> QED
        BY <2>0, <2>3, <3>1, <4>1 DEF CheckpointUsed, NothingStored, Marked, Stored
    <3>2. CASE Refuse(t) /\ u.pc = "persist"
      <4>1. /\ t.pc = "start" /\ up' = up /\ checkpoint' = checkpoint
            /\ completed' = completed
        BY <3>2 DEF Refuse, files
      <4> QED
        BY <2>0, <2>3, <3>2, <4>1 DEF CheckpointUsed, NothingStored, Marked, Stored
    <3>3. CASE Begin(t) /\ u.pc = "run" /\ u.run = runs[t.job] + 1
      <4>1. /\ t.pc = "start" /\ up' = up /\ completed' = completed
            /\ \/ /\ t.job \in FileJobs
                  /\ checkpoint' = {[job |-> t.job, attempt |-> t.attempt]}
               \/ checkpoint' \in {checkpoint, {}}
        BY <3>3 DEF Begin
      <4>2. up /\ checkpoint = {}
        BY <1>0, <2>0, <4>1 DEF CheckpointUsed
      <4>3. \A c \in checkpoint' : c.job = t.job /\ t.job \in FileJobs
        BY <4>1, <4>2
      <4>4. u.run > 0
        BY <2>0, <3>3
      <4>5. CheckpointUsed'
        BY <2>3, <3>3, <4>1, <4>2, <4>3, <4>4 DEF CheckpointUsed
      <4>6. NothingStored'
        BY <2>0, <2>3, <3>3, <4>1, <4>2 DEF NothingStored, Stored
      <4> QED
        BY <4>5, <4>6
    <3>4. CASE Finish(t) /\ u.pc \in {"clear", "persist"} /\ u.run = t.run
                /\ (u.pc = "clear" <=> t.job \in FileJobs)
      <4>1. /\ t.pc = "run" /\ up' = up /\ checkpoint' = checkpoint
            /\ completed' = completed
        BY <3>4 DEF Finish, files
      <4>2. up
        BY <1>0, <2>0, <4>1 DEF CheckpointUsed
      <4>3. CheckpointUsed'
        BY <2>0, <2>3, <3>4, <4>1, <4>2 DEF CheckpointUsed
      <4>4. NothingStored'
        BY <2>0, <2>3, <3>4, <4>1, <4>2 DEF NothingStored, Stored
      <4> QED
        BY <4>3, <4>4
    <3>5. CASE ClearCheckpoint(t) /\ u.pc = "persist"
      <4>1. t.pc = "clear" /\ up' = up /\ checkpoint' = {} /\ completed' = completed
        BY <3>5 DEF ClearCheckpoint
      <4>2. up
        BY <1>0, <2>0, <4>1 DEF CheckpointUsed
      <4>3. NothingStored'
        BY <2>0, <2>3, <3>5, <4>1, <4>2 DEF NothingStored, Stored
      <4> QED
        BY <2>3, <3>5, <4>1, <4>2, <4>3 DEF CheckpointUsed
    <3>6. CASE PersistPending(t) /\ u.pc = "record"
      <4>1. /\ t.pc = "persist" /\ up' = up /\ checkpoint' = checkpoint
            /\ completed' = completed
        BY <3>6 DEF PersistPending
      <4>2. CheckpointUsed'
        BY <2>0, <2>3, <3>6, <4>1 DEF CheckpointUsed, Marked
      <4>3. NothingStored'
        BY <2>0, <2>3, <3>6, <4>1 DEF NothingStored, Stored
      <4> QED
        BY <4>2, <4>3
    <3>7. CASE RecordCompleted(t) /\ u.pc = "send"
      <4>1. t.pc = "record" /\ up' = up /\ checkpoint' = checkpoint
        BY <3>7 DEF RecordCompleted
      <4>2. CheckpointUsed'
        BY <2>0, <2>3, <3>7, <4>1 DEF CheckpointUsed, Marked
      <4>3. NothingStored'
        BY <2>3, <3>7 DEF NothingStored
      <4> QED
        BY <4>2, <4>3
    <3>8. CASE SendResult(t) /\ u.pc = "done"
      <4>1. t.pc = "send" /\ up' = up /\ checkpoint' = checkpoint
        BY <3>8 DEF SendResult, files
      <4>2. CheckpointUsed'
        BY <2>0, <2>3, <3>8, <4>1 DEF CheckpointUsed, Marked
      <4>3. NothingStored'
        BY <2>3, <3>8 DEF NothingStored
      <4> QED
        BY <4>2, <4>3
    <3> QED
      BY <2>3, <3>1, <3>2, <3>3, <3>4, <3>5, <3>6, <3>7, <3>8 DEF Moves
  <2> QED
    BY <1>4, <2>1, <2>2, <2>3, TaskGoesOn
<1>5. CASE EntryExpires
  <2>1. UNCHANGED <<up, work, checkpoint>>
    BY <1>5 DEF EntryExpires
  <2>2. \A j : Stored(j)' \subseteq Stored(j)
    BY <1>5, ExpireFacts DEF Stored
  <2> QED
    BY <2>1, <2>2 DEF CheckpointUsed, NothingStored, Marked
<1>6. CASE Crash
  <2>1. up' = FALSE /\ work' = {}
    BY <1>6 DEF Crash
  <2> QED
    BY <2>1 DEF CheckpointUsed, NothingStored
<1> QED
  BY <1>1, <1>2, <1>3, <1>4, <1>5, <1>6, AsideSteps
-----------------------------------------------------------------------------
(* Every run is on record, on its way there, or forgotten.                   *)

\* Runs and losses are counted by naturals.
LEMMA CountTypes ==
  ASSUME AgentType
  PROVE  \A j \in Jobs : runs[j] \in Nat /\ forgotten[j] \in Nat
BY DEF AgentType

\* It is enough that no run is added and that a job which is no longer accounted
\* for was forgotten once more.
LEMMA StillAccounted ==
  ASSUME AgentType, AgentType', RunsAccounted, runs' = runs,
         \A j \in Jobs : forgotten'[j] >= forgotten[j],
         \A j \in Jobs : \/ Accounted(j) => Accounted(j)'
                         \/ forgotten'[j] >= 1 + forgotten[j]
  PROVE  RunsAccounted'
<1>1. SUFFICES ASSUME NEW j \in Jobs
               PROVE  /\ runs[j] <= 1 + forgotten'[j]
                      /\ ~Accounted(j)' => runs[j] <= forgotten'[j]
  BY DEF RunsAccounted
<1>2. /\ runs[j] \in Nat /\ forgotten[j] \in Nat /\ forgotten'[j] \in Nat
  BY DEF AgentType
<1>3. /\ runs[j] <= 1 + forgotten[j]
      /\ ~Accounted(j) => runs[j] <= forgotten[j]
  BY DEF RunsAccounted
<1> QED
  BY <1>1, <1>2, <1>3

\* Every step keeps the account of the runs: a run is recorded, on its way to be
\* recorded, or counted as forgotten.
LEMMA RunsStep ==
  ASSUME AgentType, AgentType', CheckpointUsed, NothingStored, RunsAccounted, [Next]_vars
  PROVE  RunsAccounted'
<1>0. up \in BOOLEAN /\ \A j \in Jobs : forgotten[j] \in Nat
  BY DEF AgentType
<1>1. CASE Aside
  <2>1. runs' = runs /\ forgotten' = forgotten
    BY <1>1 DEF Aside
  <2>2. \A j \in Jobs : Accounted(j)' <=> Accounted(j)
    BY <1>1 DEF Aside, Accounted, Stored, Marked
  <2> QED
    BY <1>0, <2>1, <2>2, StillAccounted
<1>2. CASE TakeCommand
  <2>1. work = {} /\ UNCHANGED <<runs, forgotten, completed, checkpoint>>
    BY <1>2 DEF TakeCommand, files
  <2>2. PICK u \in Task : work' = {u} /\ u.pc = "recheck"
    BY <1>2, TakeFacts
  <2>3. \A j \in Jobs : Accounted(j) => Accounted(j)'
    BY <2>1, <2>2 DEF Accounted, Stored, Marked
  <2> QED
    BY <1>0, <2>1, <2>3, StillAccounted
<1>3. CASE BootCheck
  <2>1. work = {} /\ UNCHANGED <<runs, forgotten, completed, checkpoint>>
    BY <1>3 DEF BootCheck, files
  <2>2. work' = {} \/ \E u \in Task : work' = {u} /\ u.pc = "persist"
    BY <1>3, BootFacts
  <2>3. \A j \in Jobs : Accounted(j) => Accounted(j)'
    BY <2>1, <2>2 DEF Accounted, Stored, Marked
  <2> QED
    BY <1>0, <2>1, <2>3, StillAccounted
<1>4. ASSUME NEW t \in work, TaskStep(t) PROVE RunsAccounted'
  <2>0. work = {t} /\ t.job \in Jobs /\ t.run \in Nat /\ runs[t.job] \in Nat
    BY AtWork, CountTypes
  <2>1. CASE work' = {} /\ TrackDone(t)
    <3>1. t.pc = "done" /\ UNCHANGED <<runs, forgotten, completed, checkpoint>> /\ up
      BY <2>1 DEF TrackDone, files
    <3>2. \A j \in Jobs : Accounted(j) => Accounted(j)'
      BY <2>0, <2>1, <3>1 DEF Accounted, Stored, Marked
    <3> QED
      BY <1>0, <3>1, <3>2, StillAccounted
  <2>2. CASE work' = {} /\ BootDone(t)
    <3>1. ~up /\ t.pc = "done" /\ checkpoint' = {} /\ UNCHANGED <<runs, forgotten, completed>>
      BY <2>2 DEF BootDone
    <3>2. \A c \in checkpoint : c.job = t.job
      BY <3>1 DEF CheckpointUsed, Marked, AgentType, Single
    <3>3. \A j \in Jobs : Accounted(j) => Accounted(j)'
      BY <2>0, <2>2, <3>1, <3>2 DEF Accounted, Stored, Marked
    <3> QED
      BY <1>0, <3>1, <3>3, StillAccounted
  <2>3. ASSUME NEW u \in Task, work' = {u}, u.job = t.job, Moves(t, u)
        PROVE  RunsAccounted'
    <3>1. CASE Recheck(t) /\ u.pc \in {"start", "persist", "done"}
                /\ (u.pc = "done" <=> Stored(t.job) # {})
      <4>1. /\ t.pc = "recheck" /\ UNCHANGED <<up, runs, forgotten, completed, checkpoint>>
        BY <3>1 DEF Recheck, files
      <4>2. up
        BY <1>0, <4>1 DEF CheckpointUsed
      <4>3. \A j \in Jobs : Accounted(j) => Accounted(j)'
        BY <2>0, <2>3, <3>1, <4>1, <4>2 DEF Accounted, Stored, Marked
      <4> QED
        BY <1>0, <4>1, <4>3, StillAccounted
    <3>2. CASE Refuse(t) /\ u.pc = "persist" /\ u.run = t.run
      <4>1. t.pc = "start" /\ UNCHANGED <<runs, forgotten, completed, checkpoint>>
        BY <3>2 DEF Refuse, files
      <4>2. \A j \in Jobs : Accounted(j) => Accounted(j)'
        BY <2>0, <2>3, <3>2, <4>1 DEF Accounted, Stored, Marked
      <4> QED
        BY <1>0, <4>1, <4>2, StillAccounted
    <3>3. CASE Begin(t) /\ u.pc = "run" /\ u.run = runs[t.job] + 1
      <4>1. /\ t.pc = "start" /\ UNCHANGED <<up, forgotten, completed>>
            /\ runs' = [runs EXCEPT ![t.job] = runs[t.job] + 1]
            /\ \/ checkpoint' = {[job |-> t.job, attempt |-> t.attempt]}
               \/ checkpoint' \in {checkpoint, {}}
        BY <3>3 DEF Begin
      <4>2. up /\ checkpoint = {} /\ Stored(t.job) = {}
        BY <1>0, <2>0, <4>1 DEF CheckpointUsed, NothingStored
      <4>3. ~Accounted(t.job) /\ Accounted(t.job)'
        BY <2>0, <2>3, <3>3, <4>1, <4>2 DEF Accounted, Marked
      <4>4. \A j \in Jobs : runs[j] \in Nat /\ forgotten[j] \in Nat
        BY CountTypes
      <4>5. \A j \in Jobs : j # t.job => (Accounted(j) <=> Accounted(j)')
        BY <2>0, <2>3, <3>3, <4>1, <4>2 DEF Accounted, Marked, Stored
      <4>6. runs \in [Jobs -> Nat]
        BY DEF AgentType
      <4>7. /\ runs'[t.job] = runs[t.job] + 1
            /\ \A j \in Jobs : j # t.job => runs'[j] = runs[j]
        BY <2>0, <4>1, <4>6
      <4>8. runs[t.job] <= forgotten[t.job]
        BY <2>0, <4>3 DEF RunsAccounted
      <4>9. ASSUME NEW j \in Jobs
            PROVE  runs'[j] <= 1 + forgotten'[j] /\ (~Accounted(j)' => runs'[j] <= forgotten'[j])
        <5>1. CASE j = t.job
          BY <2>0, <4>1, <4>3, <4>4, <4>7, <4>8, <5>1
        <5>2. CASE j # t.job
          <6>1. runs[j] <= 1 + forgotten[j] /\ (~Accounted(j) => runs[j] <= forgotten[j])
            BY DEF RunsAccounted
          <6> QED
            BY <4>1, <4>5, <4>7, <5>2, <6>1
        <5> QED
          BY <5>1, <5>2
      <4> QED
        BY <4>9 DEF RunsAccounted
    <3>4. CASE Finish(t) /\ u.pc \in {"clear", "persist"} /\ u.run = t.run
      <4>1. t.pc = "run" /\ UNCHANGED <<runs, forgotten, completed, checkpoint>>
        BY <3>4 DEF Finish, files
      <4>2. \A j \in Jobs : Accounted(j) => Accounted(j)'
        BY <2>0, <2>3, <3>4, <4>1 DEF Accounted, Stored, Marked
      <4> QED
        BY <1>0, <4>1, <4>2, StillAccounted
    <3>5. CASE ClearCheckpoint(t) /\ u.pc = "persist" /\ u.run = t.run
      <4>1. /\ t.pc = "clear" /\ checkpoint' = {} /\ UNCHANGED <<runs, forgotten, completed>>
        BY <3>5 DEF ClearCheckpoint
      <4>2. up /\ t.run > 0 /\ \A c \in checkpoint : c.job = t.job
        BY <1>0, <2>0, <4>1 DEF CheckpointUsed
      <4>3. \A j \in Jobs : Accounted(j) => Accounted(j)'
        BY <2>0, <2>3, <3>5, <4>1, <4>2 DEF Accounted, Stored, Marked
      <4> QED
        BY <1>0, <4>1, <4>3, StillAccounted
    <3>6. CASE PersistPending(t) /\ u.pc = "record"
      <4>1. t.pc = "persist" /\ UNCHANGED <<runs, forgotten, completed, checkpoint>>
        BY <3>6 DEF PersistPending
      <4>2. \A j \in Jobs : Accounted(j) => Accounted(j)'
        BY <2>0, <2>3, <3>6, <4>1 DEF Accounted, Stored, Marked
      <4> QED
        BY <1>0, <4>1, <4>2, StillAccounted
    <3>7. CASE RecordCompleted(t) /\ u.pc = "send"
      <4>1. t.pc = "record" /\ UNCHANGED <<runs, checkpoint>>
        BY <3>7 DEF RecordCompleted
      <4>2. /\ \A j \in Jobs : forgotten'[j] >= forgotten[j]
            /\ ResultOf(t) \in Elements(completed')
            /\ \A r \in Elements(completed) :
                 \/ r.job = t.job
                 \/ r \in Elements(completed')
                 \/ forgotten'[r.job] >= 1 + forgotten[r.job]
        BY <3>7, <4>1, RecordFacts
      <4>3. ResultOf(t).job = t.job
        BY <4>1, AtWork
      <4>4. ASSUME NEW j \in Jobs, Accounted(j), ~Accounted(j)'
            PROVE  forgotten'[j] >= 1 + forgotten[j]
        <5>1. j # t.job
          BY <4>2, <4>3, <4>4 DEF Accounted, Stored
        <5>2. Stored(j) # {} /\ Stored(j)' = {}
          BY <2>0, <2>3, <4>1, <4>4, <5>1 DEF Accounted, Marked
        <5>3. PICK r \in Elements(completed) : r.job = j
          BY <5>2 DEF Stored
        <5>4. r \notin Elements(completed')
          BY <5>2, <5>3 DEF Stored
        <5> QED
          BY <4>2, <5>1, <5>3, <5>4
      <4> QED
        BY <4>1, <4>2, <4>4, StillAccounted
    <3>8. CASE SendResult(t) /\ u.pc = "done"
      <4>1. t.pc = "send" /\ UNCHANGED <<runs, forgotten, completed, checkpoint>>
        BY <3>8 DEF SendResult, files
      <4>2. \A j \in Jobs : Accounted(j) => Accounted(j)'
        BY <2>0, <2>3, <3>8, <4>1 DEF Accounted, Stored, Marked
      <4> QED
        BY <1>0, <4>1, <4>2, StillAccounted
    <3> QED
      BY <2>3, <3>1, <3>2, <3>3, <3>4, <3>5, <3>6, <3>7, <3>8 DEF Moves
  <2> QED
    BY <1>4, <2>1, <2>2, <2>3, TaskGoesOn
<1>5. CASE EntryExpires
  <2>1. UNCHANGED <<work, checkpoint, runs>>
    BY <1>5 DEF EntryExpires
  <2>2. /\ \A j \in Jobs : forgotten'[j] >= forgotten[j]
        /\ \A r \in Elements(completed) :
             r \in Elements(completed') \/ forgotten'[r.job] >= 1 + forgotten[r.job]
    BY <1>5, ExpireFacts
  <2>3. ASSUME NEW j \in Jobs, Accounted(j), ~Accounted(j)'
        PROVE  forgotten'[j] >= 1 + forgotten[j]
    <3>1. Stored(j) # {} /\ Stored(j)' = {}
      BY <2>1, <2>3 DEF Accounted, Marked
    <3> QED
      BY <2>2, <3>1 DEF Stored
  <2> QED
    BY <2>1, <2>2, <2>3, StillAccounted
<1>6. CASE Crash
  <2>1. work' = {} /\ UNCHANGED <<completed, checkpoint, runs>>
    BY <1>6 DEF Crash, files
  <2>2. /\ \A j \in Jobs : forgotten'[j] >= forgotten[j]
        /\ \A t \in work : Unrecorded(t) => forgotten'[t.job] >= 1 + forgotten[t.job]
    BY <1>6, CrashFacts
  <2>3. ASSUME NEW j \in Jobs, Accounted(j), ~Accounted(j)'
        PROVE  forgotten'[j] >= 1 + forgotten[j]
    <3>1. Stored(j) = {} /\ ~Marked(j)
      BY <2>1, <2>3 DEF Accounted, Marked, Stored
    <3>2. PICK t \in work : /\ t.job = j
                            /\ \/ t.pc = "record"
                               \/ t.run > 0 /\ t.pc \in {"run", "clear", "persist"}
      BY <2>3, <3>1 DEF Accounted
    <3>3. Unrecorded(t)
      BY <3>1, <3>2 DEF Unrecorded, Marked
    <3> QED
      BY <2>2, <3>2, <3>3
  <2> QED
    BY <2>1, <2>2, <2>3, StillAccounted
<1> QED
  BY <1>1, <1>2, <1>3, <1>4, <1>5, <1>6, AsideSteps
-----------------------------------------------------------------------------
(* All answers of a job are one.                                             *)

\* The jobs, and so the counts, of all results in sight.
LEMMA ResultJobs ==
  ASSUME AgentType
  PROVE  /\ \A r \in received \cup outbox \cup pending \cup Elements(completed) :
              r.job \in Jobs /\ forgotten[r.job] \in Nat
         /\ \A j \in Jobs : forgotten[j] \in Nat
<1>1. completed \in Seq(Result)
  BY DEF AgentType
<1>2. Elements(completed) \subseteq Result
  BY <1>1, ListFacts
<1> QED
  BY <1>2 DEF AgentType, Result

\* What is stored may be sent: no checkpoint of its job is on disk.
LEMMA StoredUnmarked ==
  ASSUME AgentType, CheckpointUsed, NothingStored, up, NEW j, Stored(j) # {}
  PROVE  ~Marked(j)
BY DEF CheckpointUsed, NothingStored, Marked

\* Sending what is stored keeps SentIsStored.
LEMMA SendsStored ==
  ASSUME SentIsStored, NEW R, WsSend(R),
         \A r \in R : connected /\ forgotten[r.job] = 0 =>
                       r \in Elements(completed) /\ ~Marked(r.job),
         UNCHANGED <<received, checkpoint, completed, forgotten>>,
         \A t \in work : t.pc # "record"
  PROVE  SentIsStored'
<1>1. \A r \in received \cup outbox : forgotten[r.job] = 0 =>
        ~Marked(r.job) /\ r \in Elements(completed)
  BY DEF SentIsStored
<1>2. \A r \in (received \cup outbox)' : r \in received \cup outbox \/ (r \in R /\ connected)
  BY DEF WsSend
<1> QED
  BY <1>1, <1>2 DEF SentIsStored, Marked

\* Steps of the session and the reader.
LEMMA SessionAnswers ==
  ASSUME AgentInv, Aside, SessionStep
  PROVE  Answers'
<1>0. /\ UNCHANGED <<up, work, completed, checkpoint, runs, forgotten>>
      /\ up \in BOOLEAN /\ SentIsStored /\ PendingIsStored /\ OwnResult /\ OneStored
  BY DEF Aside, AgentInv, AgentType, Answers
<1>1. OneStored'
  BY <1>0 DEF OneStored
<1>2. pending' \subseteq pending
  <2>1. ASSUME NEW c \in Command, Submit(c) \/ Enqueue(c) PROVE pending' = pending
    BY <2>1 DEF Submit, Enqueue, files
  <2>2. ASSUME NEW r \in outbox, ServerReads(r) PROVE pending' = pending
    BY <2>2 DEF ServerReads, files
  <2>3. ASSUME NEW j \in Jobs, ClearPending(j) \/ ExpiryPasses(j) PROVE pending' \subseteq pending
    BY <2>3 DEF ClearPending, ExpiryPasses, files
  <2>4. CASE Connect \/ Disconnect
    BY <2>4 DEF Connect, Disconnect, files
  <2>5. CASE UNCHANGED vars
    BY <2>5 DEF vars, files
  <2> QED
    BY <2>1, <2>2, <2>3, <2>4, <2>5 DEF SessionStep
<1>3. PendingIsStored' /\ OwnResult'
  BY <1>0, <1>2 DEF PendingIsStored, OwnResult, Marked
<1>4. \A r \in received' \cup outbox' :
        \/ r \in received \cup outbox
        \/ up /\ r \in pending
        \/ up /\ r \in Elements(completed)
  <2>1. ASSUME NEW c \in Command, Submit(c) PROVE received' = received /\ up /\
          outbox' \subseteq outbox \cup Elements(completed)
    BY <1>0, <2>1 DEF Submit, WsSend, Stored, AgentInv, StartingUp
  <2>2. ASSUME NEW c \in Command, Enqueue(c) PROVE received' = received /\ outbox' = outbox
    BY <2>2 DEF Enqueue, world
  <2>3. ASSUME NEW r \in outbox, ServerReads(r)
        PROVE  received' \cup outbox' \subseteq received \cup outbox
    BY <2>3 DEF ServerReads
  <2>4. ASSUME NEW j \in Jobs, ClearPending(j) \/ ExpiryPasses(j)
        PROVE  received' = received /\ outbox' = outbox
    BY <2>4 DEF ClearPending, ExpiryPasses, world
  <2>5. CASE Connect
    BY <2>5 DEF Connect
  <2>6. CASE Disconnect
    BY <2>6 DEF Disconnect
  <2>7. CASE UNCHANGED vars
    BY <2>7 DEF vars, world
  <2> QED
    BY <2>1, <2>2, <2>3, <2>4, <2>5, <2>6, <2>7 DEF SessionStep
<1>5. ASSUME NEW r \in received' \cup outbox', forgotten[r.job] = 0
      PROVE  /\ ~Marked(r.job)
             /\ \/ r \in Elements(completed)
                \/ up /\ \E t \in work : t.pc = "record" /\ ResultOf(t) = r
  <2>1. CASE r \in received \cup outbox
    BY <1>0, <1>5, <2>1 DEF SentIsStored
  <2>2. CASE up /\ r \in Elements(completed)
    <3>1. Stored(r.job) # {}
      BY <2>2 DEF Stored
    <3> QED
      BY <2>2, <3>1, StoredUnmarked DEF AgentInv
  <2>3. CASE up /\ r \in pending
    <3>1. \/ r \in Elements(completed)
          \/ \E t \in work : t.pc = "record" /\ ResultOf(t) = r
      BY <1>0, <1>5, <2>3 DEF PendingIsStored
    <3>2. ASSUME NEW t \in work, t.pc = "record", ResultOf(t) = r PROVE ~Marked(r.job)
      <4>1. work = {t}
        BY AtWork DEF AgentInv
      <4> QED
        BY <2>3, <3>2, <4>1 DEF Marked, CheckpointUsed, AgentInv
    <3> QED
      BY <2>2, <2>3, <3>1, <3>2
  <2> QED
    BY <1>4, <2>1, <2>2, <2>3
<1>6. SentIsStored'
  <2>1. \A j : Marked(j)' <=> Marked(j)
    BY <1>0 DEF Marked
  <2> QED
    BY <1>0, <1>5, <2>1 DEF SentIsStored
<1> QED
  BY <1>1, <1>3, <1>6 DEF Answers
\* Steps of the worker and of the startup check.
LEMMA TaskAnswers ==
  ASSUME AgentInv, NEW t \in work, TaskStep(t)
  PROVE  Answers'
<1>0. /\ AgentType /\ up \in BOOLEAN /\ SentIsStored /\ PendingIsStored /\ OwnResult
      /\ OneStored /\ StartingUp /\ CheckpointUsed /\ NothingStored
  BY DEF AgentInv, AgentType, Answers
<1>1. /\ work = {t} /\ t.job \in Jobs
      /\ t.pc \in {"clear", "persist", "record", "send"} => ResultOf(t).job = t.job
  BY <1>0, AtWork
<1>2. CASE work' = {} /\ TrackDone(t)
  <2>1. /\ up /\ up' = up /\ t.pc = "done"
        /\ UNCHANGED <<pending, completed, checkpoint, outbox, received, forgotten>>
    BY <1>2 DEF TrackDone, files, world
  <2>2. SentIsStored'
    BY <1>0, <1>1, <1>2, <2>1 DEF SentIsStored, Marked
  <2>3. PendingIsStored'
    BY <1>0, <1>1, <1>2, <2>1 DEF PendingIsStored, Marked
  <2> QED
    BY <1>0, <1>2, <2>1, <2>2, <2>3 DEF Answers, OwnResult, OneStored
<1>3. CASE work' = {} /\ BootDone(t)
  <2>1. /\ ~up /\ up' = TRUE /\ t.pc = "done" /\ checkpoint' = {}
        /\ UNCHANGED <<pending, completed, outbox, received, forgotten>>
    BY <1>3 DEF BootDone, world
  <2>2. \A c \in checkpoint : c.job = t.job
    BY <1>0, <2>1 DEF CheckpointUsed, Marked, AgentType, Single
  <2>3. SentIsStored'
    BY <1>0, <1>1, <1>3, <2>1 DEF SentIsStored, Marked
  <2>4. PendingIsStored'
    BY <1>0, <1>1, <1>3, <2>1, <2>2 DEF PendingIsStored, Marked
  <2> QED
    BY <1>0, <1>3, <2>1, <2>3, <2>4 DEF Answers, OwnResult, OneStored
<1>4. ASSUME NEW u \in Task, work' = {u}, u.job = t.job, Moves(t, u)
      PROVE  Answers'
  <2>1. CASE Recheck(t) /\ u.pc \in {"start", "persist", "done"}
             /\ (u.pc = "done" <=> Stored(t.job) # {})
    <3>1. /\ t.pc = "recheck" /\ UNCHANGED <<up, pending, completed, checkpoint,
                                             received, forgotten>>
          /\ WsSend(Stored(t.job)) \/ outbox' = outbox
      BY <2>1 DEF Recheck, files
    <3>2. up
      BY <1>0, <3>1 DEF CheckpointUsed
    <3>3. SentIsStored'
      <4>1. WsSend(Stored(t.job)) \/ WsSend({})
        BY <3>1 DEF WsSend
      <4>2. \A r \in Stored(t.job) : r \in Elements(completed) /\ ~Marked(r.job)
        <5>1. \A r \in Stored(t.job) : r \in Elements(completed) /\ r.job = t.job
          BY DEF Stored
        <5>2. Stored(t.job) # {} => ~Marked(t.job)
          BY <1>0, <3>2, StoredUnmarked
        <5> QED
          BY <5>1, <5>2
      <4>3. UNCHANGED <<received, checkpoint, completed, forgotten>>
        BY <3>1
      <4>4. \A x \in work : x.pc # "record"
        BY <1>1, <3>1
      <4>5. CASE WsSend(Stored(t.job))
        BY <1>0, <4>2, <4>3, <4>4, <4>5, SendsStored
      <4>6. CASE WsSend({})
        BY <1>0, <4>3, <4>4, <4>6, SendsStored
      <4> QED
        BY <4>1, <4>5, <4>6
    <3>4. PendingIsStored'
      BY <1>0, <1>1, <1>4, <3>1, <3>2 DEF PendingIsStored
    <3>5. OwnResult'
      BY <1>4, <2>1 DEF OwnResult
    <3> QED
      BY <1>0, <3>1, <3>3, <3>4, <3>5 DEF Answers, OneStored
  <2>2. CASE Refuse(t) /\ u.pc = "persist"
    <3>1. t.pc = "start" /\ UNCHANGED <<up, pending, completed, checkpoint, outbox,
                                        received, forgotten>>
      BY <2>2 DEF Refuse, files, world
    <3>2. up
      BY <1>0, <3>1 DEF CheckpointUsed
    <3>3. SentIsStored'
      BY <1>0, <1>1, <3>1 DEF SentIsStored, Marked
    <3>4. PendingIsStored'
      BY <1>0, <1>1, <1>4, <3>1, <3>2 DEF PendingIsStored
    <3>5. OwnResult'
      BY <1>4, <2>2 DEF OwnResult
    <3> QED
      BY <1>0, <3>1, <3>3, <3>4, <3>5 DEF Answers, OneStored
  <2>3. CASE Begin(t) /\ u.pc = "run"
    <3>1. /\ t.pc = "start" /\ UNCHANGED <<up, pending, completed, outbox, received, forgotten>>
          /\ \/ checkpoint' = {[job |-> t.job, attempt |-> t.attempt]}
             \/ checkpoint' \in {checkpoint, {}}
      BY <2>3 DEF Begin, world
    <3>2. up /\ checkpoint = {} /\ Stored(t.job) = {}
      BY <1>0, <1>1, <3>1 DEF CheckpointUsed, NothingStored
    <3>3. \A c \in checkpoint' : c.job = t.job
      BY <3>1, <3>2
    <3>4. ASSUME NEW r \in received' \cup outbox', forgotten[r.job] = 0
          PROVE  r.job # t.job /\ r \in Elements(completed)
      <4>1. r \in Elements(completed)
        BY <1>0, <1>1, <3>1, <3>4 DEF SentIsStored
      <4> QED
        BY <3>2, <4>1 DEF Stored
    <3>5. SentIsStored'
      BY <3>1, <3>3, <3>4 DEF SentIsStored, Marked
    <3>6. PendingIsStored'
      BY <1>0, <1>1, <1>4, <3>1, <3>2 DEF PendingIsStored
    <3>7. OwnResult'
      BY <1>4, <2>3 DEF OwnResult
    <3> QED
      BY <1>0, <3>1, <3>5, <3>6, <3>7 DEF Answers, OneStored
  <2>4. CASE Finish(t) /\ u.pc \in {"clear", "persist"}
    <3>1. t.pc = "run" /\ UNCHANGED <<up, pending, completed, checkpoint, outbox,
                                      received, forgotten>>
      BY <2>4 DEF Finish, files, world
    <3>2. up
      BY <1>0, <3>1 DEF CheckpointUsed
    <3>3. SentIsStored'
      BY <1>0, <1>1, <3>1 DEF SentIsStored, Marked
    <3>4. PendingIsStored'
      BY <1>0, <1>1, <1>4, <3>1, <3>2 DEF PendingIsStored
    <3>5. OwnResult'
      BY <1>4, <2>4 DEF OwnResult
    <3> QED
      BY <1>0, <3>1, <3>3, <3>4, <3>5 DEF Answers, OneStored
  <2>5. CASE ClearCheckpoint(t) /\ u.pc = "persist"
    <3>1. /\ t.pc = "clear" /\ checkpoint' = {}
          /\ UNCHANGED <<up, pending, completed, outbox, received, forgotten>>
      BY <2>5 DEF ClearCheckpoint, world
    <3>2. up
      BY <1>0, <3>1 DEF CheckpointUsed
    <3>3. SentIsStored'
      BY <1>0, <1>1, <3>1 DEF SentIsStored, Marked
    <3>4. PendingIsStored'
      BY <1>0, <1>1, <1>4, <3>1, <3>2 DEF PendingIsStored
    <3>5. OwnResult'
      BY <1>4, <2>5 DEF OwnResult
    <3> QED
      BY <1>0, <3>1, <3>3, <3>4, <3>5 DEF Answers, OneStored
  <2>6. CASE PersistPending(t) /\ u.pc = "record" /\ ResultOf(u) = ResultOf(t)
    <3>1. /\ t.pc = "persist"
          /\ pending' = {r \in pending : r.job # t.job} \cup {ResultOf(t)}
          /\ UNCHANGED <<up, completed, checkpoint, outbox, received, forgotten>>
      BY <2>6 DEF PersistPending, world
    <3>2. SentIsStored'
      BY <1>0, <1>1, <3>1 DEF SentIsStored, Marked
    <3>3. PendingIsStored'
      <4>1. ASSUME NEW p \in pending', forgotten[p.job] = 0, p # ResultOf(t)
            PROVE  /\ p.job # t.job
                   /\ \/ p \in Elements(completed)
                      \/ ~up /\ Marked(p.job)
        BY <1>0, <1>1, <3>1, <4>1 DEF PendingIsStored
      <4>2. ASSUME NEW p \in pending', p = ResultOf(t)
            PROVE  \E x \in work' : x.pc = "record" /\ ResultOf(x) = p
        BY <1>4, <2>6, <4>2
      <4> QED
        BY <1>4, <3>1, <4>1, <4>2 DEF PendingIsStored, Marked
    <3>4. OwnResult'
      BY <1>1, <1>4, <2>6, <3>1 DEF OwnResult
    <3> QED
      BY <1>0, <3>1, <3>2, <3>3, <3>4 DEF Answers, OneStored
  <2>7. CASE RecordCompleted(t) /\ u.pc = "send" /\ ResultOf(u) = ResultOf(t)
    <3>1. t.pc = "record" /\ UNCHANGED <<up, pending, checkpoint, outbox, received>>
      BY <2>7 DEF RecordCompleted, world
    <3>2. /\ \A j \in Jobs : forgotten'[j] >= forgotten[j]
          /\ ResultOf(t) \in Elements(completed')
          /\ \A r \in Elements(completed') :
               r = ResultOf(t) \/ (r \in Elements(completed) /\ r.job # t.job)
          /\ \A r \in Elements(completed) :
               \/ r.job = t.job
               \/ r \in Elements(completed')
               \/ forgotten'[r.job] >= 1 + forgotten[r.job]
      BY <1>0, <2>7, <3>1, RecordFacts
    <3>3. /\ \A r \in received \cup outbox \cup pending \cup Elements(completed) :
               r.job \in Jobs /\ forgotten[r.job] \in Nat
          /\ ResultOf(t).job = t.job /\ forgotten[t.job] \in Nat
      BY <1>0, <1>1, <3>1, ResultJobs
    <3>4. \A j \in Jobs : forgotten[j] \in Nat /\ (forgotten'[j] = 0 => forgotten[j] = 0)
      <4>1. \A j \in Jobs : forgotten[j] \in Nat
        BY <1>0, ResultJobs
      <4> QED
        BY <3>2, <4>1
    <3>5. ASSUME NEW r \in received \cup outbox, forgotten'[r.job] = 0
          PROVE  r \in Elements(completed') /\ ~Marked(r.job)
      <4>1. forgotten[r.job] = 0
        BY <3>3, <3>4, <3>5
      <4>2. ~Marked(r.job) /\ (r \in Elements(completed) \/ (up /\ ResultOf(t) = r))
        BY <1>0, <1>1, <4>1 DEF SentIsStored
      <4>3. CASE ResultOf(t) = r
        BY <3>2, <4>2, <4>3
      <4>4. CASE r \in Elements(completed)
        <5>1. r.job # t.job
          <6>1. CASE up
            BY <1>0, <3>1, <4>4, <6>1 DEF NothingStored, Stored
          <6>2. CASE ~up
            BY <1>0, <4>2, <6>2 DEF CheckpointUsed
          <6> QED
            BY <6>1, <6>2
        <5> QED
          BY <3>2, <3>3, <3>5, <4>1, <4>2, <4>4, <5>1
      <4> QED
        BY <4>2, <4>3, <4>4
    <3>6. SentIsStored'
      BY <3>1, <3>5 DEF SentIsStored, Marked
    <3>7. ASSUME NEW p \in pending, forgotten'[p.job] = 0
          PROVE  \/ p \in Elements(completed')
                 \/ ~up /\ Marked(p.job) /\ p.job # t.job
      <4>1. forgotten[p.job] = 0
        BY <3>3, <3>4, <3>7
      <4>2. p.job = t.job => p = ResultOf(t)
        BY <1>0, <3>1 DEF OwnResult
      <4>3. CASE p = ResultOf(t)
        BY <3>2, <4>3
      <4>4. CASE p # ResultOf(t)
        <5>1. p.job # t.job
          BY <4>2, <4>4
        <5>2. p \in Elements(completed) \/ (~up /\ Marked(p.job))
          BY <1>0, <1>1, <4>1, <4>4 DEF PendingIsStored
        <5> QED
          BY <3>2, <3>3, <3>7, <4>1, <5>1, <5>2
      <4> QED
        BY <4>3, <4>4
    <3>8. PendingIsStored'
      BY <1>4, <3>1, <3>7 DEF PendingIsStored, Marked
    <3>9. OwnResult'
      BY <1>4, <2>7, <3>2 DEF OwnResult
    <3>10. OneStored'
      BY <1>0, <3>2, <3>3 DEF OneStored
    <3> QED
      BY <3>6, <3>8, <3>9, <3>10 DEF Answers
  <2>8. CASE SendResult(t) /\ u.pc = "done"
    <3>1. /\ t.pc = "send" /\ WsSend({ResultOf(t)})
          /\ UNCHANGED <<up, pending, completed, checkpoint, received, forgotten>>
      BY <2>8 DEF SendResult, files
    <3>2. SentIsStored'
      <4>1. ASSUME NEW r \in {ResultOf(t)}, connected, forgotten[r.job] = 0
            PROVE  r \in Elements(completed) /\ ~Marked(r.job)
        <5>1. up
          BY <1>0, <4>1 DEF StartingUp
        <5>2. r \in Elements(completed)
          BY <1>0, <1>1, <3>1, <4>1 DEF OwnResult
        <5> QED
          BY <1>0, <1>1, <3>1, <5>1, <5>2 DEF CheckpointUsed, Marked
      <4>2. \A x \in work : x.pc # "record"
        BY <1>1, <3>1
      <4> QED
        BY <1>0, <3>1, <4>1, <4>2, SendsStored
    <3>3. PendingIsStored'
      BY <1>0, <1>1, <1>4, <3>1 DEF PendingIsStored, Marked
    <3>4. OwnResult'
      BY <1>4, <2>8 DEF OwnResult
    <3> QED
      BY <1>0, <3>1, <3>2, <3>3, <3>4 DEF Answers, OneStored
  <2> QED
    BY <1>4, <2>1, <2>2, <2>3, <2>4, <2>5, <2>6, <2>7, <2>8 DEF Moves
<1> QED
  BY <1>0, <1>2, <1>3, <1>4, TaskGoesOn
\* Every step keeps the results of a job one and the same.
LEMMA AnswersStep ==
  ASSUME AgentInv, [Next]_vars
  PROVE  Answers'
<1>0. /\ AgentType /\ up \in BOOLEAN /\ SentIsStored /\ PendingIsStored /\ OwnResult
      /\ OneStored /\ StartingUp /\ CheckpointUsed /\ NothingStored
  BY DEF AgentInv, AgentType, Answers
<1>1. CASE Aside /\ SessionStep
  BY <1>1, SessionAnswers
<1>2. CASE TakeCommand
  <2>1. /\ up /\ work = {}
        /\ UNCHANGED <<up, pending, completed, checkpoint, outbox, received, forgotten>>
    BY <1>2 DEF TakeCommand, files, world
  <2>2. PICK u \in Task : work' = {u} /\ u.pc = "recheck"
    BY <1>0, <1>2, TakeFacts
  <2>3. SentIsStored' /\ PendingIsStored'
    BY <1>0, <2>1 DEF SentIsStored, PendingIsStored, Marked
  <2>4. OwnResult' /\ OneStored'
    BY <1>0, <2>1, <2>2 DEF OwnResult, OneStored
  <2> QED
    BY <2>3, <2>4 DEF Answers
<1>3. CASE BootCheck
  <2>1. /\ ~up /\ work = {}
        /\ UNCHANGED <<pending, completed, checkpoint, outbox, received, forgotten>>
    BY <1>3 DEF BootCheck, files, world
  <2>2. \/ checkpoint = {} /\ up' = TRUE /\ work' = {}
        \/ up' = up /\ \E u \in Task : work' = {u} /\ u.pc = "persist"
    BY <1>0, <1>3, BootFacts
  <2>3. SentIsStored'
    BY <1>0, <2>1 DEF SentIsStored, Marked
  <2>4. PendingIsStored'
    BY <1>0, <2>1, <2>2 DEF PendingIsStored, Marked
  <2>5. OwnResult' /\ OneStored'
    BY <1>0, <2>1, <2>2 DEF OwnResult, OneStored
  <2> QED
    BY <2>3, <2>4, <2>5 DEF Answers
<1>4. CASE \E t \in work : TaskStep(t)
  BY <1>4, TaskAnswers
<1>5. CASE EntryExpires
  <2>1. UNCHANGED <<up, work, pending, checkpoint, outbox, received>>
    BY <1>5 DEF EntryExpires, world
  <2>2. /\ \A j \in Jobs : forgotten'[j] >= forgotten[j]
        /\ Elements(completed') \subseteq Elements(completed)
        /\ \A r \in Elements(completed) :
             r \in Elements(completed') \/ forgotten'[r.job] >= 1 + forgotten[r.job]
    BY <1>0, <1>5, ExpireFacts
  <2>3. /\ \A r \in received \cup outbox \cup pending \cup Elements(completed) :
             r.job \in Jobs /\ forgotten[r.job] \in Nat
        /\ \A j \in Jobs : forgotten[j] \in Nat
    BY <1>0, ResultJobs
  <2>4. \A j \in Jobs : forgotten'[j] = 0 => forgotten[j] = 0
    BY <2>2, <2>3
  <2>5. \A r \in Elements(completed) : forgotten'[r.job] = 0 => r \in Elements(completed')
    BY <2>2, <2>3
  <2>6. SentIsStored'
    BY <1>0, <2>1, <2>3, <2>4, <2>5 DEF SentIsStored, Marked
  <2>7. PendingIsStored'
    BY <1>0, <2>1, <2>3, <2>4, <2>5 DEF PendingIsStored, Marked
  <2>8. OwnResult'
    <3>1. \A t \in work : t.job \in Jobs /\ (t.pc = "send" => ResultOf(t).job = t.job)
      BY <1>0, AtWork
    <3> QED
      BY <1>0, <2>1, <2>4, <2>5, <3>1 DEF OwnResult
  <2>9. OneStored'
    BY <1>0, <2>2 DEF OneStored
  <2> QED
    BY <2>6, <2>7, <2>8, <2>9 DEF Answers
<1>6. CASE Crash
  <2>1. /\ up' = FALSE /\ work' = {} /\ outbox' = {}
        /\ UNCHANGED <<pending, completed, checkpoint, received>>
    BY <1>6 DEF Crash, files
  <2>2. /\ \A j \in Jobs : forgotten'[j] >= forgotten[j]
        /\ \A t \in work : Unrecorded(t) => forgotten'[t.job] >= 1 + forgotten[t.job]
    BY <1>0, <1>6, CrashFacts
  <2>3. /\ \A r \in received \cup outbox \cup pending \cup Elements(completed) :
             r.job \in Jobs /\ forgotten[r.job] \in Nat
        /\ \A j \in Jobs : forgotten[j] \in Nat
    BY <1>0, ResultJobs
  <2>4. \A j \in Jobs : forgotten'[j] = 0 => forgotten[j] = 0
    BY <2>2, <2>3
  <2>5. ASSUME NEW t \in work, t.pc = "record", forgotten'[t.job] = 0
        PROVE  ~up /\ Marked(t.job) /\ ResultOf(t).job = t.job
    <3>1. t.job \in Jobs /\ work = {t} /\ ResultOf(t).job = t.job
      BY <1>0, <2>5, AtWork
    <3>2. ~Unrecorded(t)
      BY <2>2, <2>3, <2>5, <3>1
    <3>3. Marked(t.job)
      BY <2>5, <3>2 DEF Unrecorded, Marked
    <3>4. ~up
      BY <1>0, <2>5, <3>1, <3>3 DEF CheckpointUsed, Marked
    <3> QED
      BY <3>1, <3>3, <3>4
  <2>6. SentIsStored'
    <3>1. SUFFICES ASSUME NEW r \in received, forgotten'[r.job] = 0
                   PROVE  ~Marked(r.job) /\ r \in Elements(completed)
      BY <2>1 DEF SentIsStored, Marked
    <3>2. forgotten[r.job] = 0
      BY <2>3, <2>4, <3>1
    <3>3. /\ ~Marked(r.job)
          /\ \/ r \in Elements(completed)
             \/ up /\ \E t \in work : t.pc = "record" /\ ResultOf(t) = r
      BY <1>0, <3>2 DEF SentIsStored
    <3>4. \A t \in work : t.pc = "record" => ResultOf(t).job = t.job
      BY <1>0, AtWork
    <3> QED
      BY <2>5, <3>1, <3>3, <3>4
  <2>7. PendingIsStored'
    <3>1. SUFFICES ASSUME NEW p \in pending, forgotten'[p.job] = 0
                   PROVE  Marked(p.job) \/ p \in Elements(completed)
      BY <2>1 DEF PendingIsStored, Marked
    <3>2. forgotten[p.job] = 0
      BY <2>3, <2>4, <3>1
    <3>3. \/ p \in Elements(completed)
          \/ \E t \in work : t.pc = "record" /\ ResultOf(t) = p
          \/ Marked(p.job)
      BY <1>0, <3>2 DEF PendingIsStored
    <3>4. \A t \in work : t.pc = "record" => ResultOf(t).job = t.job
      BY <1>0, AtWork
    <3> QED
      BY <2>5, <3>1, <3>3, <3>4
  <2>8. OwnResult' /\ OneStored'
    BY <1>0, <2>1 DEF OwnResult, OneStored
  <2> QED
    BY <2>6, <2>7, <2>8 DEF Answers
<1> QED
  BY <1>1, <1>2, <1>3, <1>4, <1>5, <1>6, AsideSteps

-----------------------------------------------------------------------------
(* Acknowledgements.                                                         *)

\* Only results the server has received are acknowledged.
LEMMA AckedStep ==
  ASSUME AckedReceived, [Next]_vars
  PROVE  AckedReceived'
<1>1. ASSUME NEW r \in outbox, ServerReads(r) PROVE AckedReceived'
  BY <1>1 DEF ServerReads, AckedReceived
<1>2. ASSUME NEW j \in Jobs, ClearPending(j) \/ ExpiryPasses(j) PROVE AckedReceived'
  BY <1>2 DEF ClearPending, ExpiryPasses, AckedReceived, world
<1>3. CASE Crash
  BY <1>3 DEF Crash, AckedReceived
<1>4. ASSUME UNCHANGED <<acks, received>> PROVE AckedReceived'
  BY <1>4 DEF AckedReceived
<1>5. CASE TakeCommand \/ BootCheck
  BY <1>4, <1>5 DEF TakeCommand, BootCheck, world
<1>6. ASSUME NEW t \in work, TaskStep(t) PROVE UNCHANGED <<acks, received>>
  <2>1. CASE RecordCompleted(t)
    BY <2>1 DEF RecordCompleted, world
  <2>2. CASE Recheck(t) \/ Refuse(t) \/ Begin(t) \/ Finish(t) \/ ClearCheckpoint(t)
    BY <2>2 DEF Recheck, Refuse, Begin, Finish, ClearCheckpoint, world
  <2>3. CASE PersistPending(t) \/ SendResult(t) \/ TrackDone(t) \/ BootDone(t)
    BY <2>3 DEF PersistPending, SendResult, TrackDone, BootDone, world
  <2> QED
    BY <1>6, <2>1, <2>2, <2>3 DEF TaskStep
<1>7. ASSUME NEW c \in Command, Submit(c) \/ Enqueue(c) PROVE UNCHANGED <<acks, received>>
  BY <1>7 DEF Submit, Enqueue, world
<1>8. CASE Connect \/ Disconnect \/ EntryExpires
  BY <1>4, <1>8 DEF Connect, Disconnect, EntryExpires, world
<1>9. CASE UNCHANGED vars
  BY <1>4, <1>9 DEF vars, world
<1> QED
  BY <1>1, <1>2, <1>3, <1>4, <1>5, <1>6, <1>7, <1>8, <1>9 DEF Next, WorkerStep

-----------------------------------------------------------------------------
(* The theorems.                                                             *)

\* A new installation satisfies the invariant.
LEMMA AgentInitial ==
  ASSUME Init
  PROVE  AgentInv
<1>1. AgentType
  <2>1. /\ Single({}, Command) /\ Single({}, Task) /\ <<>> \in Seq(Command)
        /\ <<>> \in Seq(Result) /\ Len(<<>>) = 0
    BY SingleMade
  <2>2. [j \in Jobs |-> 0] \in [Jobs -> Nat]
    OBVIOUS
  <2> QED
    BY <2>1, <2>2, Constants DEF Init, AgentType
<1>2. Elements(completed) = {}
  BY DEF Init, Elements
<1>3. StartingUp /\ CheckpointUsed /\ NothingStored /\ AckedReceived
  BY DEF Init, StartingUp, CheckpointUsed, NothingStored, AckedReceived
<1>4. RunsAccounted
  BY DEF Init, RunsAccounted
<1>5. Answers
  BY <1>2 DEF Init, Answers, SentIsStored, PendingIsStored, OwnResult, OneStored
<1> QED
  BY <1>1, <1>3, <1>4, <1>5 DEF AgentInv

\* Every step of the agent keeps the invariant.
LEMMA AgentStep ==
  ASSUME AgentInv, [Next]_vars
  PROVE  AgentInv'
<1>1. AgentType'
  BY TypeStep DEF AgentInv
<1>2. StartingUp'
  BY StartingStep DEF AgentInv
<1>3. CheckpointUsed' /\ NothingStored'
  BY CheckpointStep DEF AgentInv
<1>4. RunsAccounted'
  BY <1>1, RunsStep DEF AgentInv
<1>5. Answers'
  BY AnswersStep
<1>6. AckedReceived'
  BY AckedStep DEF AgentInv
<1> QED
  BY <1>1, <1>2, <1>3, <1>4, <1>5, <1>6 DEF AgentInv

\* AgentInv holds in every reachable state of the agent.
THEOREM AgentInvariant == Spec => []AgentInv
<1>1. Init => AgentInv
  BY AgentInitial
<1>2. AgentInv /\ [Next]_vars => AgentInv'
  BY AgentStep
<1> QED
  BY <1>1, <1>2, PTL DEF Spec

\* The fields of the agent keep their types and bounds, the queue and the store
\* of finished jobs their capacities among them (cmdqueue.go, cmddedup.go).
THEOREM AgentTypeHolds == Spec => []TypeOK
<1>1. AgentInv => TypeOK
  <2>1. SUFFICES ASSUME AgentType PROVE TypeOK
    BY DEF AgentInv
  <2>2. /\ reader \subseteq Command /\ Cardinality(reader) <= 1
        /\ work \subseteq Task /\ Cardinality(work) <= 1
        /\ checkpoint \subseteq Command /\ Cardinality(checkpoint) <= 1
    BY <2>1, SingleSmall DEF AgentType, Single
  <2> QED
    BY <2>1, <2>2 DEF AgentType, TypeOK
<1> QED
  BY <1>1, AgentInvariant, PTL

\* A command runs again only after the agent lost track of it (cmdqueue.go,
\* cmddedup.go): whatever is redelivered when, however often the process dies.
THEOREM AtMostOnceHolds == Spec => []AtMostOnce
<1>1. AgentInv => AtMostOnce
  BY DEF AgentInv, RunsAccounted, AtMostOnce
<1> QED
  BY <1>1, AgentInvariant, PTL

\* A file deploy that ran has an outcome on disk or at the server once the process
\* is up and not busy with it (executor.go:139-149, selfupdate.go).
THEOREM FileOutcomeKnownHolds == Spec => []FileOutcomeKnown
<1>1. AgentInv => FileOutcomeKnown
  <2>1. SUFFICES ASSUME AgentInv, up, NEW j \in FileJobs, runs[j] > 0, forgotten[j] = 0,
                        \A t \in work : t.job # j
                 PROVE  \E r \in Elements(completed) : r.job = j
    BY DEF FileOutcomeKnown
  <2>2. j \in Jobs /\ runs[j] \in Nat
    BY <2>1, Constants, CountTypes DEF AgentInv
  <2>3. Accounted(j)
    BY <2>1, <2>2 DEF AgentInv, RunsAccounted
  <2>4. ~Marked(j)
    BY <2>1 DEF AgentInv, CheckpointUsed, Marked
  <2> QED
    BY <2>1, <2>3, <2>4 DEF Accounted, Stored
<1> QED
  BY <1>1, AgentInvariant, PTL

\* All results of a job that the server gets are the same result, as long as the
\* agent has not lost track of it (cmdqueue.go:178, cmddedup.go:12).
THEOREM SameAnswerHolds == Spec => []SameAnswer
<1>1. AgentInv => SameAnswer
  <2>1. SUFFICES ASSUME AgentInv, NEW r \in received \cup outbox,
                        NEW s \in received \cup outbox, r.job = s.job,
                        forgotten[r.job] = 0
                 PROVE  r = s
    BY DEF SameAnswer
  <2>2. /\ AgentType /\ SentIsStored /\ OneStored /\ NothingStored
    BY <2>1 DEF AgentInv, Answers
  <2>3. /\ r \in Elements(completed) \/
             (up /\ \E t \in work : t.pc = "record" /\ ResultOf(t) = r)
        /\ s \in Elements(completed) \/
             (up /\ \E t \in work : t.pc = "record" /\ ResultOf(t) = s)
    BY <2>1, <2>2 DEF SentIsStored
  <2>4. \A t \in work : /\ work = {t} /\ (t.pc = "record" => ResultOf(t).job = t.job)
                        /\ up /\ t.pc = "record" => \A x \in Elements(completed) : x.job # t.job
    BY <2>2, AtWork DEF NothingStored, Stored
  <2>5. CASE r \in Elements(completed) /\ s \in Elements(completed)
    BY <2>1, <2>2, <2>5 DEF OneStored
  <2>6. CASE ~(r \in Elements(completed) /\ s \in Elements(completed))
    BY <2>1, <2>3, <2>4, <2>6
  <2> QED
    BY <2>5, <2>6
<1> QED
  BY <1>1, AgentInvariant, PTL
\* No command is queued twice, nor while the worker has it.
LEMMA TakeTracked ==
  ASSUME AgentType, TrackedExactly, TakeCommand
  PROVE  TrackedExactly'
<1>1. /\ up /\ work = {} /\ queue # <<>> /\ queue \in Seq(Command)
      /\ queue' = Tail(queue) /\ active' = active
  BY DEF AgentType, TakeCommand
<1>2. PICK u \in Task : work' = {u} /\ u.job = Head(queue).job
  BY TakeFacts
<1>3. /\ Elements(queue) = {Head(queue)} \cup Elements(queue')
      /\ queue' \in Seq(Command) /\ Len(queue') = Len(queue) - 1 /\ Len(queue) \in Nat
  BY <1>1, ListFacts
<1>4. Head(queue) = queue[1] /\ \A i \in 1..Len(queue') : queue'[i] = queue[i + 1]
  BY <1>1, <1>3
<1>5. /\ active = {c.job : c \in Elements(queue)} \cup {t.job : t \in work}
      /\ \A i, k \in 1..Len(queue) : queue[i].job = queue[k].job => i = k
  BY <1>1 DEF TrackedExactly
<1>6. active' = {c.job : c \in Elements(queue')} \cup {t.job : t \in work'}
  BY <1>1, <1>2, <1>3, <1>5
<1>7. \A i, k \in 1..Len(queue') : queue'[i].job = queue'[k].job => i = k
  <2>1. \A i \in 1..Len(queue') : i + 1 \in 1..Len(queue)
    BY <1>3
  <2> QED
    BY <1>3, <1>4, <1>5, <2>1
<1>8. ASSUME NEW c \in Elements(queue') PROVE c.job # u.job
  <2>1. PICK i \in 1..Len(queue') : c = queue'[i]
    BY DEF Elements
  <2>2. i + 1 \in 1..Len(queue) /\ 1 \in 1..Len(queue) /\ i + 1 # 1
    BY <1>3
  <2> QED
    BY <1>2, <1>4, <1>5, <2>1, <2>2
<1> QED
  BY <1>2, <1>6, <1>7, <1>8 DEF TrackedExactly

\* submitCommand adds a job to cmdActive and to cmdCh, or to neither.
LEMMA EnqueueTracked ==
  ASSUME AgentType, TrackedExactly, NEW c \in Command, Enqueue(c)
  PROVE  TrackedExactly'
<1>1. queue \in Seq(Command) /\ work' = work /\ up' = up
  BY DEF AgentType, Enqueue
<1>2. CASE UNCHANGED <<active, queue>>
  BY <1>1, <1>2 DEF TrackedExactly
<1>3. CASE c.job \notin active /\ active' = active \cup {c.job} /\ queue' = Append(queue, c)
  <2>1. SUFFICES ASSUME up PROVE TrackedExactly'
    BY <1>1 DEF TrackedExactly
  <2>2. /\ active = {d.job : d \in Elements(queue)} \cup {t.job : t \in work}
        /\ \A i, k \in 1..Len(queue) : queue[i].job = queue[k].job => i = k
        /\ \A d \in Elements(queue), t \in work : d.job # t.job
    BY <2>1 DEF TrackedExactly
  <2>3. /\ Len(queue') = Len(queue) + 1 /\ Len(queue) \in Nat
        /\ Elements(queue') = Elements(queue) \cup {c}
        /\ \A i \in 1..Len(queue) : queue[i] \in Elements(queue)
    BY <1>1, <1>3, ListFacts
  <2>4. queue'[Len(queue) + 1] = c /\ \A i \in 1..Len(queue) : queue'[i] = queue[i]
    BY <1>1, <1>3, <2>3
  <2>5. active' = {d.job : d \in Elements(queue')} \cup {t.job : t \in work'}
    BY <1>1, <1>3, <2>2, <2>3
  <2>6. /\ \A d \in Elements(queue) : d.job # c.job
        /\ \A t \in work : t.job # c.job
    BY <1>3, <2>2
  <2>7. ASSUME NEW i \in 1..Len(queue'), NEW k \in 1..Len(queue'),
               queue'[i].job = queue'[k].job
        PROVE  i = k
    <3>1. /\ i \in 1..Len(queue) \/ i = Len(queue) + 1
          /\ k \in 1..Len(queue) \/ k = Len(queue) + 1
      BY <2>3
    <3> QED
      BY <2>2, <2>3, <2>4, <2>6, <2>7, <3>1
  <2>8. \A d \in Elements(queue'), t \in work' : d.job # t.job
    BY <1>1, <2>2, <2>3, <2>6
  <2> QED
    BY <2>5, <2>7, <2>8 DEF TrackedExactly
<1> QED
  BY <1>2, <1>3 DEF Enqueue

\* Every step keeps cmdActive in agreement with the queue and the worker.
LEMMA TrackedStep ==
  ASSUME AgentInv, TrackedExactly, [Next]_vars
  PROVE  TrackedExactly'
<1>0. AgentType /\ StartingUp /\ up \in BOOLEAN
  BY DEF AgentInv, AgentType
<1>1. CASE TakeCommand
  BY <1>0, <1>1, TakeTracked
<1>2. ASSUME ~up, UNCHANGED <<active, queue>>, work' = {} PROVE TrackedExactly'
  <2>1. active' = {} /\ queue' = <<>> /\ work' = {}
    BY <1>0, <1>2 DEF StartingUp
  <2>2. Elements(queue') = {} /\ Len(queue') = 0
    BY <2>1 DEF Elements
  <2> QED
    BY <2>1, <2>2 DEF TrackedExactly
<1>3. CASE BootCheck
  <2>1. ~up /\ work = {} /\ UNCHANGED <<active, queue>> /\ (up' = up \/ work' = {})
    BY <1>3 DEF BootCheck
  <2> QED
    BY <1>2, <2>1 DEF TrackedExactly
<1>4. ASSUME NEW t \in work, TaskStep(t) PROVE TrackedExactly'
  <2>0. work = {t}
    BY <1>0, AtWork
  <2>1. CASE TrackDone(t)
    <3>1. up /\ active' = active \ {t.job} /\ work' = {} /\ queue' = queue
      BY <2>1 DEF TrackDone
    <3> QED
      BY <2>0, <3>1 DEF TrackedExactly
  <2>2. CASE BootDone(t)
    BY <1>2, <2>2 DEF BootDone
  <2>3. ASSUME NEW u \in Task, work' = {u}, u.job = t.job, Moves(t, u)
        PROVE  TrackedExactly'
    <3>1. UNCHANGED <<up, active, queue>>
      <4>1. CASE RecordCompleted(t)
        BY <4>1 DEF RecordCompleted
      <4>2. CASE Recheck(t) \/ Refuse(t) \/ Begin(t) \/ Finish(t)
        BY <4>2 DEF Recheck, Refuse, Begin, Finish
      <4>3. CASE ClearCheckpoint(t) \/ PersistPending(t) \/ SendResult(t)
        BY <4>3 DEF ClearCheckpoint, PersistPending, SendResult
      <4> QED
        BY <2>3, <4>1, <4>2, <4>3 DEF Moves
    <3>2. {x.job : x \in work'} = {x.job : x \in work}
      BY <2>0, <2>3
    <3> QED
      BY <2>0, <2>3, <3>1, <3>2 DEF TrackedExactly
  <2> QED
    BY <1>0, <1>4, <2>1, <2>2, <2>3, TaskGoesOn
<1>5. ASSUME NEW c \in Command, Enqueue(c) PROVE TrackedExactly'
  BY <1>0, <1>5, EnqueueTracked
<1>6. ASSUME UNCHANGED <<up, active, queue, work>> PROVE TrackedExactly'
  BY <1>6 DEF TrackedExactly
<1>7. ASSUME NEW c \in Command, Submit(c) PROVE TrackedExactly'
  BY <1>6, <1>7 DEF Submit
<1>8. ASSUME NEW r \in outbox, ServerReads(r) PROVE TrackedExactly'
  BY <1>6, <1>8 DEF ServerReads
<1>9. ASSUME NEW j \in Jobs, ClearPending(j) \/ ExpiryPasses(j) PROVE TrackedExactly'
  BY <1>6, <1>9 DEF ClearPending, ExpiryPasses
<1>10. CASE Connect \/ Disconnect \/ EntryExpires
  BY <1>6, <1>10 DEF Connect, Disconnect, EntryExpires
<1>11. CASE Crash
  BY <1>11 DEF Crash, TrackedExactly
<1>12. CASE UNCHANGED vars
  BY <1>6, <1>12 DEF vars
<1> QED
  BY <1>1, <1>3, <1>4, <1>5, <1>7, <1>8, <1>9, <1>10, <1>11, <1>12 DEF Next, WorkerStep

\* cmdActive holds exactly the jobs queued or in the worker, each once
\* (cmdqueue.go:73-121).
THEOREM TrackedExactlyHolds == Spec => []TrackedExactly
<1>1. Init => TrackedExactly
  BY DEF Init, TrackedExactly
<1>2. AgentInv /\ TrackedExactly /\ [Next]_vars => TrackedExactly'
  BY TrackedStep
<1> QED
  BY <1>1, <1>2, AgentInvariant, PTL DEF Spec

\* A persisted result stays until the server has received a result of the job or
\* a newer one of the job replaces it (ack.go:63-99).
THEOREM ResultKeptHolds == Spec => ResultKept
<1> DEFINE Kept1 == \A p \in pending \ pending' :
                      \/ \E q \in pending' : q.job = p.job
                      \/ \E r \in received : r.job = p.job
<1>1. ASSUME AgentInv, [Next]_vars PROVE [Kept1]_vars
  <2>1. SUFFICES ASSUME Next PROVE Kept1
    BY <1>1
  <2>2. ASSUME NEW t \in work, TaskStep(t) PROVE Kept1
    <3>1. CASE PersistPending(t)
      <4>1. /\ t.pc = "persist"
            /\ pending' = {r \in pending : r.job # t.job} \cup {ResultOf(t)}
        BY <3>1 DEF PersistPending
      <4>2. ResultOf(t).job = t.job
        BY <1>1, <4>1, AtWork DEF AgentInv
      <4> QED
        BY <4>1, <4>2
    <3>2. CASE Recheck(t) \/ Refuse(t) \/ Begin(t) \/ Finish(t) \/ ClearCheckpoint(t)
      BY <3>2 DEF Recheck, Refuse, Begin, Finish, ClearCheckpoint, files
    <3>3. CASE RecordCompleted(t)
      BY <3>3 DEF RecordCompleted
    <3>4. CASE SendResult(t) \/ TrackDone(t) \/ BootDone(t)
      BY <3>4 DEF SendResult, TrackDone, BootDone, files
    <3> QED
      BY <2>2, <3>1, <3>2, <3>3, <3>4 DEF TaskStep
  <2>3. ASSUME NEW j \in Jobs, ClearPending(j) PROVE Kept1
    <3>1. j \in acks /\ pending' = {r \in pending : r.job # j}
      BY <2>3 DEF ClearPending
    <3>2. \E r \in received : r.job = j
      BY <1>1, <3>1 DEF AgentInv, AckedReceived
    <3> QED
      BY <3>1, <3>2
  <2>4. ASSUME pending' = pending PROVE Kept1
    BY <2>4
  <2>5. CASE TakeCommand \/ BootCheck \/ Connect \/ Disconnect \/ EntryExpires \/ Crash
    BY <2>4, <2>5 DEF TakeCommand, BootCheck, Connect, Disconnect, EntryExpires, Crash, files
  <2>6. ASSUME NEW c \in Command, Submit(c) \/ Enqueue(c) PROVE Kept1
    BY <2>4, <2>6 DEF Submit, Enqueue, files
  <2>7. ASSUME NEW r \in outbox, ServerReads(r) PROVE Kept1
    BY <2>4, <2>7 DEF ServerReads, files
  <2>8. ASSUME NEW j \in Jobs, ExpiryPasses(j) PROVE Kept1
    BY <2>4, <2>8 DEF ExpiryPasses, files
  <2> HIDE DEF Kept1
  <2> QED
    BY <2>1, <2>2, <2>3, <2>5, <2>6, <2>7, <2>8 DEF Next, WorkerStep
<1>2. Spec => [][Kept1]_vars
  BY <1>1, AgentInvariant, PTL DEF Spec
<1> QED
  BY <1>2 DEF ResultKept

-----------------------------------------------------------------------------
(* The way of a command through the agent: reader, queue, worker, stores.    *)
(* What is on its way is kept in the order of its attempts, provided the     *)
(* reader gets each job's attempts in that order; CommandDeliveryProofs      *)
(* shows that the server and the connection see to it.                       *)

Like(x, y)  == x.job = y.job /\ x.attempt = y.attempt
Older(x, y) == x.job = y.job => x.attempt < y.attempt

\* A list holds the commands of each job in the order of their attempts.
OldestFirst(s) == \A i, k \in 1..Len(s) : i < k => Older(s[i], s[k])

\* The task has not begun to run, and may yet.
Ready == {t \in work : t.pc \in {"recheck", "start"}}

\* The commands that may yet run, and everything else that carries an attempt.
Waits == Ready \cup Elements(queue) \cup reader
Spent == outbox \cup pending \cup Elements(completed) \cup checkpoint \cup (work \ Ready)

InOrder ==
  /\ \A x \in Spent : \A y \in Waits : Older(x, y)
  /\ \A x \in Ready : \A y \in Elements(queue) \cup reader : Older(x, y)
  /\ \A x \in Elements(queue), y \in reader : Older(x, y)
  /\ OldestFirst(queue)

\* Appending the newest command keeps a list in order.
LEMMA AppendOlder ==
  ASSUME NEW S, NEW s \in Seq(S), NEW x \in S, OldestFirst(s),
         \A y \in Elements(s) : Older(y, x)
  PROVE  /\ OldestFirst(Append(s, x))
         /\ Elements(Append(s, x)) = Elements(s) \cup {x}
<1> DEFINE r == Append(s, x)
<1>1. /\ Len(s) \in Nat /\ Len(r) = Len(s) + 1 /\ r[Len(s) + 1] = x
      /\ \A i \in 1..Len(s) : r[i] = s[i]
  OBVIOUS
<1>2. \A i \in 1..Len(s) : s[i] \in Elements(s)
  BY DEF Elements
<1> HIDE DEF r
<1>3. \A i \in 1..Len(r) : i \in 1..Len(s) \/ i = Len(s) + 1
  BY <1>1
<1>4. OldestFirst(r)
  <2> SUFFICES ASSUME NEW i \in 1..Len(r), NEW k \in 1..Len(r), i < k
               PROVE  Older(r[i], r[k])
    BY DEF OldestFirst
  <2>1. i \in 1..Len(s)
    BY <1>1, <1>3
  <2>2. CASE k \in 1..Len(s)
    BY <1>1, <2>1, <2>2 DEF OldestFirst
  <2>3. CASE k = Len(s) + 1
    BY <1>1, <1>2, <2>1, <2>3
  <2> QED
    BY <1>3, <2>2, <2>3
<1>5. Elements(r) = Elements(s) \cup {x}
  BY ListFacts DEF r
<1> QED
  BY <1>4, <1>5 DEF r

\* So does taking the oldest.
LEMMA TailOlder ==
  ASSUME NEW S, NEW s \in Seq(S), s # <<>>, OldestFirst(s)
  PROVE  /\ OldestFirst(Tail(s)) /\ Elements(Tail(s)) \subseteq Elements(s)
         /\ Head(s) \in Elements(s)
         /\ \A y \in Elements(Tail(s)) : Older(Head(s), y)
<1> DEFINE r == Tail(s)
<1>1. /\ Len(s) \in Nat /\ Len(s) >= 1 /\ Len(r) = Len(s) - 1 /\ Head(s) = s[1]
      /\ \A i \in 1..Len(r) : r[i] = s[i + 1]
  OBVIOUS
<1> HIDE DEF r
<1>2. \A i \in 1..Len(r) : i + 1 \in 1..Len(s) /\ 1 < i + 1
  BY <1>1
<1>3. 1 \in 1..Len(s)
  BY <1>1
<1>4. OldestFirst(r)
  <2> SUFFICES ASSUME NEW i \in 1..Len(r), NEW k \in 1..Len(r), i < k
               PROVE  Older(r[i], r[k])
    BY DEF OldestFirst
  <2>1. i + 1 < k + 1 /\ i + 1 \in 1..Len(s) /\ k + 1 \in 1..Len(s)
    BY <1>1, <1>2
  <2> QED
    BY <1>1, <2>1 DEF OldestFirst
<1>5. \A i \in 1..Len(r) : r[i] \in Elements(s) /\ Older(s[1], r[i])
  BY <1>1, <1>2, <1>3 DEF OldestFirst, Elements
<1>6. \A y \in Elements(r) : y \in Elements(s) /\ Older(s[1], y)
  BY <1>5 DEF Elements
<1> QED
  BY <1>1, <1>3, <1>4, <1>6 DEF r, Elements

\* The empty list is in order.
LEMMA EmptyInOrder == OldestFirst(<<>>) /\ Elements(<<>>) = {}
BY DEF OldestFirst, Elements

\* The worker stays with its command, attempt number included.
LEMMA TaskAttempt ==
  ASSUME AgentType, NEW t \in work, TaskStep(t)
  PROVE  /\ \A u \in work' : Like(u, t)
         /\ \A u \in work' : u.pc \in {"recheck", "start"} => Recheck(t)
         /\ reader' = reader /\ queue' = queue
<1>1. t \in Task
  BY AtWork
<1>2. reader' = reader /\ queue' = queue
  BY DEF TaskStep, Recheck, Refuse, Begin, Finish, ClearCheckpoint, PersistPending,
         RecordCompleted, SendResult, TrackDone, BootDone
<1>3. CASE Recheck(t)
  <2>1. ASSUME NEW u \in work' PROVE Like(u, t)
    <3>1. \/ u = [t EXCEPT !.pc = "done"] \/ u = [t EXCEPT !.pc = "start"]
          \/ u = [t EXCEPT !.pc = "persist", !.status = "expired"]
      BY <1>3, <2>1 DEF Recheck, Goto
    <3> QED
      BY <1>1, <3>1 DEF Task, Like
  <2> QED
    BY <1>2, <1>3, <2>1
<1>4. CASE Refuse(t)
  <2>1. ASSUME NEW u \in work' PROVE Like(u, t) /\ u.pc = "persist"
    <3>1. u = [t EXCEPT !.pc = "persist", !.status = "error"]
      BY <1>4, <2>1 DEF Refuse
    <3> QED
      BY <1>1, <3>1 DEF Task, Like
  <2> QED
    BY <1>2, <2>1
<1>5. CASE Begin(t)
  <2>1. ASSUME NEW u \in work' PROVE Like(u, t) /\ u.pc = "run"
    <3>1. u = [t EXCEPT !.pc = "run", !.run = runs[t.job] + 1]
      BY <1>5, <2>1 DEF Begin
    <3> QED
      BY <1>1, <3>1 DEF Task, Like
  <2> QED
    BY <1>2, <2>1
<1>6. CASE Finish(t)
  <2>1. ASSUME NEW u \in work' PROVE Like(u, t) /\ u.pc \in {"clear", "persist"}
    <3>1. PICK st : u = [t EXCEPT !.status = st,
                            !.pc = IF t.job \in FileJobs THEN "clear" ELSE "persist"]
      BY <1>6, <2>1 DEF Finish
    <3> QED
      BY <1>1, <3>1 DEF Task, Like
  <2> QED
    BY <1>2, <2>1
<1>7. CASE ClearCheckpoint(t) \/ PersistPending(t) \/ RecordCompleted(t) \/ SendResult(t)
  <2>1. ASSUME NEW u \in work'
        PROVE  Like(u, t) /\ u.pc \in {"persist", "record", "send", "done"}
    <3>1. \E p \in {"persist", "record", "send", "done"} : u = [t EXCEPT !.pc = p]
      BY <1>7, <2>1 DEF ClearCheckpoint, PersistPending, RecordCompleted, SendResult, Goto
    <3> QED
      BY <1>1, <3>1 DEF Task, Like
  <2> QED
    BY <1>2, <2>1
<1>8. CASE TrackDone(t) \/ BootDone(t)
  BY <1>2, <1>8 DEF TrackDone, BootDone
<1> QED
  BY <1>3, <1>4, <1>5, <1>6, <1>7, <1>8 DEF TaskStep

Stores == outbox \cup pending \cup Elements(completed) \cup checkpoint

\* What the worker puts into the stores or on the connection was there before, or
\* is about its own command.
LEMMA TaskStores ==
  ASSUME AgentType, NEW t \in work, TaskStep(t)
  PROVE  \A x \in Stores' : x \in Stores \/ Like(x, t)
<1>1. \A j : Stored(j) \subseteq Elements(completed)
  BY DEF Stored
<1>2. Like(ResultOf(t), t)
  BY DEF ResultOf, Like
<1>3. \A R : WsSend(R) => outbox' \subseteq outbox \cup R
  BY DEF WsSend
<1>4. CASE Recheck(t)
  BY <1>1, <1>3, <1>4 DEF Recheck, files, Stores
<1>5. CASE Refuse(t) \/ Finish(t) \/ TrackDone(t)
  BY <1>5 DEF Refuse, Finish, TrackDone, files, world, Stores
<1>6. CASE Begin(t)
  <2>1. Like([job |-> t.job, attempt |-> t.attempt], t)
    BY DEF Like
  <2> QED
    BY <1>6, <2>1 DEF Begin, world, Stores
<1>7. CASE ClearCheckpoint(t) \/ BootDone(t)
  BY <1>7 DEF ClearCheckpoint, BootDone, world, Stores
<1>8. CASE PersistPending(t)
  BY <1>2, <1>8 DEF PersistPending, world, Stores
<1>9. CASE RecordCompleted(t)
  <2>1. \A r \in Elements(completed') : r = ResultOf(t) \/ r \in Elements(completed)
    BY <1>9, RecordFacts DEF RecordCompleted
  <2> QED
    BY <1>2, <1>9, <2>1 DEF RecordCompleted, world, Stores
<1>10. CASE SendResult(t)
  BY <1>2, <1>3, <1>10 DEF SendResult, files, Stores
<1> QED
  BY <1>4, <1>5, <1>6, <1>7, <1>8, <1>9, <1>10 DEF TaskStep

\* Nothing new appears, and what was ready to run is spent before it shows up in
\* the stores.
Quiet ==
  /\ reader' \subseteq reader /\ (queue' = queue \/ queue' = <<>>)
  /\ \A x \in Ready' : \E y \in Ready : Like(x, y)
  /\ \A x \in Spent' : \/ \E y \in Spent : Like(x, y)
                       \/ Ready' = {} /\ \E y \in Ready : Like(x, y)

\* The worker's steps are of this kind,
LEMMA TaskQuiet ==
  ASSUME AgentType, NEW t \in work, TaskStep(t)
  PROVE  Quiet
<1>1. work = {t}
  BY AtWork
<1>2. /\ \A u \in work' : Like(u, t)
      /\ \A u \in work' : u.pc \in {"recheck", "start"} => Recheck(t)
      /\ reader' = reader /\ queue' = queue
  BY TaskAttempt
<1>3. \A x \in Stores' : x \in Stores \/ Like(x, t)
  BY TaskStores
<1>4. \A x : Like(x, x)
  BY DEF Like
<1>5. CASE t \notin Ready
  <2>1. ~Recheck(t)
    BY <1>5 DEF Ready, Recheck
  <2>2. Ready' = {} /\ t \in Spent /\ Stores \subseteq Spent
    BY <1>2, <1>5, <2>1 DEF Ready, Spent, Stores
  <2>3. \A x \in Spent' : x \in Stores' \/ x \in work'
    BY DEF Spent, Stores
  <2> QED
    BY <1>2, <1>3, <1>4, <2>2, <2>3 DEF Quiet
<1>6. CASE t \in Ready /\ Ready' = {}
  <2>1. Stores \subseteq Spent
    BY DEF Spent, Stores
  <2>2. \A x \in Spent' : x \in Stores' \/ x \in work'
    BY DEF Spent, Stores
  <2> QED
    BY <1>2, <1>3, <1>4, <1>6, <2>1, <2>2 DEF Quiet
<1>7. CASE t \in Ready /\ Ready' # {}
  <2>1. PICK u \in work' : u.pc \in {"recheck", "start"}
    BY <1>7 DEF Ready
  <2>2. Recheck(t)
    BY <1>2, <2>1
  <2>3. work' = {u}
    BY <2>1, <2>2 DEF Recheck, Goto
  <2>4. Stores' \subseteq Stores
    BY <2>2 DEF Recheck, Stores, files, WsSend, Stored
  <2>5. Ready' \subseteq work' /\ work' \ Ready' = {}
    BY <2>1, <2>3 DEF Ready
  <2>6. Spent' \subseteq Spent
    BY <2>4, <2>5 DEF Spent, Stores
  <2> QED
    BY <1>2, <1>4, <1>7, <2>5, <2>6 DEF Quiet
<1> QED
  BY <1>5, <1>6, <1>7

\* and so is any step that leaves the worker, or ends it, and moves what is stored
\* from store to store;
LEMMA StoresQuiet ==
  ASSUME reader' \subseteq reader, queue' = queue \/ queue' = <<>>,
         work' = work \/ work' = {}, Stores' \subseteq Stores
  PROVE  Quiet
<1>1. \A x : Like(x, x)
  BY DEF Like
<1>2. Ready' \subseteq Ready
  BY DEF Ready
<1>3. Spent' \subseteq Spent
  BY DEF Spent, Stores, Ready
<1> QED
  BY <1>1, <1>2, <1>3 DEF Quiet

\* the startup check takes up the command of the checkpoint, which has run.
LEMMA BootQuiet ==
  ASSUME AgentType, BootCheck
  PROVE  Quiet
<1>1. reader' = reader /\ queue' = queue /\ work = {} /\ Stores' = Stores
  BY DEF BootCheck, files, world, Stores
<1>2. CASE work' = {}
  BY <1>1, <1>2, StoresQuiet
<1>3. CASE \E c \in checkpoint, st \in {"success", "error"} :
             work' = {[pc |-> "persist", job |-> c.job, attempt |-> c.attempt,
                       status |-> st, run |-> runs[c.job]]}
  <2>1. PICK c \in checkpoint, st \in {"success", "error"} :
             work' = {[pc |-> "persist", job |-> c.job, attempt |-> c.attempt,
                       status |-> st, run |-> runs[c.job]]}
    BY <1>3
  <2>2. \A u \in work' : u.pc = "persist" /\ Like(u, c)
    BY <2>1 DEF Like
  <2>3. Ready' = {}
    BY <2>2 DEF Ready
  <2>4. c \in Spent /\ Stores \subseteq Spent
    BY <2>1 DEF Spent, Stores
  <2>5. \A x \in Spent' : x \in Stores' \/ x \in work'
    BY DEF Spent, Stores
  <2>6. \A x : Like(x, x)
    BY DEF Like
  <2> QED
    BY <1>1, <2>2, <2>3, <2>4, <2>5, <2>6 DEF Quiet
<1> QED
  BY <1>1, <1>2, <1>3 DEF BootCheck

\* The other steps: the reader gets a command, puts it into the queue, or the worker
\* takes the first one.
Reads(c)    == reader = {} /\ reader' = {c} /\ UNCHANGED <<queue, Ready, Spent>>
Enqueues(c) == /\ c \in reader /\ reader' = {} /\ queue' = Append(queue, c)
               /\ UNCHANGED <<Ready, Spent>>
Takes       == /\ queue # <<>> /\ Ready = {} /\ reader' = reader /\ queue' = Tail(queue)
               /\ Spent' = Spent /\ \A x \in Ready' : Like(x, Head(queue))

\* Every step of the agent is one of these.
LEMMA FlowStep ==
  ASSUME AgentType, [Next]_vars
  PROVE  Quiet \/ Takes \/ (\E c \in Command : Reads(c)) \/ (\E c \in reader : Enqueues(c))
<1>1. CASE TakeCommand
  <2>1. /\ work = {} /\ queue # <<>> /\ queue' = Tail(queue) /\ reader' = reader
        /\ UNCHANGED <<outbox, pending, completed, checkpoint>>
        /\ work' = {[pc |-> "recheck", job |-> Head(queue).job,
                     attempt |-> Head(queue).attempt, status |-> "none", run |-> 0]}
    BY <1>1 DEF TakeCommand, files, world
  <2>2. \A u \in work' : u.pc = "recheck" /\ Like(u, Head(queue))
    BY <2>1 DEF Like
  <2>3. Ready = {} /\ work \ Ready = {} /\ Ready' = work' /\ work' \ Ready' = {}
    BY <2>1, <2>2 DEF Ready
  <2>4. Spent' = Spent
    BY <2>1, <2>3 DEF Spent
  <2> QED
    BY <2>1, <2>2, <2>3, <2>4 DEF Takes
<1>2. CASE BootCheck
  BY <1>2, BootQuiet
<1>3. CASE \E t \in work : TaskStep(t)
  BY <1>3, TaskQuiet
<1>4. ASSUME NEW c \in Command, Submit(c) PROVE Quiet \/ Reads(c)
  <2>1. UNCHANGED <<queue, work, pending, completed, checkpoint>> /\ reader = {}
    BY <1>4 DEF Submit, files
  <2>2. CASE reader' = reader /\ WsSend(Stored(c.job))
    <3>1. Stores' \subseteq Stores
      BY <2>1, <2>2 DEF WsSend, Stored, Stores
    <3> QED
      BY <2>1, <2>2, <3>1, StoresQuiet
  <2>3. CASE reader' = {c} /\ UNCHANGED outbox
    BY <2>1, <2>3 DEF Reads, Ready, Spent
  <2> QED
    BY <1>4, <2>2, <2>3 DEF Submit
<1>5. ASSUME NEW c \in Command, Enqueue(c) PROVE Quiet \/ Enqueues(c)
  <2>1. c \in reader /\ reader' = {} /\ UNCHANGED <<work, outbox, pending, completed, checkpoint>>
    BY <1>5 DEF Enqueue, files, world
  <2>2. Stores' = Stores
    BY <2>1 DEF Stores
  <2>3. CASE queue' = queue
    BY <2>1, <2>2, <2>3, StoresQuiet
  <2>4. CASE queue' = Append(queue, c)
    BY <2>1, <2>4 DEF Enqueues, Ready, Spent
  <2> QED
    BY <1>5, <2>3, <2>4 DEF Enqueue
<1>6. ASSUME NEW r \in outbox, ServerReads(r) PROVE Quiet
  BY <1>6, StoresQuiet DEF ServerReads, files, Stores
<1>7. ASSUME NEW j \in Jobs, ClearPending(j) \/ ExpiryPasses(j) PROVE Quiet
  BY <1>7, StoresQuiet DEF ClearPending, ExpiryPasses, files, world, Stores
<1>8. CASE Connect \/ Disconnect
  BY <1>8, StoresQuiet DEF Connect, Disconnect, files, Stores
<1>9. CASE EntryExpires
  <2>1. completed \in Seq(Result) /\ completed # <<>> /\ completed' = Tail(completed)
    BY <1>9 DEF EntryExpires, AgentType
  <2>2. Elements(completed') \subseteq Elements(completed)
    BY <2>1, ListFacts
  <2> QED
    BY <1>9, <2>2, StoresQuiet DEF EntryExpires, world, Stores
<1>10. CASE Crash
  BY <1>10, StoresQuiet DEF Crash, files, Stores
<1>11. CASE UNCHANGED vars
  BY <1>11, StoresQuiet DEF vars, files, world, Stores
<1>12. CASE \E c \in Command : Submit(c)
  BY <1>4, <1>12
<1>13. CASE \E c \in Command : Enqueue(c)
  BY <1>5, <1>13 DEF Enqueue
<1>14. CASE WorkerStep
  BY <1>1, <1>2, <1>3, <1>14 DEF WorkerStep
<1> QED
  BY <1>6, <1>7, <1>8, <1>9, <1>10, <1>11, <1>12, <1>13, <1>14 DEF Next

\* Only the job and the attempt count for the order.
LEMMA LikeOlder ==
  ASSUME NEW x, NEW y, NEW z, Like(x, y)
  PROVE  /\ Older(y, z) => Older(x, z)
         /\ Older(z, y) => Older(z, x)
         /\ Like(y, x) /\ (Like(y, z) => Like(x, z))
BY DEF Like, Older

\* What the agent holds was there before or has just been read from the connection.
Carried == Spent \cup Waits
HeldBefore ==
  /\ \A x \in Carried' : (\E y \in Carried : Like(x, y)) \/ x \in reader' \ reader
  /\ \A x \in Waits' : (\E y \in Waits : Like(x, y)) \/ x \in reader' \ reader

\* Nothing the agent holds comes from anywhere but the connection.
LEMMA HeldStep ==
  ASSUME AgentType, [Next]_vars
  PROVE  HeldBefore
<1>1. \A x : Like(x, x)
  BY DEF Like
<1>2. queue \in Seq(Command)
  BY DEF AgentType
<1>3. CASE Quiet
  <2>1. /\ Elements(queue') \subseteq Elements(queue)
        /\ reader' \subseteq reader
        /\ \A x \in Ready' : \E y \in Ready : Like(x, y)
    BY <1>3, EmptyInOrder DEF Quiet
  <2>2. \A x \in Waits' : \E y \in Waits : Like(x, y)
    BY <1>1, <2>1 DEF Waits
  <2>3. \A x \in Spent' : \E y \in Carried : Like(x, y)
    BY <1>3 DEF Quiet, Carried, Waits
  <2> QED
    BY <2>2, <2>3 DEF HeldBefore, Carried
<1>4. ASSUME NEW c \in Command, Reads(c) PROVE HeldBefore
  <2>1. reader = {} /\ reader' = {c} /\ queue' = queue /\ Ready' = Ready /\ Spent' = Spent
    BY <1>4 DEF Reads
  <2>2. Waits' = Waits \cup {c}
    BY <2>1 DEF Waits
  <2>3. Carried' = Carried \cup {c}
    BY <2>1, <2>2 DEF Carried
  <2> QED
    BY <1>1, <2>1, <2>2, <2>3 DEF HeldBefore
<1>5. ASSUME NEW c \in reader, Enqueues(c) PROVE HeldBefore
  <2>1. /\ reader' = {} /\ queue' = Append(queue, c) /\ Ready' = Ready /\ Spent' = Spent
        /\ c \in Command
    BY <1>5 DEF Enqueues, AgentType, Single
  <2>2. Elements(queue') = Elements(queue) \cup {c}
    BY <1>2, <2>1, ListFacts
  <2>3. Waits' \subseteq Waits /\ Carried' \subseteq Carried
    BY <2>1, <2>2 DEF Waits, Carried
  <2> QED
    BY <1>1, <2>3 DEF HeldBefore
<1>6. CASE Takes
  <2>1. /\ queue # <<>> /\ reader' = reader /\ queue' = Tail(queue)
        /\ Spent' = Spent /\ \A x \in Ready' : Like(x, Head(queue))
    BY <1>6 DEF Takes
  <2>2. Elements(queue') \subseteq Elements(queue) /\ Head(queue) \in Elements(queue)
    BY <1>2, <2>1, ListFacts
  <2>3. \A x \in Waits' : \E y \in Waits : Like(x, y)
    BY <1>1, <2>1, <2>2 DEF Waits
  <2>4. \A x \in Spent' : \E y \in Carried : Like(x, y)
    BY <1>1, <2>1 DEF Carried
  <2> QED
    BY <2>3, <2>4 DEF HeldBefore, Carried
<1> QED
  BY <1>3, <1>4, <1>5, <1>6, FlowStep

\* The agent keeps the order of attempts, step by step, if what the reader gets is
\* newer than everything the agent holds: the queue is first in, first out, the
\* worker is alone, and a result is stored only for a command that has left both
\* (submitCommand, processCommand, checkSelfUpdateCheckpoint).
LEMMA OrderStep ==
  ASSUME AgentType, InOrder, [Next]_vars,
         \A c \in reader' \ reader : \A x \in Carried : Older(x, c)
  PROVE  InOrder'
<1>1. \A x : Like(x, x)
  BY DEF Like
<1>2. queue \in Seq(Command)
  BY DEF AgentType
<1>3. CASE Quiet
  <2>1. /\ Elements(queue') \subseteq Elements(queue) /\ OldestFirst(queue')
        /\ reader' \subseteq reader
    BY <1>3, EmptyInOrder DEF Quiet, InOrder
  <2>2. \A x \in Ready' : \E y \in Ready : Like(x, y)
    BY <1>3 DEF Quiet
  <2>3. ASSUME NEW x \in Spent', NEW y \in Waits' PROVE Older(x, y)
    <3>1. PICK z \in Waits : Like(y, z) /\ (y \in Ready' \/ z \in Elements(queue) \cup reader)
      BY <1>1, <2>1, <2>2, <2>3 DEF Waits
    <3>2. CASE \E w \in Spent : Like(x, w)
      <4>1. PICK w \in Spent : Like(x, w)
        BY <3>2
      <4>2. Older(w, z)
        BY <3>1, <4>1 DEF InOrder
      <4> QED
        BY <3>1, <4>1, <4>2, LikeOlder
    <3>3. CASE Ready' = {} /\ \E w \in Ready : Like(x, w)
      <4>1. PICK w \in Ready : Like(x, w)
        BY <3>3
      <4>2. Older(w, z)
        BY <3>1, <3>3, <4>1 DEF InOrder
      <4> QED
        BY <3>1, <4>1, <4>2, LikeOlder
    <3> QED
      BY <1>3, <2>3, <3>2, <3>3 DEF Quiet
  <2>4. ASSUME NEW x \in Ready', NEW y \in Elements(queue') \cup reader' PROVE Older(x, y)
    <3>1. PICK z \in Ready : Like(x, z)
      BY <2>2, <2>4
    <3>2. Older(z, y)
      BY <2>1, <2>4, <3>1 DEF InOrder
    <3> QED
      BY <3>1, <3>2, LikeOlder
  <2> QED
    BY <2>1, <2>3, <2>4 DEF InOrder
<1>4. ASSUME NEW c \in Command, Reads(c) PROVE InOrder'
  <2>1. reader = {} /\ reader' = {c} /\ queue' = queue /\ Ready' = Ready /\ Spent' = Spent
    BY <1>4 DEF Reads
  <2>2. \A x \in Carried : Older(x, c)
    BY <2>1
  <2>3. Waits' = Waits \cup {c}
    BY <2>1 DEF Waits
  <2> QED
    BY <2>1, <2>2, <2>3 DEF InOrder, Carried, Waits
<1>5. ASSUME NEW c \in reader, Enqueues(c) PROVE InOrder'
  <2>1. /\ reader' = {} /\ queue' = Append(queue, c) /\ Ready' = Ready /\ Spent' = Spent
        /\ c \in Command
    BY <1>5 DEF Enqueues, AgentType, Single
  <2>2. \A y \in Elements(queue) : Older(y, c)
    BY <1>5 DEF InOrder
  <2>3. OldestFirst(queue') /\ Elements(queue') = Elements(queue) \cup {c}
    BY <1>2, <2>1, <2>2, AppendOlder DEF InOrder
  <2>4. Waits' \subseteq Waits
    BY <2>1, <2>3 DEF Waits
  <2> QED
    BY <2>1, <2>3, <2>4 DEF InOrder
<1>6. CASE Takes
  <2>1. /\ queue # <<>> /\ reader' = reader /\ queue' = Tail(queue)
        /\ Spent' = Spent /\ \A x \in Ready' : Like(x, Head(queue))
    BY <1>6 DEF Takes
  <2>2. /\ OldestFirst(queue') /\ Elements(queue') \subseteq Elements(queue)
        /\ Head(queue) \in Elements(queue)
        /\ \A y \in Elements(queue') : Older(Head(queue), y)
    BY <1>2, <2>1, TailOlder DEF InOrder
  <2>3. \A x \in Waits' : \E y \in Waits : Like(x, y)
    BY <1>1, <2>1, <2>2 DEF Waits
  <2>4. \A y \in reader' : Older(Head(queue), y)
    BY <2>1, <2>2 DEF InOrder
  <2>5. \A x \in Ready' : \A y \in Elements(queue') \cup reader' : Older(x, y)
    BY <2>1, <2>2, <2>4, LikeOlder
  <2>6. \A x \in Spent' : \A y \in Waits' : Older(x, y)
    <3> SUFFICES ASSUME NEW x \in Spent', NEW y \in Waits' PROVE Older(x, y)
      OBVIOUS
    <3>1. PICK z \in Waits : Like(y, z)
      BY <2>3
    <3>2. Older(x, z)
      BY <2>1, <3>1 DEF InOrder
    <3> QED
      BY <3>1, <3>2, LikeOlder
  <2> QED
    BY <2>1, <2>2, <2>5, <2>6 DEF InOrder
<1> QED
  BY <1>3, <1>4, <1>5, <1>6, FlowStep

\* A command of which the agent holds nothing ready to run is not started.
LEMMA RunsOnlyReady ==
  ASSUME AgentType, [Next]_vars, NEW j \in Jobs
  PROVE  runs'[j] = runs[j] \/ \E t \in Ready : t.job = j
<1> USE DEF files, world, counts
<1>1. ASSUME NEW t \in work, TaskStep(t) PROVE runs'[j] = runs[j] \/ (t \in Ready /\ t.job = j)
  <2>1. CASE Begin(t)
    <3>1. t \in Ready /\ runs' = [runs EXCEPT ![t.job] = @ + 1]
      BY <2>1 DEF Begin, Ready
    <3>2. t.job # j => runs'[j] = runs[j]
      BY <3>1 DEF AgentType
    <3> QED
      BY <3>1, <3>2
  <2>2. CASE ~Begin(t)
    <3>1. runs' = runs
      BY <1>1, <2>2 DEF TaskStep, Recheck, Refuse, Finish, ClearCheckpoint, PersistPending,
         RecordCompleted, SendResult, TrackDone, BootDone
    <3> QED
      BY <3>1
  <2> QED
    BY <2>1, <2>2
<1>2. CASE WorkerStep
  BY <1>1, <1>2 DEF WorkerStep, TakeCommand, BootCheck
<1>3. CASE \/ \E c \in Command : Submit(c) \/ Enqueue(c)
           \/ \E r \in outbox : ServerReads(r)
           \/ \E i \in Jobs : ClearPending(i) \/ ExpiryPasses(i)
  BY <1>3 DEF Submit, Enqueue, ServerReads, ClearPending, ExpiryPasses
<1>4. CASE Connect \/ Disconnect \/ EntryExpires \/ Crash \/ UNCHANGED vars
  BY <1>4 DEF Connect, Disconnect, EntryExpires, Crash, vars
<1> QED
  BY <1>2, <1>3, <1>4 DEF Next

-----------------------------------------------------------------------------
(* Results that say "expired".                                               *)

Reported == outbox \cup pending \cup Elements(completed) \cup received

\* A result says "expired" only when the expire_at of its job has passed: the
\* handler reports another status, and so does the startup check.
ExpiredHasPassed == \A x \in Reported : x.status = "expired" => x.job \in past

ExpiredInv ==
  ExpiredHasPassed /\ \A t \in work : t.status = "expired" => t.job \in past

\* What the worker stores or sends is known already or is its own result.
LEMMA TaskReports ==
  ASSUME AgentType, NEW t \in work, TaskStep(t)
  PROVE  \A x \in Reported' : x \in Reported \/ x = ResultOf(t)
<1>1. \A j : Stored(j) \subseteq Elements(completed)
  BY DEF Stored
<1>2. \A R : WsSend(R) => outbox' \subseteq outbox \cup R
  BY DEF WsSend
<1>3. CASE Recheck(t) \/ SendResult(t)
  BY <1>1, <1>2, <1>3 DEF Recheck, SendResult, files, Reported
<1>4. CASE \/ Refuse(t) \/ Begin(t) \/ Finish(t) \/ ClearCheckpoint(t) \/ TrackDone(t)
           \/ BootDone(t)
  BY <1>4 DEF Refuse, Begin, Finish, ClearCheckpoint, TrackDone, BootDone, files, world,
              Reported
<1>5. CASE PersistPending(t)
  BY <1>5 DEF PersistPending, world, Reported
<1>6. CASE RecordCompleted(t)
  <2>1. \A r \in Elements(completed') : r = ResultOf(t) \/ r \in Elements(completed)
    BY <1>6, RecordFacts DEF RecordCompleted
  <2> QED
    BY <1>6, <2>1 DEF RecordCompleted, world, Reported
<1> QED
  BY <1>3, <1>4, <1>5, <1>6 DEF TaskStep

\* The worker takes the status "expired" in Recheck alone.
LEMMA TaskExpired ==
  ASSUME AgentType, NEW t \in work, TaskStep(t)
  PROVE  /\ past' = past
         /\ \A u \in work' : u.status = "expired" =>
              u.job = t.job /\ (t.status = "expired" \/ t.job \in past)
<1>1. t \in Task
  BY AtWork
<1>2. past' = past
  BY DEF TaskStep, Recheck, Refuse, Begin, Finish, ClearCheckpoint, PersistPending,
         RecordCompleted, SendResult, TrackDone, BootDone, world
<1> SUFFICES ASSUME NEW u \in work', u.status = "expired"
             PROVE  u.job = t.job /\ (t.status = "expired" \/ t.job \in past)
  BY <1>2
<1>3. CASE Recheck(t)
  <2>1. \/ u = [t EXCEPT !.pc = "done"] \/ u = [t EXCEPT !.pc = "start"]
        \/ u = [t EXCEPT !.pc = "persist", !.status = "expired"] /\ t.job \in past
    BY <1>3 DEF Recheck, Goto
  <2> QED
    BY <1>1, <2>1 DEF Task
<1>4. CASE Refuse(t)
  <2>1. u = [t EXCEPT !.pc = "persist", !.status = "error"]
    BY <1>4 DEF Refuse
  <2> QED
    BY <1>1, <2>1 DEF Task
<1>5. CASE Begin(t)
  <2>1. u = [t EXCEPT !.pc = "run", !.run = runs[t.job] + 1]
    BY <1>5 DEF Begin
  <2> QED
    BY <1>1, <2>1 DEF Task
<1>6. CASE Finish(t)
  <2>1. PICK st \in Outcomes : u = [t EXCEPT !.status = st,
                          !.pc = IF t.job \in FileJobs THEN "clear" ELSE "persist"]
    BY <1>6 DEF Finish
  <2>2. st # "expired"
    BY AgentAssumptions
  <2> QED
    BY <1>1, <2>1, <2>2 DEF Task
<1>7. CASE ClearCheckpoint(t) \/ PersistPending(t) \/ RecordCompleted(t) \/ SendResult(t)
  <2>1. \E p \in {"persist", "record", "send", "done"} : u = [t EXCEPT !.pc = p]
    BY <1>7 DEF ClearCheckpoint, PersistPending, RecordCompleted, SendResult, Goto
  <2> QED
    BY <1>1, <2>1 DEF Task
<1>8. CASE TrackDone(t) \/ BootDone(t)
  BY <1>8 DEF TrackDone, BootDone
<1> QED
  BY <1>3, <1>4, <1>5, <1>6, <1>7, <1>8 DEF TaskStep

\* Every step of the agent keeps this.
LEMMA ExpiredStep ==
  ASSUME AgentType, ExpiredInv, [Next]_vars
  PROVE  ExpiredInv'
<1>1. ASSUME NEW t \in work, TaskStep(t) PROVE ExpiredInv'
  <2>1. /\ past' = past
        /\ \A u \in work' : u.status = "expired" =>
             u.job = t.job /\ (t.status = "expired" \/ t.job \in past)
    BY <1>1, TaskExpired
  <2>2. \A x \in Reported' : x \in Reported \/ x = ResultOf(t)
    BY <1>1, TaskReports
  <2>3. ResultOf(t).status = t.status /\ ResultOf(t).job = t.job
    BY DEF ResultOf
  <2> QED
    BY <2>1, <2>2, <2>3 DEF ExpiredInv, ExpiredHasPassed
<1>2. ASSUME past \subseteq past', Reported' \subseteq Reported,
             \A u \in work' : u \in work \/ u.status # "expired"
      PROVE  ExpiredInv'
  BY <1>2 DEF ExpiredInv, ExpiredHasPassed
<1>3. CASE TakeCommand \/ BootCheck
  <2>1. \A u \in work' : u \in work \/ u.status # "expired"
    BY <1>3 DEF TakeCommand, BootCheck
  <2>2. past' = past /\ Reported' = Reported
    BY <1>3 DEF TakeCommand, BootCheck, files, world, Reported
  <2> QED
    BY <1>2, <2>1, <2>2
<1>4. ASSUME NEW c \in Command, Submit(c) PROVE ExpiredInv'
  <2>1. past' = past /\ work' = work
    BY <1>4 DEF Submit
  <2>2. Reported' \subseteq Reported
    BY <1>4 DEF Submit, WsSend, Stored, files, Reported
  <2> QED
    BY <1>2, <2>1, <2>2
<1>5. ASSUME NEW c \in Command, Enqueue(c) PROVE ExpiredInv'
  BY <1>2, <1>5 DEF Enqueue, files, world, Reported
<1>6. ASSUME NEW r \in outbox, ServerReads(r) PROVE ExpiredInv'
  <2>1. past' = past /\ work' = work
    BY <1>6 DEF ServerReads
  <2>2. Reported' \subseteq Reported
    BY <1>6 DEF ServerReads, files, Reported
  <2> QED
    BY <1>2, <2>1, <2>2
<1>7. ASSUME NEW j \in Jobs, ClearPending(j) \/ ExpiryPasses(j) PROVE ExpiredInv'
  <2>1. past \subseteq past' /\ work' = work
    BY <1>7 DEF ClearPending, ExpiryPasses, world
  <2>2. Reported' \subseteq Reported
    BY <1>7 DEF ClearPending, ExpiryPasses, files, world, Reported
  <2> QED
    BY <1>2, <2>1, <2>2
<1>8. CASE Connect \/ Disconnect
  BY <1>2, <1>8 DEF Connect, Disconnect, files, Reported
<1>9. CASE EntryExpires
  <2>1. completed \in Seq(Result) /\ completed # <<>> /\ completed' = Tail(completed)
    BY <1>9 DEF EntryExpires, AgentType
  <2>2. Elements(completed') \subseteq Elements(completed)
    BY <2>1, ListFacts
  <2> QED
    BY <1>2, <1>9, <2>2 DEF EntryExpires, world, Reported
<1>10. CASE Crash
  BY <1>2, <1>10 DEF Crash, files, Reported
<1>11. CASE UNCHANGED vars
  BY <1>2, <1>11 DEF vars, files, world, Reported
<1>12. CASE WorkerStep
  BY <1>1, <1>3, <1>12 DEF WorkerStep
<1> QED
  BY <1>4, <1>5, <1>6, <1>7, <1>8, <1>9, <1>10, <1>11, <1>12 DEF Next

\* At the start nothing was reported.
LEMMA ExpiredInitial ==
  ASSUME Init
  PROVE  ExpiredInv
BY EmptyInOrder DEF Init, ExpiredInv, ExpiredHasPassed, Reported

\* The server is told that a command has expired only if its expire_at has passed,
\* whatever was redelivered, answered from completed_jobs.json or reported by the
\* startup check (cmdqueue.go, selfupdate.go).
THEOREM ExpiredHasPassedHolds == Spec => []ExpiredHasPassed
<1>1. Init => ExpiredInv
  BY ExpiredInitial
<1>2. AgentInv /\ ExpiredInv /\ [Next]_vars => ExpiredInv'
  BY ExpiredStep DEF AgentInv
<1>3. ExpiredInv => ExpiredHasPassed
  BY DEF ExpiredInv
<1> QED
  BY <1>1, <1>2, <1>3, AgentInvariant, PTL DEF Spec
=============================================================================
