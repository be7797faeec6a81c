-------------------------- MODULE NetworkModeProofs --------------------------
(* Theorems about the network mode of a PC, for every set of requests,      *)
(* adapters and faults and any number of sessions and crashes.              *)
EXTENDS NetworkMode, FiniteSetTheorems, TLAPS

-----------------------------------------------------------------------------
(* The inductive invariant.                                                  *)

\* The adapters enabled are the ones asked for, of those the PC has.
Exact(S, m) == S = Wanted(m) \cap Adapters

\* What the worker knows of the adapters at each point of reconcileNetworkMode:
\* the replacement is up, or still to be confirmed; and as long as nothing has
\* failed, exactly the adapters in its plan separate the PC from the mode.
TaskSound(t) ==
  /\ t.disable \cap Wanted(t.mode) = {}
  /\ t.enable \subseteq Wanted(t.mode)
  /\ t.pc \in {"enable", "confirm"} =>
       Wanted(t.mode) \cap t.found \subseteq on \cup t.enable
  /\ t.pc = "disable" /\ t.enable = {} => Wanted(t.mode) \cap t.found \subseteq on
  /\ ~t.errs =>
       /\ t.pc # "inspect" => t.found = Adapters
       /\ t.pc \in {"enable", "confirm", "disable"} =>
            on \ Wanted(t.mode) \subseteq t.disable
       /\ t.pc = "confirm" => t.enable \subseteq on
       /\ t.pc = "disable" => t.enable = {}
       /\ t.pc = "report" => Exact(on, t.mode)

\* A result that says "ok" is true.
Honest(r) ==
  r.status = "ok" => Exact(r.real, r.asked) /\ r.mode = CombinedMode(r.real)

\* A request in progress carries what its next step needs.
RequestsFormed ==
  \A r \in Requests :
    /\ req[r].pc = "read" => req[r].action \in Actions
    /\ req[r].pc \in {"set", "push"} => req[r].mode \in Modes

ResultsHonest ==
  /\ \A i \in 1..Len(results) : Honest(results[i])
  /\ reported # None => Honest(reported)

NetInv ==
  TypeOK /\ RequestsFormed /\ ResultsHonest /\ \A t \in task : TaskSound(t)

-----------------------------------------------------------------------------
(* The operators of the model.                                               *)

\* Wanted, currentCombinedMode and computeNetworkModeTransition stay within
\* their ranges.
LEMMA OperatorTypes ==
  /\ \A m \in Modes : Wanted(m) \subseteq {"wifi", "eth"} /\ Wanted(m) # {}
  /\ \A S : CombinedMode(S) \in Modes \cup {"none"}
  /\ \A act \in Actions, m \in Modes : Transition(act, m) \in Modes \cup {"none"}
<1>1. \A m \in Modes : Wanted(m) \subseteq {"wifi", "eth"} /\ Wanted(m) # {}
  BY DEF Wanted, Modes
<1>2. \A S : CombinedMode(S) \in Modes \cup {"none"}
  BY DEF CombinedMode, Modes
<1>3. ASSUME NEW act \in Actions, NEW m \in Modes
      PROVE  Transition(act, m) \in Modes \cup {"none"}
  <2>1. CASE act = "enable_wifi"
    BY <2>1 DEF Transition, Modes
  <2>2. CASE act = "disable_wifi"
    BY <2>2 DEF Transition, Modes
  <2>3. CASE act = "enable_lan"
    BY <2>3 DEF Transition, Modes
  <2>4. CASE act = "disable_lan"
    BY <2>4 DEF Transition, Modes
  <2> QED
    BY <2>1, <2>2, <2>3, <2>4 DEF Actions
<1> QED
  BY <1>1, <1>2, <1>3

\* At most one command is at work.
LEMMA OneTask ==
  ASSUME NEW S, NEW x, S = {} \/ S = {x}
  PROVE  Cardinality(S) <= 1
<1>1. Cardinality({}) = 0
  BY FS_EmptySet
<1>2. Cardinality({x}) = 1
  BY FS_Singleton
<1> QED
  BY <1>1, <1>2

\* A new entry at the end, or the loss of the first one, leaves the others.
LEMMA SeqSteps ==
  ASSUME NEW S, NEW q \in Seq(S)
  PROVE  /\ \A x \in S : /\ Append(q, x) \in Seq(S)
                         /\ \A i \in 1..Len(Append(q, x)) :
                              Append(q, x)[i] = x \/ (i \in 1..Len(q) /\ Append(q, x)[i] = q[i])
         /\ q # <<>> => /\ Head(q) \in S /\ Tail(q) \in Seq(S)
                        /\ Head(q) = q[1] /\ 1 \in 1..Len(q)
                        /\ \A i \in 1..Len(Tail(q)) :
                              i + 1 \in 1..Len(q) /\ Tail(q)[i] = q[i + 1]
         /\ <<>> \in Seq(S) /\ Len(<<>>) = 0
<1>1. ASSUME NEW x \in S
      PROVE  /\ Append(q, x) \in Seq(S)
             /\ \A i \in 1..Len(Append(q, x)) :
                  Append(q, x)[i] = x \/ (i \in 1..Len(q) /\ Append(q, x)[i] = q[i])
  OBVIOUS
<1>2. ASSUME q # <<>>
      PROVE  /\ Head(q) \in S /\ Tail(q) \in Seq(S)
             /\ Head(q) = q[1] /\ 1 \in 1..Len(q)
             /\ \A i \in 1..Len(Tail(q)) :
                  i + 1 \in 1..Len(q) /\ Tail(q)[i] = q[i + 1]
  BY <1>2
<1> QED
  BY <1>1, <1>2

-----------------------------------------------------------------------------
(* The worker.                                                               *)

\* What a step of the worker does: it ends with an honest result, or goes on
\* with a plan that still fits the adapters.
WorkerReports ==
  /\ task' = {} /\ on' = on
  /\ \/ results' = results
     \/ \E r \in Result : Honest(r) /\ results' = Append(results, r)

WorkerGoesOn ==
  /\ results' = results /\ on' \subseteq Adapters
  /\ \E u \in Task : task' = {u} /\ TaskSound(u)'

\* Reporting ends the command; only an honest report may say "ok".
LEMMA ReportStep ==
  ASSUME TypeOK, NEW t \in task, NEW seen \in SUBSET Adapters,
         NEW st \in {"ok", "partial", "error"},
         st = "ok" => seen = on /\ Exact(on, t.mode),
         Report(t, seen, st), on' = on
  PROVE  WorkerReports
<1> DEFINE r == [mode |-> CombinedMode(seen), status |-> st, asked |-> t.mode, real |-> on]
<1>1. t.mode \in Modes /\ on \subseteq Adapters
  BY DEF TypeOK, Task
<1>2. CombinedMode(seen) \in Modes \cup {"none"}
  BY OperatorTypes
<1>3. r \in Result
  BY <1>1, <1>2 DEF Result
<1>4. Honest(r)
  BY DEF Honest
<1>5. results' = results \/ results' = Append(results, r)
  BY DEF Report
<1> HIDE DEF r
<1> QED
  BY <1>3, <1>4, <1>5 DEF Report, WorkerReports

\* Inspect: the plan is what separates the adapters seen from the mode.
LEMMA InspectStep ==
  ASSUME TypeOK, NEW t \in task, Inspect(t)
  PROVE  WorkerReports \/ WorkerGoesOn
<1>1. t \in Task /\ t.mode \in Modes /\ on \subseteq Adapters /\ on' = on
  BY DEF TypeOK, Task, Inspect
<1> DEFINE W == Wanted(t.mode)
           Plan(U) == [t EXCEPT !.pc = "enable", !.found = Adapters \ U,
                                !.enable = (W \cap (Adapters \ U)) \ (on \ U),
                                !.disable = (on \ U) \ W, !.errs = (U # {})]
<1>2. PICK U \in Unseen :
        IF ((W \cap (Adapters \ U)) \ (on \ U)) \cup ((on \ U) \ W) = {}
        THEN Report(t, on \ U, IF U = {} THEN "ok" ELSE "error")
        ELSE task' = {Plan(U)} /\ UNCHANGED results
  BY DEF Inspect
<1>3. U \subseteq Adapters
  BY DEF Unseen
<1>4. CASE ((W \cap (Adapters \ U)) \ (on \ U)) \cup ((on \ U) \ W) = {}
  <2> DEFINE st == IF U = {} THEN "ok" ELSE "error"
  <2>1. st \in {"ok", "partial", "error"} /\ (st = "ok" => U = {})
    OBVIOUS
  <2>2. U = {} => on \ U = on /\ Exact(on, t.mode)
    BY <1>1, <1>4 DEF Exact
  <2>3. Report(t, on \ U, st) /\ on \ U \in SUBSET Adapters
    BY <1>1, <1>2, <1>4
  <2> HIDE DEF st
  <2> QED
    BY <1>1, <2>1, <2>2, <2>3, ReportStep
<1>5. CASE ((W \cap (Adapters \ U)) \ (on \ U)) \cup ((on \ U) \ W) # {}
  <2>0. PICK u : u = Plan(U)
    OBVIOUS
  <2>1. task' = {u} /\ results' = results
    BY <1>2, <1>5, <2>0
  <2>2. /\ u.pc = "enable" /\ u.mode = t.mode /\ u.found = Adapters \ U
        /\ u.enable = (W \cap (Adapters \ U)) \ (on \ U)
        /\ u.disable = (on \ U) \ W
    BY <1>1, <2>0 DEF Task
  <2>3. u \in Task
    BY <1>1, <1>3, <2>0 DEF Task
  <2>4. u.errs = (U # {})
    BY <1>1, <2>0 DEF Task
  <2>5. ~u.errs => U = {}
    BY <2>4
  <2>6. /\ u.disable \cap Wanted(u.mode) = {} /\ u.enable \subseteq Wanted(u.mode)
        /\ Wanted(u.mode) \cap u.found \subseteq on \cup u.enable
    BY <1>1, <2>2
  <2>7. U = {} => u.found = Adapters /\ on \ Wanted(u.mode) \subseteq u.disable
    BY <1>1, <2>2
  <2>8. TaskSound(u)'
    BY <1>1, <2>2, <2>5, <2>6, <2>7 DEF TaskSound
  <2> QED
    BY <1>1, <2>1, <2>3, <2>8 DEF WorkerGoesOn
<1> QED
  BY <1>4, <1>5

\* Phase 1 adds adapters of the plan.
LEMMA EnableStep ==
  ASSUME TypeOK, NEW t \in task, TaskSound(t), EnableAdapters(t)
  PROVE  WorkerGoesOn
<1>1. t \in Task /\ t.pc = "enable" /\ on \subseteq Adapters /\ results' = results
  BY DEF TypeOK, EnableAdapters, network
<1>2. PICK F \in SUBSET t.enable :
        /\ on' = on \cup (t.enable \ F)
        /\ task' = {[t EXCEPT !.pc = "confirm", !.errs = t.errs \/ F # {}]}
  BY DEF EnableAdapters
<1> DEFINE u == [t EXCEPT !.pc = "confirm", !.errs = t.errs \/ F # {}]
<1>3. t.enable \subseteq Adapters
  BY <1>1 DEF Task
<1>4. /\ u.pc = "confirm" /\ u.mode = t.mode /\ u.found = t.found
      /\ u.enable = t.enable /\ u.disable = t.disable
  BY <1>1 DEF Task
<1>5. u \in Task
  BY <1>1 DEF Task
<1>6. ~u.errs => ~t.errs /\ F = {}
  BY <1>1 DEF Task
<1>7. task' = {u}
  BY <1>2
<1> HIDE DEF u
<1>8. /\ t.disable \cap Wanted(t.mode) = {} /\ t.enable \subseteq Wanted(t.mode)
      /\ Wanted(t.mode) \cap t.found \subseteq on \cup t.enable
      /\ ~t.errs => t.found = Adapters /\ on \ Wanted(t.mode) \subseteq t.disable
  BY <1>1 DEF TaskSound
<1>9. /\ Wanted(t.mode) \cap t.found \subseteq on' \cup t.enable
      /\ ~t.errs => t.found = Adapters /\ on' \ Wanted(t.mode) \subseteq t.disable
      /\ F = {} => t.enable \subseteq on'
  BY <1>2, <1>8
<1>10. TaskSound(u)'
  BY <1>4, <1>6, <1>8, <1>9 DEF TaskSound
<1> QED
  BY <1>1, <1>2, <1>3, <1>5, <1>7, <1>10 DEF WorkerGoesOn

\* pollUntilEnabled: nothing missing means the replacement is up.
LEMMA ConfirmStep ==
  ASSUME TypeOK, NEW t \in task, TaskSound(t), ConfirmEnabled(t)
  PROVE  WorkerGoesOn
<1>1. /\ t \in Task /\ t.pc = "confirm" /\ on \subseteq Adapters /\ on' = on
      /\ results' = results
  BY DEF TypeOK, ConfirmEnabled, network
<1>2. PICK U \in Unseen :
        task' = {[t EXCEPT !.pc = "disable", !.enable = t.enable \ (on \ U),
                           !.errs = t.errs \/ t.enable \ (on \ U) # {}]}
  BY DEF ConfirmEnabled
<1>2a. PICK u : u = [t EXCEPT !.pc = "disable", !.enable = t.enable \ (on \ U),
                             !.errs = t.errs \/ t.enable \ (on \ U) # {}]
  OBVIOUS
<1>3. /\ u.pc = "disable" /\ u.mode = t.mode /\ u.found = t.found
      /\ u.enable = t.enable \ (on \ U) /\ u.disable = t.disable
  BY <1>1, <1>2a DEF Task
<1>4. u \in Task
  BY <1>1, <1>2a DEF Task
<1>5. ~u.errs => ~t.errs /\ t.enable \ (on \ U) = {}
  BY <1>1, <1>2a DEF Task
<1>6. task' = {u}
  BY <1>2, <1>2a
<1>7. /\ t.disable \cap Wanted(t.mode) = {} /\ t.enable \subseteq Wanted(t.mode)
      /\ Wanted(t.mode) \cap t.found \subseteq on \cup t.enable
      /\ ~t.errs => t.found = Adapters /\ on \ Wanted(t.mode) \subseteq t.disable
  BY <1>1 DEF TaskSound
<1>8. t.enable \ (on \ U) = {} => Wanted(t.mode) \cap t.found \subseteq on
  BY <1>7
<1>9. TaskSound(u)'
  BY <1>1, <1>3, <1>5, <1>7, <1>8 DEF TaskSound
<1> QED
  BY <1>1, <1>4, <1>6, <1>9 DEF WorkerGoesOn

\* Phase 2: what is wanted stays up; without a failure the mode is reached.
LEMMA DisableStep ==
  ASSUME TypeOK, NEW t \in task, TaskSound(t), DisableAdapters(t)
  PROVE  /\ WorkerGoesOn
         /\ on' = on \/ Wanted(t.mode) \cap t.found \subseteq on'
<1>1. t \in Task /\ t.pc = "disable" /\ on \subseteq Adapters /\ results' = results
  BY DEF TypeOK, DisableAdapters, network
<1>2. /\ t.disable \cap Wanted(t.mode) = {} /\ t.enable \subseteq Wanted(t.mode)
      /\ t.enable = {} => Wanted(t.mode) \cap t.found \subseteq on
      /\ ~t.errs => /\ t.found = Adapters /\ t.enable = {}
                    /\ on \ Wanted(t.mode) \subseteq t.disable
  BY <1>1 DEF TaskSound
<1> DEFINE u == [t EXCEPT !.pc = "report"]
           v == [t EXCEPT !.pc = "report", !.errs = TRUE]
<1>3. u \in Task /\ v \in Task
  BY <1>1 DEF Task
<1>4. /\ u.pc = "report" /\ u.mode = t.mode /\ u.found = t.found
      /\ u.enable = t.enable /\ u.disable = t.disable
      /\ v.pc = "report" /\ v.mode = t.mode /\ v.found = t.found
      /\ v.enable = t.enable /\ v.disable = t.disable
  BY <1>1 DEF Task
<1>5. (u.errs <=> t.errs) /\ v.errs
  BY <1>1 DEF Task
<1>6. \/ t.enable = {} /\ on' = on \ t.disable /\ task' = {u}
      \/ on' = on /\ task' = {v}
      \/ t.enable # {} /\ on' = on /\ task' = {u}
  BY DEF DisableAdapters
<1> HIDE DEF u, v
<1>7. CASE t.enable = {} /\ on' = on \ t.disable /\ task' = {u}
  <2>1. Wanted(t.mode) \cap t.found \subseteq on'
    BY <1>2, <1>7
  <2>2. ~t.errs => Exact(on, t.mode)' /\ t.found = Adapters
    BY <1>1, <1>2, <1>7, <2>1 DEF Exact
  <2>3. TaskSound(u)'
    BY <1>2, <1>4, <1>5, <2>2 DEF TaskSound, Exact
  <2> QED
    BY <1>1, <1>3, <1>7, <2>1, <2>3 DEF WorkerGoesOn
<1>8. CASE on' = on /\ task' = {v}
  <2>1. TaskSound(v)'
    BY <1>2, <1>4, <1>5, <1>8 DEF TaskSound
  <2> QED
    BY <1>1, <1>3, <1>8, <2>1 DEF WorkerGoesOn
<1>9. CASE t.enable # {} /\ on' = on /\ task' = {u}
  <2>1. TaskSound(u)'
    BY <1>2, <1>4, <1>5, <1>9 DEF TaskSound
  <2> QED
    BY <1>1, <1>3, <1>9, <2>1 DEF WorkerGoesOn
<1> QED
  BY <1>6, <1>7, <1>8, <1>9

\* The final read: "ok" needs no failure so far and every wanted adapter seen.
LEMMA ReportTruthStep ==
  ASSUME TypeOK, NEW t \in task, TaskSound(t), ReportTruth(t)
  PROVE  WorkerReports
<1>1. t \in Task /\ t.pc = "report" /\ on \subseteq Adapters /\ on' = on
  BY DEF TypeOK, ReportTruth
<1> DEFINE Up(U) == (Wanted(t.mode) \cap t.found) \subseteq on \ U /\ on \ U # {}
           St(U) == IF ~Up(U) THEN "error" ELSE IF t.errs THEN "partial" ELSE "ok"
<1>2. PICK U \in Unseen : Report(t, on \ U, St(U))
  BY DEF ReportTruth
<1>3. ~t.errs => t.found = Adapters /\ Exact(on, t.mode)
  BY <1>1 DEF TaskSound
<1>4. CASE ~Up(U) \/ t.errs
  <2>1. CASE Report(t, on \ U, "error")
    BY <1>1, <2>1, ReportStep
  <2>2. CASE Report(t, on \ U, "partial")
    BY <1>1, <2>2, ReportStep
  <2>3. St(U) = "error" \/ St(U) = "partial"
    BY <1>4
  <2> QED
    BY <1>2, <2>1, <2>2, <2>3
<1>5. CASE Up(U) /\ ~t.errs
  <2>1. St(U) = "ok"
    BY <1>5
  <2>2. on \ U = on /\ Exact(on, t.mode)
    BY <1>3, <1>5 DEF Exact
  <2> QED
    BY <1>1, <1>2, <2>1, <2>2, ReportStep
<1> QED
  BY <1>4, <1>5

\* Whatever step the worker takes, it ends honestly or keeps a sound plan, and
\* it switches off no adapter that was asked for and found.
LEMMA WorkerStep ==
  ASSUME TypeOK, NEW t \in task, TaskSound(t), TaskStep(t)
  PROVE  /\ WorkerReports \/ WorkerGoesOn
         /\ on \subseteq on' \/ Wanted(t.mode) \cap t.found \subseteq on'
         /\ UNCHANGED <<server, online, greeting, down, lastSent, counts>>
<1>1. CASE Inspect(t)
  BY <1>1, InspectStep DEF Inspect
<1>2. CASE EnableAdapters(t)
  BY <1>2, EnableStep DEF EnableAdapters, network
<1>3. CASE ConfirmEnabled(t)
  BY <1>3, ConfirmStep DEF ConfirmEnabled, network
<1>4. CASE DisableAdapters(t)
  <2>1. UNCHANGED <<server, online, greeting, down, lastSent, counts>>
    BY <1>4 DEF DisableAdapters, network
  <2> QED
    BY <1>4, <2>1, DisableStep
<1>5. CASE ReportTruth(t)
  BY <1>5, ReportTruthStep DEF ReportTruth
<1> QED
  BY <1>1, <1>2, <1>3, <1>4, <1>5 DEF TaskStep

-----------------------------------------------------------------------------
(* The invariant is inductive.                                               *)

\* Before the first request there is neither a task nor a result.
LEMMA InvInit == Init => NetInv
<1> SUFFICES ASSUME Init PROVE NetInv
  OBVIOUS
<1> USE NetworkAssumptions DEF Init
<1>1. /\ faulty \subseteq Faults /\ desired \in Modes /\ reported = None
      /\ online = FALSE /\ greeting = None /\ lastSent = None
      /\ down = <<>> /\ results = <<>> /\ on \subseteq Adapters
      /\ sessions \in 0..MaxSessions /\ crashes \in 0..MaxCrashes
  BY DEF Modes
<1>2. req \in [Requests -> [pc : {"new", "read", "set", "push", "done"},
                            action : Actions \cup {None}, mode : Modes \cup {None}]]
  OBVIOUS
<1>3. down \in Seq(Modes) /\ results \in Seq(Result)
  BY <1>1
<1>4. task = {} /\ Cardinality(task) <= 1
  BY OneTask
<1>5. TypeOK
  BY <1>1, <1>2, <1>3, <1>4 DEF TypeOK
<1>6. RequestsFormed
  BY DEF RequestsFormed
<1> QED
  BY <1>1, <1>4, <1>5, <1>6 DEF NetInv, ResultsHonest

\* A request's step changes the request and the stored mode, and may push it.
LEMMA RequestTypes ==
  ASSUME NetInv, NEW r \in Requests, RequestStep(r)
  PROVE  /\ desired' \in Modes
         /\ req' \in [Requests -> [pc : {"new", "read", "set", "push", "done"},
                                   action : Actions \cup {None}, mode : Modes \cup {None}]]
         /\ RequestsFormed'
         /\ down' \in Seq(Modes) /\ lastSent' \in Modes \cup {None}
         /\ UNCHANGED <<reported, online, greeting, results, agent, counts>>
<1> DEFINE Req == [pc : {"new", "read", "set", "push", "done"},
                   action : Actions \cup {None}, mode : Modes \cup {None}]
<1>1. /\ req \in [Requests -> Req] /\ desired \in Modes /\ down \in Seq(Modes)
      /\ lastSent \in Modes \cup {None}
      /\ \A q \in Requests : /\ req[q].pc = "read" => req[q].action \in Actions
                             /\ req[q].pc \in {"set", "push"} => req[q].mode \in Modes
  BY DEF NetInv, TypeOK, RequestsFormed
<1>2. ASSUME NEW x \in Req, req' = [req EXCEPT ![r] = x],
             x.pc = "read" => x.action \in Actions,
             x.pc \in {"set", "push"} => x.mode \in Modes
      PROVE  req' \in [Requests -> Req] /\ RequestsFormed'
  BY <1>1, <1>2 DEF RequestsFormed
<1>3. CASE PostMode(r)
  <2>1. PICK m \in AskModes :
          req' = [req EXCEPT ![r] = [pc |-> "set", action |-> None, mode |-> m]]
    BY <1>3 DEF PostMode
  <2>2. m \in Modes
    BY NetworkAssumptions
  <2>3. req' \in [Requests -> Req] /\ RequestsFormed'
    BY <1>2, <2>1, <2>2
  <2> QED
    BY <1>1, <1>3, <2>3 DEF PostMode, network
<1>4. CASE PostToggle(r)
  <2> DEFINE P(act) == IF Transition(act, desired) = "none" THEN "done" ELSE "read"
  <2>1. PICK act \in AskActions :
          req' = [req EXCEPT ![r] = [pc |-> P(act), action |-> act, mode |-> None]]
    BY <1>4 DEF PostToggle
  <2>2. act \in Actions /\ P(act) \in {"done", "read"}
    BY NetworkAssumptions
  <2> HIDE DEF P
  <2>3. req' \in [Requests -> Req] /\ RequestsFormed'
    BY <1>2, <2>1, <2>2
  <2> QED
    BY <1>1, <1>4, <2>3 DEF PostToggle, network
<1>5. CASE ToggleRead(r)
  <2> DEFINE m == Transition(req[r].action, desired)
  <2>1. m \in Modes \cup {"none"}
    BY <1>1, <1>5, OperatorTypes DEF ToggleRead
  <2>2. req' = [req EXCEPT ![r].pc   = IF m = "none" THEN "done" ELSE "set",
                           ![r].mode = IF m = "none" THEN @ ELSE m]
    BY <1>5 DEF ToggleRead
  <2> HIDE DEF m
  <2>3. req[r] \in Req
    BY <1>1
  <2>4. CASE m = "none"
    <3> DEFINE x == [req[r] EXCEPT !.pc = "done"]
    <3>1. x \in Req /\ x.pc = "done"
      BY <2>3
    <3>2. req' = [req EXCEPT ![r] = x]
      BY <1>1, <2>2, <2>3, <2>4
    <3> HIDE DEF x
    <3>3. req' \in [Requests -> Req] /\ RequestsFormed'
      BY <1>2, <3>1, <3>2
    <3> QED
      BY <1>1, <1>5, <3>3 DEF ToggleRead, network
  <2>5. CASE m # "none"
    <3> DEFINE x == [req[r] EXCEPT !.pc = "set", !.mode = m]
    <3>1. x \in Req /\ x.pc = "set" /\ x.mode = m /\ m \in Modes
      BY <2>1, <2>3, <2>5
    <3>2. req' = [req EXCEPT ![r] = x]
      BY <1>1, <2>2, <2>3, <2>5
    <3> HIDE DEF x
    <3>3. req' \in [Requests -> Req] /\ RequestsFormed'
      BY <1>2, <3>1, <3>2
    <3> QED
      BY <1>1, <1>5, <3>3 DEF ToggleRead, network
  <2> QED
    BY <2>4, <2>5
<1>6. CASE SetDesired(r)
  <2> DEFINE x == [req[r] EXCEPT !.pc = "push"]
  <2>1. req[r] \in Req /\ req[r].pc = "set" /\ req[r].mode \in Modes
    BY <1>1, <1>6 DEF SetDesired
  <2>2. x \in Req /\ x.pc = "push" /\ x.mode \in Modes
    BY <2>1
  <2>3. req' = [req EXCEPT ![r] = x]
    BY <1>6 DEF SetDesired, Goto
  <2> HIDE DEF x
  <2>4. req' \in [Requests -> Req] /\ RequestsFormed'
    BY <1>2, <2>2, <2>3
  <2> QED
    BY <1>1, <1>6, <2>1, <2>4 DEF SetDesired, network
<1>7. CASE PushMode(r)
  <2> DEFINE x == [req[r] EXCEPT !.pc = "done"]
  <2>1. req[r] \in Req /\ req[r].mode \in Modes
    BY <1>1, <1>7 DEF PushMode
  <2>2. x \in Req /\ x.pc = "done"
    BY <2>1
  <2>3. req' = [req EXCEPT ![r] = x]
    BY <1>7 DEF PushMode, Goto
  <2> HIDE DEF x
  <2>4. req' \in [Requests -> Req] /\ RequestsFormed'
    BY <1>2, <2>2, <2>3
  <2>5. down' \in Seq(Modes) /\ lastSent' \in Modes \cup {None}
    BY <1>1, <1>7, <2>1 DEF PushMode
  <2> QED
    BY <1>1, <1>7, <2>4, <2>5 DEF PushMode
<1> QED
  BY <1>3, <1>4, <1>5, <1>6, <1>7 DEF RequestStep

\* Every step keeps the invariant.
LEMMA InvNext == NetInv /\ [Next]_vars => NetInv'
<1> SUFFICES ASSUME NetInv, [Next]_vars PROVE NetInv'
  OBVIOUS
<1> USE NetworkAssumptions
<1>0. /\ TypeOK /\ RequestsFormed /\ ResultsHonest
      /\ \A t \in task : TaskSound(t)
  BY DEF NetInv
<1>9. ASSUME on' = on, NEW t, TaskSound(t) PROVE TaskSound(t)'
  BY <1>9 DEF TaskSound, Exact
<1>1. ASSUME NEW r \in Requests, RequestStep(r) PROVE NetInv'
  <2>1. /\ desired' \in Modes
        /\ req' \in [Requests -> [pc : {"new", "read", "set", "push", "done"},
                                  action : Actions \cup {None}, mode : Modes \cup {None}]]
        /\ RequestsFormed'
        /\ down' \in Seq(Modes) /\ lastSent' \in Modes \cup {None}
        /\ UNCHANGED <<reported, online, greeting, results, agent, counts>>
    BY <1>1, RequestTypes
  <2>2. TypeOK'
    BY <1>0, <2>1 DEF TypeOK, agent, counts
  <2>3. ResultsHonest' /\ on' = on /\ task' = task
    BY <1>0, <2>1 DEF ResultsHonest, Honest, Exact, agent
  <2> QED
    BY <1>0, <1>9, <2>1, <2>2, <2>3 DEF NetInv
<1>2. CASE RegisterClient
  <2>1. down' \in Seq(Modes) /\ results' \in Seq(Result) /\ results' = <<>>
    BY <1>2 DEF RegisterClient
  <2>2. sessions' \in 0..MaxSessions
    BY <1>0, <1>2 DEF RegisterClient, TypeOK
  <2>3. TypeOK'
    BY <1>0, <1>2, <2>1, <2>2 DEF RegisterClient, TypeOK, server, agent
  <2>4. ResultsHonest' /\ RequestsFormed' /\ on' = on /\ task' = task
    BY <1>0, <1>2, <2>1 DEF RegisterClient, ResultsHonest, Honest, Exact, RequestsFormed,
                            server, agent
  <2> QED
    BY <1>0, <1>9, <2>3, <2>4 DEF NetInv
<1>3. CASE PushGreeting
  <2>1. greeting \in Modes /\ down \in Seq(Modes)
    BY <1>0, <1>3 DEF PushGreeting, TypeOK
  <2>2. down' \in Seq(Modes) /\ lastSent' \in Modes \cup {None} /\ greeting' = None
    <3>1. Append(down, greeting) \in Seq(Modes) /\ lastSent \in Modes \cup {None}
      BY <1>0, <2>1 DEF TypeOK
    <3> QED
      BY <1>3, <2>1, <3>1 DEF PushGreeting
  <2>3. TypeOK'
    BY <1>0, <1>3, <2>2 DEF PushGreeting, TypeOK, server, agent, counts
  <2>4. ResultsHonest' /\ RequestsFormed' /\ on' = on /\ task' = task
    BY <1>0, <1>3 DEF PushGreeting, ResultsHonest, Honest, Exact, RequestsFormed,
                      server, agent
  <2> QED
    BY <1>0, <1>9, <2>3, <2>4 DEF NetInv
<1>4. CASE LoseConnection \/ Crash
  <2>1. down' \in Seq(Modes) /\ results' \in Seq(Result) /\ results' = <<>>
    <3>1. down' = <<>> /\ results' = <<>>
      BY <1>4 DEF LoseConnection, Crash
    <3> QED
      BY <3>1
  <2>2. crashes' \in 0..MaxCrashes
    BY <1>0, <1>4 DEF LoseConnection, Crash, TypeOK, counts
  <2>3. task' = {} \/ task' = task
    BY <1>4 DEF LoseConnection, Crash, agent
  <2>4. task' \subseteq Task /\ Cardinality(task') <= 1
    BY <1>0, <2>3, OneTask DEF TypeOK
  <2>5. /\ online' = FALSE
        /\ UNCHANGED <<server, greeting, lastSent, on, faulty, sessions>>
    BY <1>4 DEF LoseConnection, Crash, agent, counts
  <2>8. hung' = FALSE \/ hung' = hung
    BY <1>4 DEF LoseConnection, Crash, counts
  <2>9. hung' \in BOOLEAN
    BY <1>0, <2>8 DEF TypeOK
  <2>6. TypeOK'
    BY <1>0, <2>1, <2>2, <2>4, <2>5, <2>9 DEF TypeOK, server
  <2>7. ResultsHonest' /\ RequestsFormed' /\ on' = on
    BY <1>0, <2>1, <2>5 DEF ResultsHonest, Honest, Exact, RequestsFormed, server
  <2> QED
    BY <1>0, <1>9, <2>3, <2>6, <2>7 DEF NetInv
<1>5. CASE HandleResult
  <2>1. results \in Seq(Result) /\ results # <<>>
    BY <1>0, <1>5 DEF HandleResult, TypeOK
  <2>2. /\ reported' \in Result /\ results' \in Seq(Result)
        /\ reported' = results[1] /\ 1 \in 1..Len(results)
        /\ \A i \in 1..Len(results') :
              i + 1 \in 1..Len(results) /\ results'[i] = results[i + 1]
    BY <1>5, <2>1, SeqSteps DEF HandleResult
  <2>3. UNCHANGED <<desired, req, online, greeting, down, lastSent, on, task, faulty,
                    hung, sessions, crashes>>
    BY <1>5 DEF HandleResult, agent, counts
  <2>4. TypeOK'
    BY <1>0, <2>2, <2>3 DEF TypeOK
  <2>5. ResultsHonest'
    <3>1. Honest(reported)'
      BY <1>0, <2>2 DEF ResultsHonest, Honest, Exact
    <3>2. \A i \in 1..Len(results') : Honest(results[i])'
      <4> SUFFICES ASSUME NEW i \in 1..Len(results') PROVE Honest(results[i])'
        OBVIOUS
      <4>1. Honest(results[i + 1]) /\ results'[i] = results[i + 1]
        BY <1>0, <2>2 DEF ResultsHonest
      <4> QED
        BY <4>1 DEF Honest, Exact
    <3> QED
      BY <3>1, <3>2 DEF ResultsHonest
  <2>6. RequestsFormed' /\ on' = on /\ task' = task
    BY <1>0, <2>3 DEF RequestsFormed
  <2> QED
    BY <1>0, <1>9, <2>4, <2>5, <2>6 DEF NetInv
<1>6. CASE TakePush
  <2>1. down \in Seq(Modes) /\ down # <<>> /\ task = {}
    BY <1>0, <1>6 DEF TakePush, TypeOK
  <2>2. Head(down) \in Modes /\ down' \in Seq(Modes)
    BY <1>6, <2>1, SeqSteps DEF TakePush
  <2>3. PICK t : t = [pc |-> "inspect", mode |-> Head(down), found |-> {},
                      enable |-> {}, disable |-> {}, errs |-> FALSE]
    OBVIOUS
  <2>4. t \in Task
    BY <2>2, <2>3 DEF Task
  <2>5. TaskSound(t)'
    BY <2>3 DEF TaskSound
  <2>6. task' = {} \/ task' = {t}
    BY <1>6, <2>1, <2>3 DEF TakePush
  <2>7. task' \subseteq Task /\ Cardinality(task') <= 1
    BY <2>4, <2>6, OneTask
  <2>8. UNCHANGED <<desired, reported, req, online, greeting, results, lastSent, on,
                    faulty, hung, sessions, crashes>>
    BY <1>6 DEF TakePush, server, counts
  <2>9. TypeOK'
    BY <1>0, <2>2, <2>7, <2>8 DEF TypeOK
  <2>10. ResultsHonest' /\ RequestsFormed'
    BY <1>0, <2>8 DEF ResultsHonest, Honest, Exact, RequestsFormed
  <2> QED
    BY <2>5, <2>6, <2>9, <2>10 DEF NetInv
<1>7. ASSUME NEW t \in task, TaskStep(t) PROVE NetInv'
  <2>1. /\ WorkerReports \/ WorkerGoesOn
        /\ UNCHANGED <<server, online, greeting, down, lastSent, counts>>
    BY <1>0, <1>7, WorkerStep
  <2>2. results \in Seq(Result) /\ on \subseteq Adapters
    BY <1>0 DEF TypeOK
  <2>3. RequestsFormed'
    BY <1>0, <2>1 DEF RequestsFormed, server
  <2>4. CASE WorkerReports
    <3>1. \/ results' = results
          \/ \E r \in Result : Honest(r) /\ results' = Append(results, r)
      BY <2>4 DEF WorkerReports
    <3>2. task' = {} /\ on' = on /\ Cardinality(task') <= 1
      BY <2>4, OneTask DEF WorkerReports
    <3>3. results' \in Seq(Result)
      BY <2>2, <3>1, SeqSteps
    <3>4. TypeOK'
      BY <1>0, <2>1, <3>2, <3>3 DEF TypeOK, server, counts
    <3>5. ResultsHonest'
      <4>1. reported' # None => Honest(reported)'
        BY <1>0, <2>1 DEF ResultsHonest, Honest, Exact, server
      <4>2. CASE results' = results
        BY <1>0, <4>1, <4>2 DEF ResultsHonest, Honest, Exact
      <4>3. ASSUME NEW r \in Result, Honest(r), results' = Append(results, r)
            PROVE  ResultsHonest'
        <5> SUFFICES ASSUME NEW i \in 1..Len(results') PROVE Honest(results[i])'
          BY <4>1 DEF ResultsHonest
        <5>1. results'[i] = r \/ (i \in 1..Len(results) /\ results'[i] = results[i])
          BY <2>2, <4>3, SeqSteps
        <5>2. \E x : Honest(x) /\ results'[i] = x
          BY <1>0, <4>3, <5>1 DEF ResultsHonest
        <5> QED
          BY <5>2 DEF Honest, Exact
      <4> QED
        BY <3>1, <4>2, <4>3
    <3> QED
      BY <2>3, <3>2, <3>4, <3>5 DEF NetInv
  <2>5. CASE WorkerGoesOn
    <3>1. PICK u \in Task : task' = {u} /\ TaskSound(u)'
      BY <2>5 DEF WorkerGoesOn
    <3>2. results' = results /\ on' \subseteq Adapters
      BY <2>5 DEF WorkerGoesOn
    <3>3. task' \subseteq Task /\ Cardinality(task') <= 1
      BY <3>1, OneTask
    <3>4. TypeOK'
      BY <1>0, <2>1, <3>2, <3>3 DEF TypeOK, server, counts
    <3>5. ResultsHonest'
      BY <1>0, <2>1, <3>2 DEF ResultsHonest, Honest, Exact, server
    <3> QED
      BY <2>3, <3>1, <3>4, <3>5 DEF NetInv
  <2> QED
    BY <2>1, <2>4, <2>5
<1>8. CASE UNCHANGED vars
  <2>1. TypeOK'
    BY <1>0, <1>8 DEF vars, TypeOK
  <2>2. ResultsHonest' /\ RequestsFormed' /\ on' = on /\ task' = task
    BY <1>0, <1>8 DEF vars, ResultsHonest, Honest, Exact, RequestsFormed
  <2> QED
    BY <1>0, <1>9, <2>1, <2>2 DEF NetInv
<1>10. CASE WorkerHangs
  <2>1. UNCHANGED <<server, network, agent, faulty, sessions, crashes>> /\ hung' = TRUE
    BY <1>10 DEF WorkerHangs
  <2>2. TypeOK'
    BY <1>0, <2>1 DEF TypeOK, server, network, agent
  <2>3. ResultsHonest' /\ RequestsFormed' /\ on' = on /\ task' = task
    BY <1>0, <2>1 DEF ResultsHonest, Honest, Exact, RequestsFormed, server, network, agent
  <2> QED
    BY <1>0, <1>9, <2>2, <2>3 DEF NetInv
<1> QED
  BY <1>1, <1>2, <1>3, <1>4, <1>5, <1>6, <1>7, <1>8, <1>10 DEF Next

\* NetInv holds throughout.
LEMMA NetInvariant == Spec => []NetInv
BY InvInit, InvNext, PTL DEF Spec

-----------------------------------------------------------------------------
(* The theorems.                                                             *)

\* A stored "ok" is true: when the worker reported it, exactly the adapters of
\* the mode that was pushed were enabled and the reported mode was theirs,
\* whatever failed, was lost or died on the way (reconcileNetworkMode,
\* handleNetworkModeResult).
THEOREM OkMeansConvergedHolds == Spec => []OkMeansConverged
<1>1. NetInv => OkMeansConverged
  BY DEF NetInv, ResultsHonest, OkMeansConverged, Honest, Exact
<1> QED
  BY <1>1, NetInvariant, PTL

\* Only an adapter that was asked for and not found leaves the PC without a
\* network: the worker confirms the replacement before it switches anything off
\* (reconcileNetworkMode's two phases).
THEOREM KeepsNetworkHolds == Spec => KeepsNetwork
<1>1. NetInv /\ [Next]_vars =>
        [on # {} /\ on' = {} =>
           \E t \in task : Wanted(t.mode) \cap t.found = {}]_vars
  <2> SUFFICES ASSUME NetInv, Next, on # {}, on' = {}
               PROVE  \E t \in task : Wanted(t.mode) \cap t.found = {}
    BY DEF vars
  <2>1. ASSUME NEW t \in task, TaskStep(t)
        PROVE  \E u \in task : Wanted(u.mode) \cap u.found = {}
    <3>1. on \subseteq on' \/ Wanted(t.mode) \cap t.found \subseteq on'
      BY <2>1, WorkerStep DEF NetInv
    <3> QED
      BY <3>1
  <2>2. ASSUME NEW r \in Requests, RequestStep(r) PROVE FALSE
    BY <2>2, RequestTypes DEF agent
  <2>3. CASE \/ RegisterClient \/ PushGreeting \/ LoseConnection \/ HandleResult
             \/ TakePush \/ WorkerHangs \/ Crash
    BY <2>3 DEF RegisterClient, PushGreeting, LoseConnection, HandleResult, TakePush,
                WorkerHangs, Crash, agent
  <2> QED
    BY <2>1, <2>2, <2>3 DEF Next
<1> QED
  BY <1>1, NetInvariant, PTL DEF Spec, KeepsNetwork
=============================================================================
