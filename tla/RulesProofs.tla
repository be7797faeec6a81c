----------------------------- MODULE RulesProofs -----------------------------
(* Theorems about the rules of the smaller parts: the kill that verifies     *)
(* itself, the command API, the application catalog, the watchers, the       *)
(* policy matcher and the fleet summary, for every value of their constants. *)
EXTENDS MCRules, ListProofs, FiniteSetTheorems

-----------------------------------------------------------------------------
(* Process kill.                                                             *)

KillerStates ==
  [pc : KillSteps, pid : Pids \cup {0}, of : 0..MaxStarts, at : Pids \cup {0},
   was : 0..MaxStarts, turn : 0..8, left : SUBSET Pids,
   targeted : BOOLEAN, success : BOOLEAN, blind : BOOLEAN]

\* The process the decision was about has ended; its PID may be in use again.
Ended(r) == running[r.pid] = Free \/ birth[r.pid] # r.of

\* A killer that shoots looked its process up, and it matched.
LookedUp(r) ==
  r.pc = "kill" =>
    /\ r.at \in Pids
    /\ birth[r.at] = r.was /\ running[r.at] # Free => IsTarget(running[r.at])

\* Where the process of the decision is known to have ended.
EndedWhereSeen(r) ==
  /\ r.pc = "kill" /\ r.targeted => r.at = r.pid
  /\ r.pc = "kill" /\ ~r.targeted /\ ~r.blind => Ended(r)
  /\ r.pc = "sweep" /\ ~r.blind => Ended(r)
  /\ r.pc = "report" /\ r.success /\ ~r.blind => Ended(r)

\* What holds of a killer's locals: it remembers no process that is yet to start.
KillerSound(r) ==
  /\ r \in KillerStates
  /\ r.of <= started /\ r.was <= started
  /\ r.pc # "idle" => r.pid \in Pids
  /\ LookedUp(r) /\ EndedWhereSeen(r)

Processes ==
  /\ running \in [Pids -> Programs \cup {Free}]
  /\ birth \in [Pids -> 0..MaxStarts] /\ started \in 0..MaxStarts
  /\ \A p \in Pids : birth[p] <= started

Outcomes ==
  /\ outcome \in [Killers -> {"none", "killed", "log"}]
  /\ \A k \in Killers : outcome[k] # "none" => killer[k].pc = "idle" /\ killer[k].pid \in Pids
  /\ outcome["realtime"] = "killed" /\ ~killer["realtime"].blind => Ended(killer["realtime"])

KillInv ==
  /\ Processes /\ Outcomes /\ astray = FALSE
  /\ killer \in [Killers -> KillerStates]
  /\ \A k \in Killers : KillerSound(killer[k])

\* At the start nobody has decided to kill anything.
LEMMA KillInvInit == KillInit => KillInv
<1> SUFFICES ASSUME KillInit PROVE KillInv
  OBVIOUS
<1> USE KillAssumptions
<1>1. Processes
  BY DEF KillInit, Processes
<1>2. Idle \in KillerStates /\ Idle.pc = "idle" /\ Idle.of = 0 /\ Idle.was = 0
  BY DEF Idle, KillerStates, KillSteps
<1>3. KillerSound(Idle)
  BY <1>1, <1>2 DEF KillerSound, LookedUp, EndedWhereSeen, Processes
<1>4. Outcomes
  BY DEF KillInit, Outcomes, Killers
<1> QED
  BY <1>1, <1>2, <1>3, <1>4 DEF KillInit, KillInv

\* How the process table changes in one step: a process stays, ends, or a new
\* one takes a free PID.
TableStep ==
  /\ companyKnown' = companyKnown /\ started <= started'
  /\ \A p \in Pids : \/ running'[p] = running[p] /\ birth'[p] = birth[p]
                     \/ running'[p] = Free /\ birth'[p] = birth[p]
                     \/ birth'[p] > started

\* What a killer knows stays true while the process table changes around it.
LEMMA ProcessesMove ==
  ASSUME Processes, Processes', TableStep, NEW r \in KillerStates
  PROVE  /\ KillerSound(r) => KillerSound(r)'
         /\ r.pid \in Pids /\ r.of <= started /\ Ended(r) => Ended(r)'
<1>1. /\ r.of \in Nat /\ r.was \in Nat /\ started \in Nat /\ started' \in Nat
      /\ started <= started' /\ \A p \in Pids : birth[p] \in Nat /\ birth'[p] \in Nat
  BY KillAssumptions DEF KillerStates, Processes, TableStep
<1>2. ASSUME r.pid \in Pids, r.of <= started, Ended(r) PROVE Ended(r)'
  BY <1>1, <1>2 DEF Ended, TableStep
<1>3. ASSUME KillerSound(r) PROVE KillerSound(r)'
  <2>1. r.of <= started' /\ r.was <= started'
    BY <1>1, <1>3 DEF KillerSound
  <2>2. LookedUp(r)'
    BY <1>1, <1>3 DEF KillerSound, LookedUp, IsTarget, TableStep
  <2>3. r.pc # "idle" => r.pid \in Pids /\ r.of <= started
    BY <1>3 DEF KillerSound
  <2>4. EndedWhereSeen(r)'
    BY <1>2, <1>3, <2>3 DEF KillerSound, EndedWhereSeen
  <2> QED
    BY <1>3, <2>1, <2>2, <2>4 DEF KillerSound
<1> QED
  BY <1>2, <1>3

\* Nothing but the process table changes.
LEMMA OnlyProcesses ==
  ASSUME KillInv, Processes', TableStep, UNCHANGED <<killer, outcome, astray>>
  PROVE  KillInv'
<1>1. \A k \in Killers : killer[k] \in KillerStates /\ KillerSound(killer[k])
  BY DEF KillInv
<1>2. ASSUME NEW k \in Killers PROVE KillerSound(killer[k])'
  <2>1. PICK r \in KillerStates : r = killer[k]
    BY <1>1
  <2>2. KillerSound(r)'
    BY <1>1, <2>1, ProcessesMove DEF KillInv
  <2>3. killer'[k] = r
    BY <2>1
  <2> QED
    BY <2>2, <2>3 DEF KillerSound, LookedUp, EndedWhereSeen, Ended
<1>3. Outcomes'
  <2>1. PICK r \in KillerStates : r = killer["realtime"]
    BY <1>1 DEF Killers
  <2>2. outcome["realtime"] = "killed" /\ ~r.blind => Ended(r) /\ r.pid \in Pids /\ r.of <= started
    BY <1>1, <2>1 DEF KillInv, Outcomes, KillerSound, Killers, Ended
  <2>3. outcome'["realtime"] = "killed" /\ ~r.blind => Ended(r)'
    BY <2>2, ProcessesMove DEF KillInv
  <2>4. killer'["realtime"] = r
    BY <2>1
  <2> QED
    BY <2>3, <2>4 DEF KillInv, Outcomes, Ended
<1> QED
  BY <1>1, <1>2, <1>3 DEF KillInv

\* A killer moves to a state that is sound as the processes are before the step;
\* the process table may change with it.
LEMMA KillerMoves ==
  ASSUME KillInv, Processes', TableStep, NEW k \in Killers, NEW r, KillerSound(r),
         outcome[k] = "none", killer' = [killer EXCEPT ![k] = r],
         UNCHANGED outcome, astray' = FALSE
  PROVE  KillInv'
<1>1. Processes /\ r \in KillerStates /\ killer \in [Killers -> KillerStates]
  BY DEF KillInv, KillerSound
<1>2. /\ killer' \in [Killers -> KillerStates] /\ killer'[k] = r
      /\ \A m \in Killers \ {k} : killer'[m] = killer[m]
  BY <1>1
<1>3. ASSUME NEW m \in Killers PROVE KillerSound(killer[m])'
  <2>1. PICK q \in KillerStates : q = killer'[m]
    BY <1>2
  <2>2. KillerSound(q)
    BY <1>2, <2>1 DEF KillInv
  <2>3. KillerSound(q)'
    BY <1>1, <2>2, ProcessesMove
  <2> QED
    BY <2>1, <2>3 DEF KillerSound, LookedUp, EndedWhereSeen, Ended
<1>4. outcome'["realtime"] = "killed" /\ ~killer'["realtime"].blind
        => Ended(killer["realtime"])'
  <2> SUFFICES ASSUME outcome["realtime"] = "killed", ~killer'["realtime"].blind
               PROVE  Ended(killer["realtime"])'
    OBVIOUS
  <2>1. PICK q \in KillerStates : q = killer'["realtime"]
    BY <1>2 DEF Killers
  <2>2. q = killer["realtime"]
    BY <1>2, <2>1 DEF Killers
  <2>3. Ended(q) /\ q.pid \in Pids /\ q.of <= started
    BY <2>1, <2>2 DEF KillInv, Outcomes, KillerSound, Killers, Ended
  <2>4. Ended(q)'
    BY <1>1, <2>3, ProcessesMove
  <2> QED
    BY <2>1, <2>4 DEF Ended
<1>5. \A m \in Killers : outcome'[m] # "none" => killer'[m].pc = "idle" /\ killer'[m].pid \in Pids
  BY <1>2 DEF KillInv, Outcomes
<1>6. Outcomes'
  BY <1>4, <1>5 DEF KillInv, Outcomes
<1> QED
  BY <1>2, <1>3, <1>6 DEF KillInv

\* The same when the process table stays.
LEMMA KillerMovesAlone ==
  ASSUME KillInv, NEW k \in Killers, NEW r, KillerSound(r),
         outcome[k] = "none", killer' = [killer EXCEPT ![k] = r],
         UNCHANGED <<running, birth, started, companyKnown, astray, outcome>>
  PROVE  KillInv'
<1>1. Processes'
  BY DEF KillInv, Processes
<1>2. TableStep
  BY KillAssumptions DEF TableStep, KillInv, Processes
<1> QED
  BY <1>1, <1>2, KillerMoves DEF KillInv

\* A process that starts, on a PID used before or not, keeps the invariant.
LEMMA StartStep ==
  ASSUME KillInv, NEW p \in Pids, NEW program \in Programs, Start(p, program)
  PROVE  KillInv'
<1>1. /\ started \in Nat /\ started' = started + 1 /\ started' \in 0..MaxStarts
      /\ UNCHANGED <<companyKnown, killer, astray, outcome>>
  BY KillAssumptions DEF Start, KillInv, Processes
<1>2. /\ birth' \in [Pids -> 0..MaxStarts] /\ birth'[p] = started'
      /\ \A q \in Pids \ {p} : birth'[q] = birth[q]
      /\ \A q \in Pids : birth[q] \in Nat /\ birth[q] <= started
  BY <1>1, KillAssumptions DEF Start, KillInv, Processes
<1>3. /\ running' \in [Pids -> Programs \cup {Free}]
      /\ \A q \in Pids \ {p} : running'[q] = running[q]
  BY DEF Start, KillInv, Processes
<1>4. \A q \in Pids : birth'[q] <= started'
  BY <1>1, <1>2
<1>5. Processes'
  BY <1>1, <1>2, <1>3, <1>4 DEF Processes
<1>6. TableStep
  BY <1>1, <1>2, <1>3 DEF TableStep
<1> QED
  BY <1>1, <1>5, <1>6, OnlyProcesses

\* A process that ends frees its PID.
LEMMA ExitStep ==
  ASSUME KillInv, NEW p \in Pids, running' = [running EXCEPT ![p] = Free],
         UNCHANGED <<birth, started, companyKnown>>
  PROVE  Processes' /\ TableStep
<1>1. Processes'
  BY DEF KillInv, Processes
<1>2. started \in Nat
  BY KillAssumptions DEF KillInv, Processes
<1>3. \A q \in Pids : (running'[q] = running[q] \/ running'[q] = Free) /\ birth'[q] = birth[q]
  BY DEF KillInv, Processes
<1> QED
  BY <1>1, <1>2, <1>3 DEF TableStep

\* The decision names the process it saw.
LEMMA DecideStep ==
  ASSUME KillInv, NEW k \in Killers, NEW p \in Pids, DecideKill(k, p)
  PROVE  KillInv'
<1>1. PICK r : r = [Idle EXCEPT !.pc = "check", !.pid = p, !.of = birth[p]]
  OBVIOUS
<1>2. /\ r.pc = "check" /\ r.pid = p /\ r.of = birth[p] /\ r.was = 0 /\ r.at = 0
      /\ r = [pc |-> "check", pid |-> p, of |-> birth[p], at |-> 0, was |-> 0, turn |-> 0,
              left |-> {}, targeted |-> FALSE, success |-> FALSE, blind |-> FALSE]
  BY <1>1 DEF Idle
<1>3. birth[p] \in 0..MaxStarts /\ birth[p] <= started /\ started \in Nat
  BY KillAssumptions DEF KillInv, Processes
<1>4. r \in KillerStates
  BY <1>2, <1>3, KillAssumptions DEF KillerStates, KillSteps
<1>5. KillerSound(r)
  BY <1>2, <1>3, <1>4 DEF KillerSound, LookedUp, EndedWhereSeen
<1> QED
  BY <1>1, <1>5, KillerMovesAlone DEF DecideKill

\* A killer that is not idle has no outcome yet, and its locals are sound.
LEMMA Busy ==
  ASSUME KillInv, NEW k \in Killers, killer[k].pc # "idle"
  PROVE  /\ outcome[k] = "none" /\ KillerSound(killer[k]) /\ killer[k] \in KillerStates
         /\ killer[k].pid \in Pids /\ killer[k].of <= started
         /\ killer[k].of \in 0..MaxStarts /\ started \in Nat
<1>1. outcome[k] = "none"
  BY DEF KillInv, Outcomes
<1>2. KillerSound(killer[k]) /\ killer[k] \in KillerStates
  BY DEF KillInv
<1>3. started \in Nat
  BY KillAssumptions DEF KillInv, Processes
<1> QED
  BY <1>1, <1>2, <1>3 DEF KillerSound, KillerStates

\* A process that was just looked up and matched may be shot at.
LEMMA AttackSound ==
  ASSUME KillInv, NEW k \in Killers, killer[k].pc # "idle", NEW p \in Pids, IsTarget(running[p]),
         NEW t \in BOOLEAN, NEW L \in SUBSET Pids, NEW r,
         r = [killer[k] EXCEPT !.pc = "kill", !.at = p, !.was = birth[p], !.turn = 0,
                               !.left = L, !.targeted = t],
         t => p = killer[k].pid, ~t /\ ~killer[k].blind => Ended(killer[k])
  PROVE  KillerSound(r)
<1>1. /\ killer[k] \in KillerStates /\ killer[k].pid \in Pids /\ killer[k].of <= started
      /\ started \in Nat
  BY Busy
<1>2. birth[p] \in 0..MaxStarts /\ birth[p] <= started
  BY DEF KillInv, Processes
<1>3. r \in KillerStates
  <2>1. /\ killer[k].pid \in Pids \cup {0} /\ killer[k].of \in 0..MaxStarts
        /\ killer[k].success \in BOOLEAN /\ killer[k].blind \in BOOLEAN
    BY <1>1 DEF KillerStates
  <2>2. r = [pc |-> "kill", pid |-> killer[k].pid, of |-> killer[k].of, at |-> p,
             was |-> birth[p], turn |-> 0, left |-> L, targeted |-> t,
             success |-> killer[k].success, blind |-> killer[k].blind]
    BY <1>1 DEF KillerStates
  <2>3. 0 \in 0..8 /\ "kill" \in KillSteps
    BY DEF KillSteps
  <2> HIDE DEF KillSteps
  <2> QED
    BY <1>2, <2>1, <2>2, <2>3, Zenon DEF KillerStates
<1>4. /\ r.pc = "kill" /\ r.at = p /\ r.was = birth[p] /\ r.pid = killer[k].pid
      /\ r.of = killer[k].of
  BY <1>1 DEF KillerStates
<1>5. r.targeted = t /\ r.blind = killer[k].blind
  BY <1>1 DEF KillerStates
<1>6. LookedUp(r)
  BY <1>4 DEF LookedUp
<1>7. Ended(killer[k]) => Ended(r)
  BY <1>4 DEF Ended
<1>8. EndedWhereSeen(r)
  BY <1>4, <1>5, <1>7 DEF EndedWhereSeen
<1> QED
  BY <1>1, <1>2, <1>3, <1>4, <1>6, <1>8 DEF KillerSound

\* A killer that does not shoot is sound when what it saw ended has ended.
LEMMA RestSound ==
  ASSUME KillInv, NEW r \in KillerStates, r.pc \in {"sweep", "report"},
         r.pid \in Pids, r.of <= started, r.was <= started,
         r.pc = "sweep" /\ ~r.blind => Ended(r),
         r.pc = "report" /\ r.success /\ ~r.blind => Ended(r)
  PROVE  KillerSound(r)
<1>1. LookedUp(r)
  BY DEF LookedUp
<1>2. EndedWhereSeen(r)
  BY DEF EndedWhereSeen
<1> QED
  BY <1>1, <1>2 DEF KillerSound

\* killSpecificPIDIfMatches keeps the invariant.
LEMMA CheckPidStep ==
  ASSUME KillInv, NEW k \in Killers, CheckPid(k)
  PROVE  KillInv'
<1> DEFINE p == killer[k].pid
<1>1. killer[k].pc = "check" /\ killer[k].pc # "idle"
  BY DEF CheckPid
<1>2. /\ outcome[k] = "none" /\ killer[k] \in KillerStates /\ p \in Pids
      /\ killer[k].of <= started /\ started \in Nat /\ killer \in [Killers -> KillerStates]
      /\ killer[k].was <= started
  BY <1>1, Busy DEF KillInv, KillerSound
<1>3. UNCHANGED <<running, birth, started, companyKnown, astray, outcome>>
  BY DEF CheckPid
<1>4. CASE IsTarget(running[p]) /\ Attack(k, p, TRUE)
  <2>1. PICK r : r = [killer[k] EXCEPT !.pc = "kill", !.at = p, !.was = birth[p], !.turn = 0,
                                       !.left = killer[k].left, !.targeted = TRUE]
    OBVIOUS
  <2>2. killer' = [killer EXCEPT ![k] = r]
    BY <1>2, <1>4, <2>1 DEF Attack, KillerStates
  <2>3. killer[k].left \in SUBSET Pids
    BY <1>2 DEF KillerStates
  <2>4. KillerSound(r)
    BY <1>1, <1>2, <1>4, <2>1, <2>3, AttackSound
  <2> QED
    BY <1>2, <1>3, <2>2, <2>4, KillerMovesAlone
<1>5. CASE killer' = [killer EXCEPT
             ![k].pc = "sweep", ![k].left = {q \in Pids : running[q] # Free},
             ![k].blind = running[p] # Free /\ birth[p] = killer[k].of]
  <2>1. PICK r : r = [killer[k] EXCEPT
             !.pc = "sweep", !.left = {q \in Pids : running[q] # Free},
             !.blind = (running[p] # Free /\ birth[p] = killer[k].of)]
    OBVIOUS
  <2>2. killer' = [killer EXCEPT ![k] = r]
    BY <1>2, <1>5, <2>1
  <2>3. r \in KillerStates
    BY <1>2, <2>1 DEF KillerStates, KillSteps
  <2>4. r.pc = "sweep" /\ r.pid = p /\ r.of = killer[k].of /\ r.was = killer[k].was
    BY <1>2, <2>1 DEF KillerStates
  <2>5. r.blind <=> running[p] # Free /\ birth[p] = killer[k].of
    BY <1>2, <2>1 DEF KillerStates
  <2>6. ~r.blind => Ended(r)
    BY <2>4, <2>5 DEF Ended
  <2>7. KillerSound(r)
    BY <1>2, <2>3, <2>4, <2>6, RestSound
  <2> QED
    BY <1>2, <1>3, <2>2, <2>7, KillerMovesAlone
<1> QED
  BY <1>4, <1>5 DEF CheckPid

\* killByIdentity keeps the invariant.
LEMMA SweepStep ==
  ASSUME KillInv, NEW k \in Killers, Sweep(k)
  PROVE  KillInv'
<1>1. killer[k].pc = "sweep" /\ killer[k].pc # "idle"
  BY DEF Sweep
<1>2. /\ outcome[k] = "none" /\ killer[k] \in KillerStates /\ killer[k].pid \in Pids
      /\ killer[k].of <= started /\ started \in Nat /\ killer \in [Killers -> KillerStates]
      /\ killer[k].was <= started /\ KillerSound(killer[k])
  BY <1>1, Busy DEF KillInv, KillerSound
<1>3. UNCHANGED <<running, birth, started, companyKnown, astray, outcome>>
  BY DEF Sweep
<1>4. ~killer[k].blind => Ended(killer[k])
  BY <1>1, <1>2 DEF KillerSound, EndedWhereSeen
<1>5. ASSUME NEW pc \in {"sweep", "report"}, NEW L \in SUBSET Pids,
             NEW r, r = [killer[k] EXCEPT !.pc = pc, !.left = L],
             killer' = [killer EXCEPT ![k] = r]
      PROVE  KillInv'
  <2>1. r \in KillerStates
    BY <1>2, <1>5 DEF KillerStates, KillSteps
  <2>2. r.pc = pc /\ r.pid = killer[k].pid /\ r.of = killer[k].of /\ r.was = killer[k].was
    BY <1>2, <1>5 DEF KillerStates
  <2>3. r.blind = killer[k].blind
    BY <1>2, <1>5 DEF KillerStates
  <2>4. ~r.blind => Ended(r)
    BY <1>4, <2>2, <2>3 DEF Ended
  <2>5. KillerSound(r)
    BY <1>2, <2>1, <2>2, <2>4, RestSound
  <2> QED
    BY <1>2, <1>3, <1>5, <2>5, KillerMovesAlone
<1>6. CASE killer' = [killer EXCEPT ![k].pc = "report"]
  <2>1. PICK r : r = [killer[k] EXCEPT !.pc = "report", !.left = killer[k].left]
    OBVIOUS
  <2>2. killer' = [killer EXCEPT ![k] = r] /\ killer[k].left \in SUBSET Pids
    BY <1>2, <1>6, <2>1 DEF KillerStates
  <2> QED
    BY <1>5, <2>1, <2>2
<1>7. ASSUME NEW p \in killer[k].left,
             killer' = [killer EXCEPT
               ![k] = IF IsTarget(running[p])
                      THEN [killer[k] EXCEPT !.left = @ \ {p}, !.pc = "kill", !.at = p,
                                             !.was = birth[p], !.turn = 0, !.targeted = FALSE]
                      ELSE [killer[k] EXCEPT !.left = @ \ {p}]]
      PROVE  KillInv'
  <2>0. p \in Pids /\ killer[k].left \ {p} \in SUBSET Pids
    BY <1>2 DEF KillerStates
  <2>1. CASE IsTarget(running[p])
    <3>1. PICK r : r = [killer[k] EXCEPT !.pc = "kill", !.at = p, !.was = birth[p], !.turn = 0,
                                         !.left = killer[k].left \ {p}, !.targeted = FALSE]
      OBVIOUS
    <3>2. killer' = [killer EXCEPT ![k] = r]
      <4>1. killer' = [killer EXCEPT ![k] =
                [killer[k] EXCEPT !.left = killer[k].left \ {p}, !.pc = "kill", !.at = p,
                                  !.was = birth[p], !.turn = 0, !.targeted = FALSE]]
        BY <1>7, <2>1
      <4> QED
        BY <1>2, <3>1, <4>1 DEF KillerStates
    <3>3. KillerSound(r)
      BY <1>1, <1>2, <1>4, <2>0, <2>1, <3>1, AttackSound
    <3> QED
      BY <1>2, <1>3, <3>2, <3>3, KillerMovesAlone
  <2>2. CASE ~IsTarget(running[p])
    <3>1. PICK r : r = [killer[k] EXCEPT !.pc = "sweep", !.left = killer[k].left \ {p}]
      OBVIOUS
    <3>2. killer' = [killer EXCEPT ![k] = r]
      <4>1. killer' = [killer EXCEPT ![k] = [killer[k] EXCEPT !.left = killer[k].left \ {p}]]
        BY <1>7, <2>2
      <4> QED
        BY <1>1, <1>2, <3>1, <4>1 DEF KillerStates
    <3> QED
      BY <1>5, <2>0, <3>1, <3>2
  <2> QED
    BY <2>1, <2>2
<1> QED
  BY <1>6, <1>7 DEF Sweep

\* A kill that reads the PID as gone without an error ends with the process of the
\* decision gone, if that is the one it was shooting at.
LEMMA ConcludeStep ==
  ASSUME KillInv, NEW k \in Killers, killer[k].pc = "kill",
         NEW success \in BOOLEAN, NEW seen \in BOOLEAN, Conclude(k, success, seen),
         success /\ seen => running[killer[k].at] = Free,
         UNCHANGED <<running, birth, started, companyKnown, astray, outcome>>
  PROVE  KillInv'
<1>1. /\ outcome[k] = "none" /\ KillerSound(killer[k]) /\ killer[k] \in KillerStates
      /\ killer[k].pid \in Pids /\ killer[k].of <= started
      /\ killer[k].of \in 0..MaxStarts /\ started \in Nat
  BY Busy
<1> DEFINE pc == IF killer[k].targeted THEN "report" ELSE "sweep"
           bl == killer[k].blind \/ ~seen
<1>2. PICK r : r = [Idle EXCEPT !.pc = pc, !.pid = killer[k].pid, !.of = killer[k].of,
                                !.left = killer[k].left, !.success = success, !.blind = bl]
  OBVIOUS
<1>3. killer' = [killer EXCEPT ![k] = r]
  BY <1>2 DEF Conclude
<1>4. r = [pc |-> pc, pid |-> killer[k].pid, of |-> killer[k].of, at |-> 0, was |-> 0,
           turn |-> 0, left |-> killer[k].left, targeted |-> FALSE, success |-> success,
           blind |-> bl]
  BY <1>2 DEF Idle
<1>5. /\ pc \in {"sweep", "report"} /\ bl \in BOOLEAN
      /\ killer[k].targeted => pc = "report"
      /\ ~killer[k].targeted => pc = "sweep"
  BY <1>1 DEF KillerStates
<1>6. /\ pc \in KillSteps /\ killer[k].left \in SUBSET Pids /\ 0 \in 0..MaxStarts /\ 0 \in 0..8
  BY <1>1, <1>5, KillAssumptions DEF KillSteps, KillerStates
<1>7. r \in KillerStates
  <2> HIDE DEF pc, bl
  <2> QED
    BY <1>1, <1>4, <1>5, <1>6, Zenon DEF KillerStates
<1>8. r.pc = pc /\ r.pid = killer[k].pid /\ r.of = killer[k].of /\ r.was = 0
  BY <1>4
<1>9. r.success = success /\ r.blind = bl
  BY <1>4
<1>10. killer[k].targeted => killer[k].at = killer[k].pid
  BY <1>1 DEF KillerSound, EndedWhereSeen
<1>11. ~killer[k].targeted /\ ~killer[k].blind => Ended(killer[k])
  BY <1>1 DEF KillerSound, EndedWhereSeen
<1>12. Ended(killer[k]) => Ended(r)
  BY <1>8 DEF Ended
<1>13. r.pc = "sweep" /\ ~r.blind => Ended(r)
  BY <1>5, <1>8, <1>9, <1>11, <1>12
<1>14. r.pc = "report" /\ r.success /\ ~r.blind => Ended(r)
  <2>1. r.pc = "report" => killer[k].targeted
    BY <1>8
  <2>2. r.success /\ ~r.blind => success /\ seen
    BY <1>9
  <2> QED
    BY <1>8, <1>10, <2>1, <2>2 DEF Ended
<1>15. KillerSound(r)
  BY <1>1, <1>5, <1>7, <1>8, <1>13, <1>14, RestSound
<1> QED
  BY <1>1, <1>3, <1>15, KillerMovesAlone

\* The next operation of verifyAndKillPID keeps the killer's locals sound.
LEMMA TurnSound ==
  ASSUME KillInv, NEW k \in Killers, killer[k].pc = "kill", NEW t \in 0..8,
         NEW r, r = [killer[k] EXCEPT !.turn = t]
  PROVE  KillerSound(r)
<1>1. KillerSound(killer[k]) /\ killer[k] \in KillerStates
  BY Busy
<1>2. r \in KillerStates
  BY <1>1 DEF KillerStates
<1>3. /\ r.pc = killer[k].pc /\ r.pid = killer[k].pid /\ r.of = killer[k].of
      /\ r.at = killer[k].at /\ r.was = killer[k].was
  BY <1>1 DEF KillerStates
<1>4. r.targeted = killer[k].targeted /\ r.blind = killer[k].blind
  BY <1>1 DEF KillerStates
<1>5. LookedUp(r)
  BY <1>1, <1>3 DEF KillerSound, LookedUp
<1>6. Ended(killer[k]) => Ended(r)
  BY <1>3 DEF Ended
<1>7. EndedWhereSeen(r)
  BY <1>1, <1>3, <1>4, <1>6 DEF KillerSound, EndedWhereSeen
<1> QED
  BY <1>1, <1>2, <1>3, <1>5, <1>7 DEF KillerSound

\* Another try of the same kill keeps the invariant.
LEMMA TurnStep ==
  ASSUME KillInv, NEW k \in Killers, killer[k].pc = "kill", NEW t \in 0..8,
         killer' = [killer EXCEPT ![k].turn = t], Processes', TableStep,
         UNCHANGED outcome, astray' = FALSE
  PROVE  KillInv'
<1>1. outcome[k] = "none" /\ killer[k] \in KillerStates
  BY Busy
<1>2. PICK r : r = [killer[k] EXCEPT !.turn = t]
  OBVIOUS
<1>3. killer' = [killer EXCEPT ![k] = r]
  BY <1>2 DEF KillInv
<1>4. KillerSound(r)
  BY <1>2, TurnSound
<1> QED
  BY <1>1, <1>3, <1>4, KillerMoves

\* A step that leaves the processes alone.
LEMMA SameProcesses ==
  ASSUME KillInv, UNCHANGED <<running, birth, started, companyKnown>>
  PROVE  Processes' /\ TableStep
<1>1. Processes'
  BY DEF KillInv, Processes
<1>2. TableStep
  BY KillAssumptions DEF TableStep, KillInv, Processes
<1> QED
  BY <1>1, <1>2

\* The looks whether the process has gone keep the invariant,
LEMMA VerifyGoneStep ==
  ASSUME KillInv, NEW k \in Killers, VerifyGone(k)
  PROVE  KillInv'
<1>1. /\ killer[k].pc = "kill" /\ killer[k].turn \in {0, 2, 4, 6, 8}
      /\ UNCHANGED <<running, birth, started, companyKnown, astray, outcome>>
  BY DEF VerifyGone
<1>2. CASE running[killer[k].at] = Free /\ Conclude(k, TRUE, TRUE)
  BY <1>1, <1>2, ConcludeStep
<1>3. CASE Conclude(k, TRUE, FALSE)
  BY <1>1, <1>3, ConcludeStep
<1>4. CASE Conclude(k, FALSE, TRUE)
  BY <1>1, <1>4, ConcludeStep
<1>5. CASE killer[k].turn # 8 /\ killer' = [killer EXCEPT ![k].turn = @ + 1]
  <2>1. killer[k].turn + 1 \in 0..8
    BY <1>1, <1>5
  <2>2. killer' = [killer EXCEPT ![k].turn = killer[k].turn + 1]
    BY <1>5
  <2>3. Processes' /\ TableStep /\ astray' = FALSE
    BY <1>1, SameProcesses DEF KillInv
  <2> QED
    BY <1>1, <2>1, <2>2, <2>3, TurnStep
<1> QED
  BY <1>2, <1>3, <1>4, <1>5 DEF VerifyGone

\* taskkill hits a process that matched when it was looked up, or one that took
\* its PID since.
LEMMA TerminateStep ==
  ASSUME KillInv, NEW k \in Killers, Terminate(k)
  PROVE  KillInv'
<1>1. /\ killer[k].pc = "kill" /\ killer[k].turn \in {1, 3, 7}
      /\ killer' = [killer EXCEPT ![k].turn = @ + 1]
      /\ UNCHANGED <<birth, started, companyKnown, outcome>>
  BY DEF Terminate
<1>2. killer[k].turn + 1 \in 0..8
  BY <1>1
<1>3. killer' = [killer EXCEPT ![k].turn = killer[k].turn + 1]
  BY <1>1
<1>4. CASE UNCHANGED <<running, astray>>
  <2>1. Processes' /\ TableStep /\ astray' = FALSE
    BY <1>1, <1>4, SameProcesses DEF KillInv
  <2> QED
    BY <1>1, <1>2, <1>3, <2>1, TurnStep
<1>5. CASE /\ running[killer[k].at] # Free
           /\ running' = [running EXCEPT ![killer[k].at] = Free]
           /\ astray' = (astray \/ (birth[killer[k].at] = killer[k].was
                                      /\ ~IsTarget(running[killer[k].at])))
  <2>1. LookedUp(killer[k])
    BY <1>1, Busy DEF KillerSound
  <2>2. /\ killer[k].at \in Pids
        /\ birth[killer[k].at] = killer[k].was => IsTarget(running[killer[k].at])
    BY <1>1, <1>5, <2>1 DEF LookedUp
  <2>3. astray' = FALSE
    BY <1>5, <2>2 DEF KillInv
  <2>4. Processes' /\ TableStep
    BY <1>1, <1>5, <2>2, ExitStep
  <2> QED
    BY <1>1, <1>2, <1>3, <2>3, <2>4, TurnStep
<1> QED
  BY <1>4, <1>5 DEF Terminate

\* so does the WM_CLOSE of the gentler tries,
LEMMA CloseWindowsStep ==
  ASSUME KillInv, NEW k \in Killers, CloseWindows(k)
  PROVE  KillInv'
<1>1. /\ killer[k].pc = "kill" /\ killer' = [killer EXCEPT ![k].turn = 6]
      /\ UNCHANGED <<running, birth, started, companyKnown, astray, outcome>>
  BY DEF CloseWindows
<1>2. Processes' /\ TableStep /\ astray' = FALSE
  BY <1>1, SameProcesses DEF KillInv
<1>3. 6 \in 0..8
  OBVIOUS
<1> QED
  BY <1>1, <1>2, <1>3, TurnStep

\* and the report of the outcome.
LEMMA ReportKillStep ==
  ASSUME KillInv, NEW k \in Killers, Report(k)
  PROVE  KillInv'
<1>1. killer[k].pc = "report" /\ killer[k].pc # "idle"
  BY DEF Report
<1>2. /\ outcome[k] = "none" /\ KillerSound(killer[k]) /\ killer[k] \in KillerStates
      /\ killer[k].pid \in Pids /\ killer[k].of <= started
      /\ killer[k].of \in 0..MaxStarts /\ started \in Nat
  BY <1>1, Busy
<1>3. PICK r : r = [Idle EXCEPT !.pid = killer[k].pid, !.of = killer[k].of,
                                !.blind = killer[k].blind]
  OBVIOUS
<1>4. /\ killer' = [killer EXCEPT ![k] = r]
      /\ UNCHANGED <<running, birth, started, companyKnown, astray>>
  BY <1>3 DEF Report
<1>5. r = [pc |-> "idle", pid |-> killer[k].pid, of |-> killer[k].of, at |-> 0, was |-> 0,
           turn |-> 0, left |-> {}, targeted |-> FALSE, success |-> FALSE,
           blind |-> killer[k].blind]
  BY <1>3 DEF Idle
<1>6. /\ "idle" \in KillSteps /\ {} \in SUBSET Pids /\ 0 \in 0..MaxStarts /\ 0 \in 0..8
      /\ killer[k].blind \in BOOLEAN
  BY <1>2, KillAssumptions DEF KillSteps, KillerStates
<1>7. r \in KillerStates
  BY <1>2, <1>5, <1>6, Zenon DEF KillerStates
<1>8. r.pc = "idle" /\ r.pid = killer[k].pid /\ r.of = killer[k].of /\ r.was = 0
  BY <1>5
<1>9. r.blind = killer[k].blind
  BY <1>5
<1>10. KillerSound(r)
  BY <1>2, <1>7, <1>8 DEF KillerSound, LookedUp, EndedWhereSeen
<1>11. PICK a \in {"killed", "log"} : /\ outcome' = [outcome EXCEPT ![k] = a]
                                      /\ k = "realtime" /\ a = "killed" => killer[k].success
  BY DEF Report, Killers
<1>12. /\ killer \in [Killers -> KillerStates] /\ killer' \in [Killers -> KillerStates]
       /\ killer'[k] = r /\ \A m \in Killers \ {k} : killer'[m] = killer[m]
  BY <1>4, <1>7 DEF KillInv
<1>13. /\ outcome \in [Killers -> {"none", "killed", "log"}]
       /\ outcome' \in [Killers -> {"none", "killed", "log"}] /\ outcome'[k] = a
       /\ \A m \in Killers \ {k} : outcome'[m] = outcome[m]
  BY <1>11 DEF KillInv, Outcomes
<1>14. \A m \in Killers : outcome'[m] # "none" => killer'[m].pc = "idle" /\ killer'[m].pid \in Pids
  BY <1>2, <1>8, <1>12, <1>13 DEF KillInv, Outcomes
<1>15. ASSUME outcome'["realtime"] = "killed", ~killer'["realtime"].blind
       PROVE  Ended(killer["realtime"])'
  <2>1. CASE k = "realtime"
    <3>1. killer[k].success /\ ~killer[k].blind
      BY <1>9, <1>11, <1>12, <1>13, <1>15, <2>1
    <3>2. Ended(killer[k])
      BY <1>1, <1>2, <3>1 DEF KillerSound, EndedWhereSeen
    <3> QED
      BY <1>4, <1>8, <1>12, <2>1, <3>2 DEF Ended
  <2>2. CASE k # "realtime"
    <3>1. "realtime" \in Killers \ {k}
      BY <2>2 DEF Killers
    <3>2. killer'["realtime"] = killer["realtime"] /\ outcome'["realtime"] = outcome["realtime"]
      BY <1>12, <1>13, <3>1
    <3> QED
      BY <1>4, <1>15, <3>2 DEF KillInv, Outcomes, Ended
  <2> QED
    BY <2>1, <2>2
<1>16. Outcomes'
  BY <1>13, <1>14, <1>15 DEF Outcomes
<1>17. Processes' /\ TableStep /\ astray' = FALSE
  BY <1>4, SameProcesses DEF KillInv
<1>18. ASSUME NEW m \in Killers PROVE KillerSound(killer[m])'
  <2>1. PICK q \in KillerStates : q = killer'[m]
    BY <1>12
  <2>2. KillerSound(q)
    BY <1>10, <1>12, <2>1 DEF KillInv
  <2>3. KillerSound(q)'
    BY <1>17, <2>2, ProcessesMove DEF KillInv
  <2> QED
    BY <2>1, <2>3 DEF KillerSound, LookedUp, EndedWhereSeen, Ended
<1> QED
  BY <1>12, <1>16, <1>17, <1>18 DEF KillInv

\* Every step keeps the invariant.
LEMMA KillInvNext == KillInv /\ [KillNext]_killVars => KillInv'
<1> SUFFICES ASSUME KillInv, [KillNext]_killVars PROVE KillInv'
  OBVIOUS
<1>1. ASSUME NEW p \in Pids, Exit(p) PROVE KillInv'
  <2>1. Processes' /\ TableStep /\ UNCHANGED <<killer, outcome, astray>>
    BY <1>1, ExitStep DEF Exit
  <2> QED
    BY <2>1, OnlyProcesses
<1>2. CASE UNCHANGED killVars
  <2>1. Processes' /\ TableStep /\ UNCHANGED <<killer, outcome, astray>>
    BY <1>2, SameProcesses DEF killVars
  <2> QED
    BY <2>1, OnlyProcesses
<1> QED
  BY <1>1, <1>2, StartStep, DecideStep, CheckPidStep, SweepStep, VerifyGoneStep, TerminateStep,
     CloseWindowsStep, ReportKillStep DEF KillNext

\* No taskkill ends a process whose look-up had not matched, for any PIDs and
\* any number of processes that start, end and take over PIDs
\* (killSpecificPIDIfMatches, killByIdentity).
THEOREM OnlyMatchingKilledHolds == KillSpec => []OnlyMatchingKilled
<1>1. KillInv => OnlyMatchingKilled
  BY DEF KillInv, OnlyMatchingKilled
<1> QED
  BY <1>1, KillInvInit, KillInvNext, PTL DEF KillSpec

\* "killed" of the realtime path means that the process of the decision is gone,
\* whoever else was killing and whatever PIDs were used again (verifyAndKillPID,
\* enforceLocalPolicy).
THEOREM KilledMeansGoneHolds == KillSpec => []KilledMeansGone
<1>1. KillInv => KilledMeansGone
  BY DEF KillInv, Outcomes, Ended, KilledMeansGone
<1> QED
  BY <1>1, KillInvInit, KillInvNext, PTL DEF KillSpec

-----------------------------------------------------------------------------
(* The command API.                                                          *)

CmdTyped ==
  /\ cmd \in [pc : {"idle", "job", "rows", "meta", "answered", "refused", "crashed"},
              kind : Kinds, targets : SUBSET Agents, left : SUBSET Agents]
  /\ rows \in [Agents -> RowStatuses \cup {"none"}]
  /\ missing \in SUBSET Agents
  /\ jobRow \in {"none", "pending", "done"} /\ metaRow \in BOOLEAN
  /\ poll \in [pc : {"idle", "meta", "rows"}, status : {"none", "pending", "done"}]

\* How far the rows are: a target that is done has its row, unless it could not
\* be written or was deleted, and nobody else has one.
RowsSoFar ==
  /\ cmd.pc = "idle" => \A a \in Agents : rows[a] = "none" /\ a \notin missing
  /\ cmd.left \subseteq cmd.targets
  /\ \A a \in cmd.left : rows[a] = "none" /\ a \notin missing
  /\ cmd.pc # "idle" => \A a \in Agents \ cmd.left :
       rows[a] = "none" <=> a \in missing \/ a \notin cmd.targets
  /\ \A a \in Agents : rows[a] = "deferred" => cmd.kind = "toggle"

\* The line of command_requests is written after all rows, and an answer is put
\* together after that line was read: the command is done with its targets.
MetaLast ==
  /\ cmd.pc \in {"meta", "answered"} => cmd.left = {}
  /\ metaRow => cmd.pc = "answered"
  /\ poll.pc = "rows" => metaRow

CmdInv == CmdTyped /\ RowsSoFar /\ MetaLast

\* Before the first command there are no rows and no answer.
LEMMA CmdInvInit == CmdInit => CmdInv
<1> SUFFICES ASSUME CmdInit PROVE CmdInv
  OBVIOUS
<1>1. CmdTyped
  BY DEF CmdInit, CmdTyped, Kinds
<1>2. cmd.pc = "idle" /\ cmd.left = {} /\ poll.pc = "idle" /\ ~metaRow
  BY DEF CmdInit
<1>3. RowsSoFar /\ MetaLast
  BY <1>2 DEF CmdInit, RowsSoFar, MetaLast
<1> QED
  BY <1>1, <1>3 DEF CmdInv

\* resolveTargets returns agents of the directory.
LEMMA ResolvedAgents ==
  ASSUME NEW t, NEW ts \in Resolved(t)
  PROVE  ts \in SUBSET Agents
BY DEF Resolved

\* Once the line of command_requests is there, the rows are those of the targets,
\* each with one of the three results.
LEMMA FoundCounts ==
  ASSUME CmdTyped, RowsSoFar, MetaLast, metaRow, NEW st
  PROVE  /\ Found(st).code = 200
         /\ Found(st).total = Cardinality(cmd.targets \ missing)
         /\ Found(st).pending + Found(st).succeeded + Found(st).failed = Found(st).total
         /\ cmd.kind = "wake" => Found(st).pending = 0
<1> DEFINE P == {a \in Agents : rows[a] \in {"deferred"}}
           S == {a \in Agents : rows[a] \in {"success"}}
           F == {a \in Agents : rows[a] \in {"failed"}}
           T == {a \in Agents : rows[a] \in RowStatuses}
<1>1. /\ Found(st).code = 200 /\ Found(st).total = Cardinality(T)
      /\ Found(st).pending = Cardinality(P)
      /\ Found(st).succeeded = Cardinality(S) /\ Found(st).failed = Cardinality(F)
  BY DEF Found
<1>2. cmd.pc # "idle" /\ cmd.left = {} /\ cmd.targets \in SUBSET Agents
  BY DEF MetaLast, CmdTyped
<1>3. T = cmd.targets \ missing
  BY <1>2 DEF RowsSoFar, CmdTyped, RowStatuses
<1>4. /\ T = (P \cup S) \cup F /\ P \cap S = {} /\ (P \cup S) \cap F = {}
  BY DEF RowStatuses
<1>5. IsFiniteSet(P) /\ IsFiniteSet(S) /\ IsFiniteSet(F)
  BY CommandAssumptions, FS_Subset
<1>6. IsFiniteSet(P \cup S) /\ Cardinality(P \cup S) = Cardinality(P) + Cardinality(S)
  <2> HIDE DEF P, S
  <2>1. /\ IsFiniteSet(P \cup S)
        /\ Cardinality(P \cup S) = Cardinality(P) + Cardinality(S) - Cardinality(P \cap S)
    BY <1>5, FS_Union
  <2>2. Cardinality(P \cap S) = 0 /\ Cardinality(P) \in Nat /\ Cardinality(S) \in Nat
    BY <1>4, <1>5, FS_EmptySet, FS_CardinalityType
  <2> QED
    BY <2>1, <2>2
<1>7. Cardinality(T) = Cardinality(P) + Cardinality(S) + Cardinality(F)
  <2> HIDE DEF P, S, F, T
  <2> DEFINE U == P \cup S
  <2>1. IsFiniteSet(U) /\ T = U \cup F /\ U \cap F = {}
    BY <1>4, <1>6
  <2> HIDE DEF U
  <2>2. Cardinality(T) = Cardinality(U) + Cardinality(F) - Cardinality(U \cap F)
    BY <1>5, <2>1, FS_Union
  <2>3. /\ Cardinality(U \cap F) = 0 /\ Cardinality(U) \in Nat
        /\ Cardinality(F) \in Nat
    BY <1>5, <2>1, FS_EmptySet, FS_CardinalityType
  <2>4. Cardinality(U) = Cardinality(P) + Cardinality(S)
    BY <1>6 DEF U
  <2> QED
    BY <2>2, <2>3, <2>4
<1>8. cmd.kind = "wake" => Cardinality(P) = 0
  <2>1. cmd.kind = "wake" => P = {}
    BY DEF RowsSoFar
  <2> QED
    BY <2>1, FS_EmptySet
<1> QED
  BY <1>1, <1>3, <1>7, <1>8

\* The command's own steps come before the line of command_requests: no poll has
\* read that line.
LEMMA CommandSteps ==
  ASSUME CmdInv, CmdTyped', RowsSoFar', cmd.pc # "answered",
         UNCHANGED poll \/ poll' = [pc |-> "idle", status |-> "none"],
         cmd'.pc \in {"meta", "answered"} => cmd'.left = {},
         metaRow' => cmd'.pc = "answered"
  PROVE  CmdInv'
<1>1. ~metaRow /\ poll.pc # "rows"
  BY DEF CmdInv, MetaLast
<1>2. poll'.pc # "rows"
  BY <1>1
<1>3. MetaLast'
  BY <1>2 DEF MetaLast
<1> QED
  BY <1>3 DEF CmdInv

\* Every step of the command and of the poll keeps the invariant.
LEMMA CmdInvNext == CmdInv /\ [CmdNext]_cmdVars => CmdInv'
<1> SUFFICES ASSUME CmdInv, [CmdNext]_cmdVars PROVE CmdInv'
  OBVIOUS
<1> DEFINE Cmd == [pc : {"idle", "job", "rows", "meta", "answered", "refused", "crashed"},
                   kind : Kinds, targets : SUBSET Agents, left : SUBSET Agents]
<1>0. /\ CmdTyped /\ RowsSoFar /\ MetaLast
      /\ cmd \in Cmd
  BY DEF CmdInv, CmdTyped
<1>1. ASSUME NEW kind \in Kinds, NEW t \in Targets, PostCommand(kind, t) PROVE CmdInv'
  <2>1. PICK ts \in Resolved(t) :
          cmd' = [pc |-> IF ts = {} THEN "refused" ELSE "job", kind |-> kind,
                  targets |-> ts, left |-> ts]
    BY <1>1 DEF PostCommand
  <2>2. ts \in SUBSET Agents
    BY ResolvedAgents
  <2>3. /\ cmd.pc = "idle" /\ UNCHANGED <<jobRow, rows, metaRow, poll, answer, missing, polls>>
    BY <1>1 DEF PostCommand
  <2>4. /\ cmd'.pc \in {"refused", "job"} /\ cmd'.left = ts /\ cmd'.targets = ts
        /\ cmd' \in Cmd
    BY <2>1, <2>2
  <2>5. CmdTyped'
    BY <1>0, <2>3, <2>4 DEF CmdTyped
  <2>6. \A a \in Agents : rows[a] = "none" /\ a \notin missing
    BY <1>0, <2>3 DEF RowsSoFar
  <2>7. RowsSoFar'
    BY <2>2, <2>3, <2>4, <2>6 DEF RowsSoFar
  <2>8. metaRow' => cmd'.pc = "answered"
    BY <1>0, <2>3 DEF MetaLast
  <2> QED
    BY <2>3, <2>4, <2>5, <2>7, <2>8, CommandSteps
<1>2. ASSUME NEW pc \in {"rows", "meta", "answered", "refused", "crashed"},
             cmd' = [cmd EXCEPT !.pc = pc], cmd.pc \in {"job", "rows", "meta"},
             pc \in {"meta", "answered"} => cmd.left = {}, metaRow' => pc = "answered",
             UNCHANGED <<rows, missing>>, jobRow' \in {"none", "pending", "done"},
             metaRow' \in BOOLEAN, UNCHANGED poll \/ poll' = [pc |-> "idle", status |-> "none"]
      PROVE  CmdInv'
  <2>1. cmd'.pc = pc /\ cmd'.left = cmd.left /\ cmd'.targets = cmd.targets /\ cmd'.kind = cmd.kind
    BY <1>0, <1>2
  <2>2. cmd' \in Cmd /\ poll' \in [pc : {"idle", "meta", "rows"}, status : {"none", "pending", "done"}]
    BY <1>0, <1>2 DEF CmdTyped
  <2>3. CmdTyped'
    BY <1>0, <1>2, <2>2 DEF CmdTyped
  <2>4. RowsSoFar'
    BY <1>0, <1>2, <2>1 DEF RowsSoFar
  <2> QED
    BY <1>2, <2>1, <2>3, <2>4, CommandSteps
<1>3. CASE RefuseCommand
  BY <1>0, <1>2, <1>3 DEF RefuseCommand, CmdTyped, MetaLast
<1>4. ASSUME NEW ok \in BOOLEAN, InsertJob(ok) PROVE CmdInv'
  BY <1>0, <1>2, <1>4 DEF InsertJob, CmdTyped, MetaLast
<1>5. ASSUME NEW ok \in BOOLEAN, FinishJob(ok) PROVE CmdInv'
  <2>1. /\ cmd.pc = "rows" /\ cmd.left = {} /\ cmd' = [cmd EXCEPT !.pc = "meta"]
        /\ jobRow' = "done" \/ jobRow' = jobRow
        /\ UNCHANGED <<rows, metaRow, poll, answer, missing, polls>>
    BY <1>5 DEF FinishJob
  <2> QED
    BY <1>0, <1>2, <2>1 DEF CmdTyped, MetaLast
<1>6. ASSUME NEW ok \in BOOLEAN, InsertCommandRequest(ok) PROVE CmdInv'
  BY <1>0, <1>2, <1>6 DEF InsertCommandRequest, CmdTyped, MetaLast
<1>7. CASE CrashCommand
  BY <1>0, <1>2, <1>7 DEF CrashCommand, CmdTyped, MetaLast
<1>8. ASSUME NEW a \in Agents, NEW status \in RowStatuses, NEW ok \in BOOLEAN,
             DoTarget(a, status, ok)
      PROVE  CmdInv'
  <2>1. /\ cmd.pc = "rows" /\ a \in cmd.left
        /\ cmd' = [cmd EXCEPT !.left = @ \ {a}]
        /\ UNCHANGED <<jobRow, metaRow, poll, answer, polls>>
    BY <1>8 DEF DoTarget
  <2>2. /\ cmd'.pc = "rows" /\ cmd'.left = cmd.left \ {a} /\ cmd'.targets = cmd.targets
        /\ cmd'.kind = cmd.kind /\ cmd' \in Cmd
    BY <1>0, <2>1
  <2>3. \/ rows' = [rows EXCEPT ![a] = status] /\ missing' = missing
        \/ missing' = missing \cup {a} /\ rows' = rows
    BY <1>8 DEF DoTarget
  <2>4. rows' \in [Agents -> RowStatuses \cup {"none"}] /\ missing' \in SUBSET Agents
    BY <1>0, <2>3 DEF CmdTyped
  <2>5. CmdTyped'
    BY <1>0, <2>1, <2>2, <2>4 DEF CmdTyped
  <2>6. /\ rows[a] = "none" /\ a \notin missing /\ a \in Agents
        /\ status # "none"
        /\ status = "deferred" => cmd.kind = "toggle"
    BY <1>0, <1>8, <2>1 DEF RowsSoFar, RowStatuses, DoTarget
  <2>7. \A b \in Agents \ {a} : rows'[b] = rows[b] /\ (b \in missing' <=> b \in missing)
    BY <1>0, <2>3 DEF CmdTyped
  <2>8. \/ rows'[a] = status /\ a \notin missing'
        \/ rows'[a] = "none" /\ a \in missing'
    BY <1>0, <2>3, <2>6 DEF CmdTyped
  <2>9. \A b \in cmd'.left : rows'[b] = "none" /\ b \notin missing'
    BY <1>0, <2>2, <2>7 DEF RowsSoFar
  <2>10. a \in cmd.targets
    BY <1>0, <2>1, <2>6 DEF RowsSoFar
  <2>11. \A b \in Agents \ cmd'.left :
           rows'[b] = "none" <=> b \in missing' \/ b \notin cmd'.targets
    BY <1>0, <2>1, <2>2, <2>6, <2>7, <2>8, <2>10 DEF RowsSoFar
  <2>12. \A b \in Agents : rows'[b] = "deferred" => cmd'.kind = "toggle"
    BY <1>0, <2>2, <2>6, <2>7, <2>8 DEF RowsSoFar
  <2>13. RowsSoFar'
    BY <1>0, <2>2, <2>9, <2>11, <2>12 DEF RowsSoFar
  <2> QED
    BY <1>0, <2>1, <2>2, <2>5, <2>13, CommandSteps DEF MetaLast
<1>9. ASSUME UNCHANGED <<cmd, jobRow, rows, metaRow, missing>>,
             poll' \in [pc : {"idle", "meta", "rows"}, status : {"none", "pending", "done"}],
             poll'.pc = "rows" => metaRow
      PROVE  CmdInv'
  <2>1. CmdTyped' /\ RowsSoFar'
    BY <1>0, <1>9 DEF CmdTyped, RowsSoFar
  <2>2. MetaLast'
    BY <1>0, <1>9 DEF MetaLast
  <2> QED
    BY <2>1, <2>2 DEF CmdInv
<1>10. ASSUME NEW a \in Agents, DeleteAgent(a) PROVE CmdInv'
  <2>1. /\ rows[a] # "none" /\ rows' = [rows EXCEPT ![a] = "none"]
        /\ missing' = missing \cup {a}
        /\ UNCHANGED <<cmd, jobRow, metaRow, poll, answer, polls>>
    BY <1>10 DEF DeleteAgent
  <2>2. CmdTyped'
    BY <1>0, <2>1 DEF CmdTyped
  <2>3. /\ rows'[a] = "none" /\ a \in missing'
        /\ \A b \in Agents \ {a} : rows'[b] = rows[b] /\ (b \in missing' <=> b \in missing)
    BY <1>0, <2>1 DEF CmdTyped
  <2>4. cmd.pc # "idle" /\ a \notin cmd.left
    BY <1>0, <2>1 DEF RowsSoFar
  <2>5. RowsSoFar'
    BY <1>0, <2>1, <2>3, <2>4 DEF RowsSoFar, CmdTyped
  <2>6. MetaLast'
    BY <1>0, <2>1 DEF MetaLast
  <2> QED
    BY <2>2, <2>5, <2>6 DEF CmdInv
<1>11. CASE GetJob
  <2>1. UNCHANGED <<cmd, jobRow, rows, metaRow, missing>>
    BY <1>11 DEF GetJob
  <2>2. \/ poll' = poll
        \/ poll' = [pc |-> "meta", status |-> jobRow]
    BY <1>11 DEF GetJob
  <2> QED
    BY <1>0, <1>9, <2>1, <2>2 DEF CmdTyped, MetaLast
<1>12. CASE GetMeta
  <2>1. UNCHANGED <<cmd, jobRow, rows, metaRow, missing>>
    BY <1>12 DEF GetMeta
  <2>2. CASE metaRow
    <3>1. poll' = [poll EXCEPT !.pc = "rows"]
      BY <1>12, <2>2 DEF GetMeta
    <3> QED
      BY <1>0, <1>9, <2>1, <2>2, <3>1 DEF CmdTyped
  <2>3. CASE ~metaRow
    <3>1. poll' = [poll EXCEPT !.pc = "idle"]
      BY <1>12, <2>3 DEF GetMeta
    <3> QED
      BY <1>0, <1>9, <2>1, <3>1 DEF CmdTyped
  <2> QED
    BY <2>2, <2>3
<1>13. CASE GetResults
  <2>1. /\ UNCHANGED <<cmd, jobRow, rows, metaRow, missing>>
        /\ poll' = [poll EXCEPT !.pc = "idle"]
    BY <1>13 DEF GetResults
  <2> QED
    BY <1>0, <1>9, <2>1 DEF CmdTyped
<1>14. CASE UNCHANGED cmdVars
  BY <1>0, <1>9, <1>14 DEF cmdVars, CmdTyped, MetaLast
<1> QED
  BY <1>1, <1>3, <1>4, <1>5, <1>6, <1>7, <1>8, <1>10, <1>11, <1>12, <1>13, <1>14 DEF CmdNext

\* An answer to a poll accounts for every target whose row was written and not
\* deleted since, for any directory of agents and any failures, deletions, crash
\* and interleaving of the command with its polls (createNetworkToggleCommand,
\* createWakeCommand, handleGetCommand, DeleteAgent).
THEOREM CommandCountedHolds == CmdSpec => CommandCounted
<1>1. CmdInv /\ [CmdNext]_cmdVars =>
        [poll.pc = "rows" /\ poll'.pc = "idle" /\ answer'.code = 200 =>
           /\ answer'.total = Cardinality(cmd.targets \ missing)
           /\ answer'.pending + answer'.succeeded + answer'.failed = answer'.total
           /\ cmd.kind = "wake" => answer'.pending = 0]_cmdVars
  <2> SUFFICES ASSUME CmdInv, CmdNext, poll.pc = "rows", poll'.pc = "idle"
               PROVE  /\ answer'.total = Cardinality(cmd.targets \ missing)
                      /\ answer'.pending + answer'.succeeded + answer'.failed = answer'.total
                      /\ cmd.kind = "wake" => answer'.pending = 0
    BY DEF cmdVars
  <2>1. metaRow /\ cmd.pc = "answered"
    BY DEF CmdInv, MetaLast
  <2>2. GetResults
    BY <2>1 DEF CmdNext, PostCommand, RefuseCommand, CrashCommand, InsertJob, FinishJob,
       InsertCommandRequest, DoTarget, DeleteAgent, GetJob, GetMeta
  <2>3. answer' = Found(poll.status)
    BY <2>2 DEF GetResults
  <2> QED
    BY <2>1, <2>3, FoundCounts DEF CmdInv
<1> QED
  BY <1>1, CmdInvInit, CmdInvNext, PTL DEF CmdSpec, CommandCounted

-----------------------------------------------------------------------------
(* The application catalog.                                                  *)

HandlerStates ==
  [pc : {"idle", "upsert", "sight"}, path : Paths \cup {NoRow}, meta : BOOLEAN,
   row : Rows \cup {NoRow}]

CatTyped ==
  /\ queue \in [Links -> Seq([path : Paths, meta : BOOLEAN])]
  /\ serving \in [Links -> HandlerStates]
  /\ \A c \in Links : /\ serving[c].pc # "idle" => serving[c].path \in Paths
                      /\ serving[c].pc = "sight" => serving[c].row \in Rows

ServesPath(c, p) == serving[c].pc # "idle" /\ serving[c].path = p

\* What holds of a path that never had two handlers at once: its links are one,
\* and the handler that is at it has found none, or is about to write that one.
LinkedSound(p) ==
  /\ \A r, q \in Linked(p) : r = q
  /\ \A c, d \in Links : ServesPath(c, p) /\ ServesPath(d, p) => c = d
  /\ \A c \in Links : ServesPath(c, p) =>
       /\ serving[c].pc = "upsert" => Linked(p) = {}
       /\ serving[c].pc = "sight" => Linked(p) \subseteq {serving[c].row}

CatInv == CatTyped /\ \A p \in Paths \ overlapped : LinkedSound(p)

\* An empty catalog links nothing.
LEMMA CatInvInit == CatInit => CatInv
<1> SUFFICES ASSUME CatInit PROVE CatInv
  OBVIOUS
<1>1. Waiting \in HandlerStates /\ Waiting.pc = "idle"
  BY DEF Waiting, HandlerStates
<1>2. CatTyped
  BY <1>1 DEF CatInit, CatTyped
<1>3. \A p \in Paths : LinkedSound(p)
  BY <1>1 DEF CatInit, LinkedSound, ServesPath, Linked
<1> QED
  BY <1>2, <1>3 DEF CatInv

\* A handler moves on at its path, or is done with it, without a new link.
LEMMA HandlerMoves ==
  ASSUME CatInv, NEW c \in Links, NEW h \in HandlerStates,
         serving' = [serving EXCEPT ![c] = h], UNCHANGED <<queue, sightings, overlapped>>,
         h.pc # "idle" => ServesPath(c, h.path) /\ h.pc = "sight" /\ serving[c].pc = "upsert"
                          /\ h.row \in Rows
  PROVE  CatInv'
<1>1. CatTyped /\ serving \in [Links -> HandlerStates]
  BY DEF CatInv, CatTyped
<1>2. /\ serving' \in [Links -> HandlerStates] /\ serving'[c] = h
      /\ \A d \in Links \ {c} : serving'[d] = serving[d]
  BY <1>1
<1>3. CatTyped'
  BY <1>1, <1>2 DEF CatTyped, ServesPath
<1>4. ASSUME NEW p \in Paths, LinkedSound(p) PROVE LinkedSound(p)'
  <2>1. Linked(p)' = Linked(p)
    BY DEF Linked
  <2>2. \A d \in Links : ServesPath(d, p)' => ServesPath(d, p)
    BY <1>2 DEF ServesPath
  <2>3. \A d \in Links : ServesPath(d, p)' =>
          /\ serving'[d].pc = "upsert" => Linked(p) = {}
          /\ serving'[d].pc = "sight" => Linked(p) \subseteq {serving'[d].row}
    BY <1>2, <1>4 DEF LinkedSound, ServesPath
  <2> QED
    BY <1>4, <2>1, <2>2, <2>3 DEF LinkedSound
<1> QED
  BY <1>3, <1>4 DEF CatInv

\* The look-up of a path keeps the invariant.
LEMMA LookUpStep ==
  ASSUME CatInv, NEW c \in Links, NEW ok \in BOOLEAN, LookUp(c, ok)
  PROVE  CatInv'
<1> DEFINE m == Head(queue[c])
<1>1. /\ CatTyped /\ serving \in [Links -> HandlerStates]
      /\ queue \in [Links -> Seq([path : Paths, meta : BOOLEAN])]
      /\ queue[c] \in Seq([path : Paths, meta : BOOLEAN]) /\ queue[c] # <<>>
  BY DEF CatInv, CatTyped, LookUp
<1>2. m \in [path : Paths, meta : BOOLEAN]
  <2>1. ASSUME NEW S, NEW q \in Seq(S), q # <<>> PROVE Head(q) \in S
    BY <2>1
  <2> QED
    BY <1>1, <2>1
<1>3. m.path \in Paths /\ m.meta \in BOOLEAN
  BY <1>2
<1>4. queue' \in [Links -> Seq([path : Paths, meta : BOOLEAN])]
  <2>1. Tail(queue[c]) \in Seq([path : Paths, meta : BOOLEAN])
    BY <1>1
  <2>2. queue' = [queue EXCEPT ![c] = Tail(queue[c])]
    BY DEF LookUp
  <2> QED
    BY <1>1, <2>1, <2>2
<1> HIDE DEF m
<1>5. /\ UNCHANGED sightings
      /\ overlapped \subseteq overlapped'
      /\ ok /\ (\E d \in Links \ {c} : ServesPath(d, m.path)) => m.path \in overlapped'
  <2>1. overlapped' = overlapped \cup {p \in {m.path} : ok /\ \E d \in Links \ {c} :
                                          serving[d].pc # "idle" /\ serving[d].path = p}
    BY DEF LookUp, m
  <2> QED
    BY <2>1 DEF LookUp, ServesPath
<1>6. \A p \in Paths : Linked(p)' = Linked(p)
  BY <1>5 DEF Linked
<1>7. CASE UNCHANGED serving
  <2>1. CatTyped'
    BY <1>1, <1>4, <1>7 DEF CatTyped
  <2>2. \A p \in Paths : LinkedSound(p) => LinkedSound(p)'
    BY <1>6, <1>7 DEF LinkedSound, ServesPath
  <2> QED
    BY <1>5, <2>1, <2>2 DEF CatInv
<1>8. ASSUME ok, NEW h \in HandlerStates, serving' = [serving EXCEPT ![c] = h],
             h.path = m.path, h.pc = "upsert" => Linked(m.path) = {},
             h.pc = "sight" => h.row \in Linked(m.path), h.pc # "idle"
      PROVE  CatInv'
  <2>1. /\ serving' \in [Links -> HandlerStates] /\ serving'[c] = h
        /\ \A d \in Links \ {c} : serving'[d] = serving[d]
    BY <1>1, <1>8
  <2>2. CatTyped'
    BY <1>1, <1>3, <1>4, <1>8, <2>1 DEF CatTyped, Linked
  <2>3. ASSUME NEW p \in Paths \ overlapped' PROVE LinkedSound(p)'
    <3>1. LinkedSound(p)
      BY <1>5, <2>3 DEF CatInv
    <3>2. \A d \in Links \ {c} : ServesPath(d, p)' <=> ServesPath(d, p)
      BY <2>1 DEF ServesPath
    <3>3. ServesPath(c, p)' => p = m.path /\ \A d \in Links \ {c} : ~ServesPath(d, p)
      BY <1>5, <1>8, <2>1, <2>3 DEF ServesPath
    <3>4. \A b, d \in Links : ServesPath(b, p)' /\ ServesPath(d, p)' => b = d
      BY <3>1, <3>2, <3>3 DEF LinkedSound
    <3>5. ServesPath(c, p)' =>
            /\ serving'[c].pc = "upsert" => Linked(p) = {}
            /\ serving'[c].pc = "sight" => Linked(p) \subseteq {serving'[c].row}
      BY <1>8, <2>1, <3>1, <3>3 DEF LinkedSound
    <3>6. \A d \in Links \ {c} : ServesPath(d, p)' =>
            /\ serving'[d].pc = "upsert" => Linked(p) = {}
            /\ serving'[d].pc = "sight" => Linked(p) \subseteq {serving'[d].row}
      BY <2>1, <3>1, <3>2 DEF LinkedSound
    <3>7. \A d \in Links : ServesPath(d, p)' =>
            /\ serving'[d].pc = "upsert" => Linked(p)' = {}
            /\ serving'[d].pc = "sight" => Linked(p)' \subseteq {serving'[d].row}
      BY <1>6, <3>5, <3>6
    <3>8. \A r, q \in Linked(p)' : r = q
      BY <1>6, <3>1 DEF LinkedSound
    <3> QED
      BY <3>4, <3>7, <3>8 DEF LinkedSound
  <2> QED
    BY <2>2, <2>3 DEF CatInv
<1>9. ASSUME ok, Linked(m.path) = {},
             serving' = [serving EXCEPT ![c] = [pc |-> "upsert", path |-> m.path,
                                                meta |-> m.meta, row |-> NoRow]]
      PROVE  CatInv'
  <2>1. PICK h : h = [pc |-> "upsert", path |-> m.path, meta |-> m.meta, row |-> NoRow]
    OBVIOUS
  <2>2. h \in HandlerStates
    BY <1>3, <2>1 DEF HandlerStates
  <2>3. h.pc = "upsert" /\ h.path = m.path
    BY <2>1
  <2>4. serving' = [serving EXCEPT ![c] = h]
    BY <1>9, <2>1
  <2> QED
    BY <1>8, <1>9, <2>2, <2>3, <2>4
<1>10. ASSUME ok, NEW r \in Linked(m.path),
             serving' = [serving EXCEPT ![c] = [pc |-> "sight", path |-> m.path,
                                                meta |-> m.meta, row |-> r]]
      PROVE  CatInv'
  <2>1. PICK h : h = [pc |-> "sight", path |-> m.path, meta |-> m.meta, row |-> r]
    OBVIOUS
  <2>2. h \in HandlerStates
    BY <1>3, <2>1 DEF HandlerStates, Linked
  <2>3. h.pc = "sight" /\ h.path = m.path /\ h.row = r
    BY <2>1
  <2>4. serving' = [serving EXCEPT ![c] = h]
    BY <1>10, <2>1
  <2> QED
    BY <1>8, <1>10, <2>2, <2>3, <2>4
<1> QED
  BY <1>7, <1>9, <1>10 DEF LookUp, m

\* The sighting that links the path keeps the invariant.
LEMMA SightStep ==
  ASSUME CatInv, NEW c \in Links, NEW ok \in BOOLEAN, UpsertSighting(c, ok)
  PROVE  CatInv'
<1>1. CatTyped /\ serving \in [Links -> HandlerStates]
  BY DEF CatInv, CatTyped
<1>2. /\ serving[c].pc = "sight" /\ serving[c].path \in Paths /\ serving[c].row \in Rows
      /\ UNCHANGED <<queue, overlapped>>
  BY <1>1 DEF UpsertSighting, CatTyped
<1>3. Waiting \in HandlerStates /\ Waiting.pc = "idle"
  BY DEF Waiting, HandlerStates
<1>4. /\ serving' \in [Links -> HandlerStates] /\ serving'[c] = Waiting
      /\ \A d \in Links \ {c} : serving'[d] = serving[d]
  BY <1>1, <1>3 DEF UpsertSighting
<1>5. CatTyped'
  BY <1>1, <1>2, <1>3, <1>4 DEF CatTyped
<1>6. sightings' = sightings \/ sightings' = sightings \cup {<<serving[c].path, serving[c].row>>}
  BY DEF UpsertSighting
<1>7. ASSUME NEW p \in Paths, LinkedSound(p) PROVE LinkedSound(p)'
  <2>1. /\ Linked(p) \subseteq Linked(p)'
        /\ serving[c].path # p => Linked(p)' = Linked(p)
        /\ Linked(p)' \subseteq Linked(p) \cup {serving[c].row}
    BY <1>2, <1>6 DEF Linked
  <2>2. ~ServesPath(c, p)' /\ \A d \in Links \ {c} : ServesPath(d, p)' <=> ServesPath(d, p)
    BY <1>3, <1>4 DEF ServesPath
  <2>3. \A b, d \in Links : ServesPath(b, p)' /\ ServesPath(d, p)' => b = d
    BY <1>7, <2>2 DEF LinkedSound
  <2>4. CASE serving[c].path # p
    <3>1. \A d \in Links : ServesPath(d, p)' =>
            /\ serving'[d].pc = "upsert" => Linked(p)' = {}
            /\ serving'[d].pc = "sight" => Linked(p)' \subseteq {serving'[d].row}
      BY <1>4, <1>7, <2>1, <2>2, <2>4 DEF LinkedSound
    <3> QED
      BY <1>7, <2>1, <2>3, <2>4, <3>1 DEF LinkedSound
  <2>5. CASE serving[c].path = p
    <3>1. ServesPath(c, p)
      BY <1>2, <2>5 DEF ServesPath
    <3>2. Linked(p)' \subseteq {serving[c].row}
      BY <1>2, <1>7, <2>1, <3>1 DEF LinkedSound
    <3>3. \A d \in Links : ~ServesPath(d, p)'
      BY <1>7, <2>2, <3>1 DEF LinkedSound
    <3> QED
      BY <2>3, <3>2, <3>3 DEF LinkedSound
  <2> QED
    BY <2>4, <2>5
<1> QED
  BY <1>2, <1>5, <1>7 DEF CatInv

\* Every step of the reports, the handlers and the verdicts keeps the invariant.
LEMMA CatInvNext == CatInv /\ [CatNext]_catVars => CatInv'
<1> SUFFICES ASSUME CatInv, [CatNext]_catVars PROVE CatInv'
  OBVIOUS
<1>0. /\ CatTyped /\ serving \in [Links -> HandlerStates]
      /\ queue \in [Links -> Seq([path : Paths, meta : BOOLEAN])]
  BY DEF CatInv, CatTyped
<1>1. ASSUME UNCHANGED <<serving, sightings, overlapped>>,
             queue' \in [Links -> Seq([path : Paths, meta : BOOLEAN])]
      PROVE  CatInv'
  <2>1. CatTyped'
    BY <1>0, <1>1 DEF CatTyped
  <2>2. \A p \in Paths : LinkedSound(p) => LinkedSound(p)'
    BY <1>1 DEF LinkedSound, ServesPath, Linked
  <2> QED
    BY <1>1, <2>1, <2>2 DEF CatInv
<1>2. ASSUME NEW c \in Links, NEW p \in Paths, NEW meta \in BOOLEAN, NEW lost \in BOOLEAN,
             Collect(c, p, meta, lost)
      PROVE  CatInv'
  <2>1. UNCHANGED <<serving, sightings, overlapped>>
    BY <1>2 DEF Collect
  <2>2. queue' = queue \/ queue' = [queue EXCEPT ![c] = Append(queue[c], [path |-> p, meta |-> meta])]
    BY <1>2 DEF Collect
  <2>3. ASSUME NEW S, NEW q \in Seq(S), NEW x \in S PROVE Append(q, x) \in Seq(S)
    OBVIOUS
  <2>4. [path |-> p, meta |-> meta] \in [path : Paths, meta : BOOLEAN]
    OBVIOUS
  <2>5. Append(queue[c], [path |-> p, meta |-> meta]) \in Seq([path : Paths, meta : BOOLEAN])
    BY <1>0, <2>3, <2>4
  <2>6. queue' \in [Links -> Seq([path : Paths, meta : BOOLEAN])]
    BY <1>0, <2>2, <2>5
  <2> QED
    BY <1>1, <2>1, <2>6
<1>3. CASE RestartAgent \/ RecordInstall \/ ReadProduct \/ Spread
  BY <1>0, <1>1, <1>3 DEF RestartAgent, RecordInstall, ReadProduct, Spread
<1>4. ASSUME NEW r \in Rows, NEW status \in AppStatuses, SetStatus(r, status) PROVE CatInv'
  BY <1>0, <1>1, <1>4 DEF SetStatus
<1>5. ASSUME NEW c \in Links, NEW ok \in BOOLEAN, UpsertApplication(c, ok) PROVE CatInv'
  <2> DEFINE r == IF serving[c].meta THEN "exe+company" ELSE "exe"
  <2>1. serving[c].pc = "upsert" /\ UNCHANGED <<queue, sightings, overlapped>>
    BY <1>5 DEF UpsertApplication
  <2>2. r \in Rows
    BY DEF Rows
  <2>3. CASE ok
    <3>1. PICK h : h = [serving[c] EXCEPT !.pc = "sight", !.row = r]
      OBVIOUS
    <3>2. serving' = [serving EXCEPT ![c] = h]
      BY <1>0, <1>5, <2>3, <3>1 DEF UpsertApplication, HandlerStates
    <3> HIDE DEF r
    <3>3. h \in HandlerStates /\ h.pc = "sight" /\ h.row = r /\ h.path = serving[c].path
      BY <1>0, <2>2, <3>1 DEF HandlerStates
    <3>4. ServesPath(c, h.path)
      BY <2>1, <3>3 DEF ServesPath
    <3> QED
      BY <2>1, <2>2, <3>2, <3>3, <3>4, HandlerMoves
  <2>4. CASE ~ok
    <3>1. Waiting \in HandlerStates /\ Waiting.pc = "idle"
      BY DEF Waiting, HandlerStates
    <3>2. serving' = [serving EXCEPT ![c] = Waiting]
      BY <1>5, <2>4 DEF UpsertApplication
    <3> QED
      BY <2>1, <3>1, <3>2, HandlerMoves
  <2> QED
    BY <2>3, <2>4
<1>6. CASE UNCHANGED catVars
  BY <1>0, <1>1, <1>6 DEF catVars
<1> QED
  BY <1>2, <1>3, <1>4, <1>5, <1>6, LookUpStep, SightStep DEF CatNext

\* A path that two handlers never resolved at once belongs to one application,
\* for any paths, connections and reports, with or without metadata
\* (observeOne, UpsertApplication, UpsertSighting).
THEOREM PathLinkedOnceHolds == CatSpec => []PathLinkedOnce
<1>1. CatInv => PathLinkedOnce
  <2> SUFFICES ASSUME CatInv, NEW p \in Paths \ overlapped
               PROVE  Cardinality(Linked(p)) <= 1
    BY DEF PathLinkedOnce
  <2>1. \A r, q \in Linked(p) : r = q
    BY DEF CatInv, LinkedSound
  <2>2. CASE Linked(p) = {}
    BY <2>2, FS_EmptySet
  <2>3. CASE Linked(p) # {}
    <3>1. PICK r : Linked(p) = {r}
      BY <2>1, <2>3
    <3>2. Cardinality({r}) = 1
      BY FS_Singleton
    <3> QED
      BY <3>1, <3>2
  <2> QED
    BY <2>2, <2>3
<1> QED
  BY <1>1, CatInvInit, CatInvNext, PTL DEF CatSpec

-----------------------------------------------------------------------------
(* The watchers.                                                             *)

EventsOf == [kind : {"removed", "added"}, thing : Things, absent : 0..MissingStreak]

\* A peripheral's streak never runs ahead of the polls that missed it in a row,
\* and every removal under way was missed often enough.
WatchTyped ==
  /\ known \subseteq Things /\ present \subseteq Things
  /\ streak \in [Things -> Nat] /\ absent \in [Things -> 0..MissingStreak]
  /\ events \in Seq(EventsOf)

StreakSound == watch = "peripheral" => \A t \in Things : streak[t] <= absent[t]

RemovalsSustained ==
  watch = "peripheral" =>
    \A i \in 1..Len(events) : events[i].kind = "removed" => events[i].absent >= MissingStreak

WatchInv == WatchTyped /\ StreakSound /\ RemovalsSustained /\ RemovalSustained

\* The image of a finite set is finite.
LEMMA ImageFinite ==
  ASSUME NEW S, IsFiniteSet(S), NEW T, NEW f \in [S -> T], \A y \in T : \E x \in S : f[x] = y
  PROVE  IsFiniteSet(T)
<1>1. f \in Surjection(S, T)
  BY DEF Surjection
<1> QED
  BY <1>1, FS_Surjection

\* The elements of a concatenation by their place.
LEMMA Concatenation ==
  ASSUME NEW S, NEW s \in Seq(S), NEW q \in Seq(S)
  PROVE  /\ s \o q \in Seq(S) /\ Len(s \o q) = Len(s) + Len(q)
         /\ \A i \in 1..(Len(s) + Len(q)) : (s \o q)[i] = IF i <= Len(s) THEN s[i]
                                                         ELSE q[i - Len(s)]
OBVIOUS

\* A watcher adds to what is under way only events of the differences it saw.
LEMMA EmitEvents ==
  ASSUME events \in Seq(EventsOf), NEW gone \in SUBSET Things, NEW new \in SUBSET Things,
         NEW lost, absent' \in [Things -> 0..MissingStreak], Emit(gone, new, lost)
  PROVE  /\ events' \in Seq(EventsOf) /\ Len(events') <= MaxEvents
         /\ \A i \in 1..Len(events') :
              \/ i \in 1..Len(events) /\ events'[i] = events[i]
              \/ events'[i].kind = "added"
              \/ \E t \in gone : events'[i].absent = absent'[t]
<1>1. PICK A \in [Things -> 0..MissingStreak] : A = absent'
  OBVIOUS
<1> DEFINE about(S, kind) == {[kind |-> kind, thing |-> t, absent |-> A[t]] : t \in S}
           all == about(gone, "removed") \cup about(new, "added")
<1>2. all \subseteq EventsOf
  BY <1>1 DEF EventsOf
<1>3. ASSUME NEW S \in SUBSET Things, NEW kind PROVE IsFiniteSet(about(S, kind))
  <2> DEFINE f == [t \in S |-> [kind |-> kind, thing |-> t, absent |-> A[t]]]
  <2>1. IsFiniteSet(S)
    BY WatcherAssumptions, FS_Subset
  <2>2. f \in [S -> about(S, kind)] /\ \A e \in about(S, kind) : \E t \in S : f[t] = e
    OBVIOUS
  <2> HIDE DEF f, about
  <2> QED
    BY <2>1, <2>2, ImageFinite
<1>4. IsFiniteSet(all)
  <2>1. IsFiniteSet(about(gone, "removed")) /\ IsFiniteSet(about(new, "added"))
    BY <1>3
  <2> HIDE DEF about
  <2> QED
    BY <2>1, FS_Union
<1>5. Cardinality(all) \in Nat
  BY <1>4, FS_CardinalityType
<1>6. /\ Len(events) + Cardinality(all) <= MaxEvents /\ Len(events) \in Nat
      /\ MaxEvents \in Nat
  BY <1>1, WatcherAssumptions DEF Emit
<1>7. CASE events' = events
  <2>1. Len(events) <= MaxEvents
    <3> HIDE DEF all
    <3> QED
      BY <1>5, <1>6
  <2> QED
    BY <1>7, <2>1
<1>8. ASSUME NEW order \in [1..Cardinality(all) -> all], events' = events \o order
      PROVE  /\ events' \in Seq(EventsOf) /\ Len(events') <= MaxEvents
             /\ \A i \in 1..Len(events') :
                  \/ i \in 1..Len(events) /\ events'[i] = events[i]
                  \/ events'[i].kind = "added"
                  \/ \E t \in gone : events'[i].absent = absent'[t]
  <2>1. PICK n \in Nat : n = Cardinality(all)
    BY <1>5
  <2>2. order \in [1..n -> all] /\ \A i \in 1..n : order[i] \in all
    BY <1>8, <2>1
  <2>3. \A i \in 1..n : \/ order[i].kind = "added"
                        \/ \E t \in gone : order[i].absent = A[t]
    <3>1. ASSUME NEW e \in all
          PROVE  e.kind = "added" \/ \E t \in gone : e.absent = A[t]
      OBVIOUS
    <3> HIDE DEF all
    <3> QED
      BY <2>2, <3>1
  <2> HIDE DEF all
  <2>4. order \in Seq(EventsOf) /\ Len(order) = n
    BY <1>2, <2>2
  <2>5. /\ events' \in Seq(EventsOf) /\ Len(events') = Len(events) + n
        /\ \A i \in 1..(Len(events) + n) :
             events'[i] = IF i <= Len(events) THEN events[i] ELSE order[i - Len(events)]
    BY <1>8, <2>4, Concatenation
  <2>6. ASSUME NEW i \in 1..Len(events')
        PROVE  \/ i \in 1..Len(events) /\ events'[i] = events[i]
               \/ i - Len(events) \in 1..n /\ events'[i] = order[i - Len(events)]
    BY <2>5, <2>6
  <2>7. Len(events') <= MaxEvents
    BY <1>6, <2>1, <2>5
  <2> QED
    BY <1>1, <2>3, <2>5, <2>6, <2>7
<1> QED
  <2>1. events' = events \/ \E order \in [1..Cardinality(all) -> all] : events' = events \o order
    BY <1>1 DEF Emit
  <2> QED
    BY <1>7, <1>8, <2>1

\* At the start the watcher has missed no device and reported none.
LEMMA WatchInvInit == WatchInit => WatchInv
<1> SUFFICES ASSUME WatchInit PROVE WatchInv
  OBVIOUS
<1>1. WatchTyped
  BY WatcherAssumptions DEF WatchInit, WatchTyped
<1>2. StreakSound
  BY DEF WatchInit, StreakSound
<1>3. RemovalsSustained /\ RemovalSustained
  BY DEF WatchInit, RemovalsSustained, RemovalSustained
<1> QED
  BY <1>1, <1>2, <1>3 DEF WatchInv

\* The watchers of other things fire no tamper alert, whatever they report.
LEMMA OtherWatches ==
  ASSUME WatchInv, WatchTyped', UNCHANGED <<watch, alerts>>, watch # "peripheral"
  PROVE  WatchInv'
BY DEF WatchInv, StreakSound, RemovalsSustained, RemovalSustained

\* absent counts at most MissingStreak polls.
LEMMA CountType ==
  ASSUME absent \in [Things -> 0..MissingStreak], NEW listed, Count(listed)
  PROVE  /\ absent' \in [Things -> 0..MissingStreak]
         /\ \A t \in Things \ listed : absent'[t] = MissingStreak \/ absent'[t] = absent[t] + 1
BY WatcherAssumptions DEF Count

\* A comparison by a watcher of another kind raises no tamper alert.
LEMMA CompareStep ==
  ASSUME WatchInv, watch # "peripheral", NEW current \in SUBSET Things, NEW lost,
         Compare(current, lost)
  PROVE  WatchInv'
<1>1. WatchTyped /\ absent \in [Things -> 0..MissingStreak] /\ events \in Seq(EventsOf)
  BY DEF WatchInv, WatchTyped
<1>2. /\ Count(current) /\ Emit(known \ current, current \ known, lost) /\ known' = current
      /\ UNCHANGED <<watch, present, streak, alerts>>
  BY DEF Compare
<1>3. absent' \in [Things -> 0..MissingStreak]
  BY <1>1, <1>2, CountType
<1>4. known \ current \in SUBSET Things /\ current \ known \in SUBSET Things
  BY <1>1 DEF WatchTyped
<1>5. events' \in Seq(EventsOf)
  BY <1>1, <1>2, <1>3, <1>4, EmitEvents
<1>6. WatchTyped'
  BY <1>1, <1>2, <1>3, <1>5 DEF WatchTyped
<1> QED
  BY <1>2, <1>6, OtherWatches

\* A poll of the peripherals reports as gone only what it and the polls before it
\* missed.
LEMMA PeripheralStep ==
  ASSUME WatchInv, NEW current \in SUBSET Things, NEW lost, PollPeripherals(current, lost)
  PROVE  WatchInv'
<1> DEFINE late(t) == IF t \in known \ current THEN streak[t] + 1 ELSE 0
           gone    == {t \in known \ current : late(t) >= MissingStreak}
<1>1. /\ WatchTyped /\ absent \in [Things -> 0..MissingStreak] /\ events \in Seq(EventsOf)
      /\ streak \in [Things -> Nat] /\ known \subseteq Things
      /\ MissingStreak \in Nat \ {0}
  BY WatcherAssumptions DEF WatchInv, WatchTyped
<1>2. /\ watch = "peripheral" /\ Count(current) /\ Emit(gone, current \ known, lost)
      /\ known' = (known \cup current) \ gone
      /\ streak' = [t \in Things |-> IF t \in gone THEN 0 ELSE late(t)]
      /\ UNCHANGED <<watch, present, alerts>>
  BY DEF PollPeripherals
<1>3. /\ absent' \in [Things -> 0..MissingStreak]
      /\ \A t \in Things \ current : absent'[t] = MissingStreak \/ absent'[t] = absent[t] + 1
  BY <1>1, <1>2, CountType
<1>4. \A t \in Things : late(t) \in Nat
  BY <1>1
<1>5. streak' \in [Things -> Nat]
  BY <1>2, <1>4
<1>6. \A t \in known \ current : late(t) = streak[t] + 1 /\ streak[t] <= absent[t]
  BY <1>1, <1>2 DEF WatchInv, StreakSound
<1>7. \A t \in gone : absent'[t] = MissingStreak
  <2> SUFFICES ASSUME NEW t \in gone PROVE absent'[t] = MissingStreak
    OBVIOUS
  <2>1. /\ t \in Things \ current /\ streak[t] + 1 >= MissingStreak /\ streak[t] <= absent[t]
        /\ streak[t] \in Nat /\ absent[t] \in Nat /\ absent'[t] \in 0..MissingStreak
    BY <1>1, <1>3, <1>6
  <2> QED
    BY <1>1, <1>3, <2>1
<1>8. gone \in SUBSET Things /\ current \ known \in SUBSET Things
  BY <1>1
<1>9. /\ events' \in Seq(EventsOf)
      /\ \A i \in 1..Len(events') : \/ i \in 1..Len(events) /\ events'[i] = events[i]
                                    \/ events'[i].kind = "added"
                                    \/ \E t \in gone : events'[i].absent = absent'[t]
  <2> HIDE DEF gone
  <2> QED
    BY <1>1, <1>2, <1>3, <1>8, EmitEvents
<1>10. StreakSound'
  <2> SUFFICES ASSUME NEW t \in Things PROVE streak'[t] <= absent'[t]
    BY DEF StreakSound
  <2>1. absent'[t] \in Nat /\ absent[t] \in Nat /\ streak[t] \in Nat
    BY <1>1, <1>3
  <2>2. CASE t \in gone \/ t \notin known \ current
    BY <1>2, <2>1, <2>2
  <2>3. CASE t \in known \ current /\ t \notin gone
    <3>1. streak'[t] = late(t) /\ ~(late(t) >= MissingStreak)
      BY <1>2, <2>3
    <3>2. late(t) = streak[t] + 1 /\ streak[t] <= absent[t]
      BY <1>6, <2>3
    <3>3. t \in Things \ current /\ MissingStreak \in Nat
      BY <1>1, <2>3
    <3>4. absent'[t] = MissingStreak \/ absent'[t] = absent[t] + 1
      BY <1>3, <3>3
    <3> HIDE DEF late, gone
    <3> QED
      BY <2>1, <3>1, <3>2, <3>3, <3>4
  <2> QED
    BY <2>2, <2>3
<1>11. RemovalsSustained'
  <2> HIDE DEF gone
  <2>1. \A i \in 1..Len(events) : events[i].kind = "removed" => events[i].absent >= MissingStreak
    BY <1>2 DEF WatchInv, RemovalsSustained
  <2> SUFFICES ASSUME NEW i \in 1..Len(events'), events'[i].kind = "removed"
               PROVE  events'[i].absent >= MissingStreak
    BY DEF RemovalsSustained
  <2>2. CASE i \in 1..Len(events) /\ events'[i] = events[i]
    BY <2>1, <2>2
  <2>3. CASE \E t \in gone : events'[i].absent = absent'[t]
    <3>1. events'[i].absent = MissingStreak
      BY <1>7, <2>3
    <3> QED
      BY <1>1, <3>1
  <2> QED
    BY <1>9, <2>2, <2>3
<1>12. WatchTyped'
  BY <1>1, <1>2, <1>3, <1>5, <1>9 DEF WatchTyped
<1>13. RemovalSustained'
  BY <1>2 DEF WatchInv, RemovalSustained
<1> QED
  BY <1>10, <1>11, <1>12, <1>13 DEF WatchInv

\* Every step of the watchers and of the alerter keeps the invariant.
LEMMA WatchInvNext == WatchInv /\ [WatchNext]_watchVars => WatchInv'
<1> SUFFICES ASSUME WatchInv, [WatchNext]_watchVars PROVE WatchInv'
  OBVIOUS
<1>0. /\ WatchTyped /\ absent \in [Things -> 0..MissingStreak] /\ events \in Seq(EventsOf)
      /\ present \subseteq Things /\ known \subseteq Things
  BY DEF WatchInv, WatchTyped
<1>1. ASSUME UNCHANGED <<watch, streak, absent, events, alerts>>,
             known' \subseteq Things, present' \subseteq Things
      PROVE  WatchInv'
  <2>1. WatchTyped'
    BY <1>0, <1>1 DEF WatchTyped
  <2> QED
    BY <1>1, <2>1 DEF WatchInv, StreakSound, RemovalsSustained, RemovalSustained
<1>2. ASSUME NEW t \in Things, NEW lost \in BOOLEAN, Flip(t, lost) PROVE WatchInv'
  <2>1. present' \subseteq Things /\ UNCHANGED <<watch, known, streak, absent, alerts>>
    BY <1>0, <1>2 DEF Flip
  <2>2. CASE watch = "folder" /\ ready
    <3>1. Emit({t} \cap present, {t} \ present, lost)
      BY <1>2, <2>2 DEF Flip
    <3>2. {t} \cap present \in SUBSET Things /\ {t} \ present \in SUBSET Things
      OBVIOUS
    <3>3. absent' \in [Things -> 0..MissingStreak]
      BY <1>0, <2>1
    <3>4. events' \in Seq(EventsOf)
      BY <1>0, <3>1, <3>2, <3>3, EmitEvents
    <3>5. WatchTyped'
      BY <1>0, <2>1, <3>4 DEF WatchTyped
    <3> QED
      BY <2>1, <2>2, <3>5, OtherWatches
  <2>3. CASE ~(watch = "folder" /\ ready)
    <3>1. UNCHANGED events
      BY <1>2, <2>3 DEF Flip
    <3> QED
      BY <1>0, <1>1, <2>1, <3>1
  <2> QED
    BY <2>2, <2>3
<1>3. CASE Baseline
  BY <1>0, <1>1, <1>3 DEF Baseline
<1>4. CASE Arm
  BY <1>0, <1>1, <1>4 DEF Arm
<1>5. CASE Record
  <2>1. /\ events # <<>> /\ events' = Tail(events)
        /\ UNCHANGED <<watch, present, known, streak, absent>>
        /\ alerts' = IF watch = "peripheral" /\ Head(events).kind = "removed"
                     THEN alerts \cup {[thing |-> Head(events).thing, absent |-> Head(events).absent]}
                     ELSE alerts
    BY <1>5 DEF Record
  <2>2. ASSUME NEW S, NEW q \in Seq(S), q # <<>>
        PROVE  /\ Head(q) = q[1] /\ 1 \in 1..Len(q) /\ Tail(q) \in Seq(S)
               /\ \A i \in 1..Len(Tail(q)) : i + 1 \in 1..Len(q) /\ Tail(q)[i] = q[i + 1]
    BY <2>2
  <2>3. /\ Head(events) = events[1] /\ 1 \in 1..Len(events) /\ events' \in Seq(EventsOf)
        /\ \A i \in 1..Len(events') : i + 1 \in 1..Len(events) /\ events'[i] = events[i + 1]
    BY <1>0, <2>1, <2>2
  <2>4. WatchTyped'
    BY <1>0, <2>1, <2>3 DEF WatchTyped
  <2>5. StreakSound'
    BY <2>1 DEF WatchInv, StreakSound
  <2>6. RemovalsSustained'
    BY <2>1, <2>3 DEF WatchInv, RemovalsSustained
  <2>7. CASE watch = "peripheral" /\ Head(events).kind = "removed"
    <3>1. Head(events).absent >= MissingStreak
      BY <2>3, <2>7 DEF WatchInv, RemovalsSustained
    <3>2. alerts' = alerts \cup {[thing |-> Head(events).thing, absent |-> Head(events).absent]}
      BY <2>1, <2>7
    <3>3. RemovalSustained'
      BY <3>1, <3>2 DEF WatchInv, RemovalSustained
    <3> QED
      BY <2>4, <2>5, <2>6, <3>3 DEF WatchInv
  <2>8. CASE ~(watch = "peripheral" /\ Head(events).kind = "removed")
    <3>1. alerts' = alerts
      BY <2>1, <2>8
    <3>2. RemovalSustained'
      BY <3>1 DEF WatchInv, RemovalSustained
    <3> QED
      BY <2>4, <2>5, <2>6, <3>2 DEF WatchInv
  <2> QED
    BY <2>7, <2>8
<1>6. ASSUME NEW current \in PeripheralLists, NEW lost \in BOOLEAN, PollPeripherals(current, lost)
      PROVE  WatchInv'
  <2>1. current \in SUBSET Things
    BY <1>0 DEF PeripheralLists
  <2> QED
    BY <1>6, <2>1, PeripheralStep
<1>7. ASSUME NEW lost \in BOOLEAN, PollUSB(lost) PROVE WatchInv'
  BY <1>0, <1>7, CompareStep DEF PollUSB
<1>8. ASSUME NEW lost \in BOOLEAN, PollTasks(lost) PROVE WatchInv'
  BY <1>0, <1>8, CompareStep DEF PollTasks
<1>9. ASSUME NEW lost \in BOOLEAN, ReadAgain(lost) PROVE WatchInv'
  <2>1. /\ watch = "registry" /\ UNCHANGED <<absent, watch, present, streak, alerts>>
        /\ Emit(known \ present, present \ known, lost) /\ known' = present
    BY <1>9 DEF ReadAgain
  <2>2. known \ present \in SUBSET Things /\ present \ known \in SUBSET Things
    BY <1>0
  <2>3. absent' \in [Things -> 0..MissingStreak]
    BY <1>0, <2>1
  <2>4. events' \in Seq(EventsOf)
    BY <1>0, <2>1, <2>2, <2>3, EmitEvents
  <2>5. WatchTyped'
    BY <1>0, <2>1, <2>4 DEF WatchTyped
  <2> QED
    BY <2>1, <2>5, OtherWatches
<1>10. CASE UNCHANGED watchVars
  BY <1>0, <1>1, <1>10 DEF watchVars
<1> QED
  BY <1>2, <1>3, <1>4, <1>5, <1>6, <1>7, <1>8, <1>9, <1>10 DEF WatchNext

\* A tamper alert is fired only for a device that MissingStreak polls in a row did
\* not list, for any devices, streak and order of failing polls, events and lost
\* messages (startPeripheralWatch, FireTamperAlert).
THEOREM RemovalSustainedHolds == WatchSpec => []RemovalSustained
<1>1. WatchInv => RemovalSustained
  BY DEF WatchInv
<1> QED
  BY <1>1, WatchInvInit, WatchInvNext, PTL DEF WatchSpec

-----------------------------------------------------------------------------
(* Which rule decides.                                                       *)

RuleSet == [id : Nat \ {0}, want : Wants, enabled : BOOLEAN]

MatchInv == ruleTable \in Seq(RuleSet) /\ lastId \in Nat

\* A row made by InsertPolicyRule is a rule.
LEMMA RuleMade ==
  ASSUME NEW n \in Nat \ {0}, NEW w \in Wants, NEW on \in BOOLEAN
  PROVE  [id |-> n, want |-> w, enabled |-> on] \in RuleSet
BY Zenon DEF RuleSet

\* Editing two fields of such a record keeps its type;
LEMMA RecordEdited ==
  ASSUME NEW A, NEW B, NEW C, NEW r \in [id : A, want : B, enabled : C], NEW w \in B, NEW on \in C
  PROVE  [r EXCEPT !.want = w, !.enabled = on] \in [id : A, want : B, enabled : C]
OBVIOUS

\* so a rule that is edited is a rule.
LEMMA RuleEdited ==
  ASSUME NEW r \in RuleSet, NEW w \in Wants, NEW on \in BOOLEAN
  PROVE  [r EXCEPT !.want = w, !.enabled = on] \in RuleSet
BY RecordEdited, Zenon DEF RuleSet

\* Every insertion, edit and deletion keeps the table a list of rules.
LEMMA MatchStep ==
  ASSUME MatchInv, [MatchNext]_matchVars
  PROVE  MatchInv'
<1>0. ruleTable \in Seq(RuleSet) /\ lastId \in Nat /\ Len(ruleTable) \in Nat
  BY DEF MatchInv
<1>1. ASSUME NEW w \in Wants, NEW on \in BOOLEAN, InsertPolicyRule(w, on) PROVE MatchInv'
  <2>1. PICK r \in RuleSet : r = [id |-> lastId + 1, want |-> w, enabled |-> on]
    <3>1. lastId + 1 \in Nat \ {0}
      BY <1>0
    <3> QED
      BY <3>1, RuleMade
  <2>2. ruleTable' = Append(ruleTable, r) /\ lastId' = lastId + 1
    BY <1>1, <2>1 DEF InsertPolicyRule
  <2> QED
    BY <1>0, <2>2 DEF MatchInv
<1>2. ASSUME NEW i \in DOMAIN ruleTable, NEW w \in Wants, NEW on \in BOOLEAN,
             UpdatePolicyRule(i, w, on)
      PROVE  MatchInv'
  <2>1. ruleTable[i] \in RuleSet /\ i \in 1..Len(ruleTable)
    BY <1>0
  <2>2. PICK r \in RuleSet : r = [ruleTable[i] EXCEPT !.want = w, !.enabled = on]
    BY <2>1, RuleEdited
  <2>3. ruleTable' = [ruleTable EXCEPT ![i] = r] /\ lastId' = lastId
    BY <1>2, <2>1, <2>2 DEF UpdatePolicyRule
  <2> QED
    BY <1>0, <2>1, <2>3 DEF MatchInv
<1>3. ASSUME NEW i \in DOMAIN ruleTable, DeletePolicyRule(i) PROVE MatchInv'
  <2>1. i \in 1..Len(ruleTable)
    BY <1>0
  <2>2. SubSeq(ruleTable, 1, i - 1) \in Seq(RuleSet)
    BY <1>0, <2>1
  <2>3. SubSeq(ruleTable, i + 1, Len(ruleTable)) \in Seq(RuleSet)
    BY <1>0, <2>1
  <2>4. /\ ruleTable' = SubSeq(ruleTable, 1, i - 1) \o SubSeq(ruleTable, i + 1, Len(ruleTable))
        /\ lastId' = lastId
    BY <1>3 DEF DeletePolicyRule
  <2>5. PICK a \in Seq(RuleSet), b \in Seq(RuleSet) : ruleTable' = a \o b
    BY <2>2, <2>3, <2>4
  <2> QED
    BY <1>0, <2>4, <2>5 DEF MatchInv
<1>4. CASE UNCHANGED matchVars
  BY <1>0, <1>4 DEF matchVars, MatchInv
<1> QED
  BY <1>1, <1>2, <1>3, <1>4 DEF MatchNext

\* A rule scores at least 1, no rule 0.
LEMMA ScoreFacts ==
  /\ Score(NoRule) = 0
  /\ \A r \in RuleSet : r # NoRule /\ Score(r) \in Nat /\ Score(r) >= 1 /\ r.id \in Nat
<1>1. Score(NoRule) = 0
  BY DEF Score
<1>2. ASSUME NEW r \in RuleSet PROVE r # NoRule /\ Score(r) \in Nat /\ Score(r) >= 1 /\ r.id \in Nat
  <2>1. r.id \in Nat /\ r.id # 0
    BY DEF RuleSet
  <2>2. NoRule.id = 0
    BY DEF NoRule
  <2>3. r # NoRule
    BY <2>1, <2>2
  <2> DEFINE D == {d \in Dims : r.want[d] # Any}
  <2>4. Cardinality(D) \in Nat
    <3>1. IsFiniteSet(Dims) /\ D \in SUBSET Dims
      BY MatchAssumptions
    <3>2. IsFiniteSet(D)
      BY <3>1, FS_Subset
    <3> QED
      BY <3>2, FS_CardinalityType
  <2>5. Score(r) = 1 + Cardinality(D)
    BY <2>3 DEF Score
  <2> HIDE DEF D
  <2> QED
    BY <2>1, <2>3, <2>4, <2>5
<1> QED
  BY <1>1, <1>2

\* Evaluate's loop, as a function of the turns made.
LEMMA EvaluateLoop ==
  ASSUME NEW rs \in Seq(RuleSet), NEW ctx
  PROVE  \E g : /\ g[0] = NoRule
                /\ \A i \in 1..Len(rs) : g[i] = Better(g[i - 1], rs[i], ctx)
                /\ Evaluate(rs, ctx) = g[Len(rs)]
<1> DEFINE n == Len(rs)
           S == {NoRule} \cup RuleSet
           F == [i \in 1..n |-> [b \in S |-> Better(b, rs[i], ctx)]]
           Rule(f) == f = [i \in 0..n |->
                             IF i = 0 THEN NoRule ELSE Better(f[i - 1], rs[i], ctx)]
<1>1. n \in Nat /\ NoRule \in S /\ \A i \in 1..n : rs[i] \in RuleSet
  OBVIOUS
<1>2. F \in [1..n -> [S -> S]]
  <2>1. \A i \in 1..n, b \in S : Better(b, rs[i], ctx) \in S
    BY <1>1 DEF Better
  <2> HIDE DEF S
  <2> QED
    BY <2>1
<1>3. PICK g : Turns(g, n, S, NoRule, F)
  <2> HIDE DEF F, S, n
  <2> QED
    BY <1>1, <1>2, LoopExists
<1>3a. g \in [0..n -> S] /\ g[0] = NoRule /\ \A i \in 1..n : g[i] = F[i][g[i - 1]]
  BY <1>3 DEF Turns
<1>4. \A i \in 1..n : g[i] = Better(g[i - 1], rs[i], ctx)
  <2>1. \A i \in 1..n : i - 1 \in 0..n
    BY <1>1
  <2>2. \A i \in 1..n : g[i - 1] \in S
    BY <1>3a, <2>1
  <2> HIDE DEF S
  <2> QED
    BY <1>3a, <2>2
<1>5. Rule(g)
  <2>1. \A i \in 0..n : i = 0 \/ i \in 1..n
    BY <1>1
  <2>2. \A i \in 0..n : g[i] = IF i = 0 THEN NoRule ELSE Better(g[i - 1], rs[i], ctx)
    BY <1>3a, <1>4, <2>1
  <2> HIDE DEF S, n
  <2> QED
    BY <1>3a, <2>2
<1>6. Evaluate(rs, ctx) = (CHOOSE f : Rule(f))[n]
  BY DEF Evaluate
<1>7. PICK f : Rule(f) /\ Evaluate(rs, ctx) = f[n]
  <2> HIDE DEF Rule, n
  <2> QED
    BY <1>5, <1>6
<1>8. f[0] = NoRule /\ \A i \in 1..n : f[i] = Better(f[i - 1], rs[i], ctx)
  <2>1. 0 \in 0..n /\ \A i \in 1..n : i \in 0..n /\ i # 0
    BY <1>1
  <2> QED
    BY <1>7, <2>1
<1> QED
  BY <1>7, <1>8

\* b is what the loop has to hold after the first n rules.
Best(b, rs, n, ctx) ==
  /\ b = NoRule \/ \E k \in 1..n : b = rs[k] /\ Matches(rs[k], ctx)
  /\ \A k \in 1..n : Matches(rs[k], ctx) =>
       /\ b # NoRule
       /\ Score(b) > Score(rs[k]) \/ (Score(b) = Score(rs[k]) /\ b.id <= rs[k].id)

\* One turn of the loop of Evaluate: the better of the best so far and the n-th
\* rule is the best of the first n.
LEMMA BestStep ==
  ASSUME NEW rs \in Seq(RuleSet), NEW ctx, NEW n \in 1..Len(rs), NEW b,
         Best(b, rs, n - 1, ctx)
  PROVE  Best(Better(b, rs[n], ctx), rs, n, ctx)
<1> DEFINE r == rs[n]
           c == Better(b, r, ctx)
<1>1. /\ Len(rs) \in Nat /\ n \in Nat /\ n \in 1..n /\ r \in RuleSet
      /\ \A k \in 1..(n - 1) : k \in 1..n /\ rs[k] \in RuleSet
      /\ \A k \in 1..n : k = n \/ k \in 1..(n - 1)
  OBVIOUS
<1>2. b = NoRule \/ b \in RuleSet
  BY <1>1 DEF Best
<1>3. /\ Score(b) \in Nat /\ Score(r) \in Nat /\ Score(r) >= 1 /\ r.id \in Nat /\ r # NoRule
      /\ b = NoRule => Score(b) = 0
      /\ b # NoRule => b.id \in Nat
      /\ \A k \in 1..(n - 1) : Score(rs[k]) \in Nat /\ rs[k].id \in Nat
  <2>1. Score(r) \in Nat /\ Score(r) >= 1 /\ r.id \in Nat /\ r # NoRule
    BY <1>1, ScoreFacts
  <2>2. \A k \in 1..(n - 1) : Score(rs[k]) \in Nat /\ rs[k].id \in Nat
    BY <1>1, ScoreFacts
  <2>3. b = NoRule => Score(b) = 0
    BY ScoreFacts
  <2>4. b \in RuleSet => Score(b) \in Nat /\ b.id \in Nat
    BY ScoreFacts
  <2> HIDE DEF r
  <2> QED
    BY <1>2, <2>1, <2>2, <2>3, <2>4
<1>4. CASE Matches(r, ctx) /\ (Score(r) > Score(b) \/ (Score(r) = Score(b) /\ b # NoRule /\ r.id < b.id))
  <2>1. c = r
    BY <1>4 DEF Better
  <2>2. \E k \in 1..n : r = rs[k] /\ Matches(rs[k], ctx)
    BY <1>1, <1>4
  <2>3. ASSUME NEW k \in 1..n, Matches(rs[k], ctx)
        PROVE  Score(r) > Score(rs[k]) \/ (Score(r) = Score(rs[k]) /\ r.id <= rs[k].id)
    <3>1. CASE k = n
      <4>1. rs[k] = r
        BY <3>1
      <4> HIDE DEF r
      <4> QED
        BY <1>3, <4>1
    <3>2. CASE k \in 1..(n - 1)
      <4>1. /\ b # NoRule
            /\ Score(b) > Score(rs[k]) \/ (Score(b) = Score(rs[k]) /\ b.id <= rs[k].id)
        BY <2>3, <3>2 DEF Best
      <4> HIDE DEF r
      <4> QED
        BY <1>3, <1>4, <3>2, <4>1
    <3> QED
      BY <1>1, <3>1, <3>2
  <2>4. Best(r, rs, n, ctx)
    <3> HIDE DEF r
    <3> QED
      BY <1>3, <2>2, <2>3 DEF Best
  <2> QED
    BY <2>1, <2>4
<1>5. CASE ~(Matches(r, ctx) /\ (Score(r) > Score(b) \/ (Score(r) = Score(b) /\ b # NoRule /\ r.id < b.id)))
  <2>1. c = b
    BY <1>5 DEF Better
  <2>2. b = NoRule \/ \E k \in 1..n : b = rs[k] /\ Matches(rs[k], ctx)
    BY <1>1 DEF Best
  <2>3. ASSUME NEW k \in 1..n, Matches(rs[k], ctx)
        PROVE  /\ b # NoRule
               /\ Score(b) > Score(rs[k]) \/ (Score(b) = Score(rs[k]) /\ b.id <= rs[k].id)
    <3>1. CASE k = n
      <4>1. rs[k] = r
        BY <3>1
      <4>2. Matches(r, ctx)
        BY <2>3, <4>1
      <4> HIDE DEF r
      <4> QED
        BY <1>3, <1>5, <4>1, <4>2
    <3>2. CASE k \in 1..(n - 1)
      BY <2>3, <3>2 DEF Best
    <3> QED
      BY <1>1, <3>1, <3>2
  <2>4. Best(b, rs, n, ctx)
    BY <2>2, <2>3 DEF Best
  <2> QED
    BY <2>1, <2>4
<1> QED
  BY <1>4, <1>5

\* What Evaluate returns, for any list of rules and any context.
LEMMA EvaluateBest ==
  ASSUME NEW rs \in Seq(RuleSet), NEW ctx
  PROVE  Best(Evaluate(rs, ctx), rs, Len(rs), ctx)
<1>1. PICK g : /\ g[0] = NoRule
               /\ \A i \in 1..Len(rs) : g[i] = Better(g[i - 1], rs[i], ctx)
               /\ Evaluate(rs, ctx) = g[Len(rs)]
  BY EvaluateLoop
<1> DEFINE n == Len(rs)
           P == {i \in 0..n : Best(g[i], rs, i, ctx)}
<1>2. n \in Nat
  OBVIOUS
<1>3. 0 \in P
  <2>1. Best(g[0], rs, 0, ctx)
    BY <1>1 DEF Best
  <2> QED
    BY <1>2, <2>1
<1>4. ASSUME NEW i \in 1..n, i - 1 \in P PROVE i \in P
  <2>1. Best(g[i - 1], rs, i - 1, ctx)
    BY <1>4
  <2>2. Best(Better(g[i - 1], rs[i], ctx), rs, i, ctx)
    BY <2>1, BestStep
  <2>3. i \in 0..n /\ g[i] = Better(g[i - 1], rs[i], ctx)
    BY <1>1, <1>2
  <2> QED
    BY <2>2, <2>3
<1>5. \A i \in 0..n : i \in P
  <2> HIDE DEF P, n
  <2> QED
    BY <1>2, <1>3, <1>4, UpTo
<1>6. n \in P
  BY <1>2, <1>5
<1> QED
  BY <1>1, <1>6

\* The loop decides as the reference definition says, for every table.
LEMMA DecisionRight ==
  ASSUME MatchInv
  PROVE  MostSpecificWins
<1> DEFINE enabled == {r \in Elements(ruleTable) : r.enabled}
<1>1. ruleTable \in Seq(RuleSet) /\ DOMAIN ruleTable = 1..Len(ruleTable) /\ Len(ruleTable) \in Nat
  BY DEF MatchInv
<1>2. SUFFICES ASSUME NEW ctx \in ProcessContexts, NEW loaded \in BOOLEAN
               PROVE  LET rivals == {ruleTable[i] : i \in {k \in DOMAIN ruleTable :
                            ruleTable[k].enabled /\ Matches(ruleTable[k], ctx)}}
                          d      == DecideProcess(ctx, loaded)
                      IN  IF \/ rivals = {} \/ ~loaded
                             \/ ctx["status"] = Unset /\ ctx["location"] = Unset
                          THEN d = NoRule
                          ELSE /\ d \in rivals
                               /\ \A r \in rivals : \/ Score(d) > Score(r)
                                                    \/ Score(d) = Score(r) /\ d.id <= r.id
  BY DEF MostSpecificWins
<1> DEFINE rivals == {ruleTable[i] : i \in {k \in DOMAIN ruleTable :
                        ruleTable[k].enabled /\ Matches(ruleTable[k], ctx)}}
           d == DecideProcess(ctx, loaded)
<1>3. CASE ~loaded \/ (ctx["status"] = Unset /\ ctx["location"] = Unset)
  BY <1>3 DEF DecideProcess
<1>4. CASE loaded /\ ~(ctx["status"] = Unset /\ ctx["location"] = Unset)
  <2>1. PICK rs : rs = EnabledRules
    OBVIOUS
  <2>2. rs \in Seq(RuleSet) /\ Elements(rs) = Elements(ruleTable) \cap enabled
    <3>1. rs = Filter(ruleTable, enabled)
      BY <2>1 DEF EnabledRules
    <3> HIDE DEF enabled
    <3> QED
      BY <1>1, <3>1, FilterElements
  <2>3. \A r : r \in rivals <=> \E k \in 1..Len(rs) : r = rs[k] /\ Matches(rs[k], ctx)
    <3>1. \A r : r \in rivals <=> r \in Elements(rs) /\ Matches(r, ctx)
      BY <1>1, <2>2 DEF Elements
    <3> HIDE DEF rivals
    <3> QED
      BY <3>1 DEF Elements
  <2>4. d = Evaluate(rs, ctx)
    BY <1>4, <2>1 DEF DecideProcess
  <2>5. Best(d, rs, Len(rs), ctx)
    BY <2>2, <2>4, EvaluateBest
  <2>6. d = NoRule \/ d \in rivals
    BY <2>3, <2>5 DEF Best
  <2>7. \A r \in rivals : /\ d # NoRule
                          /\ Score(d) > Score(r) \/ (Score(d) = Score(r) /\ d.id <= r.id)
    <3> HIDE DEF rivals, d
    <3> QED
      BY <2>3, <2>5 DEF Best
  <2> HIDE DEF rivals, d
  <2>8. IF \/ rivals = {} \/ ~loaded
           \/ ctx["status"] = Unset /\ ctx["location"] = Unset
        THEN d = NoRule
        ELSE /\ d \in rivals
             /\ \A r \in rivals : Score(d) > Score(r) \/ (Score(d) = Score(r) /\ d.id <= r.id)
    BY <1>4, <2>6, <2>7
  <2> QED
    BY <2>8 DEF rivals, d
<1> QED
  BY <1>3, <1>4

\* "Most-specific-wins, ties broken by lowest ID": for any dimensions, values and
\* number of rules, and after any insertions, edits and deletions, a process is
\* decided by an enabled matching rule that no other such rule outranks, and by
\* none exactly when there is none (Evaluate, EvaluateProcesses,
\* evaluateProcessLocally).
THEOREM MostSpecificWinsHolds == MatchSpec => []MostSpecificWins
<1>1. MatchInit => MatchInv
  BY DEF MatchInit, MatchInv
<1>2. MatchInv /\ [MatchNext]_matchVars => MatchInv'
  BY MatchStep
<1>3. MatchInv => MostSpecificWins
  BY DecisionRight
<1> QED
  BY <1>1, <1>2, <1>3, PTL DEF MatchSpec

-----------------------------------------------------------------------------
(* What the fleet's row of a product says.                                   *)

\* A part past the end of a version counts as zero.
LEMMA PartFacts ==
  ASSUME NEW v \in Seq(Nat), NEW i \in Nat \ {0}
  PROVE  Part(v, i) \in Nat /\ (i > Len(v) => Part(v, i) = 0)
<1>1. Len(v) \in Nat
  OBVIOUS
<1>2. CASE i <= Len(v)
  <2>1. i \in 1..Len(v)
    BY <1>1, <1>2
  <2>2. v[i] \in Nat
    BY <2>1
  <2> QED
    BY <1>1, <1>2, <2>2 DEF Part
<1>3. CASE ~(i <= Len(v))
  BY <1>1, <1>3 DEF Part
<1> QED
  BY <1>2, <1>3

\* The loop of CompareVersions runs over both versions.
LEMMA LongerFacts ==
  ASSUME NEW a \in Seq(Nat), NEW b \in Seq(Nat)
  PROVE  Longer(a, b) \in Nat /\ Longer(a, b) >= Len(a) /\ Longer(a, b) >= Len(b)
<1>1. Len(a) \in Nat /\ Len(b) \in Nat
  OBVIOUS
<1> QED
  BY <1>1 DEF Longer

\* The first part from i on in which a and b differ is the m-th, and a's is below.
BelowAt(a, b, i, m) ==
  Part(a, m) < Part(b, m) /\ \A j \in i..(m - 1) : Part(a, j) = Part(b, j)

\* A version is behind another at the first part in which they differ.
LEMMA BehindAt ==
  ASSUME NEW a \in Seq(Nat), NEW b \in Seq(Nat)
  PROVE  Behind(a, b) <=> \E m \in Nat \ {0} : BelowAt(a, b, 1, m)
<1>1. Longer(a, b) \in Nat /\ Longer(a, b) >= Len(a) /\ Longer(a, b) >= Len(b)
  BY LongerFacts
<1>2. ASSUME NEW m \in Nat \ {0}, BelowAt(a, b, 1, m) PROVE m \in 1..Longer(a, b)
  <2>1. Part(a, m) \in Nat /\ Part(b, m) \in Nat /\ Part(a, m) < Part(b, m)
    BY <1>2, PartFacts DEF BelowAt
  <2>2. m > Len(b) => Part(b, m) = 0
    BY PartFacts
  <2>3. Len(b) \in Nat
    OBVIOUS
  <2> QED
    BY <1>1, <2>1, <2>2, <2>3
<1>3. \A m \in 1..Longer(a, b) : m \in Nat \ {0}
  BY <1>1
<1>4. Behind(a, b) <=> \E m \in 1..Longer(a, b) : BelowAt(a, b, 1, m)
  BY DEF Behind, BelowAt
<1> QED
  BY <1>2, <1>3, <1>4

\* Being behind is transitive,
LEMMA BehindTransitive ==
  ASSUME NEW a \in Seq(Nat), NEW b \in Seq(Nat), NEW c \in Seq(Nat), Behind(a, b), Behind(b, c)
  PROVE  Behind(a, c)
<1>1. PICK m \in Nat \ {0} : BelowAt(a, b, 1, m)
  BY BehindAt
<1>2. PICK k \in Nat \ {0} : BelowAt(b, c, 1, k)
  BY BehindAt
<1>3. \A i \in Nat \ {0} : Part(a, i) \in Nat /\ Part(b, i) \in Nat /\ Part(c, i) \in Nat
  BY PartFacts
<1>4. CASE m <= k
  <2>1. Part(b, m) <= Part(c, m)
    <3>1. CASE m = k
      BY <1>2, <1>3, <3>1 DEF BelowAt
    <3>2. CASE m # k
      <4>1. m \in 1..(k - 1)
        BY <1>4, <3>2
      <4> QED
        BY <1>2, <1>3, <4>1 DEF BelowAt
    <3> QED
      BY <3>1, <3>2
  <2>2. Part(a, m) < Part(c, m)
    BY <1>1, <1>3, <2>1 DEF BelowAt
  <2>3. \A j \in 1..(m - 1) : j \in 1..(k - 1)
    BY <1>4
  <2>4. BelowAt(a, c, 1, m)
    BY <1>1, <1>2, <2>2, <2>3 DEF BelowAt
  <2> QED
    BY <2>4, BehindAt
<1>5. CASE k < m
  <2>1. k \in 1..(m - 1) /\ \A j \in 1..(k - 1) : j \in 1..(m - 1)
    BY <1>5
  <2>2. BelowAt(a, c, 1, k)
    BY <1>1, <1>2, <2>1 DEF BelowAt
  <2> QED
    BY <2>2, BehindAt
<1> QED
  BY <1>4, <1>5

\* and no version is behind itself.
LEMMA NotBehindItself ==
  ASSUME NEW a \in Seq(Nat)
  PROVE  ~Behind(a, a)
<1>1. ASSUME NEW m \in Nat \ {0}, BelowAt(a, a, 1, m) PROVE FALSE
  <2>1. Part(a, m) \in Nat
    BY PartFacts
  <2> QED
    BY <1>1, <2>1 DEF BelowAt
<1> QED
  BY <1>1, BehindAt

\* The turn of CompareVersions' loop for the i-th part, next being what the rest
\* of the loop returns.
Turn(a, b, i, next) ==
  IF Part(a, i) < Part(b, i) THEN "less"
  ELSE IF Part(a, i) > Part(b, i) THEN "greater" ELSE next

Verdicts == {"less", "equal", "greater"}

\* The loop of CompareVersions as a function of its turns.
LEMMA CompareLoop ==
  ASSUME NEW a \in Seq(Nat), NEW b \in Seq(Nat), a # <<>>, b # <<>>
  PROVE  \E f : /\ f[Longer(a, b) + 1] = "equal"
                /\ \A i \in 1..Longer(a, b) : f[i] = Turn(a, b, i, f[i + 1])
                /\ CompareVersions(a, b) = f[1]
<1> DEFINE n == Longer(a, b)
           F == [k \in 1..n |-> [v \in Verdicts |-> Turn(a, b, n + 1 - k, v)]]
           Rule(f) == f = [i \in 1..(n + 1) |->
                        IF i > n THEN "equal"
                        ELSE IF Part(a, i) < Part(b, i) THEN "less"
                        ELSE IF Part(a, i) > Part(b, i) THEN "greater"
                        ELSE f[i + 1]]
<1>1. n \in Nat /\ "equal" \in Verdicts
  BY LongerFacts DEF Verdicts
<1>2. F \in [1..n -> [Verdicts -> Verdicts]]
  <2>1. \A k \in 1..n, v \in Verdicts : Turn(a, b, n + 1 - k, v) \in Verdicts
    BY DEF Turn, Verdicts
  <2> QED
    BY <2>1
<1>3. PICK g : Turns(g, n, Verdicts, "equal", F)
  <2> HIDE DEF F, n
  <2> QED
    BY <1>1, <1>2, LoopExists
<1>4. /\ g \in [0..n -> Verdicts] /\ g[0] = "equal"
      /\ \A k \in 1..n : g[k] = Turn(a, b, n + 1 - k, g[k - 1])
  <2>1. g \in [0..n -> Verdicts] /\ g[0] = "equal" /\ \A k \in 1..n : g[k] = F[k][g[k - 1]]
    BY <1>3 DEF Turns
  <2>2. \A k \in 1..n : k - 1 \in 0..n
    BY <1>1
  <2>3. \A k \in 1..n : g[k - 1] \in Verdicts
    BY <2>1, <2>2
  <2> HIDE DEF n
  <2> QED
    BY <2>1, <2>3
<1> DEFINE h == [i \in 1..(n + 1) |-> g[n + 1 - i]]
<1>5. Rule(h)
  <2>1. ASSUME NEW i \in 1..(n + 1)
        PROVE  h[i] = IF i > n THEN "equal"
                      ELSE IF Part(a, i) < Part(b, i) THEN "less"
                      ELSE IF Part(a, i) > Part(b, i) THEN "greater"
                      ELSE h[i + 1]
    <3>1. CASE i > n
      <4>1. n + 1 - i = 0
        BY <1>1, <3>1
      <4> QED
        BY <1>4, <3>1, <4>1
    <3>2. CASE ~(i > n)
      <4>1. /\ n + 1 - i \in 1..n /\ i + 1 \in 1..(n + 1)
            /\ n + 1 - (n + 1 - i) = i /\ (n + 1 - i) - 1 = n + 1 - (i + 1)
        BY <1>1, <3>2
      <4>2. h[i] = g[n + 1 - i] /\ h[i + 1] = g[n + 1 - (i + 1)]
        BY <4>1
      <4>3. g[n + 1 - i] = Turn(a, b, n + 1 - (n + 1 - i), g[(n + 1 - i) - 1])
        BY <1>4, <4>1
      <4>4. h[i] = Turn(a, b, i, h[i + 1])
        BY <4>1, <4>2, <4>3
      <4> QED
        BY <3>2, <4>4 DEF Turn
    <3> QED
      BY <3>1, <3>2
  <2>2. h = [i \in 1..(n + 1) |-> h[i]]
    OBVIOUS
  <2> HIDE DEF h, n
  <2> QED
    BY <2>1, <2>2
<1>6. CompareVersions(a, b) = (CHOOSE f : Rule(f))[1]
  BY DEF CompareVersions
<1>7. PICK f : Rule(f) /\ CompareVersions(a, b) = f[1]
  <2> HIDE DEF Rule
  <2> QED
    BY <1>5, <1>6
<1>8. f[n + 1] = "equal" /\ \A i \in 1..n : f[i] = Turn(a, b, i, f[i + 1])
  <2>1. n + 1 \in 1..(n + 1) /\ n + 1 > n /\ \A i \in 1..n : i \in 1..(n + 1) /\ ~(i > n)
    BY <1>1
  <2> HIDE DEF n
  <2> QED
    BY <1>7, <2>1 DEF Turn
<1> QED
  BY <1>7, <1>8

\* CompareVersions says "less" of exactly the versions that are behind.
LEMMA CompareFacts ==
  ASSUME NEW a \in Seq(Nat), NEW b \in Seq(Nat)
  PROVE  /\ CompareVersions(a, b) = "less" <=> a # <<>> /\ b # <<>> /\ Behind(a, b)
         /\ CompareVersions(a, b) = "unknown" <=> a = <<>> \/ b = <<>>
<1>1. CASE a = <<>> \/ b = <<>>
  BY <1>1 DEF CompareVersions
<1>2. CASE a # <<>> /\ b # <<>>
  <2> DEFINE n == Longer(a, b)
  <2>1. PICK f : /\ f[n + 1] = "equal"
                 /\ \A i \in 1..n : f[i] = Turn(a, b, i, f[i + 1])
                 /\ CompareVersions(a, b) = f[1]
    BY <1>2, CompareLoop
  <2>2. n \in Nat
    BY LongerFacts
  <2> DEFINE From(i) == \E m \in i..n : BelowAt(a, b, i, m)
             P == {k \in 0..n : f[n + 1 - k] \in Verdicts /\ (f[n + 1 - k] = "less" <=> From(n + 1 - k))}
  <2>3. 0 \in P
    <3>1. n + 1 - 0 = n + 1 /\ \A m \in (n + 1)..n : FALSE
      BY <2>2
    <3>2. ~From(n + 1)
      BY <3>1
    <3> HIDE DEF From, n
    <3> QED
      BY <2>1, <2>2, <3>1, <3>2 DEF Verdicts
  <2>4. ASSUME NEW k \in 1..n, k - 1 \in P PROVE k \in P
    <3>1. PICK i : i = n + 1 - k
      OBVIOUS
    <3>2. i \in 1..n /\ i + 1 = n + 1 - (k - 1) /\ k \in 0..n /\ i \in i..n /\ i \in Nat \ {0}
      BY <2>2, <3>1
    <3>3. f[i + 1] \in Verdicts /\ (f[i + 1] = "less" <=> From(i + 1))
      BY <2>4, <3>2
    <3>4. f[i] = Turn(a, b, i, f[i + 1])
      BY <2>1, <3>2
    <3>5. Part(a, i) \in Nat /\ Part(b, i) \in Nat
      BY <3>2, PartFacts
    <3>6. Part(a, i) < Part(b, i) => From(i)
      <4>1. \A j \in i..(i - 1) : FALSE
        BY <3>2
      <4>2. Part(a, i) < Part(b, i) => BelowAt(a, b, i, i)
        BY <4>1 DEF BelowAt
      <4> QED
        BY <3>2, <4>2
    <3>7. Part(a, i) > Part(b, i) => ~From(i)
      <4>1. SUFFICES ASSUME Part(a, i) > Part(b, i), NEW m \in i..n, BelowAt(a, b, i, m)
                     PROVE  FALSE
        OBVIOUS
      <4>2. m = i \/ i \in i..(m - 1)
        BY <2>2, <3>2
      <4> QED
        BY <3>5, <4>1, <4>2 DEF BelowAt
    <3>8. Part(a, i) = Part(b, i) => (From(i) <=> From(i + 1))
      <4>1. ASSUME Part(a, i) = Part(b, i), NEW m \in i..n, BelowAt(a, b, i, m) PROVE From(i + 1)
        <5>1. m # i
          BY <3>5, <4>1 DEF BelowAt
        <5>2. m \in (i + 1)..n /\ \A j \in (i + 1)..(m - 1) : j \in i..(m - 1)
          BY <2>2, <3>2, <5>1
        <5>3. BelowAt(a, b, i + 1, m)
          BY <4>1, <5>2 DEF BelowAt
        <5> QED
          BY <5>2, <5>3
      <4>2. ASSUME Part(a, i) = Part(b, i), NEW m \in (i + 1)..n, BelowAt(a, b, i + 1, m)
            PROVE  From(i)
        <5>1. m \in i..n /\ \A j \in i..(m - 1) : j = i \/ j \in (i + 1)..(m - 1)
          BY <2>2, <3>2
        <5>2. BelowAt(a, b, i, m)
          BY <4>2, <5>1 DEF BelowAt
        <5> QED
          BY <5>1, <5>2
      <4> QED
        BY <4>1, <4>2
    <3>9. f[i] \in Verdicts /\ (f[i] = "less" <=> From(i))
      <4> HIDE DEF From
      <4> QED
        BY <3>3, <3>4, <3>5, <3>6, <3>7, <3>8 DEF Turn, Verdicts
    <3> HIDE DEF From
    <3> QED
      BY <3>1, <3>2, <3>9
  <2>5. \A k \in 0..n : k \in P
    <3> HIDE DEF P, n
    <3> QED
      BY <2>2, <2>3, <2>4, UpTo
  <2>6. f[1] \in Verdicts /\ (f[1] = "less" <=> From(1))
    <3>1. n \in P /\ n + 1 - n = 1
      BY <2>2, <2>5
    <3> HIDE DEF From
    <3> QED
      BY <3>1
  <2>7. From(1) <=> Behind(a, b)
    BY DEF Behind, BelowAt
  <2> HIDE DEF From
  <2> QED
    BY <1>2, <2>1, <2>6, <2>7 DEF Verdicts
<1> QED
  BY <1>1, <1>2

\* The fields of an endpoint row have their types.
LEMMA RowFacts ==
  ASSUME NEW row \in FleetRows
  PROVE  /\ row.version \in Seq(Nat)
         /\ row.available # NoUpdate => row.available.version \in Seq(Nat)
         /\ row.available \in Updates
<1>1. row.version \in VersionNumbers /\ row.available \in Updates
  BY DEF FleetRows
<1>2. \A v \in VersionNumbers : v \in Seq(Nat)
  BY SoftwareAssumptions
<1>3. ASSUME NEW v \in VersionNumbers, row.available = Update(v) PROVE row.available.version = v
  BY <1>3 DEF Update
<1>4. row.available # NoUpdate => \E v \in VersionNumbers : row.available = Update(v)
  BY <1>1 DEF Updates
<1> QED
  BY <1>1, <1>2, <1>3, <1>4

\* An endpoint whose row has a version offered and both can be compared.
Comparable(r) == r.available # NoUpdate /\ r.version # <<>> /\ r.available.version # <<>>

\* What computeUpdateStatus says of a row.
LEMMA StatusFacts ==
  ASSUME NEW row \in FleetRows
  PROVE  /\ UpdateStatus(row) = "update_available" <=>
              Comparable(row) /\ Behind(row.version, row.available.version)
         /\ UpdateStatus(row) = "up_to_date" <=>
              Comparable(row) /\ ~Behind(row.version, row.available.version)
<1>1. CASE row.available = NoUpdate
  BY <1>1 DEF UpdateStatus, Comparable
<1>2. CASE row.available # NoUpdate
  <2>1. row.version \in Seq(Nat) /\ row.available.version \in Seq(Nat)
    BY <1>2, RowFacts
  <2>2. PICK c : c = CompareVersions(row.version, row.available.version)
    OBVIOUS
  <2>3. UpdateStatus(row) = IF c = "less" THEN "update_available"
                            ELSE IF c = "unknown" THEN "unknown" ELSE "up_to_date"
    BY <1>2, <2>2 DEF UpdateStatus
  <2>4. /\ c = "less" <=> row.version # <<>> /\ row.available.version # <<>>
                          /\ Behind(row.version, row.available.version)
        /\ c = "unknown" <=> row.version = <<>> \/ row.available.version = <<>>
    BY <2>1, <2>2, CompareFacts
  <2> QED
    BY <1>2, <2>3, <2>4 DEF Comparable
<1> QED
  BY <1>1, <1>2

\* Reports and departures keep the table a list of endpoint rows.
LEMMA SoftStep ==
  ASSUME fleet \in Seq(FleetRows), [SoftNext]_softVars
  PROVE  fleet' \in Seq(FleetRows)
<1>1. ASSUME NEW row \in FleetRows, AddEndpoint(row) PROVE fleet' \in Seq(FleetRows)
  BY <1>1 DEF AddEndpoint
<1>2. ASSUME NEW i \in DOMAIN fleet, NEW v \in VersionNumbers, UpgradeEndpoint(i, v)
      PROVE  fleet' \in Seq(FleetRows)
  <2>1. i \in 1..Len(fleet) /\ fleet[i] \in FleetRows
    OBVIOUS
  <2>2. PICK r : r = [fleet[i] EXCEPT !.version = v]
    OBVIOUS
  <2>3. r \in FleetRows
    BY <2>1, <2>2 DEF FleetRows
  <2>4. fleet' = [fleet EXCEPT ![i] = r]
    BY <1>2, <2>1, <2>2 DEF UpgradeEndpoint
  <2> QED
    BY <2>1, <2>3, <2>4
<1>3. CASE UNCHANGED softVars
  BY <1>3 DEF softVars
<1> QED
  BY <1>1, <1>2, <1>3 DEF SoftNext

\* The fleet's status, from the statuses of its rows.
LEMMA FleetStatusRight ==
  ASSUME fleet \in Seq(FleetRows)
  PROVE  /\ FleetStatus = "update_available" <=>
              \E i \in DOMAIN fleet : /\ Comparable(fleet[i])
                                      /\ Behind(fleet[i].version, fleet[i].available.version)
         /\ FleetStatus = "up_to_date" =>
              \A i \in DOMAIN fleet : /\ Comparable(fleet[i])
                                      /\ ~Behind(fleet[i].version, fleet[i].available.version)
<1>1. \A i \in DOMAIN fleet : fleet[i] \in FleetRows
  OBVIOUS
<1>2. \A i \in DOMAIN fleet :
        /\ UpdateStatus(fleet[i]) = "update_available" <=>
             Comparable(fleet[i]) /\ Behind(fleet[i].version, fleet[i].available.version)
        /\ UpdateStatus(fleet[i]) = "up_to_date" <=>
             Comparable(fleet[i]) /\ ~Behind(fleet[i].version, fleet[i].available.version)
  BY <1>1, StatusFacts
<1>3. \A i \in DOMAIN fleet : UpdateStatus(fleet[i]) \in Statuses
  BY DEF Statuses
<1>4. \A s \in Statuses : \E i \in DOMAIN fleet : s = UpdateStatus(fleet[i])
  BY DEF Statuses
<1>5. FleetStatus = "update_available" <=> "update_available" \in Statuses
  BY DEF FleetStatus
<1>6. FleetStatus = "up_to_date" => Statuses = {"up_to_date"}
  BY DEF FleetStatus
<1>7. FleetStatus = "update_available" <=>
        \E i \in DOMAIN fleet : /\ Comparable(fleet[i])
                                /\ Behind(fleet[i].version, fleet[i].available.version)
  BY <1>2, <1>3, <1>4, <1>5
<1>8. ASSUME FleetStatus = "up_to_date", NEW i \in DOMAIN fleet
      PROVE  Comparable(fleet[i]) /\ ~Behind(fleet[i].version, fleet[i].available.version)
  BY <1>2, <1>3, <1>6, <1>8
<1> QED
  BY <1>7, <1>8

\* u is what the loop over the rows has to hold after the first n, when every
\* version offered has digits.
NewestOf(u, n) ==
  /\ u = NoUpdate \/ \E k \in 1..n : u = fleet[k].available
  /\ \A k \in 1..n : fleet[k].available # NoUpdate =>
       u # NoUpdate /\ ~Behind(u.version, fleet[k].available.version)

\* One turn of the loop: the newer of the newest so far and the n-th row is the
\* newest of the first n.
LEMMA NewestStep ==
  ASSUME fleet \in Seq(FleetRows), NEW n \in 1..Len(fleet), NEW u, NewestOf(u, n - 1),
         \A k \in 1..Len(fleet) : fleet[k].available # NoUpdate => fleet[k].available.version # <<>>
  PROVE  NewestOf(Newer(u, fleet[n]), n)
<1> DEFINE o == fleet[n].available
           w == Newer(u, fleet[n])
<1>1. /\ Len(fleet) \in Nat /\ n \in Nat /\ n \in 1..n
      /\ \A k \in 1..(n - 1) : k \in 1..n /\ k \in 1..Len(fleet)
      /\ \A k \in 1..n : k = n \/ k \in 1..(n - 1)
      /\ \A k \in 1..Len(fleet) : fleet[k] \in FleetRows
  OBVIOUS
<1>2. \A k \in 1..Len(fleet) : fleet[k].available # NoUpdate =>
        fleet[k].available.version \in Seq(Nat) /\ fleet[k].available.version # <<>>
  BY <1>1, RowFacts
<1>3. u # NoUpdate => u.version \in Seq(Nat) /\ u.version # <<>>
  BY <1>1, <1>2 DEF NewestOf
<1>4. CASE o = NoUpdate
  <2>1. w = u
    BY <1>4 DEF Newer
  <2>2. NewestOf(u, n)
    BY <1>1, <1>4 DEF NewestOf
  <2> QED
    BY <2>1, <2>2
<1>5. CASE o # NoUpdate /\ u = NoUpdate
  <2>1. w = o
    BY <1>5 DEF Newer
  <2>2. \A k \in 1..(n - 1) : fleet[k].available = NoUpdate
    BY <1>5 DEF NewestOf
  <2>3. ~Behind(o.version, o.version)
    BY <1>2, <1>5, NotBehindItself
  <2>4. NewestOf(o, n)
    BY <1>1, <1>5, <2>2, <2>3 DEF NewestOf
  <2> QED
    BY <2>1, <2>4
<1>6. CASE o # NoUpdate /\ u # NoUpdate
  <2>1. o.version \in Seq(Nat) /\ o.version # <<>>
    BY <1>2, <1>6
  <2>2. w = IF Behind(u.version, o.version) THEN o ELSE u
    <3>1. CompareVersions(u.version, o.version) = "less" <=> Behind(u.version, o.version)
      BY <1>3, <1>6, <2>1, CompareFacts
    <3> QED
      BY <1>6, <3>1 DEF Newer
  <2>3. CASE Behind(u.version, o.version)
    <3>1. w = o
      BY <2>2, <2>3
    <3>2. ASSUME NEW k \in 1..n, fleet[k].available # NoUpdate
          PROVE  ~Behind(o.version, fleet[k].available.version)
      <4>1. CASE k = n
        BY <2>1, <4>1, NotBehindItself
      <4>2. CASE k \in 1..(n - 1)
        <5>1. ~Behind(u.version, fleet[k].available.version)
          BY <3>2, <4>2 DEF NewestOf
        <5>2. fleet[k].available.version \in Seq(Nat) /\ u.version \in Seq(Nat)
          BY <1>1, <1>2, <1>3, <1>6, <3>2, <4>2
        <5> HIDE DEF o
        <5> QED
          BY <2>1, <2>3, <5>1, <5>2, BehindTransitive
      <4> QED
        BY <1>1, <4>1, <4>2
    <3>3. NewestOf(o, n)
      BY <1>1, <1>6, <3>2 DEF NewestOf
    <3> QED
      BY <3>1, <3>3
  <2>4. CASE ~Behind(u.version, o.version)
    <3>1. w = u
      BY <2>2, <2>4
    <3>2. \A k \in 1..n : fleet[k].available # NoUpdate =>
            u # NoUpdate /\ ~Behind(u.version, fleet[k].available.version)
      BY <1>1, <1>6, <2>4 DEF NewestOf
    <3>3. u = NoUpdate \/ \E k \in 1..n : u = fleet[k].available
      BY <1>1 DEF NewestOf
    <3>4. NewestOf(u, n)
      BY <3>2, <3>3 DEF NewestOf
    <3> QED
      BY <3>1, <3>4
  <2> QED
    BY <2>3, <2>4
<1> QED
  BY <1>4, <1>5, <1>6

\* The loop over the rows, as a function of the turns made.
LEMMA NewestLoop ==
  ASSUME fleet \in Seq(FleetRows)
  PROVE  \E g : /\ g[0] = NoUpdate
                /\ \A i \in 1..Len(fleet) : g[i] = Newer(g[i - 1], fleet[i])
                /\ NewestUpdate = g[Len(fleet)]
<1> DEFINE n == Len(fleet)
           F == [i \in 1..n |-> [u \in Updates |-> Newer(u, fleet[i])]]
           Rule(f) == f = [i \in 0..n |-> IF i = 0 THEN NoUpdate ELSE Newer(f[i - 1], fleet[i])]
<1>1. n \in Nat /\ NoUpdate \in Updates /\ \A i \in 1..n : fleet[i].available \in Updates
  BY RowFacts DEF Updates
<1>2. F \in [1..n -> [Updates -> Updates]]
  <2>1. \A i \in 1..n, u \in Updates : Newer(u, fleet[i]) \in Updates
    BY <1>1 DEF Newer
  <2> QED
    BY <2>1
<1>3. PICK g : Turns(g, n, Updates, NoUpdate, F)
  <2> HIDE DEF F, n
  <2> QED
    BY <1>1, <1>2, LoopExists
<1>4. /\ g \in [0..n -> Updates] /\ g[0] = NoUpdate
      /\ \A i \in 1..n : g[i] = Newer(g[i - 1], fleet[i])
  <2>1. g \in [0..n -> Updates] /\ g[0] = NoUpdate /\ \A i \in 1..n : g[i] = F[i][g[i - 1]]
    BY <1>3 DEF Turns
  <2>2. \A i \in 1..n : i - 1 \in 0..n
    BY <1>1
  <2>3. \A i \in 1..n : g[i - 1] \in Updates
    BY <2>1, <2>2
  <2> HIDE DEF n
  <2> QED
    BY <2>1, <2>3
<1>5. Rule(g)
  <2>1. \A i \in 0..n : i = 0 \/ i \in 1..n
    BY <1>1
  <2>2. \A i \in 0..n : g[i] = IF i = 0 THEN NoUpdate ELSE Newer(g[i - 1], fleet[i])
    BY <1>1, <1>4, <2>1
  <2> HIDE DEF n
  <2> QED
    BY <1>4, <2>2
<1>6. NewestUpdate = (CHOOSE f : Rule(f))[n]
  BY DEF NewestUpdate
<1>7. PICK f : Rule(f) /\ NewestUpdate = f[n]
  <2> HIDE DEF Rule, n
  <2> QED
    BY <1>5, <1>6
<1>8. f[0] = NoUpdate /\ \A i \in 1..n : f[i] = Newer(f[i - 1], fleet[i])
  <2>1. 0 \in 0..n /\ \A i \in 1..n : i \in 0..n /\ i # 0
    BY <1>1
  <2> HIDE DEF n
  <2> QED
    BY <1>7, <2>1
<1> QED
  BY <1>7, <1>8

\* So the loop ends with the newest of all rows.
LEMMA NewestRight ==
  ASSUME fleet \in Seq(FleetRows),
         \A k \in 1..Len(fleet) : fleet[k].available # NoUpdate => fleet[k].available.version # <<>>
  PROVE  NewestOf(NewestUpdate, Len(fleet))
<1> DEFINE n == Len(fleet)
<1>1. PICK g : /\ g[0] = NoUpdate
               /\ \A i \in 1..n : g[i] = Newer(g[i - 1], fleet[i])
               /\ NewestUpdate = g[n]
  BY NewestLoop
<1> DEFINE P == {i \in 0..n : NewestOf(g[i], i)}
<1>2. n \in Nat
  OBVIOUS
<1>3. 0 \in P
  <2>1. NewestOf(g[0], 0)
    BY <1>1 DEF NewestOf
  <2> QED
    BY <1>2, <2>1
<1>4. ASSUME NEW i \in 1..n, i - 1 \in P PROVE i \in P
  <2>1. NewestOf(g[i - 1], i - 1)
    BY <1>4
  <2>2. NewestOf(Newer(g[i - 1], fleet[i]), i)
    BY <2>1, NewestStep
  <2>3. i \in 0..n /\ g[i] = Newer(g[i - 1], fleet[i])
    BY <1>1, <1>2
  <2> QED
    BY <2>2, <2>3
<1>5. \A i \in 0..n : i \in P
  <2> HIDE DEF P, n
  <2> QED
    BY <1>2, <1>3, <1>4, UpTo
<1>6. n \in P
  BY <1>2, <1>5
<1> QED
  BY <1>1, <1>6

\* The row of the fleet is right for every table.
LEMMA AggregateRight ==
  ASSUME fleet \in Seq(FleetRows)
  PROVE  NewestIsMax
<1> DEFINE offered == {fleet[i].available : i \in DOMAIN fleet} \ {NoUpdate}
<1>1. DOMAIN fleet = 1..Len(fleet) /\ Len(fleet) \in Nat
  OBVIOUS
<1>2. ASSUME \A u \in offered : u.version # <<>>
      PROVE  IF offered = {} THEN NewestUpdate = NoUpdate
             ELSE /\ NewestUpdate \in offered
                  /\ \A u \in offered : ~Behind(NewestUpdate.version, u.version)
  <2>1. \A k \in 1..Len(fleet) : fleet[k].available # NoUpdate => fleet[k].available \in offered
    BY <1>1
  <2>2. \A u \in offered : u # NoUpdate /\ \E k \in 1..Len(fleet) : u = fleet[k].available
    BY <1>1
  <2> HIDE DEF offered
  <2>3. NewestOf(NewestUpdate, Len(fleet))
    BY <1>2, <2>1, NewestRight
  <2> QED
    BY <2>1, <2>2, <2>3 DEF NewestOf
<1>3. /\ FleetStatus = "update_available" <=>
           \E i \in DOMAIN fleet : /\ Comparable(fleet[i])
                                   /\ Behind(fleet[i].version, fleet[i].available.version)
      /\ FleetStatus = "up_to_date" =>
           \A i \in DOMAIN fleet : /\ Comparable(fleet[i])
                                   /\ ~Behind(fleet[i].version, fleet[i].available.version)
  BY FleetStatusRight
<1> QED
  BY <1>2, <1>3 DEF NewestIsMax, Comparable

\* The fleet's row is right for any versions and any number and order of endpoint
\* rows: CompareVersions is the numeric order of the parts, the newest update is a
\* maximum of those offered, and the status is what the rows say
\* (aggregateOneSoftwareGroup).
THEOREM NewestIsMaxHolds == SoftSpec => []NewestIsMax
<1> DEFINE SoftInv == fleet \in Seq(FleetRows)
<1>1. SoftInit => SoftInv
  BY DEF SoftInit
<1>2. SoftInv /\ [SoftNext]_softVars => SoftInv'
  BY SoftStep
<1>3. SoftInv => NewestIsMax
  BY AggregateRight
<1> QED
  BY <1>1, <1>2, <1>3, PTL DEF SoftSpec

-----------------------------------------------------------------------------
(* The types.                                                                *)

\* A new rule's number is above every other's;
LEMMA InsertTypes ==
  ASSUME MatchInv, MatchTypeOK, NEW w \in Wants, NEW on \in BOOLEAN, InsertPolicyRule(w, on)
  PROVE  MatchTypeOK'
<1>1. /\ ruleTable \in Seq(RuleSet) /\ Len(ruleTable) \in Nat /\ lastId \in 0..MaxRules
      /\ MaxRules \in Nat
  BY MatchAssumptions DEF MatchInv, MatchTypeOK
<1>2. \A i \in 1..Len(ruleTable) :
        /\ ruleTable[i].id \in 1..lastId /\ ruleTable[i].want \in Wants
        /\ ruleTable[i].enabled \in BOOLEAN
        /\ i > 1 => ruleTable[i - 1].id < ruleTable[i].id
  BY <1>1 DEF MatchTypeOK
<1>3. PICK r \in RuleSet : r = [id |-> lastId + 1, want |-> w, enabled |-> on]
  <2>1. lastId + 1 \in Nat \ {0}
    BY <1>1
  <2> QED
    BY <2>1, RuleMade
<1>4. /\ lastId < MaxRules /\ lastId' = lastId + 1 /\ ruleTable' = Append(ruleTable, r)
  BY <1>3 DEF InsertPolicyRule
<1>5. /\ DOMAIN ruleTable' = 1..(Len(ruleTable) + 1) /\ ruleTable'[Len(ruleTable) + 1] = r
      /\ \A i \in 1..Len(ruleTable) : ruleTable'[i] = ruleTable[i]
  BY <1>1, <1>4
<1>6. r.id = lastId + 1 /\ r.want = w /\ r.enabled = on
  BY <1>3
<1>7. ASSUME NEW i \in DOMAIN ruleTable'
      PROVE  /\ ruleTable'[i].id \in 1..lastId' /\ ruleTable'[i].want \in Wants
             /\ ruleTable'[i].enabled \in BOOLEAN
             /\ i > 1 => ruleTable'[i - 1].id < ruleTable'[i].id
  <2>1. CASE i \in 1..Len(ruleTable)
    <3>1. i > 1 => i - 1 \in 1..Len(ruleTable)
      BY <1>1, <2>1
    <3>2. ruleTable'[i] = ruleTable[i] /\ (i > 1 => ruleTable'[i - 1] = ruleTable[i - 1])
      BY <1>5, <2>1, <3>1
    <3>3. ruleTable[i].id \in 1..lastId'
      BY <1>1, <1>2, <1>4, <2>1
    <3> QED
      BY <1>2, <2>1, <3>2, <3>3
  <2>2. CASE i = Len(ruleTable) + 1
    <3>1. i > 1 => i - 1 \in 1..Len(ruleTable) /\ i - 1 = Len(ruleTable)
      BY <1>1, <2>2
    <3>2. i > 1 => ruleTable'[i - 1].id \in 1..lastId
      BY <1>2, <1>5, <3>1
    <3>3. ruleTable'[i] = r /\ r.id \in 1..lastId'
      BY <1>1, <1>4, <1>5, <1>6, <2>2
    <3> QED
      BY <1>1, <1>6, <3>2, <3>3
  <2> QED
    BY <1>1, <1>5, <2>1, <2>2
<1>8. lastId' \in 0..MaxRules
  BY <1>1, <1>4
<1> QED
  BY <1>7, <1>8 DEF MatchTypeOK

\* an edit leaves the numbers alone;
LEMMA UpdateTypes ==
  ASSUME MatchInv, MatchTypeOK, NEW k \in DOMAIN ruleTable, NEW w \in Wants, NEW on \in BOOLEAN,
         UpdatePolicyRule(k, w, on)
  PROVE  MatchTypeOK'
<1>1. /\ ruleTable \in Seq(RuleSet) /\ Len(ruleTable) \in Nat
      /\ DOMAIN ruleTable = 1..Len(ruleTable) /\ lastId' = lastId
  BY DEF MatchInv, UpdatePolicyRule
<1>2. ruleTable[k] \in RuleSet
  BY <1>1
<1>3. PICK r \in RuleSet : r = [ruleTable[k] EXCEPT !.want = w, !.enabled = on]
  BY <1>2, RuleEdited
<1>4. r.id = ruleTable[k].id /\ r.want = w /\ r.enabled = on
  BY <1>2, <1>3 DEF RuleSet
<1>5. ruleTable' = [ruleTable EXCEPT ![k] = r]
  BY <1>1, <1>3 DEF UpdatePolicyRule
<1>6. /\ DOMAIN ruleTable' = DOMAIN ruleTable /\ ruleTable'[k] = r
      /\ \A i \in DOMAIN ruleTable : i # k => ruleTable'[i] = ruleTable[i]
  BY <1>5
<1>7. \A i \in DOMAIN ruleTable : ruleTable'[i].id = ruleTable[i].id
  BY <1>4, <1>6
<1>8. \A i \in DOMAIN ruleTable : i > 1 => i - 1 \in DOMAIN ruleTable
  BY <1>1
<1>9. \A i \in DOMAIN ruleTable : ruleTable'[i].want \in Wants /\ ruleTable'[i].enabled \in BOOLEAN
  BY <1>4, <1>6 DEF MatchTypeOK
<1> QED
  BY <1>1, <1>6, <1>7, <1>8, <1>9 DEF MatchTypeOK

\* and a deletion closes the gap.
LEMMA DeleteTypes ==
  ASSUME MatchInv, MatchTypeOK, NEW k \in DOMAIN ruleTable, DeletePolicyRule(k)
  PROVE  MatchTypeOK'
<1>1. /\ ruleTable \in Seq(RuleSet) /\ Len(ruleTable) \in Nat
      /\ DOMAIN ruleTable = 1..Len(ruleTable) /\ k \in 1..Len(ruleTable) /\ lastId' = lastId
  BY DEF MatchInv, DeletePolicyRule
<1>2. \A i \in 1..Len(ruleTable) :
        /\ ruleTable[i].id \in 1..lastId /\ ruleTable[i].want \in Wants
        /\ ruleTable[i].enabled \in BOOLEAN
        /\ i > 1 => ruleTable[i - 1].id < ruleTable[i].id
  BY <1>1 DEF MatchTypeOK
<1>3. PICK a : a = SubSeq(ruleTable, 1, k - 1)
  OBVIOUS
<1>4. PICK b : b = SubSeq(ruleTable, k + 1, Len(ruleTable))
  OBVIOUS
<1>5. /\ a \in Seq(RuleSet) /\ Len(a) = k - 1
      /\ \A i \in 1..(k - 1) : a[i] = ruleTable[i]
  BY <1>1, <1>3
<1>6. /\ b \in Seq(RuleSet) /\ Len(b) = Len(ruleTable) - k
      /\ \A i \in 1..(Len(ruleTable) - k) : b[i] = ruleTable[k + i]
  BY <1>1, <1>4
<1>7. ruleTable' = a \o b
  BY <1>3, <1>4 DEF DeletePolicyRule
<1>8. /\ DOMAIN ruleTable' = 1..(Len(ruleTable) - 1)
      /\ \A i \in 1..(Len(ruleTable) - 1) :
           ruleTable'[i] = IF i < k THEN ruleTable[i] ELSE ruleTable[i + 1]
  <2>1. /\ a \o b \in Seq(RuleSet) /\ Len(a \o b) = Len(a) + Len(b)
        /\ \A i \in 1..(Len(a) + Len(b)) :
             (a \o b)[i] = IF i <= Len(a) THEN a[i] ELSE b[i - Len(a)]
    BY <1>5, <1>6, Concatenation
  <2>2. Len(a) + Len(b) = Len(ruleTable) - 1
    BY <1>1, <1>5, <1>6
  <2>3. DOMAIN ruleTable' = 1..(Len(ruleTable) - 1)
    BY <1>7, <2>1, <2>2
  <2>4. ASSUME NEW i \in 1..(Len(ruleTable) - 1)
        PROVE  ruleTable'[i] = IF i < k THEN ruleTable[i] ELSE ruleTable[i + 1]
    <3>1. ruleTable'[i] = IF i <= Len(a) THEN a[i] ELSE b[i - Len(a)]
      BY <1>7, <2>1, <2>2
    <3>2. CASE i < k
      <4>1. i <= Len(a) /\ i \in 1..(k - 1)
        BY <1>1, <1>5, <3>2
      <4> QED
        BY <1>5, <3>1, <3>2, <4>1
    <3>3. CASE ~(i < k)
      <4>1. /\ ~(i <= Len(a)) /\ i - Len(a) \in 1..(Len(ruleTable) - k)
            /\ k + (i - Len(a)) = i + 1
        BY <1>1, <1>5, <3>3
      <4> QED
        BY <1>6, <3>1, <3>3, <4>1
    <3> QED
      BY <3>2, <3>3
  <2> QED
    BY <2>3, <2>4
<1>9. ASSUME NEW i \in DOMAIN ruleTable'
      PROVE  /\ ruleTable'[i].id \in 1..lastId' /\ ruleTable'[i].want \in Wants
             /\ ruleTable'[i].enabled \in BOOLEAN
             /\ i > 1 => ruleTable'[i - 1].id < ruleTable'[i].id
  <2>1. i \in 1..(Len(ruleTable) - 1) /\ i \in 1..Len(ruleTable) /\ i + 1 \in 1..Len(ruleTable)
    BY <1>1, <1>8
  <2>2. i > 1 => i - 1 \in 1..(Len(ruleTable) - 1)
    BY <1>1, <2>1
  <2>3. \/ ruleTable'[i] = ruleTable[i] /\ i < k
        \/ ruleTable'[i] = ruleTable[i + 1] /\ ~(i < k)
    BY <1>8, <2>1
  <2>4. i > 1 => \/ ruleTable'[i - 1] = ruleTable[i - 1] /\ i - 1 < k
                 \/ ruleTable'[i - 1] = ruleTable[i] /\ ~(i - 1 < k)
    BY <1>1, <1>8, <2>1, <2>2
  <2>5. /\ ruleTable[i].id < ruleTable[i + 1].id
        /\ i > 1 => ruleTable[i - 1].id < ruleTable[i].id
    <3>1. i + 1 > 1 /\ (i + 1) - 1 = i
      BY <2>1
    <3> QED
      BY <1>2, <2>1, <3>1
  <2>6. /\ ruleTable[i].id \in Nat /\ ruleTable[i + 1].id \in Nat
        /\ i > 1 => ruleTable[i - 1].id \in Nat
    <3>1. i > 1 => i - 1 \in 1..Len(ruleTable)
      BY <1>1, <2>1
    <3> QED
      BY <1>2, <2>1, <3>1
  <2>7. i > 1 => ruleTable'[i - 1].id < ruleTable'[i].id
    BY <1>1, <2>1, <2>3, <2>4, <2>5, <2>6
  <2> QED
    BY <1>1, <1>2, <2>1, <2>3, <2>7
<1> QED
  BY <1>1, <1>9 DEF MatchTypeOK

\* The rules stay ordered by their numbers, none of which is given twice.
LEMMA MatchTypes ==
  ASSUME MatchInv, MatchTypeOK, [MatchNext]_matchVars
  PROVE  MatchTypeOK'
<1>1. CASE UNCHANGED matchVars
  BY <1>1 DEF matchVars, MatchTypeOK
<1> QED
  BY <1>1, InsertTypes, UpdateTypes, DeleteTypes DEF MatchNext

\* The killers' locals, the processes and the recorded actions.
LEMMA KillTypes ==
  ASSUME KillInv, companyKnown \in BOOLEAN
  PROVE  KillTypeOK
<1>1. \A k \in Killers : killer[k] \in KillerStates /\ outcome[k] \in {"none", "killed", "log"}
  BY DEF KillInv, Outcomes
<1>2. \A k \in Killers : /\ killer[k].pc \in KillSteps /\ killer[k].turn \in 0..8
                         /\ killer[k].left \subseteq Pids
  <2>1. \A r \in KillerStates : r.pc \in KillSteps /\ r.turn \in 0..8 /\ r.left \subseteq Pids
    BY DEF KillerStates
  <2> QED
    BY <1>1, <2>1
<1> QED
  BY <1>1, <1>2 DEF KillInv, Processes, KillTypeOK

\* Nothing in the agent changes the row of the application.
LEMMA CompanyFixed == [KillNext]_killVars => companyKnown' = companyKnown
<1> SUFFICES ASSUME [KillNext]_killVars PROVE companyKnown' = companyKnown
  OBVIOUS
<1> QED
  BY DEF KillNext, killVars, Start, Exit, DecideKill, CheckPid, Sweep, VerifyGone, Terminate,
         CloseWindows, Report

\* Only a poll's first read counts polls.
LEMMA PollsTyped ==
  ASSUME polls \in 0..MaxPolls, [CmdNext]_cmdVars
  PROVE  polls' \in 0..MaxPolls
<1>1. polls' = polls \/ (polls < MaxPolls /\ polls' = polls + 1)
  BY DEF CmdNext, cmdVars, PostCommand, RefuseCommand, CrashCommand, InsertJob, FinishJob,
         InsertCommandRequest, DoTarget, DeleteAgent, GetJob, GetMeta, GetResults
<1> QED
  BY <1>1, CommandAssumptions

\* The command, its rows and the polls.
LEMMA CmdTypes ==
  ASSUME CmdInv, polls \in 0..MaxPolls
  PROVE  CmdTypeOK
BY DEF CmdInv, CmdTyped, RowsSoFar, CmdTypeOK

\* A change of a version keeps the number of rows.
LEMMA FleetTypes ==
  ASSUME SoftTypeOK, [SoftNext]_softVars
  PROVE  SoftTypeOK'
<1>1. fleet \in Seq(FleetRows) /\ Len(fleet) \in Nat /\ Len(fleet) <= MaxFleet /\ MaxFleet \in Nat
  BY SoftwareAssumptions DEF SoftTypeOK
<1>2. fleet' \in Seq(FleetRows)
  BY <1>1, SoftStep
<1>3. ASSUME NEW row \in FleetRows, AddEndpoint(row) PROVE Len(fleet') <= MaxFleet
  BY <1>1, <1>3 DEF AddEndpoint
<1>4. ASSUME NEW i \in DOMAIN fleet, NEW v \in VersionNumbers, UpgradeEndpoint(i, v)
      PROVE  Len(fleet') <= MaxFleet
  <2>1. DOMAIN fleet' = DOMAIN fleet
    BY <1>4 DEF UpgradeEndpoint
  <2>2. Len(fleet') = Len(fleet)
    BY <1>1, <1>2, <2>1
  <2> QED
    BY <1>1, <2>2
<1>5. CASE UNCHANGED softVars
  BY <1>5 DEF softVars, SoftTypeOK
<1> QED
  BY <1>2, <1>3, <1>4, <1>5 DEF SoftNext, SoftTypeOK

\* A handler that is about to write a sighting has the row that it names, and the
\* admin's change is one of a row and a status.
RowsThere ==
  /\ \A c \in Links : serving[c].pc = "sight" => apps[serving[c].row] # NoRow
  /\ admin \in [pc : {"idle", "read", "spread"}, row : Rows, status : AppStatuses]

\* Rows are never deleted: what names one goes on naming one.
LEMMA RowsKept ==
  ASSUME CatInv, CatTypeOK, RowsThere, apps' \in [Rows -> AppStatuses \cup {NoRow}],
         \A r \in Rows : apps[r] # NoRow => apps'[r] # NoRow,
         UNCHANGED <<extracted, overlapped, sightings, serving, queue, reports>>,
         admin' \in [pc : {"idle", "read", "spread"}, row : Rows, status : AppStatuses],
         verdicts' \in 0..MaxVerdicts
  PROVE  CatTypeOK' /\ RowsThere'
<1>1. \A c \in Links : serving[c].pc = "sight" => serving[c].row \in Rows
  BY DEF CatInv, CatTyped
<1>2. \A s \in sightings : s[2] \in Rows
  BY DEF CatTypeOK
<1>3. RowsThere'
  BY <1>1 DEF RowsThere
<1>4. admin'.pc \in {"idle", "read", "spread"}
  OBVIOUS
<1>5. \A s \in sightings' : apps'[s[2]] # NoRow
  BY <1>2 DEF CatTypeOK
<1> QED
  BY <1>3, <1>4, <1>5 DEF CatTypeOK

\* Insert adds a row or leaves it alone.
LEMMA InsertKeeps ==
  ASSUME apps \in [Rows -> AppStatuses \cup {NoRow}], NEW r \in Rows, Insert(r)
  PROVE  /\ apps' \in [Rows -> AppStatuses \cup {NoRow}] /\ apps'[r] # NoRow
         /\ \A q \in Rows : apps[q] # NoRow => apps'[q] # NoRow
<1>1. "pending_review" \in AppStatuses /\ "pending_review" # NoRow
  BY DEF AppStatuses, NoRow
<1> QED
  BY <1>1 DEF Insert

\* A handler moves on: what it is about to write is there.
LEMMA HandlerTypes ==
  ASSUME CatInv, CatTypeOK, RowsThere, NEW c \in Links, NEW h \in HandlerStates,
         serving' = [serving EXCEPT ![c] = h],
         h.pc = "sight" => h.row \in Rows /\ apps'[h.row] # NoRow,
         apps' \in [Rows -> AppStatuses \cup {NoRow}],
         \A r \in Rows : apps[r] # NoRow => apps'[r] # NoRow,
         sightings' \subseteq Paths \X Rows,
         \A s \in sightings' \ sightings : apps'[s[2]] # NoRow,
         \A d \in Links : Len(queue'[d]) <= MaxQueue, overlapped' \subseteq Paths,
         UNCHANGED <<extracted, admin, reports, verdicts>>
  PROVE  CatTypeOK' /\ RowsThere'
<1>1. \A d \in Links : serving[d].pc = "sight" => serving[d].row \in Rows
  BY DEF CatInv, CatTyped
<1>2. \A s \in sightings : s[2] \in Rows /\ apps[s[2]] # NoRow
  BY DEF CatTypeOK
<1>3. \A d \in Links : serving'[d] = IF d = c THEN h ELSE serving[d]
  BY DEF CatInv, CatTyped
<1>4. \A d \in Links : serving'[d].pc = "sight" => apps'[serving'[d].row] # NoRow
  BY <1>1, <1>3 DEF RowsThere
<1>5. RowsThere'
  BY <1>4 DEF RowsThere
<1>6. \A d \in Links : serving'[d].pc \in {"idle", "upsert", "sight"}
  BY <1>3 DEF HandlerStates, CatTypeOK
<1>7. \A s \in sightings' : apps'[s[2]] # NoRow
  BY <1>2
<1> QED
  BY <1>5, <1>6, <1>7 DEF CatTypeOK

\* Every sighting names a row, whatever the reports, the restarts, the admin's
\* changes and the failures.
LEMMA CatTypes ==
  ASSUME CatInv, CatTypeOK, RowsThere, [CatNext]_catVars
  PROVE  CatTypeOK' /\ RowsThere'
<1>0. /\ queue \in [Links -> Seq([path : Paths, meta : BOOLEAN])]
      /\ serving \in [Links -> HandlerStates]
      /\ apps \in [Rows -> AppStatuses \cup {NoRow}]
      /\ extracted \subseteq Paths /\ overlapped \subseteq Paths
      /\ sightings \subseteq Paths \X Rows
      /\ reports \in 0..MaxReports /\ verdicts \in 0..MaxVerdicts
      /\ \A c \in Links : Len(queue[c]) \in Nat /\ Len(queue[c]) <= MaxQueue
      /\ admin \in [pc : {"idle", "read", "spread"}, row : Rows, status : AppStatuses]
  <2>1. queue \in [Links -> Seq([path : Paths, meta : BOOLEAN])]
    BY DEF CatInv, CatTyped
  <2>2. ASSUME NEW S, NEW q \in Seq(S) PROVE Len(q) \in Nat
    BY <2>2
  <2>3. \A c \in Links : Len(queue[c]) \in Nat
    <3> SUFFICES ASSUME NEW c \in Links PROVE Len(queue[c]) \in Nat
      OBVIOUS
    <3>1. queue[c] \in Seq([path : Paths, meta : BOOLEAN])
      BY <2>1
    <3> QED
      BY <2>2, <3>1
  <2> QED
    BY <2>1, <2>3 DEF CatInv, CatTyped, CatTypeOK, RowsThere
<1>1. MaxReports \in Nat /\ MaxQueue \in Nat /\ MaxVerdicts \in Nat
  BY CatalogAssumptions
<1>2. ASSUME UNCHANGED <<serving, apps, sightings, admin, overlapped, verdicts>>,
             extracted' \subseteq Paths, reports' \in 0..MaxReports,
             \A c \in Links : Len(queue'[c]) <= MaxQueue
      PROVE  CatTypeOK' /\ RowsThere'
  BY <1>2 DEF CatTypeOK, RowsThere
<1>3. ASSUME NEW c \in Links, NEW p \in Paths, NEW meta \in BOOLEAN, NEW lost \in BOOLEAN,
             Collect(c, p, meta, lost)
      PROVE  CatTypeOK' /\ RowsThere'
  <2>1. /\ reports < MaxReports /\ reports' = reports + 1 /\ extracted' = extracted \cup {p}
        /\ UNCHANGED <<serving, apps, sightings, admin, overlapped, verdicts>>
        /\ \/ queue' = queue
           \/ /\ Len(queue[c]) < MaxQueue
              /\ queue' = [queue EXCEPT ![c] = Append(@, [path |-> p, meta |-> meta])]
    BY <1>3 DEF Collect
  <2>2. reports' \in 0..MaxReports /\ extracted' \subseteq Paths
    BY <1>0, <1>1, <2>1
  <2>3. \A d \in Links : Len(queue'[d]) <= MaxQueue
    <3>1. CASE queue' = queue
      BY <1>0, <3>1
    <3>2. CASE /\ Len(queue[c]) < MaxQueue
               /\ queue' = [queue EXCEPT ![c] = Append(@, [path |-> p, meta |-> meta])]
      <4>1. PICK m : m = [path |-> p, meta |-> meta]
        OBVIOUS
      <4>2. m \in [path : Paths, meta : BOOLEAN]
        BY <4>1
      <4>3. Len(Append(queue[c], m)) = Len(queue[c]) + 1
        BY <1>0, <4>2
      <4>4. \A d \in Links : queue'[d] = IF d = c THEN Append(queue[c], m) ELSE queue[d]
        BY <1>0, <3>2, <4>1
      <4> QED
        BY <1>0, <1>1, <3>2, <4>3, <4>4
    <3> QED
      BY <2>1, <3>1, <3>2
  <2> QED
    BY <1>2, <2>1, <2>2, <2>3
<1>4. CASE RestartAgent
  BY <1>0, <1>2, <1>4 DEF RestartAgent
<1>5. CASE RecordInstall
  <2>1. "install" \in Rows
    BY DEF Rows
  <2>2. /\ apps' \in [Rows -> AppStatuses \cup {NoRow}]
        /\ \A q \in Rows : apps[q] # NoRow => apps'[q] # NoRow
    BY <1>0, <1>5, <2>1, InsertKeeps DEF RecordInstall
  <2>3. UNCHANGED <<extracted, queue, serving, sightings, admin, overlapped, reports, verdicts>>
    BY <1>5 DEF RecordInstall
  <2> QED
    BY <1>0, <2>2, <2>3, RowsKept
<1>6. CASE ReadProduct
  <2>1. PICK pc \in {"idle", "spread"} : admin' = [admin EXCEPT !.pc = pc]
    BY <1>6 DEF ReadProduct
  <2>2. admin' \in [pc : {"idle", "read", "spread"}, row : Rows, status : AppStatuses]
    BY <1>0, <2>1
  <2>3. UNCHANGED <<extracted, queue, serving, apps, sightings, overlapped, reports, verdicts>>
    BY <1>6 DEF ReadProduct
  <2> QED
    BY <1>0, <2>2, <2>3, RowsKept
<1>7. CASE Spread
  <2>1. /\ apps' = [r \in Rows |-> IF r \in SameProduct(admin.row) /\ apps[r] # NoRow
                                   THEN admin.status ELSE apps[r]]
        /\ admin' = [admin EXCEPT !.pc = "idle"]
        /\ UNCHANGED <<extracted, queue, serving, sightings, overlapped, reports, verdicts>>
    BY <1>7 DEF Spread
  <2>2. admin' \in [pc : {"idle", "read", "spread"}, row : Rows, status : AppStatuses]
    BY <1>0, <2>1
  <2>3. admin.status \in AppStatuses /\ admin.status # NoRow
    BY <1>0 DEF AppStatuses, NoRow
  <2>4. /\ apps' \in [Rows -> AppStatuses \cup {NoRow}]
        /\ \A q \in Rows : apps[q] # NoRow => apps'[q] # NoRow
    BY <1>0, <2>1, <2>3
  <2> QED
    BY <1>0, <2>1, <2>2, <2>4, RowsKept
<1>8. ASSUME NEW r \in Rows, NEW status \in AppStatuses, SetStatus(r, status)
      PROVE  CatTypeOK' /\ RowsThere'
  <2>1. /\ verdicts < MaxVerdicts /\ verdicts' = verdicts + 1
        /\ apps' = [apps EXCEPT ![r] = status]
        /\ admin' = [pc |-> "read", row |-> r, status |-> status]
        /\ UNCHANGED <<extracted, queue, serving, sightings, overlapped, reports>>
    BY <1>8 DEF SetStatus
  <2>2. verdicts' \in 0..MaxVerdicts
    BY <1>0, <1>1, <2>1
  <2>3. admin' \in [pc : {"idle", "read", "spread"}, row : Rows, status : AppStatuses]
    BY <2>1
  <2>4. status # NoRow
    BY DEF AppStatuses, NoRow
  <2>5. /\ apps' \in [Rows -> AppStatuses \cup {NoRow}]
        /\ \A q \in Rows : apps[q] # NoRow => apps'[q] # NoRow
    BY <1>0, <2>1, <2>4
  <2> QED
    BY <2>1, <2>2, <2>3, <2>5, RowsKept
<1>9. ASSUME NEW c \in Links, NEW ok \in BOOLEAN, LookUp(c, ok)
      PROVE  CatTypeOK' /\ RowsThere'
  <2>1. PICK m : m = Head(queue[c])
    OBVIOUS
  <2>2. /\ queue[c] # <<>> /\ queue' = [queue EXCEPT ![c] = Tail(@)]
        /\ serving[c].pc = "idle"
        /\ UNCHANGED <<extracted, apps, sightings, admin, reports, verdicts>>
        /\ overlapped' \subseteq overlapped \cup {m.path}
        /\ \/ serving' = serving
           \/ serving' = [serving EXCEPT ![c] = [pc |-> "upsert", path |-> m.path,
                                                 meta |-> m.meta, row |-> NoRow]]
           \/ \E r \in Linked(m.path) :
                serving' = [serving EXCEPT ![c] = [pc |-> "sight", path |-> m.path,
                                                   meta |-> m.meta, row |-> r]]
    BY <1>9, <2>1 DEF LookUp
  <2>3. queue[c] \in Seq([path : Paths, meta : BOOLEAN])
    BY <1>0
  <2>4. ASSUME NEW S, NEW q \in Seq(S), q # <<>>
        PROVE  Head(q) \in S /\ Len(Tail(q)) \in Nat /\ Len(Tail(q)) <= Len(q)
    BY <2>4
  <2>5. /\ m \in [path : Paths, meta : BOOLEAN]
        /\ Len(Tail(queue[c])) \in Nat /\ Len(Tail(queue[c])) <= Len(queue[c])
    BY <2>1, <2>2, <2>3, <2>4
  <2>6. m.path \in Paths /\ m.meta \in BOOLEAN
    BY <2>5
  <2>7. \A d \in Links : Len(queue'[d]) <= MaxQueue
    <3>1. PICK tail : tail = Tail(queue[c])
      OBVIOUS
    <3>2. \A d \in Links : queue'[d] = IF d = c THEN tail ELSE queue[d]
      BY <1>0, <2>2, <3>1
    <3>3. Len(tail) \in Nat /\ Len(tail) <= MaxQueue
      <4>1. /\ Len(tail) \in Nat /\ Len(tail) <= Len(queue[c])
            /\ Len(queue[c]) \in Nat /\ Len(queue[c]) <= MaxQueue
        BY <1>0, <2>5, <3>1
      <4> QED
        BY <1>1, <4>1
    <3>4. \A d \in Links : Len(queue[d]) <= MaxQueue
      BY <1>0
    <3> SUFFICES ASSUME NEW d \in Links PROVE Len(queue'[d]) <= MaxQueue
      OBVIOUS
    <3>5. queue'[d] = tail \/ queue'[d] = queue[d]
      BY <3>2
    <3> QED
      BY <3>3, <3>4, <3>5
  <2>8. overlapped' \subseteq Paths
    BY <1>0, <2>2, <2>6
  <2>9. ASSUME NEW h \in HandlerStates, serving' = [serving EXCEPT ![c] = h],
               h.pc = "sight" => h.row \in Rows /\ apps[h.row] # NoRow
        PROVE  CatTypeOK' /\ RowsThere'
    BY <1>0, <2>2, <2>7, <2>8, <2>9, HandlerTypes
  <2>10. CASE serving' = serving
    <3>1. serving[c] \in HandlerStates /\ serving' = [serving EXCEPT ![c] = serving[c]]
      BY <1>0, <2>10
    <3> QED
      BY <2>2, <2>9, <3>1
  <2>11. CASE serving' = [serving EXCEPT ![c] = [pc |-> "upsert", path |-> m.path,
                                                 meta |-> m.meta, row |-> NoRow]]
    <3>1. PICK h : h = [pc |-> "upsert", path |-> m.path, meta |-> m.meta, row |-> NoRow]
      OBVIOUS
    <3>2. h \in HandlerStates /\ h.pc # "sight"
      BY <2>6, <3>1 DEF HandlerStates
    <3> QED
      BY <2>9, <2>11, <3>1, <3>2
  <2>12. ASSUME NEW r \in Linked(m.path),
                serving' = [serving EXCEPT ![c] = [pc |-> "sight", path |-> m.path,
                                                   meta |-> m.meta, row |-> r]]
         PROVE  CatTypeOK' /\ RowsThere'
    <3>1. PICK h : h = [pc |-> "sight", path |-> m.path, meta |-> m.meta, row |-> r]
      OBVIOUS
    <3>2. r \in Rows /\ <<m.path, r>> \in sightings
      BY DEF Linked
    <3>3. apps[r] # NoRow
      BY <3>2 DEF CatTypeOK
    <3>4. h \in HandlerStates /\ h.row = r
      BY <2>6, <3>1, <3>2 DEF HandlerStates
    <3> QED
      BY <2>9, <2>12, <3>1, <3>2, <3>3, <3>4
  <2> QED
    BY <2>2, <2>10, <2>11, <2>12
<1>10. ASSUME NEW c \in Links, NEW ok \in BOOLEAN, UpsertApplication(c, ok)
       PROVE  CatTypeOK' /\ RowsThere'
  <2>1. PICK r \in {"exe+company", "exe"} :
          /\ \/ Insert(r) /\ serving' = [serving EXCEPT ![c].pc = "sight", ![c].row = r]
             \/ serving' = [serving EXCEPT ![c] = Waiting] /\ apps' = apps
          /\ UNCHANGED <<extracted, queue, sightings, admin, overlapped, reports, verdicts>>
    BY <1>10 DEF UpsertApplication
  <2>2. r \in Rows
    BY DEF Rows
  <2>3. CASE Insert(r) /\ serving' = [serving EXCEPT ![c].pc = "sight", ![c].row = r]
    <3>1. PICK h : h = [serving[c] EXCEPT !.pc = "sight", !.row = r]
      OBVIOUS
    <3>2. h \in HandlerStates /\ h.row = r
      BY <1>0, <2>2, <3>1 DEF HandlerStates
    <3>3. serving' = [serving EXCEPT ![c] = h]
      BY <1>0, <2>3, <3>1
    <3>4. /\ apps' \in [Rows -> AppStatuses \cup {NoRow}] /\ apps'[r] # NoRow
          /\ \A q \in Rows : apps[q] # NoRow => apps'[q] # NoRow
      BY <1>0, <2>2, <2>3, InsertKeeps
    <3> QED
      BY <1>0, <2>1, <2>2, <3>2, <3>3, <3>4, HandlerTypes
  <2>4. CASE serving' = [serving EXCEPT ![c] = Waiting] /\ apps' = apps
    <3>1. Waiting \in HandlerStates /\ Waiting.pc # "sight"
      BY DEF Waiting, HandlerStates
    <3> QED
      BY <1>0, <2>1, <2>4, <3>1, HandlerTypes
  <2> QED
    BY <2>1, <2>3, <2>4
<1>11. ASSUME NEW c \in Links, NEW ok \in BOOLEAN, UpsertSighting(c, ok)
       PROVE  CatTypeOK' /\ RowsThere'
  <2>1. /\ serving[c].pc = "sight" /\ serving' = [serving EXCEPT ![c] = Waiting]
        /\ sightings' \subseteq sightings \cup {<<serving[c].path, serving[c].row>>}
        /\ UNCHANGED <<extracted, queue, apps, admin, overlapped, reports, verdicts>>
    BY <1>11 DEF UpsertSighting
  <2>2. Waiting \in HandlerStates /\ Waiting.pc # "sight"
    BY DEF Waiting, HandlerStates
  <2>3. /\ serving[c].path \in Paths /\ serving[c].row \in Rows
        /\ apps[serving[c].row] # NoRow
    BY <2>1 DEF CatInv, CatTyped, RowsThere
  <2>4. sightings' \subseteq Paths \X Rows
    BY <1>0, <2>1, <2>3
  <2>5. \A s \in sightings' \ sightings : apps'[s[2]] # NoRow
    BY <2>1, <2>3
  <2> QED
    BY <1>0, <2>1, <2>2, <2>4, <2>5, HandlerTypes
<1>12. CASE UNCHANGED catVars
  BY <1>0, <1>2, <1>12 DEF catVars
<1> QED
  BY <1>3, <1>4, <1>5, <1>6, <1>7, <1>8, <1>9, <1>10, <1>11, <1>12 DEF CatNext

\* At the start there are no sightings and no rows.
LEMMA CatStarts == CatInit => CatTypeOK /\ RowsThere
<1> SUFFICES ASSUME CatInit PROVE CatTypeOK /\ RowsThere
  OBVIOUS
<1>1. MaxReports \in Nat /\ MaxQueue \in Nat /\ MaxVerdicts \in Nat
  BY CatalogAssumptions
<1>2. Waiting.pc = "idle" /\ Len(<<>>) = 0
  BY DEF Waiting
<1>3. /\ admin \in [pc : {"idle", "read", "spread"}, row : Rows, status : AppStatuses]
      /\ admin.pc = "idle"
  BY DEF CatInit, Rows, AppStatuses
<1> QED
  BY <1>1, <1>2, <1>3 DEF CatInit, CatTypeOK, RowsThere

\* A poll's streaks: below MissingStreak, and only of peripherals it knows.
LEMMA PollTypes ==
  ASSUME WatchInv, WatchTypeOK, NEW current \in SUBSET Things, NEW lost,
         PollPeripherals(current, lost)
  PROVE  WatchTypeOK'
<1> DEFINE late(t) == IF t \in known \ current THEN streak[t] + 1 ELSE 0
           gone    == {t \in known \ current : late(t) >= MissingStreak}
<1>1. /\ absent \in [Things -> 0..MissingStreak] /\ events \in Seq(EventsOf)
      /\ streak \in [Things -> 0..MissingStreak] /\ known \subseteq Things
      /\ MissingStreak \in Nat \ {0}
  BY WatcherAssumptions DEF WatchInv, WatchTyped, WatchTypeOK
<1>2. /\ watch = "peripheral" /\ ready' = TRUE /\ Count(current)
      /\ Emit(gone, current \ known, lost)
      /\ known' = (known \cup current) \ gone
      /\ streak' = [t \in Things |-> IF t \in gone THEN 0 ELSE late(t)]
      /\ UNCHANGED <<watch, present, armed, woken, alerts, flips>>
  BY DEF PollPeripherals
<1>3. absent' \in [Things -> 0..MissingStreak]
  BY <1>1, <1>2, CountType
<1>4. gone \in SUBSET Things /\ current \ known \in SUBSET Things
  BY <1>1
<1>5. Len(events') <= MaxEvents
  <2> HIDE DEF gone
  <2> QED
    BY <1>1, <1>2, <1>3, <1>4, EmitEvents
<1>6. \A t \in Things : /\ streak'[t] \in 0..MissingStreak
                        /\ streak'[t] > 0 => t \in known'
  <2> SUFFICES ASSUME NEW t \in Things
               PROVE  streak'[t] \in 0..MissingStreak /\ (streak'[t] > 0 => t \in known')
    OBVIOUS
  <2>1. CASE t \in gone \/ t \notin known \ current
    <3>1. streak'[t] = 0
      BY <1>2, <2>1
    <3> QED
      BY <1>1, <3>1
  <2>2. CASE t \in known \ current /\ t \notin gone
    <3>1. streak'[t] = streak[t] + 1 /\ ~(streak[t] + 1 >= MissingStreak) /\ t \in known'
      BY <1>2, <2>2
    <3>2. streak[t] \in Nat
      BY <1>1
    <3> QED
      BY <1>1, <3>1, <3>2
  <2> QED
    BY <2>1, <2>2
<1>7. streak' \in [Things -> 0..MissingStreak]
  <2>1. streak' = [t \in Things |-> streak'[t]]
    <3> HIDE DEF late, gone
    <3> QED
      BY <1>2
  <2> QED
    BY <1>6, <2>1
<1>8. known' \subseteq Things
  BY <1>1, <1>2
<1> HIDE DEF late, gone
<1> QED
  BY <1>2, <1>3, <1>5, <1>6, <1>7, <1>8 DEF WatchTypeOK

\* A watcher without streaks keeps them at zero.
LEMMA StreaklessTypes ==
  ASSUME WatchTypeOK, watch # "peripheral", UNCHANGED <<watch, streak>>,
         present' \subseteq Things, known' \subseteq Things,
         absent' \in [Things -> 0..MissingStreak],
         ready' \in BOOLEAN, armed' \in BOOLEAN, woken' \in BOOLEAN,
         Len(events') <= MaxEvents, flips' \in 0..MaxFlips
  PROVE  WatchTypeOK'
<1>1. {ready', armed', woken'} \subseteq BOOLEAN
  OBVIOUS
<1>2. \A t \in Things : ~(streak'[t] > 0)
  BY DEF WatchTypeOK
<1> QED
  BY <1>1, <1>2 DEF WatchTypeOK

\* A comparison of two lists keeps the types.
LEMMA CompareTypes ==
  ASSUME WatchInv, WatchTypeOK, watch # "peripheral", NEW current \in SUBSET Things, NEW lost,
         Compare(current, lost), ready' \in BOOLEAN
  PROVE  WatchTypeOK'
<1>1. /\ absent \in [Things -> 0..MissingStreak] /\ events \in Seq(EventsOf)
      /\ known \subseteq Things
  BY DEF WatchInv, WatchTyped
<1>2. /\ Count(current) /\ Emit(known \ current, current \ known, lost) /\ known' = current
      /\ UNCHANGED <<watch, present, streak, armed, woken, flips>>
  BY DEF Compare
<1>3. absent' \in [Things -> 0..MissingStreak]
  BY <1>1, <1>2, CountType
<1>4. known \ current \in SUBSET Things /\ current \ known \in SUBSET Things
  BY <1>1
<1>5. Len(events') <= MaxEvents
  BY <1>1, <1>2, <1>3, <1>4, EmitEvents
<1>6. /\ present' \subseteq Things /\ known' \subseteq Things /\ flips' \in 0..MaxFlips
      /\ armed' \in BOOLEAN /\ woken' \in BOOLEAN
  BY <1>2 DEF WatchTypeOK
<1> QED
  BY <1>2, <1>3, <1>5, <1>6, StreaklessTypes

\* The watchers' lists, streaks and events.
LEMMA WatchTypes ==
  ASSUME WatchInv, WatchTypeOK, [WatchNext]_watchVars
  PROVE  WatchTypeOK'
<1>0. /\ absent \in [Things -> 0..MissingStreak] /\ events \in Seq(EventsOf)
      /\ present \subseteq Things /\ known \subseteq Things
      /\ ready \in BOOLEAN /\ armed \in BOOLEAN /\ woken \in BOOLEAN
      /\ flips \in 0..MaxFlips /\ Len(events) \in Nat /\ Len(events) <= MaxEvents
  BY DEF WatchInv, WatchTyped, WatchTypeOK
<1>1. MaxFlips \in Nat /\ MaxEvents \in Nat
  BY WatcherAssumptions
<1>2. ASSUME UNCHANGED <<watch, known, streak, absent, ready>>, present' \subseteq Things,
             armed' \in BOOLEAN, woken' \in BOOLEAN, flips' \in 0..MaxFlips,
             Len(events') <= MaxEvents
      PROVE  WatchTypeOK'
  <2>1. {ready', armed', woken'} \subseteq BOOLEAN
    BY <1>0, <1>2
  <2> QED
    BY <1>2, <2>1 DEF WatchTypeOK
<1>3. ASSUME NEW t \in Things, NEW lost \in BOOLEAN, Flip(t, lost) PROVE WatchTypeOK'
  <2>1. /\ flips < MaxFlips /\ flips' = flips + 1 /\ woken' = (woken \/ armed)
        /\ present' \subseteq Things
        /\ UNCHANGED <<watch, known, streak, ready, armed, absent>>
    BY <1>0, <1>3 DEF Flip
  <2>2. woken' \in BOOLEAN
    BY <2>1
  <2>3. flips' \in 0..MaxFlips
    BY <1>0, <1>1, <2>1
  <2>4. Len(events') <= MaxEvents
    <3>1. CASE watch = "folder" /\ ready
      <4>1. Emit({t} \cap present, {t} \ present, lost)
        BY <1>3, <3>1 DEF Flip
      <4>2. {t} \cap present \in SUBSET Things /\ {t} \ present \in SUBSET Things
        OBVIOUS
      <4>3. absent' \in [Things -> 0..MissingStreak]
        BY <1>0, <2>1
      <4> QED
        BY <1>0, <4>1, <4>2, <4>3, EmitEvents
    <3>2. CASE ~(watch = "folder" /\ ready)
      BY <1>0, <1>3, <3>2 DEF Flip
    <3> QED
      BY <3>1, <3>2
  <2>5. armed' \in BOOLEAN
    BY <1>0, <2>1
  <2> QED
    BY <1>2, <2>1, <2>2, <2>3, <2>4, <2>5
<1>4. CASE Baseline
  <2>1. /\ watch # "peripheral" /\ ready' = TRUE /\ known' \subseteq Things
        /\ UNCHANGED <<watch, present, streak, armed, woken, events, alerts, absent, flips>>
    BY <1>0, <1>4 DEF Baseline
  <2> QED
    BY <1>0, <2>1, StreaklessTypes
<1>5. CASE Arm
  BY <1>0, <1>2, <1>5 DEF Arm
<1>6. CASE Record
  <2>1. /\ events # <<>> /\ events' = Tail(events)
        /\ UNCHANGED <<watch, present, known, streak, ready, armed, woken, absent, flips>>
    BY <1>6 DEF Record
  <2>2. Len(events') <= MaxEvents
    <3>1. Len(Tail(events)) = Len(events) - 1
      BY <1>0, <2>1
    <3> QED
      BY <1>0, <1>1, <2>1, <3>1
  <2>3. /\ present' \subseteq Things /\ armed' \in BOOLEAN /\ woken' \in BOOLEAN
        /\ flips' \in 0..MaxFlips
    BY <1>0, <2>1
  <2> QED
    BY <1>2, <2>1, <2>2, <2>3
<1>7. ASSUME NEW current \in PeripheralLists, NEW lost \in BOOLEAN, PollPeripherals(current, lost)
      PROVE  WatchTypeOK'
  <2>1. current \in SUBSET Things
    BY <1>0 DEF PeripheralLists
  <2> QED
    BY <1>7, <2>1, PollTypes
<1>8. ASSUME NEW lost \in BOOLEAN, PollUSB(lost) PROVE WatchTypeOK'
  <2>1. watch # "peripheral" /\ ready' \in BOOLEAN /\ Compare(present, lost)
    BY <1>8 DEF PollUSB
  <2> QED
    BY <1>0, <2>1, CompareTypes
<1>9. ASSUME NEW lost \in BOOLEAN, PollTasks(lost) PROVE WatchTypeOK'
  <2>1. PICK current \in {present, {}} : Compare(current, lost)
    BY <1>9 DEF PollTasks
  <2>2. watch # "peripheral" /\ ready' \in BOOLEAN /\ current \in SUBSET Things
    BY <1>0, <1>9 DEF PollTasks
  <2> QED
    BY <2>1, <2>2, CompareTypes
<1>10. ASSUME NEW lost \in BOOLEAN, ReadAgain(lost) PROVE WatchTypeOK'
  <2>1. /\ watch = "registry" /\ armed' = FALSE /\ woken' = FALSE /\ known' = present
        /\ UNCHANGED <<absent, watch, present, streak, ready, alerts, flips>>
        /\ Emit(known \ present, present \ known, lost)
    BY <1>10 DEF ReadAgain
  <2>2. known \ present \in SUBSET Things /\ present \ known \in SUBSET Things
    BY <1>0
  <2>3. absent' \in [Things -> 0..MissingStreak]
    BY <1>0, <2>1
  <2>4. Len(events') <= MaxEvents
    BY <1>0, <2>1, <2>2, <2>3, EmitEvents
  <2> QED
    BY <1>0, <2>1, <2>3, <2>4, StreaklessTypes
<1>11. CASE UNCHANGED watchVars
  BY <1>0, <1>2, <1>11 DEF watchVars
<1> QED
  BY <1>3, <1>4, <1>5, <1>6, <1>7, <1>8, <1>9, <1>10, <1>11 DEF WatchNext

\* At the start nothing has been seen.
LEMMA WatchStarts == WatchInit => WatchTypeOK
<1> SUFFICES ASSUME WatchInit PROVE WatchTypeOK
  OBVIOUS
<1>1. MissingStreak \in Nat /\ MaxFlips \in Nat /\ MaxEvents \in Nat
  BY WatcherAssumptions
<1>2. Len(events) <= MaxEvents
  <2>1. Len(<<>>) = 0
    OBVIOUS
  <2> QED
    BY <1>1, <2>1 DEF WatchInit
<1>3. {ready, armed, woken} \subseteq BOOLEAN
  BY DEF WatchInit
<1>4. /\ streak \in [Things -> 0..MissingStreak] /\ absent \in [Things -> 0..MissingStreak]
      /\ flips \in 0..MaxFlips
  BY <1>1 DEF WatchInit
<1>5. \A t \in Things : ~(streak[t] > 0)
  BY DEF WatchInit
<1>6. watch \in Watches /\ present \subseteq Things /\ known \subseteq Things
  BY DEF WatchInit
<1> QED
  BY <1>2, <1>3, <1>4, <1>5, <1>6 DEF WatchTypeOK

RulesInv ==
  /\ MatchInv /\ MatchTypeOK
  /\ KillInv /\ companyKnown \in BOOLEAN
  /\ CmdInv /\ polls \in 0..MaxPolls
  /\ SoftTypeOK
  /\ CatInv /\ CatTypeOK /\ RowsThere
  /\ WatchInv /\ WatchTypeOK

\* The rules stay ordered by number with no number given twice, every sighting
\* names a row of the catalog, a streak counts only a known peripheral, and the
\* other variables of the six parts keep their types and bounds: in every
\* behaviour of the run's specification.
THEOREM RulesTypeHolds == Spec => []RulesTypeOK
<1>1. Init => RulesInv
  <2> SUFFICES ASSUME Init PROVE RulesInv
    OBVIOUS
  <2>1. MatchInit /\ KillInit /\ CmdInit /\ SoftInit /\ CatInit /\ WatchInit
    BY DEF Init
  <2>2. MatchInv /\ MatchTypeOK
    BY <2>1, MatchAssumptions DEF MatchInit, MatchInv, MatchTypeOK
  <2>3. companyKnown \in BOOLEAN
    BY <2>1 DEF KillInit
  <2>4. polls \in 0..MaxPolls
    BY <2>1, CommandAssumptions DEF CmdInit
  <2>5. SoftTypeOK
    BY <2>1, SoftwareAssumptions DEF SoftInit, SoftTypeOK
  <2> QED
    BY <2>1, <2>2, <2>3, <2>4, <2>5, KillInvInit, CmdInvInit, CatInvInit, CatStarts,
       WatchInvInit, WatchStarts DEF RulesInv
<1>2. [Next]_rules =>
        /\ [MatchNext]_matchVars /\ [KillNext]_killVars /\ [CmdNext]_cmdVars
        /\ [SoftNext]_softVars /\ [CatNext]_catVars /\ [WatchNext]_watchVars
  BY DEF Next, rules
<1>3. RulesInv /\ [Next]_rules => RulesInv'
  <2> SUFFICES ASSUME RulesInv, [Next]_rules PROVE RulesInv'
    OBVIOUS
  <2>1. MatchInv' /\ MatchTypeOK'
    BY <1>2, MatchStep, MatchTypes DEF RulesInv
  <2>2. KillInv' /\ companyKnown' \in BOOLEAN
    BY <1>2, KillInvNext, CompanyFixed DEF RulesInv
  <2>3. CmdInv' /\ polls' \in 0..MaxPolls
    BY <1>2, CmdInvNext, PollsTyped DEF RulesInv
  <2>4. SoftTypeOK'
    BY <1>2, FleetTypes DEF RulesInv
  <2>5. CatInv' /\ CatTypeOK' /\ RowsThere'
    BY <1>2, CatInvNext, CatTypes DEF RulesInv
  <2>6. WatchInv' /\ WatchTypeOK'
    BY <1>2, WatchInvNext, WatchTypes DEF RulesInv
  <2> QED
    BY <2>1, <2>2, <2>3, <2>4, <2>5, <2>6 DEF RulesInv
<1>4. RulesInv => RulesTypeOK
  BY KillTypes, CmdTypes DEF RulesInv, RulesTypeOK
<1> QED
  BY <1>1, <1>3, <1>4, PTL DEF Spec
=============================================================================
