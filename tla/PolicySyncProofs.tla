-------------------------- MODULE PolicySyncProofs --------------------------
(***************************************************************************)
(* Theorems about the distribution of the policy, for every number of       *)
(* admins, sessions, crashes and failures and whatever the file holds at    *)
(* the start.                                                               *)
(***************************************************************************)
EXTENDS PolicySync, FiniteSetTheorems, TLAPS

-----------------------------------------------------------------------------
(* The inductive invariant.                                                 *)

Bumping == {e \in Editors : sender[e].pc = "bump"}

\* Every bump follows an edit of its own.
BumpsOwed == IsFiniteSet(Bumping) /\ version + Cardinality(Bumping) <= rules + apps

\* What a handler has read so far, completed with what it will read at the
\* earliest, holds the edits of the version it read first.
SenderHonest ==
  \A x \in Senders :
    LET s == sender[x] IN
    /\ s.version <= version
    /\ s.pc = "rules" => s.version <= rules + apps
    /\ s.pc = "apps"  => s.version <= s.rules + apps
    /\ s.pc = "send"  => s.version <= s.rules + s.apps

Good(u) == u.tag = "this" /\ u.version <= u.rules + u.apps /\ u.version <= version

CopiesGood ==
  /\ Good(cache) \/ cache.tag = "untagged"
  /\ \A t \in tasks : Good(t.u)
  /\ \A i \in 1..Len(wire) : Good(wire[i])
  /\ tmp \notin {None, Truncated, Torn} => Good(tmp)
  /\ file \notin {None, Torn} => (file.tag = "this" => Good(file))

\* A goroutine that could rename an empty file is stopped by one that has it
\* open.
NoEmptyRename ==
  tmp = Truncated /\ (\E t \in tasks : t.pc = "rename") => \E t \in tasks : t.pc = "write"

PolicyInv == TypeOK /\ NoEmptyRename /\ BumpsOwed /\ SenderHonest /\ CopiesGood

-----------------------------------------------------------------------------
(* Types.                                                                   *)

\* The initial state is well typed.
LEMMA TypeInit == Init => TypeOK
<1> SUFFICES ASSUME Init PROVE TypeOK
  OBVIOUS
<1>1. file \in Update \cup {None}
  <2>1. CASE Foreign = None
    BY <2>1 DEF Init
  <2>2. CASE Foreign # None
    <3>1. Foreign \in Nat
      BY <2>2, PolicyAssumptions
    <3> QED
      BY <2>2, <3>1 DEF Init, Update
  <2> QED
    BY <2>1, <2>2
<1>2. Empty \in Update
  BY DEF Empty, Update
<1>7. cache \in Update
  BY <1>1, <1>2 DEF Init, InitPolicyCache
<1>3. sender \in [Senders -> [pc : SenderSteps, version : Nat, rules : Nat, apps : Nat]]
  BY DEF Init, At, SenderSteps
<1>4. linked \in BOOLEAN /\ registered \in BOOLEAN
  BY Zenon DEF Init
<1>6. up \in Seq(Nat) /\ wire \in Seq(Update) /\ tasks \subseteq [u : Update, pc : TaskSteps]
  BY SMT DEF Init
<1>5. /\ rules \in Nat /\ apps \in Nat /\ version \in Nat
      /\ {sessions, crashes, bumpFailures, sendFailures} \subseteq Nat
  BY DEF Init
<1> QED
  BY <1>1, <1>3, <1>4, <1>5, <1>6, <1>7 DEF Init, TypeOK

\* A record of a handler keeps its type under the updates the handlers make.
LEMMA SenderType ==
  ASSUME TypeOK, NEW x \in Senders, NEW pc \in SenderSteps
  PROVE  /\ [sender EXCEPT ![x].pc = pc]
              \in [Senders -> [pc : SenderSteps, version : Nat, rules : Nat, apps : Nat]]
         /\ [sender EXCEPT ![x] = At(pc)]
              \in [Senders -> [pc : SenderSteps, version : Nat, rules : Nat, apps : Nat]]
         /\ [sender EXCEPT ![x] = [At(pc) EXCEPT !.version = version]]
              \in [Senders -> [pc : SenderSteps, version : Nat, rules : Nat, apps : Nat]]
         /\ [sender EXCEPT ![x].rules = rules, ![x].pc = pc]
              \in [Senders -> [pc : SenderSteps, version : Nat, rules : Nat, apps : Nat]]
         /\ [sender EXCEPT ![x].apps = apps, ![x].pc = pc]
              \in [Senders -> [pc : SenderSteps, version : Nat, rules : Nat, apps : Nat]]
BY DEF TypeOK, At

\* The steps of the handlers of the server keep the types.
LEMMA TypeServer ==
  ASSUME TypeOK,
         \/ \E e \in Editors : WriteRules(e) \/ WriteApps(e) \/ EditorStep(e)
         \/ \E x \in Senders : SenderStep(x)
         \/ HandlePolicyVersionCheck \/ CheckFails
  PROVE  TypeOK'
<1> USE DEF store, link, agent, disk, counts
<1>0. {"idle", "bump", "version", "rules", "apps", "send", "done"} \subseteq SenderSteps
  BY DEF SenderSteps
<1>s. Editors \subseteq Senders /\ Check \in Senders
  BY DEF Senders
<1>1. ASSUME NEW e \in Editors, WriteRules(e) PROVE TypeOK'
  <2>1. sender' \in [Senders -> [pc : SenderSteps, version : Nat, rules : Nat, apps : Nat]]
    BY <1>0, <1>s, <1>1, SenderType DEF WriteRules
  <2>2. rules' \in Nat /\ UNCHANGED <<apps, version, link, agent, counts>>
    BY <1>1 DEF WriteRules, TypeOK
  <2> QED
    BY <2>1, <2>2 DEF TypeOK
<1>2. ASSUME NEW e \in Editors, WriteApps(e) PROVE TypeOK'
  <2>1. sender' \in [Senders -> [pc : SenderSteps, version : Nat, rules : Nat, apps : Nat]]
    BY <1>0, <1>s, <1>2, SenderType DEF WriteApps
  <2>2. apps' \in Nat /\ UNCHANGED <<rules, version, link, agent, counts>>
    BY <1>2 DEF WriteApps, TypeOK
  <2> QED
    BY <2>1, <2>2 DEF TypeOK
<1>3. ASSUME NEW e \in Editors, BumpPolicyVersion(e) PROVE TypeOK'
  <2>1. sender' \in [Senders -> [pc : SenderSteps, version : Nat, rules : Nat, apps : Nat]]
    BY <1>0, <1>s, <1>3, SenderType DEF BumpPolicyVersion
  <2>2. version' \in Nat /\ UNCHANGED <<rules, apps, link, agent, counts>>
    BY <1>3 DEF BumpPolicyVersion, TypeOK
  <2> QED
    BY <2>1, <2>2 DEF TypeOK
<1>4. ASSUME NEW e \in Editors, BumpFails(e) PROVE TypeOK'
  <2>1. sender' \in [Senders -> [pc : SenderSteps, version : Nat, rules : Nat, apps : Nat]]
    BY <1>0, <1>s, <1>4, SenderType DEF BumpFails
  <2> QED
    BY <1>4, <2>1 DEF BumpFails, TypeOK
<1>5. ASSUME NEW e \in Editors, Broadcast(e) PROVE TypeOK'
  <2>1. sender' = [sender EXCEPT ![e] = [At("rules") EXCEPT !.version = version]]
        \/ sender' = [sender EXCEPT ![e] = At("done")]
    BY <1>5 DEF Broadcast
  <2> QED
    BY <1>0, <1>s, <1>5, <2>1, SenderType DEF Broadcast, TypeOK
<1>6. ASSUME NEW x \in Senders, GetEnabledPolicyRules(x) PROVE TypeOK'
  BY <1>0, <1>s, <1>6, SenderType DEF GetEnabledPolicyRules, TypeOK
<1>7. ASSUME NEW x \in Senders, GetPolicyRelevantApps(x) PROVE TypeOK'
  BY <1>0, <1>s, <1>7, SenderType DEF GetPolicyRelevantApps, TypeOK
<1>8. ASSUME NEW x \in Senders, SendPolicyUpdate(x) PROVE TypeOK'
  <2>1. sender' = [sender EXCEPT ![x] = At("idle")] \/ sender' = [sender EXCEPT ![x] = At("done")]
    BY <1>8 DEF SendPolicyUpdate
  <2>2. Built(sender[x], sender[x].version) \in Update
    BY DEF Built, Update, TypeOK
  <2>3. wire' \in Seq(Update)
    BY <1>8, <2>2 DEF SendPolicyUpdate, TypeOK
  <2> QED
    BY <1>0, <1>s, <1>8, <2>1, <2>3, SenderType DEF SendPolicyUpdate, TypeOK
<1>9. ASSUME HandlePolicyVersionCheck PROVE TypeOK'
  <2>1. sender' = sender
        \/ sender' = [sender EXCEPT ![Check] = [At("rules") EXCEPT !.version = version]]
    BY <1>9 DEF HandlePolicyVersionCheck
  <2>2. up' \in Seq(Nat)
    BY <1>9 DEF HandlePolicyVersionCheck, TypeOK
  <2> QED
    BY <1>0, <1>s, <1>9, <2>1, <2>2, SenderType DEF HandlePolicyVersionCheck, TypeOK
<1>10. ASSUME NEW x \in Senders, SendFails(x) PROVE TypeOK'
  <2>1. sender' = [sender EXCEPT ![x] = At("idle")] \/ sender' = [sender EXCEPT ![x] = At("done")]
    BY <1>10 DEF SendFails
  <2>2. {sessions, crashes, bumpFailures, sendFailures}' \subseteq Nat
    BY <1>10 DEF SendFails, TypeOK
  <2> QED
    BY <1>0, <1>s, <1>10, <2>1, <2>2, SenderType DEF SendFails, TypeOK
<1>11. ASSUME CheckFails PROVE TypeOK'
  <2>1. up' \in Seq(Nat)
    BY <1>11 DEF CheckFails, TypeOK
  <2>2. {sessions, crashes, bumpFailures, sendFailures}' \subseteq Nat
    BY <1>11 DEF CheckFails, TypeOK
  <2> QED
    BY <1>11, <2>1, <2>2 DEF CheckFails, TypeOK
<1> QED
  BY <1>1, <1>2, <1>3, <1>4, <1>5, <1>6, <1>7, <1>8, <1>9, <1>10, <1>11
  DEF EditorStep, SenderStep

\* The steps of the connection and of the agent keep the types.  The file is
\* never replaced by an empty one, because a writer is in the way.
LEMMA TypeAgent ==
  ASSUME TypeOK, NoEmptyRename,
         \/ \E t \in tasks : TaskStep(t)
         \/ Connect \/ Register \/ FallbackTick \/ Disconnect \/ ReceiveUpdate \/ Restart
  PROVE  TypeOK'
<1> USE DEF store, link, agent, disk, counts
<1>0. cache.version \in Nat
  BY DEF TypeOK, Update
<1>1. ASSUME NEW t \in tasks, TaskStep(t) PROVE TypeOK'
  <2>0. /\ t.u \in Update
        /\ \A pc \in TaskSteps : [t EXCEPT !.pc = pc] \in [u : Update, pc : TaskSteps]
    BY DEF TypeOK
  <2>1. CASE StoreCache(t)
    <3>1. tasks' \subseteq [u : Update, pc : TaskSteps] /\ cache' \in Update
      BY <2>0, <2>1 DEF StoreCache, Step, TypeOK, TaskSteps
    <3> QED
      BY <2>1, <3>1 DEF StoreCache, TypeOK
  <2>2. CASE OpenTmp(t)
    <3>1. tasks' \subseteq [u : Update, pc : TaskSteps]
      BY <2>0, <2>2 DEF OpenTmp, Step, TypeOK, TaskSteps
    <3> QED
      BY <2>2, <3>1 DEF OpenTmp, TypeOK
  <2>3. CASE WriteTmp(t)
    <3>1. tasks' \subseteq [u : Update, pc : TaskSteps]
      BY <2>0, <2>3 DEF WriteTmp, Step, TypeOK, TaskSteps
    <3> QED
      BY <2>0, <2>3, <3>1 DEF WriteTmp, TypeOK
  <2>4. CASE RenameTmp(t)
    <3>1. tasks' \subseteq [u : Update, pc : TaskSteps]
      BY <2>4 DEF RenameTmp, TypeOK
    <3>2. tmp' \in Update \cup {None, Truncated, Torn} /\ file' \in Update \cup {None, Torn}
      BY <2>4 DEF RenameTmp, TypeOK, NoEmptyRename
    <3> QED
      BY <2>4, <3>1, <3>2 DEF RenameTmp, TypeOK
  <2> QED
    BY <1>1, <2>1, <2>2, <2>3, <2>4 DEF TaskStep
<1>2. CASE Connect
  <2>1. up' \in Seq(Nat) /\ sessions' \in Nat
    BY <1>0, <1>2 DEF Connect, TypeOK
  <2> QED
    BY <1>2, <2>1 DEF Connect, TypeOK
<1>3. CASE Register
  BY <1>3 DEF Register, TypeOK
<1>4. CASE FallbackTick
  <2>1. up' \in Seq(Nat)
    BY <1>0, <1>4 DEF FallbackTick, TypeOK
  <2> QED
    BY <1>4, <2>1 DEF FallbackTick, TypeOK
<1>5. ASSUME Unlink PROVE /\ linked' \in BOOLEAN /\ registered' \in BOOLEAN
                          /\ up' \in Seq(Nat) /\ wire' \in Seq(Update)
  <2>1. linked' \in BOOLEAN /\ registered' \in BOOLEAN
    BY <1>5, Zenon DEF Unlink
  <2>2. up' \in Seq(Nat) /\ wire' \in Seq(Update)
    BY <1>5, SMT DEF Unlink
  <2> QED
    BY <2>1, <2>2
<1>6. CASE Disconnect
  BY <1>5, <1>6 DEF Disconnect, TypeOK
<1>7. CASE ReceiveUpdate
  <2>1. Head(wire) \in Update /\ wire' \in Seq(Update)
    BY <1>7 DEF ReceiveUpdate, TypeOK
  <2>2. tasks' \subseteq [u : Update, pc : TaskSteps]
    BY <1>7, <2>1 DEF ReceiveUpdate, TypeOK, TaskSteps
  <2> QED
    BY <1>7, <2>1, <2>2 DEF ReceiveUpdate, TypeOK
<1>8. CASE Restart
  <2>1. InitPolicyCache(file) \in Update
    BY DEF InitPolicyCache, Empty, Update, TypeOK
  <2> QED
    BY <1>5, <1>8, <2>1 DEF Restart, TypeOK
<1> QED
  BY <1>1, <1>2, <1>3, <1>4, <1>6, <1>7, <1>8

-----------------------------------------------------------------------------
(* The parts of the invariant.                                              *)

\* All parts hold at the start, whatever was left in the file.
LEMMA InvInit == Init => PolicyInv
<1> SUFFICES ASSUME Init PROVE PolicyInv
  OBVIOUS
<1>1. TypeOK
  BY TypeInit
<1>2. Bumping = {}
  BY DEF Init, Bumping, Senders, At
<1>3. BumpsOwed
  BY <1>2, FS_EmptySet DEF BumpsOwed, Init
<1>4. SenderHonest
  BY DEF SenderHonest, Init, At
<1>5. CopiesGood
  <2>1. Good(Empty)
    BY DEF Good, Empty, Init
  <2>2. file \notin {None, Torn} => file.tag \in {"other", "untagged"}
    BY DEF Init
  <2>3. Good(cache) \/ cache.tag = "untagged"
    BY <2>1, <2>2 DEF Init, InitPolicyCache
  <2> QED
    BY <2>2, <2>3 DEF CopiesGood, Init
<1> QED
  BY <1>1, <1>3, <1>4, <1>5 DEF PolicyInv, NoEmptyRename, Init

\* Only the agent's goroutines touch the temporary file.
LEMMA EmptyRenameNext == TypeOK /\ NoEmptyRename /\ [Next]_vars => NoEmptyRename'
<1> SUFFICES ASSUME TypeOK, NoEmptyRename, [Next]_vars PROVE NoEmptyRename'
  OBVIOUS
<1> USE DEF store, link, agent, disk, counts, NoEmptyRename
<1>1. ASSUME NEW t \in tasks, TaskStep(t) PROVE NoEmptyRename'
  <2>0. t \in [u : Update, pc : TaskSteps]
    BY DEF TypeOK
  <2>1. CASE StoreCache(t)
    BY <2>0, <2>1 DEF StoreCache, Step
  <2>2. CASE OpenTmp(t)
    <3>1. [t EXCEPT !.pc = "write"] \in tasks' /\ [t EXCEPT !.pc = "write"].pc = "write"
      BY <2>0, <2>2 DEF OpenTmp, Step
    <3> QED
      BY <3>1
  <2>3. CASE WriteTmp(t)
    <3>1. t.u # Truncated /\ Torn # Truncated
      BY <2>0, PolicyAssumptions
    <3>2. tmp' # Truncated
      BY <2>3, <3>1 DEF WriteTmp
    <3> QED
      BY <3>2
  <2>4. CASE RenameTmp(t)
    BY <2>0, <2>4, PolicyAssumptions DEF RenameTmp
  <2> QED
    BY <1>1, <2>1, <2>2, <2>3, <2>4 DEF TaskStep
<1>2. CASE ReceiveUpdate
  BY <1>2 DEF ReceiveUpdate
<1>3. CASE Restart
  BY <1>3 DEF Restart
<1>4. CASE UNCHANGED <<tmp, tasks>>
  BY <1>4
<1> QED
  BY <1>1, <1>2, <1>3, <1>4 DEF Next, vars, WriteRules, WriteApps, EditorStep,
     BumpPolicyVersion, BumpFails, Broadcast, SenderStep, GetEnabledPolicyRules,
     GetPolicyRelevantApps, SendPolicyUpdate, SendFails, HandlePolicyVersionCheck,
     CheckFails, Connect, Register, FallbackTick, Disconnect

\* An edit adds a bump that is owed, a bump pays for one, a failure forgives one.
LEMMA BumpsNext == TypeOK /\ BumpsOwed /\ [Next]_vars => BumpsOwed'
<1> SUFFICES ASSUME TypeOK, BumpsOwed, [Next]_vars PROVE BumpsOwed'
  OBVIOUS
<1> USE DEF store, link, agent, disk, counts
<1>0. /\ rules \in Nat /\ apps \in Nat /\ version \in Nat
      /\ IsFiniteSet(Bumping) /\ Cardinality(Bumping) \in Nat
  BY FS_CardinalityType DEF TypeOK, BumpsOwed
<1>s. Editors \subseteq Senders
  BY DEF Senders
<1>1. ASSUME NEW e \in Editors, sender[e].pc = "idle",
             sender' = [sender EXCEPT ![e].pc = "bump"]
      PROVE  IsFiniteSet(Bumping') /\ Cardinality(Bumping') = Cardinality(Bumping) + 1
  <2>1. Bumping' = Bumping \cup {e} /\ e \notin Bumping
    BY <1>1, <1>s DEF Bumping, TypeOK
  <2> QED
    BY <1>0, <2>1, FS_AddElement
<1>2. ASSUME NEW e \in Editors, sender[e].pc = "bump",
             \A x \in Senders \ {e} : sender'[x] = sender[x], sender'[e].pc # "bump"
      PROVE  IsFiniteSet(Bumping') /\ Cardinality(Bumping') = Cardinality(Bumping) - 1
  <2>1. Bumping' = Bumping \ {e} /\ e \in Bumping
    BY <1>2, <1>s DEF Bumping
  <2> QED
    BY <1>0, <2>1, FS_RemoveElement
<1>3. ASSUME NEW x \in Senders, sender[x].pc # "bump",
             \A y \in Senders \ {x} : sender'[y] = sender[y], sender'[x].pc # "bump"
      PROVE  Bumping' = Bumping
  BY <1>3, <1>s DEF Bumping
<1>4. ASSUME NEW e \in Editors, WriteRules(e) \/ WriteApps(e) PROVE BumpsOwed'
  <2>1. rules' + apps' = rules + apps + 1 /\ version' = version
    BY <1>0, <1>4 DEF WriteRules, WriteApps
  <2>2. IsFiniteSet(Bumping') /\ Cardinality(Bumping') = Cardinality(Bumping) + 1
    BY <1>1, <1>4 DEF WriteRules, WriteApps
  <2> QED
    BY <1>0, <2>1, <2>2 DEF BumpsOwed
<1>5. ASSUME NEW e \in Editors, BumpPolicyVersion(e) PROVE BumpsOwed'
  <2>1. rules' = rules /\ apps' = apps /\ version' = version + 1
    BY <1>5 DEF BumpPolicyVersion
  <2>2. /\ sender[e].pc = "bump" /\ sender'[e].pc # "bump"
        /\ \A x \in Senders \ {e} : sender'[x] = sender[x]
    BY <1>5, <1>s DEF BumpPolicyVersion, TypeOK
  <2>3. IsFiniteSet(Bumping') /\ Cardinality(Bumping') = Cardinality(Bumping) - 1
    BY <1>2, <2>2
  <2> QED
    BY <1>0, <2>1, <2>3 DEF BumpsOwed
<1>6. ASSUME NEW e \in Editors, BumpFails(e) PROVE BumpsOwed'
  <2>1. rules' = rules /\ apps' = apps /\ version' = version
    BY <1>6 DEF BumpFails
  <2>2. /\ sender[e].pc = "bump" /\ sender'[e].pc # "bump"
        /\ \A x \in Senders \ {e} : sender'[x] = sender[x]
    BY <1>6, <1>s DEF BumpFails, TypeOK, At
  <2>3. IsFiniteSet(Bumping') /\ Cardinality(Bumping') = Cardinality(Bumping) - 1
    BY <1>2, <2>2
  <2> QED
    BY <1>0, <2>1, <2>3 DEF BumpsOwed
<1>7. ASSUME NEW x \in Senders, Broadcast(x) \/ SenderStep(x) PROVE BumpsOwed'
  <2>1. UNCHANGED <<rules, apps, version>>
    BY <1>7 DEF Broadcast, SenderStep, GetEnabledPolicyRules, GetPolicyRelevantApps,
       SendPolicyUpdate, SendFails
  <2>2. /\ sender[x].pc # "bump" /\ sender'[x].pc # "bump"
        /\ \A y \in Senders \ {x} : sender'[y] = sender[y]
    <3>1. CASE Broadcast(x)
      BY <3>1 DEF Broadcast, TypeOK, At
    <3>2. CASE SendPolicyUpdate(x) \/ SendFails(x)
      BY <3>2 DEF SendPolicyUpdate, SendFails, TypeOK, At
    <3>3. CASE GetEnabledPolicyRules(x) \/ GetPolicyRelevantApps(x)
      BY <3>3 DEF GetEnabledPolicyRules, GetPolicyRelevantApps, TypeOK
    <3> QED
      BY <1>7, <3>1, <3>2, <3>3 DEF SenderStep
  <2>3. Bumping' = Bumping
    BY <1>3, <2>2
  <2> QED
    BY <2>1, <2>3 DEF BumpsOwed
<1>8. CASE HandlePolicyVersionCheck
  <2>1. Check \in Senders
    BY DEF Senders
  <2>2. /\ sender[Check].pc # "bump" /\ sender'[Check].pc # "bump"
        /\ \A y \in Senders \ {Check} : sender'[y] = sender[y]
    BY <1>8, <2>1 DEF HandlePolicyVersionCheck, TypeOK, At
  <2>3. Bumping' = Bumping
    BY <1>3, <2>1, <2>2
  <2> QED
    BY <1>8, <2>3 DEF BumpsOwed, HandlePolicyVersionCheck
<1>9. CASE UNCHANGED <<rules, apps, version, sender>>
  BY <1>9 DEF BumpsOwed, Bumping
<1> QED
  BY <1>s, <1>4, <1>5, <1>6, <1>7, <1>8, <1>9 DEF Next, vars, EditorStep, TaskStep,
     CheckFails, StoreCache, OpenTmp, WriteTmp, RenameTmp, Connect, Register, FallbackTick,
     Disconnect, ReceiveUpdate, Restart

\* The tables and the counter only grow, so what a handler has read stays honest
\* while others edit and bump between its reads.
LEMMA SenderNext ==
  TypeOK /\ BumpsOwed /\ SenderHonest /\ [Next]_vars => SenderHonest'
<1> SUFFICES ASSUME TypeOK, BumpsOwed, SenderHonest, [Next]_vars PROVE SenderHonest'
  OBVIOUS
<1> USE DEF store, link, agent, disk, counts
<1>0. /\ rules \in Nat /\ apps \in Nat /\ version \in Nat
      /\ version <= rules + apps
      /\ \A x \in Senders : /\ sender[x].version \in Nat
                            /\ sender[x].rules \in Nat /\ sender[x].apps \in Nat
  BY FS_CardinalityType DEF TypeOK, BumpsOwed
<1>s. Editors \subseteq Senders /\ Check \in Senders
  BY DEF Senders
<1>1. ASSUME NEW x \in Senders,
             rules' \in Nat, apps' \in Nat, version' \in Nat,
             rules <= rules', apps <= apps', version <= version',
             \A y \in Senders \ {x} : sender'[y] = sender[y],
             LET s == sender'[x] IN
               /\ s.version <= version'
               /\ s.pc = "rules" => s.version <= rules' + apps'
               /\ s.pc = "apps"  => s.version <= s.rules + apps'
               /\ s.pc = "send"  => s.version <= s.rules + s.apps
      PROVE  SenderHonest'
  <2>1. SUFFICES ASSUME NEW y \in Senders \ {x}
                 PROVE  LET s == sender[y] IN
                        /\ s.version <= version'
                        /\ s.pc = "rules" => s.version <= rules' + apps'
                        /\ s.pc = "apps"  => s.version <= s.rules + apps'
                        /\ s.pc = "send"  => s.version <= s.rules + s.apps
    BY <1>1 DEF SenderHonest
  <2> QED
    BY <1>0, <1>1, <2>1 DEF SenderHonest
<1>2. ASSUME NEW e \in Editors, WriteRules(e) PROVE SenderHonest'
  <2>1. /\ rules' = rules + 1 /\ apps' = apps /\ version' = version
        /\ sender'[e] = [sender[e] EXCEPT !.pc = "bump"]
        /\ \A y \in Senders \ {e} : sender'[y] = sender[y]
    BY <1>2, <1>s DEF WriteRules, TypeOK
  <2>2. sender'[e].pc = "bump" /\ sender'[e].version = sender[e].version
    BY <1>s, <2>1 DEF TypeOK
  <2>3. /\ e \in Senders /\ rules' \in Nat /\ apps' \in Nat /\ version' \in Nat
        /\ rules <= rules' /\ apps <= apps' /\ version <= version'
        /\ sender'[e].version <= version'
    BY <1>0, <1>s, <2>1, <2>2 DEF SenderHonest
  <2> QED
    BY <1>1, <2>1, <2>2, <2>3
<1>3. ASSUME NEW e \in Editors, WriteApps(e) PROVE SenderHonest'
  <2>1. /\ apps' = apps + 1 /\ rules' = rules /\ version' = version
        /\ sender'[e] = [sender[e] EXCEPT !.pc = "bump"]
        /\ \A y \in Senders \ {e} : sender'[y] = sender[y]
    BY <1>3, <1>s DEF WriteApps, TypeOK
  <2>2. sender'[e].pc = "bump" /\ sender'[e].version = sender[e].version
    BY <1>s, <2>1 DEF TypeOK
  <2>3. /\ e \in Senders /\ rules' \in Nat /\ apps' \in Nat /\ version' \in Nat
        /\ rules <= rules' /\ apps <= apps' /\ version <= version'
        /\ sender'[e].version <= version'
    BY <1>0, <1>s, <2>1, <2>2 DEF SenderHonest
  <2> QED
    BY <1>1, <2>1, <2>2, <2>3
<1>4. ASSUME NEW e \in Editors, BumpPolicyVersion(e) PROVE SenderHonest'
  <2>1. /\ rules' = rules /\ apps' = apps /\ version' = version + 1
        /\ sender'[e] = [sender[e] EXCEPT !.pc = "version"]
        /\ \A y \in Senders \ {e} : sender'[y] = sender[y]
    BY <1>4, <1>s DEF BumpPolicyVersion, TypeOK
  <2>2. sender'[e].pc = "version" /\ sender'[e].version = sender[e].version
    BY <1>s, <2>1 DEF TypeOK
  <2>3. /\ e \in Senders /\ rules' \in Nat /\ apps' \in Nat /\ version' \in Nat
        /\ rules <= rules' /\ apps <= apps' /\ version <= version'
        /\ sender'[e].version <= version'
    BY <1>0, <1>s, <2>1, <2>2 DEF SenderHonest
  <2> QED
    BY <1>1, <2>1, <2>2, <2>3
<1>5. ASSUME NEW x \in Senders, UNCHANGED <<rules, apps, version>>,
             \A y \in Senders \ {x} : sender'[y] = sender[y],
             \/ sender'[x].version = 0 /\ sender'[x].pc \in {"idle", "done"}
             \/ sender'[x].version = version /\ sender'[x].pc = "rules"
      PROVE  SenderHonest'
  BY <1>0, <1>1, <1>5
<1>6. ASSUME NEW x \in Senders,
             BumpFails(x) \/ Broadcast(x) \/ SendPolicyUpdate(x) \/ SendFails(x)
      PROVE  SenderHonest'
  <2>1. UNCHANGED <<rules, apps, version>>
    BY <1>6 DEF BumpFails, Broadcast, SendPolicyUpdate, SendFails
  <2>2. \A y \in Senders \ {x} : sender'[y] = sender[y]
    BY <1>6 DEF BumpFails, Broadcast, SendPolicyUpdate, SendFails, TypeOK
  <2>3. \/ sender'[x] \in {At("idle"), At("done")}
        \/ sender'[x] = [At("rules") EXCEPT !.version = version]
    BY <1>6 DEF BumpFails, Broadcast, SendPolicyUpdate, SendFails, TypeOK
  <2>4. \/ sender'[x].version = 0 /\ sender'[x].pc \in {"idle", "done"}
        \/ sender'[x].version = version /\ sender'[x].pc = "rules"
    BY <2>3 DEF At
  <2> QED
    BY <1>5, <2>1, <2>2, <2>4
<1>7. CASE HandlePolicyVersionCheck
  <2>1. CASE sender' = sender
    BY <1>7, <2>1 DEF SenderHonest, HandlePolicyVersionCheck
  <2>2. CASE sender' = [sender EXCEPT ![Check] = [At("rules") EXCEPT !.version = version]]
    <3>1. /\ sender'[Check] = [At("rules") EXCEPT !.version = version]
          /\ \A y \in Senders \ {Check} : sender'[y] = sender[y]
      BY <1>s, <2>2 DEF TypeOK
    <3>2. sender'[Check].version = version /\ sender'[Check].pc = "rules"
      BY <3>1 DEF At
    <3>3. UNCHANGED <<rules, apps, version>>
      BY <1>7 DEF HandlePolicyVersionCheck
    <3> QED
      BY <1>5, <1>s, <3>1, <3>2, <3>3
  <2> QED
    BY <1>7, <2>1, <2>2 DEF HandlePolicyVersionCheck
<1>8. ASSUME NEW x \in Senders, GetEnabledPolicyRules(x) PROVE SenderHonest'
  <2>1. /\ UNCHANGED <<rules, apps, version>> /\ sender[x].pc = "rules"
        /\ sender'[x] = [sender[x] EXCEPT !.rules = rules, !.pc = "apps"]
        /\ \A y \in Senders \ {x} : sender'[y] = sender[y]
    BY <1>8 DEF GetEnabledPolicyRules, TypeOK
  <2>2. /\ sender'[x].pc = "apps" /\ sender'[x].version = sender[x].version
        /\ sender'[x].rules = rules
    BY <2>1 DEF TypeOK
  <2> QED
    BY <1>0, <1>1, <2>1, <2>2 DEF SenderHonest
<1>9. ASSUME NEW x \in Senders, GetPolicyRelevantApps(x) PROVE SenderHonest'
  <2>1. /\ UNCHANGED <<rules, apps, version>> /\ sender[x].pc = "apps"
        /\ sender'[x] = [sender[x] EXCEPT !.apps = apps, !.pc = "send"]
        /\ \A y \in Senders \ {x} : sender'[y] = sender[y]
    BY <1>9 DEF GetPolicyRelevantApps, TypeOK
  <2>2. /\ sender'[x].pc = "send" /\ sender'[x].version = sender[x].version
        /\ sender'[x].rules = sender[x].rules /\ sender'[x].apps = apps
    BY <2>1 DEF TypeOK
  <2> QED
    BY <1>0, <1>1, <2>1, <2>2 DEF SenderHonest
<1>10. CASE UNCHANGED <<rules, apps, version, sender>>
  BY <1>10 DEF SenderHonest
<1> QED
  BY <1>s, <1>2, <1>3, <1>4, <1>6, <1>7, <1>8, <1>9, <1>10 DEF Next, vars, EditorStep,
     SenderStep, CheckFails, TaskStep, StoreCache, OpenTmp, WriteTmp, RenameTmp, Connect,
     Register, FallbackTick, Disconnect, ReceiveUpdate, Restart

\* A message is as good as what its handler read, and the agent only moves copies
\* around; a copy stays good because the counter never falls.
LEMMA CopiesNext ==
  TypeOK /\ NoEmptyRename /\ SenderHonest /\ CopiesGood /\ [Next]_vars => CopiesGood'
<1> SUFFICES ASSUME TypeOK, NoEmptyRename, SenderHonest, CopiesGood, [Next]_vars
             PROVE  CopiesGood'
  OBVIOUS
<1> USE DEF store, link, agent, disk, counts
<1>0. version \in Nat /\ version' \in Nat /\ version <= version'
  <2>1. version' = version \/ version' = version + 1
    BY DEF Next, vars, EditorStep, WriteRules, WriteApps, BumpPolicyVersion,
       BumpFails, Broadcast, HandlePolicyVersionCheck, SenderStep, GetEnabledPolicyRules,
       GetPolicyRelevantApps, SendPolicyUpdate, SendFails, CheckFails, TaskStep,
       StoreCache, OpenTmp, WriteTmp, RenameTmp, Connect, Register, FallbackTick, Disconnect, Unlink, ReceiveUpdate,
       Restart
  <2>2. version \in Nat
    BY DEF TypeOK
  <2> QED
    BY <2>1, <2>2
<1> DEFINE Still(u) == u.tag = "this" /\ u.version <= u.rules + u.apps /\ u.version <= version'
<1>1. \A u \in Update : Good(u) => Still(u)
  BY <1>0 DEF Good, Update
<1>2. CASE UNCHANGED <<cache, tasks, wire, tmp, file>>
  <2>1. \A i \in 1..Len(wire) : wire[i] \in Update
    BY DEF TypeOK
  <2>2. \A t \in tasks : t.u \in Update
    BY DEF TypeOK
  <2>3. /\ tmp \notin {None, Truncated, Torn} => tmp \in Update
        /\ file \notin {None, Torn} => file \in Update
        /\ cache \in Update
    BY DEF TypeOK
  <2> QED
    BY <1>1, <1>2, <2>1, <2>2, <2>3 DEF CopiesGood, Good
<1>3. ASSUME NEW x \in Senders, SendPolicyUpdate(x) PROVE CopiesGood'
  <2>1. UNCHANGED <<cache, tasks, tmp, file, version>>
    BY <1>3 DEF SendPolicyUpdate
  <2>2. Good(Built(sender[x], sender[x].version)) /\ Built(sender[x], sender[x].version) \in Update
    BY <1>3 DEF Good, Built, SendPolicyUpdate, SenderHonest, TypeOK, Update
  <2>3. \A i \in 1..Len(wire') : Good(wire'[i])
    BY <1>3, <2>2 DEF SendPolicyUpdate, CopiesGood, TypeOK
  <2> QED
    BY <2>1, <2>3 DEF CopiesGood, Good
<1>4. CASE ReceiveUpdate
  <2>1. UNCHANGED <<cache, tmp, file, version>>
    BY <1>4 DEF ReceiveUpdate
  <2>2. Good(Head(wire))
    BY <1>4 DEF ReceiveUpdate, CopiesGood, TypeOK
  <2>3. \A t \in tasks' : Good(t.u)
    BY <1>4, <2>2 DEF ReceiveUpdate, CopiesGood
  <2>4. \A i \in 1..Len(wire') : Good(wire'[i])
    BY <1>4 DEF ReceiveUpdate, CopiesGood, TypeOK
  <2> QED
    BY <2>1, <2>3, <2>4 DEF CopiesGood, Good
<1>5. CASE Connect
  BY <1>2, <1>5 DEF Connect
<1>6. CASE Disconnect
  <2>1. UNCHANGED <<cache, tasks, tmp, file, version>> /\ wire' = <<>>
    BY <1>6 DEF Disconnect, Unlink
  <2> QED
    BY <2>1 DEF CopiesGood, Good
<1>7. CASE Restart
  <2>1. UNCHANGED <<tmp, file, version>> /\ wire' = <<>> /\ tasks' = {}
    BY <1>7 DEF Restart, Unlink
  <2>2. Good(InitPolicyCache(file)) \/ InitPolicyCache(file).tag = "untagged"
    <3>1. Good(Empty)
      BY <1>0 DEF Good, Empty
    <3>2. file \notin {None, Torn} => file.tag \in {"this", "other", "untagged"}
      BY DEF TypeOK, Update
    <3> QED
      BY <3>1, <3>2 DEF InitPolicyCache, CopiesGood
  <2>3. cache' = InitPolicyCache(file)
    BY <1>7 DEF Restart
  <2> QED
    BY <2>1, <2>2, <2>3 DEF CopiesGood, Good
<1>8. ASSUME NEW t \in tasks, TaskStep(t) PROVE CopiesGood'
  <2>0. t \in [u : Update, pc : TaskSteps] /\ Good(t.u)
    BY DEF TypeOK, CopiesGood
  <2>1. version' = version /\ wire' = wire
    BY <1>8 DEF TaskStep, StoreCache, OpenTmp, WriteTmp, RenameTmp
  <2>2. \A q \in tasks' : Good(q.u)
    <3>1. \A pc : [t EXCEPT !.pc = pc].u = t.u
      BY <2>0
    <3>2. \A q \in tasks' : q \in tasks \/ \E pc : q = [t EXCEPT !.pc = pc]
      BY <1>8 DEF TaskStep, StoreCache, OpenTmp, WriteTmp, RenameTmp, Step
    <3> QED
      BY <2>0, <3>1, <3>2 DEF CopiesGood
  <2>3. /\ Good(cache') \/ cache'.tag = "untagged"
        /\ tmp' \notin {None, Truncated, Torn} => Good(tmp')
        /\ file' \notin {None, Torn} => (file'.tag = "this" => Good(file'))
    <3>1. CASE StoreCache(t)
      BY <2>0, <3>1 DEF StoreCache, CopiesGood
    <3>2. CASE OpenTmp(t)
      BY <3>2 DEF OpenTmp, CopiesGood
    <3>3. CASE WriteTmp(t)
      BY <2>0, <3>3 DEF WriteTmp, CopiesGood
    <3>4. CASE RenameTmp(t)
      <4>1. CASE UNCHANGED disk
        BY <3>4, <4>1 DEF RenameTmp, CopiesGood
      <4>2. CASE file' = tmp /\ tmp' = None /\ tmp # None /\ ~\E o \in tasks : o.pc = "write"
        <5>1. tmp # Truncated
          BY <3>4, <4>2 DEF RenameTmp, NoEmptyRename
        <5> QED
          BY <3>4, <4>2, <5>1 DEF RenameTmp, CopiesGood
      <4> QED
        BY <3>4, <4>1, <4>2 DEF RenameTmp
    <3> QED
      BY <1>8, <3>1, <3>2, <3>3, <3>4 DEF TaskStep
  <2> QED
    BY <2>1, <2>2, <2>3 DEF CopiesGood, Good
<1> QED
  BY <1>2, <1>3, <1>4, <1>5, <1>6, <1>7, <1>8 DEF Next, vars, EditorStep, WriteRules,
     WriteApps, BumpPolicyVersion, BumpFails, Broadcast, HandlePolicyVersionCheck,
     CheckFails, SenderStep, GetEnabledPolicyRules, GetPolicyRelevantApps, SendFails,
     Register, FallbackTick

-----------------------------------------------------------------------------
(* The theorems.                                                            *)

\* The invariant holds in every reachable state.
LEMMA PolicyInvariant == Spec => []PolicyInv
<1>1. PolicyInv /\ [Next]_vars => PolicyInv'
  <2> SUFFICES ASSUME PolicyInv, [Next]_vars PROVE PolicyInv'
    OBVIOUS
  <2>1. TypeOK'
    <3>1. CASE UNCHANGED vars
      BY <3>1 DEF PolicyInv, TypeOK, vars
    <3> QED
      BY <3>1, TypeServer, TypeAgent DEF PolicyInv, Next
  <2> QED
    BY <2>1, EmptyRenameNext, BumpsNext, SenderNext, CopiesNext DEF PolicyInv
<1> QED
  BY <1>1, InvInit, PTL DEF Spec

\* The tables, the messages, the memory and the files hold what they should: in
\* particular policy_cache.json is never replaced by an empty file, however the
\* goroutines that share its temporary file interleave (savePolicyCacheFile).  It
\* can hold a mixture of two texts, which FileWhole is about.
THEOREM TypeCorrect == Spec => []TypeOK
BY PolicyInvariant, PTL DEF PolicyInv

\* A copy of the policy holds at least the edits its version stands for, although
\* version, rules and applications are read by separate statements
\* (sendPolicyUpdateTo).
THEOREM VersionIsHonest == Spec => []VersionHonest
<1>1. PolicyInv => VersionHonest
  <2> SUFFICES ASSUME PolicyInv, NEW u \in Copies, u.tag = "this" PROVE u.rules + u.apps >= u.version
    BY DEF VersionHonest
  <2>1. u \in Update
    BY DEF Copies, PolicyInv, TypeOK
  <2>2. Good(u)
    <3>1. CASE u = cache \/ u \in {t.u : t \in tasks}
      BY <3>1 DEF PolicyInv, CopiesGood
    <3>2. CASE u \in {wire[i] : i \in DOMAIN wire}
      <4>1. DOMAIN wire = 1..Len(wire)
        BY DEF PolicyInv, TypeOK
      <4> QED
        BY <3>2, <4>1 DEF PolicyInv, CopiesGood
    <3>3. CASE u \in {tmp, file} \ {None, Truncated, Torn}
      BY <3>3 DEF PolicyInv, CopiesGood
    <3> QED
      BY <3>1, <3>2, <3>3 DEF Copies
  <2> QED
    BY <2>1, <2>2 DEF Good, Update
<1> QED
  BY <1>1, PolicyInvariant, PTL

\* The agent never uses a version the server has not given out, so a version check
\* is never silenced by a copy from elsewhere, whatever file it finds and whenever
\* it is restarted, as long as the file names the server it came from; one that
\* names none is trusted (initPolicyCache).
THEOREM AgentNeverAhead == Spec => []NeverAhead
<1>1. PolicyInv => NeverAhead
  BY DEF PolicyInv, CopiesGood, Good, NeverAhead
<1> QED
  BY <1>1, PolicyInvariant, PTL

=============================================================================
