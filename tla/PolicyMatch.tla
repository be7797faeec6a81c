----------------------------- MODULE PolicyMatch -----------------------------
(***************************************************************************)
(* Which rule of the policy decides: the matcher server and agent share     *)
(* (shared/policy.go), over a table of rules that admins insert, edit and   *)
(* delete (db.go), for a running process as PolicyEngine.EvaluateProcesses  *)
(* (server/policy.go) and evaluateProcessLocally (agent/policycache.go)     *)
(* see it.  A decision is told by its rule.  How the rules reach the agent  *)
(* is PolicySync.                                                           *)
(***************************************************************************)
EXTENDS Naturals, Sequences, FiniteSets, Lists

CONSTANTS
  Dims,      \* the dimensions of a rule, "status" and "location" among them
  Values,    \* values of a dimension, the names of watched folders among them
  Any,       \* a rule's field left empty
  Unset,     \* a context's field left empty
  MaxRules   \* bound on the rules ever inserted

ASSUME MatchAssumptions ==
  /\ {"status", "location"} \subseteq Dims /\ IsFiniteSet(Dims)
  /\ Any \notin Values /\ Unset \notin Values /\ Any # Unset
  /\ MaxRules \in Nat

Folders == Values                      \* watchedLocationMarkers
NoRule == [id |-> 0]                   \* the default, "log"
Wants == [Dims -> Values \cup {Any}]

VARIABLES
  ruleTable,  \* policy_rules, in the order of their ids
  lastId      \* the AUTOINCREMENT counter

matchVars == <<ruleTable, lastId>>

MatchTypeOK ==
  /\ lastId \in 0..MaxRules
  /\ \A i \in DOMAIN ruleTable :
       /\ ruleTable[i].id \in 1..lastId /\ ruleTable[i].want \in Wants
       /\ ruleTable[i].enabled \in BOOLEAN
       /\ i > 1 => ruleTable[i - 1].id < ruleTable[i].id

MatchInit == ruleTable = <<>> /\ lastId = 0

InsertPolicyRule(w, on) ==
  /\ lastId < MaxRules /\ lastId' = lastId + 1
  /\ ruleTable' = Append(ruleTable, [id |-> lastId', want |-> w, enabled |-> on])

UpdatePolicyRule(i, w, on) ==
  /\ ruleTable' = [ruleTable EXCEPT ![i].want = w, ![i].enabled = on]
  /\ UNCHANGED lastId

DeletePolicyRule(i) ==
  /\ ruleTable' = SubSeq(ruleTable, 1, i - 1) \o SubSeq(ruleTable, i + 1, Len(ruleTable))
  /\ UNCHANGED lastId

MatchNext ==
  \/ \E w \in Wants, on \in BOOLEAN : InsertPolicyRule(w, on)
  \/ \E i \in DOMAIN ruleTable, w \in Wants, on \in BOOLEAN : UpdatePolicyRule(i, w, on)
  \/ \E i \in DOMAIN ruleTable : DeletePolicyRule(i)

MatchSpec == MatchInit /\ [][MatchNext]_matchVars

-----------------------------------------------------------------------------
(* The matcher.                                                             *)

\* MatchScore: every field that is set must be equal; the score is their number.
Matches(r, ctx) == \A d \in Dims : r.want[d] \in {Any, ctx[d]}
Score(r) == IF r = NoRule THEN 0 ELSE 1 + Cardinality({d \in Dims : r.want[d] # Any})

MutBetter(best, r, ctx) ==             \* the last of the most specific rules wins
  IF Matches(r, ctx) /\ Score(r) >= Score(best) THEN r ELSE best

\* One turn of Evaluate's loop.
Better(best, r, ctx) ==
  IF /\ Matches(r, ctx)
     /\ \/ Score(r) > Score(best)
        \/ Score(r) = Score(best) /\ best # NoRule /\ r.id < best.id
  THEN r ELSE best

Evaluate(rules, ctx) ==
  LET best[i \in 0..Len(rules)] ==
        IF i = 0 THEN NoRule ELSE Better(best[i - 1], rules[i], ctx)
  IN  best[Len(rules)]

\* GetEnabledPolicyRules on the server, enabledOnly on the agent.
EnabledRules == Filter(ruleTable, {r \in Elements(ruleTable) : r.enabled})

\* ClassifyExecutionLocation: another drive is "usb"; else the first marker found
\* in the path, in the order in which Go walks a map, which is any order.
Locations(path) ==
  IF path.usb THEN {"usb"} ELSE IF path.folders = {} THEN {Unset} ELSE path.folders

\* Every context that a process can be evaluated in.
ProcessContexts ==
  LET paths == [usb : BOOLEAN, folders : SUBSET Folders]
  IN  {ctx \in [Dims -> Values \cup {Unset, "usb"}] :
         /\ ctx["location"] \in UNION {Locations(path) : path \in paths}
         /\ \A d \in Dims \ {"location"} : ctx[d] # "usb"}

\* EvaluateProcesses, evaluateProcessLocally: a process that is neither in a watched
\* location nor a flagged application is not evaluated; nor is any on the server
\* when the rules cannot be loaded.
DecideProcess(ctx, loaded) ==
  IF ~loaded \/ (ctx["location"] = Unset /\ ctx["status"] = Unset) THEN NoRule
  ELSE Evaluate(EnabledRules, ctx)

-----------------------------------------------------------------------------
(* Properties.                                                              *)

\* "most-specific-wins, ties broken by lowest ID (oldest rule first)"
\* (shared/policy.go:137-142): whatever was inserted, edited, disabled or deleted
\* in between, a process in a given location is decided by an enabled rule that
\* matches it, no matching one is more specific, and among its equals it is the
\* oldest; without one, or when the rules cannot be loaded, nothing is done.
MostSpecificWins ==
  \A ctx \in ProcessContexts, loaded \in BOOLEAN :
    LET rivals == {ruleTable[i] : i \in {k \in DOMAIN ruleTable :
                      ruleTable[k].enabled /\ Matches(ruleTable[k], ctx)}}
        d      == DecideProcess(ctx, loaded)
    IN  IF \/ rivals = {} \/ ~loaded
           \/ ctx["status"] = Unset /\ ctx["location"] = Unset
        THEN d = NoRule
        ELSE /\ d \in rivals
             /\ \A r \in rivals : \/ Score(d) > Score(r)
                                  \/ Score(d) = Score(r) /\ d.id <= r.id
=============================================================================
