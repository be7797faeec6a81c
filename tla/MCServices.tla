----------------------------- MODULE MCServices -----------------------------
(***************************************************************************)
(* The server's smaller services, checked in one run.  They share no state, *)
(* so each behaviour is one of a single service, named by part: the state   *)
(* spaces add up instead of multiplying.                                    *)
(***************************************************************************)
EXTENDS Presence, RequestWaiters, MetricsBatcher, Alerter, Sessions, Inventory

CONSTANT app1

MCReadings == {<<TRUE, NoApp>>, <<FALSE, NoApp>>, <<FALSE, app1>>}

VARIABLE part

services == <<part, presVars, reqVars, batVars, alertVars, authVars, invVars>>

Init ==
  /\ part \in {"presence", "requests", "batcher", "alerter", "sessions", "inventory"}
  /\ PresInit /\ BatInit /\ AlertInit /\ AuthInit
  /\ ReqInit /\ (part # "requests" => \A r \in Requests : req[r].kind = "kill")
  /\ InvInit /\ (part # "inventory" => registry = Nothing)

Next ==
  \/ /\ part = "presence" /\ PresNext
     /\ UNCHANGED <<part, reqVars, batVars, alertVars, authVars, invVars>>
  \/ /\ part = "requests" /\ ReqNext
     /\ UNCHANGED <<part, presVars, batVars, alertVars, authVars, invVars>>
  \/ /\ part = "batcher" /\ BatNext
     /\ UNCHANGED <<part, presVars, reqVars, alertVars, authVars, invVars>>
  \/ /\ part = "alerter" /\ AlertNext
     /\ UNCHANGED <<part, presVars, reqVars, batVars, authVars, invVars>>
  \/ /\ part = "sessions" /\ AuthNext
     /\ UNCHANGED <<part, presVars, reqVars, batVars, alertVars, invVars>>
  \/ /\ part = "inventory" /\ InvNext
     /\ UNCHANGED <<part, presVars, reqVars, batVars, alertVars, authVars>>

\* Goroutines that can go on do, tickers tick and time passes.  A reconciliation
\* may fail, but not every one of them for ever.
Fairness ==
  /\ WF_presVars(part = "presence" /\ (ReadAgents \/ \E read, insert \in BOOLEAN : CheckAgent(read, insert)))
  /\ WF_presVars(part = "presence" /\ TickClock)
  /\ \A c \in Conns :
       WF_presVars(part = "presence" /\ (AddClient(c) \/ \E ok \in BOOLEAN : UpsertAgent(c, ok)))
  /\ WF_invVars(part = "inventory" /\ LoopTicks)
  /\ \A b \in Builders : WF_invVars(part = "inventory" /\ BuilderStep(b))
  /\ SF_invVars(part = "inventory" /\ HandleSoftwareInventory(TRUE))

Spec == Init /\ [][Next]_services /\ Fairness

ServicesTypeOK ==
  PresTypeOK /\ ReqTypeOK /\ BatTypeOK /\ AlertTypeOK /\ AuthTypeOK /\ InvTypeOK
=============================================================================
