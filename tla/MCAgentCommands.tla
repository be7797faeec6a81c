--------------------------- MODULE MCAgentCommands ---------------------------
(* Instances of AgentCommands for TLC.                                      *)
EXTENDS AgentCommands

CONSTANTS j1, j2

VARIABLE scene  \* which of the two scenes a behaviour shows

mcVars == <<vars, scene>>

\* "stores": two jobs under one attempt number fill the queue and the completed
\* store.  "redelivery": one file deploy, which may expire, is sent again under a
\* second attempt number, over one more session and crash, and may be forgotten.
InScene ==
  \/ /\ scene = "stores"
     /\ \A c \in reader : c.attempt = 0
     /\ past = {} /\ sessions <= 2 /\ crashes <= 1 /\ forgets = 0
  \/ /\ scene = "redelivery"
     /\ \A c \in reader : c.job = j2

MCInit == Init /\ scene \in {"stores", "redelivery"}
MCNext == Next /\ UNCHANGED scene /\ InScene'

\* InScene never holds back a step that is assumed to be taken.
MCSpec == MCInit /\ [][MCNext]_mcVars /\ WF_vars(FairStep)
=============================================================================
