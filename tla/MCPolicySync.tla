---------------------------- MODULE MCPolicySync ----------------------------
(* Instances of PolicySync for TLC.                                         *)
EXTENDS PolicySync

CONSTANT MaxEvents  \* sessions opened and failures on the server, together

\* Only steps that no fairness promises are held back.
Budget == sessions + bumpFailures + sendFailures <= MaxEvents

MCNext == Next /\ Budget'

MCSpec == Init /\ [][MCNext]_vars /\ Fairness
=============================================================================
