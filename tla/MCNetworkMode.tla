---------------------------- MODULE MCNetworkMode ----------------------------
(* Instances of NetworkMode for TLC.                                        *)
EXTENDS NetworkMode

CONSTANT MaxEvents  \* requests made and sessions opened, together

\* Two requests with one session, or one request with two sessions: only the
\* steps of the admin and of the connection, which no fairness promises, are
\* held back.
Budget == sessions + Cardinality({r \in Requests : req[r].pc # "new"}) <= MaxEvents

MCNext == Next /\ Budget'

MCSpec == Init /\ [][MCNext]_vars /\ Fairness
=============================================================================
