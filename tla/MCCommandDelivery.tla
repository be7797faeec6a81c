-------------------------- MODULE MCCommandDelivery --------------------------
(* Instances of CommandDelivery for TLC.                                    *)
EXTENDS CommandDelivery

MCTargets     == [j \in Jobs |-> Agents]
MCPriority    == [j \in Jobs |-> 0]
MCCreatedAt   == [j \in Jobs |-> 0]
MCMaxRetry    == [j \in Jobs |-> 1]

\* Each behaviour is about one of the jobs: the destructive one, with a restart of
\* the server, or the other one without.
OneJob ==
  /\ Cardinality({j \in Jobs : creating[j].pc # "none"}) <= 1
  /\ crashes > 0 => \A j \in Jobs \ Destructive : creating[j].pc = "none"

\* UpdateJobStatus writes only deploy_jobs.status, which no handler of the queue
\* reads back, so its two statements need not interleave with anything else:
\* they are taken at once.
MarksFirst == marks # {} => marks' # marks
=============================================================================
