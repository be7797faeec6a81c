---------------------------- MODULE MCDeployQueue ----------------------------
(* Instances of DeployQueue for TLC.                                        *)
EXTENDS DeployQueue

CONSTANTS j1, j2

MCTargets     == [j \in Jobs |-> Agents]
MCPriority    == [j \in Jobs |-> 0]
MCCreatedAt   == [j \in Jobs |-> 0]
MCMaxRetry    == [j \in Jobs |-> 1]
=============================================================================
