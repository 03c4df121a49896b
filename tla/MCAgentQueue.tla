---------------------------- MODULE MCAgentQueue ----------------------------
(* AgentQueue on small instances: two workloads.                           *)
EXTENDS AgentQueue, TLC

CONSTANTS web, db

TwoWorkloads == {web, db}
=============================================================================
