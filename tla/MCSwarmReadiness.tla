-------------------------- MODULE MCSwarmReadiness --------------------------
(***************************************************************************)
(* SwarmReadiness on small instances: one host of each kind is enough, as  *)
(* hosts share nothing.                                                    *)
(***************************************************************************)
EXTENDS SwarmReadiness

CONSTANTS engine, agent

OneEngine == {engine}
OneAgent  == {agent}
NoHosts   == {}
One       == {1}
Two       == {1, 2}
=============================================================================
