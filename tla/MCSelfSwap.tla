----------------------------- MODULE MCSelfSwap -----------------------------
(***************************************************************************)
(* SelfSwap on a small instance: two self-updates may overlap.             *)
(***************************************************************************)
EXTENDS SelfSwap, MCRecreate
=============================================================================
