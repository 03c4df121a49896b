------------------------------ MODULE MCRespawn ------------------------------
(***************************************************************************)
(* Respawn on small instances: an image before, one after, and one whose   *)
(* containers exit.                                                        *)
(***************************************************************************)
EXTENDS Respawn

CONSTANTS before, after, crashing

Good == {before, after}
All  == {before, after, crashing}
=============================================================================
