----------------------------- MODULE MCRecreate -----------------------------
(***************************************************************************)
(* Recreate on small instances.  The two jobs are interchangeable, so     *)
(* the runs with two jobs are checked up to their permutation.             *)
(***************************************************************************)
EXTENDS Recreate, TLC

CONSTANTS j1, j2, imgA, imgB

OneJob    == {j1}
TwoJobs   == {j1, j2}
OneImage  == {imgA}
TwoImages == {imgA, imgB}

Symmetry == Permutations(TwoJobs)
=============================================================================
