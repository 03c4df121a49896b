--------------------------- MODULE MCSelfUpdateRun ---------------------------
(* SelfUpdateRun on small instances.                                       *)
EXTENDS SelfUpdateRun, TLC

CONSTANTS a1, a2

Nobody    == {}
TheOther  == {a2}
OneAgent  == {a1}
TwoAgents == {a1, a2}

Symmetry == Permutations(TwoAgents)
=============================================================================
