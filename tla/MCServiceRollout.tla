-------------------------- MODULE MCServiceRollout --------------------------
(***************************************************************************)
(* ServiceRollout on small instances.                                      *)
(***************************************************************************)
EXTENDS ServiceRollout

CONSTANTS j1, j2, good, better, bad

OneJob   == {j1}
TwoJobs  == {j1, j2}
Three    == {good, better, bad}
TwoTasks == {1, 2}
=============================================================================
