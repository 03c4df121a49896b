---------------------------- MODULE MCUpdateCheck ----------------------------
(* UpdateCheck on small instances: two rows of one repository or of two.   *)
EXTENDS UpdateCheck, TLC

CONSTANTS web, db, nginx, postgres, loop, user

TwoRows     == {web, db}
TwoRepos    == {nginx, postgres}
OneEach     == web :> nginx @@ db :> postgres
BothNginx   == web :> nginx @@ db :> nginx
TwoTriggers == {loop, user}
Symmetry    == Permutations(TwoTriggers)
=============================================================================
