---------------------------- MODULE MCReleaseList ----------------------------
(* ReleaseList on small instances. *)
EXTENDS ReleaseList, TLC

CONSTANTS r1, r2, r3, r4

FourReleases == {r1, r2, r3, r4}

Symmetry == Permutations(FourReleases)

\* The type invariant, with places in a range that TLC can enumerate.
Types ==
  /\ pos \in [Releases -> 0..4] /\ times \in [Releases -> 0..Pages]
  /\ \A r \in Releases, i \in 1..4 : i <= pos[r] => Slot(i)
  /\ \A r, q \in Releases : pos[r] = pos[q] /\ pos[r] # 0 => r = q
=============================================================================
