----------------------------- MODULE MCInventory -----------------------------
(* Inventory on small instances.                                           *)
EXTENDS Inventory, TLC

CONSTANTS local, edge, remote, hostA, hostB, c1, c2, prime

OneEdge    == {edge}
NoServers  == {}
OneRemote  == {remote}
TwoHosts   == {hostA, hostB}
OneOnA     == c1 :> hostA
OneOnEach  == c1 :> hostA @@ c2 :> hostB
OneRemoteC == c1 :> remote
OnePrime   == {prime}
NoPrime    == {}
=============================================================================
