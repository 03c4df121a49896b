------------------------------ MODULE MCSettings ------------------------------
(* Small instances of Settings: requests that set one or two fields, good  *)
(* or bad, and OIDC settings with or without a new client secret.          *)
EXTENDS Settings

CONSTANTS r1, r2, l1, l2

Nothing == [f \in Fields |-> Absent]
One == {[Nothing EXCEPT !["count"] = 2, !["token"] = 2],
        [Nothing EXCEPT !["ignore"] = 2, !["self"] = Bad],
        [Nothing EXCEPT !["ignore"] = Empty, !["interval"] = 2]}
Counts == {[Nothing EXCEPT !["count"] = v] : v \in 1..2}
Intervals == {[Nothing EXCEPT !["interval"] = 2]}
Lists == {[Nothing EXCEPT !["ignore"] = Empty]}
Auths == {[issuer |-> 1, secret |-> 2], [issuer |-> 2, secret |-> Empty]}
NoAuths == {}

MCEnv == [f \in Fields |-> IF f = "token" THEN Empty ELSE 1]
MCEnvAuth == [issuer |-> 1, secret |-> 1]
=============================================================================
