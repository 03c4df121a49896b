--------------------------- MODULE UpdateContract ---------------------------
(***************************************************************************)
(* What a container update promises its user, with the engine calls left   *)
(* out: README.md and docs/SECURITY.md ("Every failure after the container *)
(* is stopped restores it").  An update replaces exactly one workload, at  *)
(* one moment, or changes nothing.  After a replacement a stopped copy of  *)
(* the old workload may remain under a name nobody had.                    *)
(***************************************************************************)
VARIABLES
  workloads,   \* the containers as a user sees them: name, image, up
  phase        \* "idle", "open" (an update may still fail), "committed"

vars == <<workloads, phase>>

NamesOf(ws) == {w.name : w \in ws}

Init ==
  /\ \E w \in workloads : workloads = {w}
  /\ phase = "idle"

Begin ==
  /\ phase = "idle" /\ phase' = "open"
  /\ UNCHANGED workloads

Abort ==
  /\ phase = "open" /\ phase' = "idle"
  /\ UNCHANGED workloads

\* The replacement takes over the name and runs.
Commit ==
  /\ phase = "open" /\ phase' = "committed"
  /\ \E old \in workloads, new \in workloads' :
       /\ new.name = old.name /\ new.up
       /\ workloads' = (workloads \ {old}) \cup {new}

Close ==
  /\ phase = "committed" /\ phase' = "idle"
  /\ \/ UNCHANGED workloads
     \/ \E left \in workloads' :
          /\ ~left.up /\ left.name \notin NamesOf(workloads)
          /\ workloads' = workloads \cup {left}

\* The user starts or stops one workload.
Toggle ==
  /\ phase = "idle" /\ UNCHANGED phase
  /\ \E old \in workloads :
       workloads' = (workloads \ {old}) \cup {[old EXCEPT !.up = ~@]}

Next == Begin \/ Abort \/ Commit \/ Close \/ Toggle

Spec == Init /\ [][Next]_vars
=============================================================================
