------------------------------- MODULE Respawn -------------------------------
(***************************************************************************)
(* The update of a container that a systemd unit owns (Podman Quadlet):    *)
(* recreateSystemdManaged of internal/dockerx/recreate.go, with the        *)
(* decisions of internal/dockerx/respawn.go.  The job stops the container; *)
(* the unit removes it and, if its Restart= policy says so, starts another *)
(* one under the same name.  The job polls for that one until its deadline *)
(* and then looks at its image.                                            *)
(*                                                                         *)
(* The unit is external: it acts whenever it likes, and the job sees it    *)
(* only through a list of containers.  Besides the unit's container there  *)
(* is one whose name contains its name, as the backups of recreateDirect   *)
(* do: the engine's name filter returns both.                              *)
(***************************************************************************)
EXTENDS Integers

CONSTANTS
  Images,       \* image ids
  Broken,       \* those whose containers exit soon after they were started
  Restart,      \* the unit's Restart= policy
  PinnedUnit,   \* whether the unit's Image= is another reference than the target
  MaxIds,       \* bound: containers in one behaviour
  MaxRequests,  \* bound: updates requested in one behaviour
  Faults        \* whether a call of the job may fail without effect

ASSUME BoundsAssumption == MaxIds \in Nat \ {0, 1} /\ MaxRequests \in Nat
ASSUME ImageAssumption  == Broken \subseteq Images
ASSUME PolicyAssumption == Restart \in {"no", "on-failure", "always"}
ASSUME SwitchAssumption == {PinnedUnit, Faults} \subseteq BOOLEAN

Ids       == 1..MaxIds
First     == 1     \* the unit's container at first
Lookalike == 2     \* a container whose name contains its name

VARIABLES
  alive,     \* ids of the containers that exist
  running,   \* those of them that run
  image,     \* id -> the id of its image
  next,      \* the next container id; every one from 3 on is the unit's
  wanted,    \* the unit means to start its container
  resolved,  \* the image the unit's Image= resolves to
  requests,  \* updates requested so far
  pc,        \* where the job is
  insp,      \* what its first inspection returned
  found,     \* the container it found running
  late,      \* its deadline has passed
  faulted    \* history: a call of this update failed without effect

unit == <<alive, running, image, next, wanted>>
vars == <<alive, running, image, next, wanted, resolved, requests, pc, insp, found, late, faulted>>

AtRest == {"rest", "done", "failed"}
Owned  == alive \ {Lookalike}     \* the container that carries the unit's name

TypeOK ==
  /\ alive \subseteq Ids
  /\ running \subseteq alive
  /\ image \in [Ids -> Images]
  /\ next \in 3..(MaxIds + 1)
  /\ \A i, k \in Owned : i = k
  /\ wanted \in BOOLEAN
  /\ resolved \in Images
  /\ requests \in 0..MaxRequests
  /\ pc \in {"inspect", "pull", "stop", "poll", "verify"} \cup AtRest
  /\ insp \in [id : Ids, image : Images, up : BOOLEAN]
  /\ pc \in {"stop", "poll", "verify"} => insp.up
  /\ found \in Ids
  /\ late \in BOOLEAN
  /\ faulted \in BOOLEAN

Init ==
  /\ \E old \in Images \ Broken :
       /\ image = [i \in Ids |-> old]
       /\ resolved = old
       /\ insp = [id |-> First, image |-> old, up |-> FALSE]
  /\ alive = {First, Lookalike}
  /\ running \in {{First}, {First, Lookalike}, {Lookalike}}
  /\ next = 3
  /\ wanted = FALSE
  /\ requests = 0
  /\ pc = "rest"
  /\ found = First
  /\ late = FALSE
  /\ faulted = FALSE

-----------------------------------------------------------------------------
(* systemd and the unit.                                                   *)

job == <<requests, pc, insp, found, late, faulted>>

Starts ==
  /\ wanted
  /\ Owned = {}
  /\ next <= MaxIds
  /\ alive' = alive \cup {next}
  /\ running' = running \cup {next}
  /\ image' = [image EXCEPT ![next] = resolved]
  /\ next' = next + 1
  /\ wanted' = FALSE
  /\ UNCHANGED <<resolved, job>>

\* It exits by itself if its image is broken; the first one may at any time, as
\* it does when the unit is restarted by hand.
Exits(i) ==
  /\ i \in Owned \cap running
  /\ image[i] \in Broken \/ i = First
  /\ running' = running \ {i}
  /\ UNCHANGED <<alive, image, next, wanted, resolved, job>>

\* A container that has exited is removed; the policy decides what comes then.
TearsDown(i) ==
  /\ i \in Owned \ running
  /\ alive' = alive \ {i}
  /\ wanted' \in CASE Restart = "no"         -> {FALSE}
                   [] Restart = "on-failure" -> BOOLEAN
                   [] Restart = "always"     -> {TRUE}
  /\ UNCHANGED <<running, image, next, resolved, job>>

Unit == Starts \/ \E i \in Ids : Exits(i) \/ TearsDown(i)

-----------------------------------------------------------------------------
(* The job.                                                                *)

GoTo(label) == pc' = label

Fails == GoTo("failed") /\ UNCHANGED <<unit, resolved, requests, insp, found, late>>

\* A call fails without effect, for a reason outside of the model.
Fault == Faults /\ faulted' = TRUE

\* The inventory may name the container the unit has replaced since.
Request ==
  /\ pc \in AtRest
  /\ requests < MaxRequests
  /\ requests' = requests + 1
  /\ \E i \in (1..(next - 1)) \ {Lookalike} : insp' = [insp EXCEPT !.id = i]
  /\ late' = FALSE
  /\ faulted' = FALSE
  /\ GoTo("inspect")
  /\ UNCHANGED <<unit, resolved, found>>

Inspect ==
  /\ pc = "inspect"
  /\ \/ /\ insp.id \in alive
        /\ insp' = [insp EXCEPT !.image = image[insp.id], !.up = insp.id \in running]
        /\ GoTo("pull")
        /\ UNCHANGED <<unit, resolved, requests, found, late, faulted>>
     \/ insp.id \notin alive /\ Fails /\ UNCHANGED faulted
     \/ Fault /\ Fails

\* What the target resolves to is on the host, for the unit too unless its
\* Image= is another reference.  A container found stopped is refused.
Pull ==
  /\ pc = "pull"
  /\ \/ /\ resolved' \in IF PinnedUnit THEN {resolved} ELSE Images
        /\ GoTo(IF insp.up THEN "stop" ELSE "failed")
        /\ UNCHANGED <<unit, requests, insp, found, late, faulted>>
     \/ Fault /\ Fails

StopOr(whenGone) ==
  /\ pc = "stop"
  /\ \/ /\ insp.id \in alive
        /\ running' = running \ {insp.id}
        /\ GoTo("poll")
        /\ UNCHANGED <<alive, image, next, wanted, resolved, requests, insp, found, late, faulted>>
     \/ /\ insp.id \notin alive
        /\ GoTo(whenGone)
        /\ UNCHANGED <<unit, resolved, requests, insp, found, late, faulted>>
     \/ Fault /\ Fails

\* Faulty variant of Stop: a container that is gone already is an error.
Stop_GoneFails == StopOr("failed")

\* A stop that finds no container lost a race with the unit: not an error.
Stop == StopOr("poll")

Expire ==
  /\ pc = "poll"
  /\ ~late
  /\ late' = TRUE
  /\ UNCHANGED <<unit, resolved, requests, pc, insp, found, faulted>>

\* One turn of the loop, with the containers of that name it sees.
PollSeeing(seen, giveUp) ==
  LET up == {i \in seen \cap running : i # insp.id} IN
  /\ pc = "poll"
  /\ \/ \E i \in up : found' = i /\ GoTo("verify")
     \/ up = {} /\ giveUp /\ GoTo("failed") /\ UNCHANGED found
  /\ UNCHANGED <<unit, resolved, requests, insp, late>>

\* findContainerByName: a list that fails finds nothing.
PollOf(names, giveUp) ==
  \/ PollSeeing(names, giveUp) /\ UNCHANGED faulted
  \/ Fault /\ PollSeeing({}, giveUp)

\* Faulty variants of Poll: names that merely contain the name count; only a
\* container that runs ends the wait.
Poll_Contains  == PollOf(alive, late)
Poll_WaitsOnly == PollOf(Owned, FALSE)

\* The loop of recreateSystemdManaged, with decideRespawnOutcome.
Poll == PollOf(Owned, late)

\* verifyRespawnImage: a container that cannot be inspected passes.
Verify ==
  /\ pc = "verify"
  /\ \/ found \in alive /\ GoTo(IF image[found] # insp.image THEN "done" ELSE "failed") /\ UNCHANGED faulted
     \/ found \notin alive /\ GoTo("done") /\ UNCHANGED faulted
     \/ Fault /\ GoTo("done")
  /\ UNCHANGED <<unit, resolved, requests, insp, found, late>>

Step == Inspect \/ Pull \/ Stop \/ Poll \/ Verify

Next == Unit \/ Request \/ Step \/ Expire

Spec == Init /\ [][Next]_vars

\* The job is scheduled and its deadline passes; nothing is assumed of the unit.
FairSpec == Spec /\ WF_vars(Step) /\ WF_vars(Expire)

-----------------------------------------------------------------------------
(* Properties.                                                             *)

Done == pc # "done" /\ pc' = "done"

\* An update reported done found a container under the exact name that the unit
\* started after the one it stopped, and that one does not run any more: never
\* the old one, never one of a similar name (docs/SECURITY.md).
DoneMeansRespawned ==
  [][Done => /\ found > insp.id /\ found # Lookalike
             /\ insp.id \notin running]_vars

\* An update that got as far as the stop, with no call that failed, fails only at
\* its deadline or for the image: not because the unit was faster than the job.
FailsLate ==
  [][(pc \in {"stop", "poll"} /\ pc' = "failed" /\ ~faulted') => late]_vars

\* Every update ends, whatever the unit does and whatever cannot be listed.
UpdateEnds == pc \notin AtRest ~> pc \in AtRest

\* A replacement that crash-loops is a reported failure (docs/SECURITY.md).
CrashLoopFails == [][Done => image[found] \notin Broken]_vars
=============================================================================
