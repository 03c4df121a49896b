---------------------------- MODULE ServiceRollout ----------------------------
(***************************************************************************)
(* The update of a swarm service: updateService and rollbackService of     *)
(* internal/dockerx/swarm.go.  A job inspects the service, pulls the       *)
(* image, hands the new spec to the orchestrator, polls until the rollout  *)
(* has settled or its deadline has passed, and then undoes it.             *)
(*                                                                         *)
(* The orchestrator is external.  It holds the service's spec, the one     *)
(* before it, an update status and the tasks, and it refuses a change made *)
(* with a version that is out of date.  Versions are abstracted to what    *)
(* they are for: the jobs whose version is out of date.  A task that is    *)
(* replaced is down for a moment; that moment is not modelled, so running  *)
(* and desired tasks are equal while a healthy image is rolled out.        *)
(*                                                                         *)
(* An update asks for a tag.  Docker's client stores the tag and, when the *)
(* registry answers it, the digest the tag stands for.                     *)
(***************************************************************************)
EXTENDS Integers

CONSTANTS
  Jobs,          \* runs of updateService that may be in flight together
  Images,        \* image references, each a tag
  Broken,        \* those whose tasks never run
  Flaky,         \* those whose tasks run, and stop, again and again
  Replicas,      \* the service's desired tasks
  Actions,       \* update failure actions the service may have
  MaxRequests,   \* bound: updates requested in one behaviour
  MaxPushes,     \* bound: times the tags are pushed again
  Faults,        \* ways a call may fail, a subset of {"refused", "lost"}
  StatusFaults,  \* whether listing the service may fail
  MayVanish      \* whether the operator may remove the service

ASSUME BoundAssumption  == MaxRequests \in Nat /\ MaxPushes \in Nat
ASSUME ImageAssumption  == Broken \subseteq Images /\ Flaky \subseteq Images /\ "none" \notin Images
ASSUME ActionAssumption == Actions \subseteq {"pause", "rollback", "continue"}
ASSUME SwitchAssumption ==
  /\ Faults \subseteq {"refused", "lost"}
  /\ {StatusFaults, MayVanish} \subseteq BOOLEAN

VARIABLES
  exists,    \* the service exists
  spec,      \* its spec
  prev,      \* the spec before, or none
  status,    \* UpdateStatus.State, "none" without one
  task,      \* replica -> its task
  pushed,    \* times the tags were pushed: the digest they stand for
  requests,  \* updates requested so far
  pc,        \* job -> the call it makes next, or "rest", "done", "failed"
  target,    \* job -> targetImage
  insp,      \* job -> the spec its ServiceInspect returned
  stale,     \* jobs whose version of the service is out of date
  late,      \* jobs whose deadline has passed
  onFailure, \* the service's update failure action
  hindered   \* history: a call of the last update failed, or the service was written before its rollback

service == <<exists, spec, prev, status>>
vars    == <<service, onFailure, task, pushed, requests, pc, target, insp, stale, late, hindered>>

Unresolved == 0        \* in place of a digest: the tag alone
Digests    == 1..(MaxPushes + 1)

Specs  == [image : Images, digest : {Unresolved} \cup Digests, force : 0..MaxRequests]
NoSpec == [image |-> "none", digest |-> Unresolved, force |-> 0]
Tasks  == [spec : Specs, up : BOOLEAN]

States == {"none", "updating", "paused", "completed",
           "rollback_started", "rollback_paused", "rollback_completed"}

AtRest == {"rest", "done", "failed"}

TypeOK ==
  /\ exists \in BOOLEAN
  /\ spec \in Specs
  /\ prev \in Specs \cup {NoSpec}
  /\ status \in States
  /\ task \in [Replicas -> Tasks]
  /\ pushed \in Digests
  /\ requests \in 0..MaxRequests
  /\ pc \in [Jobs -> {"inspect", "pull", "update", "poll", "reinspect", "rollback"} \cup AtRest]
  /\ target \in [Jobs -> Images]
  /\ insp \in [Jobs -> Specs]
  /\ stale \subseteq Jobs
  /\ late \subseteq Jobs
  /\ onFailure \in Actions /\ hindered \in BOOLEAN
  /\ status = "rollback_started" => prev = NoSpec
  /\ \A j \in Jobs : pc[j] \in {"reinspect", "rollback"} => j \in late

Init ==
  /\ exists = TRUE
  /\ spec \in [image : Images \ (Broken \cup Flaky), digest : {Unresolved, 1}, force : {0}]
  /\ prev = NoSpec
  /\ status \in {"none", "completed"}
  /\ task = [i \in Replicas |-> [spec |-> spec, up |-> TRUE]]
  /\ pushed = 1
  /\ requests = 0
  /\ pc = [j \in Jobs |-> "rest"]
  /\ target = [j \in Jobs |-> spec.image]
  /\ insp = [j \in Jobs |-> spec]
  /\ stale = Jobs
  /\ late = {}
  /\ onFailure \in Actions /\ hindered = FALSE

-----------------------------------------------------------------------------
(* The orchestrator.                                                       *)

jobs == <<pushed, requests, pc, target, insp, late, onFailure>>

Outdated == {i \in Replicas : task[i].spec # spec}
Down     == {i \in Replicas : ~task[i].up}

\* The orchestrator writes the service, which makes a new version of it.
Writes ==
  /\ stale' = Jobs
  /\ hindered' = (hindered \/ \E j \in Jobs : pc[j] = "rollback")

Begins ==
  /\ exists
  /\ status = "none"
  /\ Outdated # {}
  /\ status' = "updating"
  /\ Writes
  /\ UNCHANGED <<exists, spec, prev, task, jobs>>

Replaces(i) ==
  /\ exists
  /\ status \in {"updating", "rollback_started"}
  /\ i \in Outdated
  /\ task' = [task EXCEPT ![i] = [spec |-> spec, up |-> spec.image \notin Broken]]
  /\ UNCHANGED <<service, stale, jobs, hindered>>

Completes ==
  /\ exists
  /\ Outdated = {}
  /\ \/ status = "updating" /\ (Down = {} \/ onFailure = "continue") /\ status' = "completed"
     \/ status = "rollback_started" /\ Down = {} /\ status' = "rollback_completed"
  /\ Writes
  /\ UNCHANGED <<exists, spec, prev, task, jobs>>

\* A new task fails while the orchestrator watches it.
GivesUp ==
  /\ exists
  /\ Down \ Outdated # {}
  /\ \/ /\ status = "updating" /\ onFailure = "pause"
        /\ status' = "paused"
        /\ UNCHANGED <<spec, prev>>
     \/ /\ status = "updating" /\ onFailure = "rollback"
        /\ spec' = prev
        /\ prev' = NoSpec
        /\ status' = "rollback_started"
     \/ /\ status = "rollback_started"
        /\ status' = "rollback_paused"
        /\ UNCHANGED <<spec, prev>>
  /\ Writes
  /\ UNCHANGED <<exists, task, jobs>>

Flaps(i) ==
  /\ exists
  /\ task[i].spec.image \in Flaky
  /\ task' = [task EXCEPT ![i].up = ~@]
  /\ UNCHANGED <<service, stale, jobs, hindered>>

Vanishes ==
  /\ MayVanish
  /\ exists
  /\ exists' = FALSE
  /\ UNCHANGED <<spec, prev, status, task, stale, jobs, hindered>>

\* The tags are pushed again: they stand for other content.
Push ==
  /\ pushed <= MaxPushes
  /\ pushed' = pushed + 1
  /\ UNCHANGED <<service, onFailure, task, requests, pc, target, insp, stale, late, hindered>>

Orchestrator ==
  \/ Begins \/ Completes \/ GivesUp \/ Vanishes
  \/ \E i \in Replicas : Replaces(i) \/ Flaps(i)

-----------------------------------------------------------------------------
(* A job.                                                                  *)

Answers(legal) == IF legal THEN {"ok"} \cup Faults ELSE {"refused"}
TookEffect(a)  == a \in {"ok", "lost"}

\* A call that could have been carried out gets the answer a.
Hinders(legal, a) == hindered' = (hindered \/ (legal /\ a # "ok"))

GoTo(j, label) == pc' = [pc EXCEPT ![j] = label]

Request(j) ==
  /\ pc[j] \in AtRest
  /\ requests < MaxRequests
  /\ requests' = requests + 1
  /\ \E img \in Images : target' = [target EXCEPT ![j] = img]
  /\ late' = late \ {j}
  /\ GoTo(j, "inspect")
  /\ hindered' = FALSE
  /\ UNCHANGED <<service, onFailure, task, pushed, insp, stale>>

Inspect(j) ==
  /\ pc[j] = "inspect"
  /\ \E a \in Answers(exists) :
       /\ IF a = "ok"
          THEN /\ insp' = [insp EXCEPT ![j] = spec]
               /\ stale' = stale \ {j}
               /\ GoTo(j, "pull")
          ELSE GoTo(j, "failed") /\ UNCHANGED <<insp, stale>>
       /\ Hinders(exists, a)
  /\ UNCHANGED <<service, onFailure, task, pushed, requests, target, late>>

Pull(j) ==
  /\ pc[j] = "pull"
  /\ \E a \in Answers(TRUE) : GoTo(j, IF a = "ok" THEN "update" ELSE "failed") /\ Hinders(TRUE, a)
  /\ UNCHANGED <<service, onFailure, task, pushed, requests, target, insp, stale, late>>

\* The spec inspected, with the target image and the given force counter.  The
\* client adds the digest, or leaves the tag when it cannot ask the registry.
UpdateWith(j, force) ==
  /\ pc[j] = "update"
  /\ \E a \in Answers(exists /\ j \notin stale) :
       /\ IF TookEffect(a)
          THEN /\ prev' = spec
               /\ \E d \in {Unresolved, pushed} : spec' = [image |-> target[j], digest |-> d, force |-> force]
               /\ status' = "none"
               /\ stale' = Jobs
          ELSE UNCHANGED <<prev, spec, status, stale>>
       /\ GoTo(j, IF a = "ok" THEN "poll" ELSE "failed")
       /\ Hinders(exists /\ j \notin stale, a)
  /\ UNCHANGED <<exists, onFailure, task, pushed, requests, target, insp, late>>

\* Faulty variant of Update: the force counter is left alone.
Update_NeverForces(j) == UpdateWith(j, insp[j].force)

\* The same string would roll nothing out unless it is forced.  What an update
\* stored with its digest is never the same string as a target.
Same(j) == insp[j].image = target[j] /\ insp[j].digest = Unresolved
Update(j) == UpdateWith(j, IF Same(j) THEN insp[j].force + 1 ELSE insp[j].force)

Expire(j) ==
  /\ pc[j] = "poll"
  /\ j \notin late
  /\ late' = late \cup {j}
  /\ UNCHANGED <<service, onFailure, task, pushed, requests, pc, target, insp, stale, hindered>>

\* Faulty variants of Classify: the counts decide; a rollout
\* that does not complete is waited for as long as it takes.
Classify_CountsTasks(deadlineReached) ==
  CASE status \in {"rollback_completed", "rollback_paused"} -> "rolledBack"
    [] Down = {}       -> "done"
    [] deadlineReached -> "failed"
    [] OTHER           -> "pending"
Classify_NoDeadline(deadlineReached) ==
  CASE status = "completed" -> IF Down = {} THEN "done" ELSE "pending"
    [] status \in {"rollback_completed", "rollback_paused"} -> "rolledBack"
    [] OTHER -> "pending"

\* classifyServiceConvergence: a rollout that completed is never a failure.
Classify(deadlineReached) ==
  CASE status = "completed" -> IF Down = {} THEN "done" ELSE "pending"
    [] status \in {"rollback_completed", "rollback_paused"} -> "rolledBack"
    [] OTHER -> IF deadlineReached THEN "failed" ELSE "pending"

\* One turn of the loop.  When the status cannot be read, or the service is
\* gone, the loop sleeps and comes back without a look at the deadline.
Poll(j) ==
  /\ pc[j] = "poll"
  /\ exists
  /\ CASE Classify(j \in late) = "done"       -> GoTo(j, "done")
       [] Classify(j \in late) = "rolledBack" -> GoTo(j, "failed")
       [] Classify(j \in late) = "failed"     -> GoTo(j, "reinspect")
       [] OTHER                               -> FALSE
  /\ UNCHANGED <<service, onFailure, task, pushed, requests, target, insp, stale, late, hindered>>

PollAgain(j) ==
  /\ pc[j] = "poll"
  /\ StatusFaults \/ ~exists \/ Classify(j \in late) = "pending"
  /\ UNCHANGED vars

ReinspectWith(j, known) ==
  /\ pc[j] = "reinspect"
  /\ \E a \in Answers(exists) :
       /\ IF a = "ok"
          THEN stale' = known /\ GoTo(j, "rollback")
          ELSE GoTo(j, "failed") /\ UNCHANGED stale
       /\ Hinders(exists, a)
  /\ UNCHANGED <<service, onFailure, task, pushed, requests, target, insp, late>>

\* Faulty variant of Reinspect: the version inspected at first is kept.
Reinspect_KeepsVersion(j) == ReinspectWith(j, stale)

\* The current version, before anything is undone.
Reinspect(j) == ReinspectWith(j, stale \ {j})

\* rollbackService: back to the previous spec, once; an error either way.
Rollback(j) ==
  /\ pc[j] = "rollback"
  /\ LET legal == exists /\ j \notin stale /\ prev # NoSpec IN
     \E a \in Answers(legal) :
       /\ IF TookEffect(a)
          THEN /\ spec' = prev
               /\ prev' = NoSpec
               /\ status' = "rollback_started"
               /\ stale' = Jobs
          ELSE UNCHANGED <<spec, prev, status, stale>>
       /\ Hinders(legal, a)
  /\ GoTo(j, "failed")
  /\ UNCHANGED <<exists, onFailure, task, pushed, requests, target, insp, late>>

Step(j) ==
  Inspect(j) \/ Pull(j) \/ Update(j) \/ Poll(j) \/ PollAgain(j) \/ Reinspect(j) \/ Rollback(j)

Next == Orchestrator \/ Push \/ \E j \in Jobs : Request(j) \/ Step(j) \/ Expire(j)

Spec == Init /\ [][Next]_vars

\* A job's goroutine is scheduled and its deadline passes.  Nothing is assumed of
\* the orchestrator.
FairSpec == Spec /\ \A j \in Jobs : WF_vars(Step(j)) /\ WF_vars(Expire(j))

-----------------------------------------------------------------------------
(* Properties.                                                             *)

Ends(j, label) == pc[j] # label /\ pc'[j] = label

\* The service was already on the image asked for, by its digest.
Pinned(j) == insp[j].image = target[j] /\ insp[j].digest # Unresolved

\* When an update is reported done, every task runs the image it asked for, and
\* was replaced since, unless the service was on that image by its digest: the old
\* version is not what was counted (README: only then reports success).
DoneMeansServing ==
  [][\A j \in Jobs : Ends(j, "done") =>
       \A i \in Replicas : /\ task[i].up
                           /\ task[i].spec.image = target[j]
                           /\ task[i].spec # insp[j] \/ Pinned(j)]_vars

\* An update that fails after the orchestrator accepted it leaves the service on
\* the spec it had before (README: a rollout that never settles is undone), unless
\* the service is gone, a call failed, or the service was written once more between
\* the last inspection and the rollback.
Fails(j) == pc[j] \in {"poll", "reinspect", "rollback"} /\ pc'[j] = "failed"
FailureUndoes ==
  [][\A j \in Jobs : Fails(j) /\ exists /\ ~hindered' => spec' = insp[j]]_vars

\* The same when no call failed.
FailureAlwaysUndoes ==
  [][\A j \in Jobs : Fails(j) /\ exists => spec' = insp[j]]_vars

\* A rollback that is carried out brings back the spec the job found, and no other
\* (swarm.go: restores the service's previous spec, so a broken image does not
\* leave every replica crash-looping).
RollbackRestores ==
  [][\A j \in Jobs : pc[j] = "rollback" /\ pc'[j] # "rollback" /\ spec' # spec
       => spec' = insp[j]]_vars

\* An update accepted while every task was on the service's spec leaves tasks to
\* replace, also when it asks for the reference the service has already (README:
\* otherwise swarm sees an identical spec and rolls nothing out), unless the
\* reference still stands for the very digest that the service has.
UpdateRollsOut ==
  [][\A j \in Jobs :
       pc[j] = "update" /\ pc'[j] = "poll" /\ Outdated = {}
         => Outdated' # {} \/ (Pinned(j) /\ spec'.digest = insp[j].digest)]_vars

\* The same for every update.
UpdateAlwaysRollsOut ==
  [][\A j \in Jobs :
       pc[j] = "update" /\ pc'[j] = "poll" /\ Outdated = {} => Outdated' # {}]_vars

\* Every update ends (swarm.go: serviceConvergenceTimeout is how long a rollout
\* is given to settle), unless its service cannot be read any more or a task
\* is down when the rollout has completed.
Settles == exists /\ (status = "completed" => Down = {})
SettledEnds == \A j \in Jobs : pc[j] \notin AtRest ~> (pc[j] \in AtRest \/ ~Settles)

\* The same for every update.
RolloutEnds == \A j \in Jobs : pc[j] \notin AtRest ~> pc[j] \in AtRest
=============================================================================
