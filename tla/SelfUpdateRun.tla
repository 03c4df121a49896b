---------------------------- MODULE SelfUpdateRun ----------------------------
(***************************************************************************)
(* The update of the deployment itself: internal/server/selfupdate_run.go *)
(* on the controller, internal/agent/agent.go on every agent, and the      *)
(* helper container of internal/dockerx/selfupdate.go that replaces the    *)
(* one or the other.                                                       *)
(*                                                                         *)
(* A run queues a "self_update" command for every reachable agent, waits   *)
(* until each has settled or the deadline passes, and then replaces the    *)
(* controller.  An agent polls for commands and executes them one after    *)
(* the other; executing one starts a helper, which stops the agent and     *)
(* recreates it, so the agent's answer and its death race.                 *)
(*                                                                         *)
(* There are two builds, "old" and "new", and every run deploys "new".     *)
(* Time is abstracted: a deadline may pass at any moment, and an agent may *)
(* be considered offline at any moment.                                    *)
(***************************************************************************)
EXTENDS Integers

CONSTANTS
  Agents,        \* servers of kind "agent"
  MaxRuns,       \* bound: self-update runs started in one behaviour
  HelperFaults,  \* whether a helper may fail
  LostReplies,   \* agents whose answers may be lost and that may crash
  ByHand,        \* agents the operator may redeploy by hand
  DigestKnown    \* whether the controller knows the agents' digests at first

ASSUME MaxRunsAssumption == MaxRuns \in Nat \ {0}
ASSUME SwitchAssumption  == {HelperFaults, DigestKnown} \subseteq BOOLEAN
ASSUME AgentAssumption   == ByHand \subseteq Agents /\ LostReplies \subseteq Agents

Runs     == 1..MaxRuns
Builds   == {"old", "new"}
Digests  == Builds \cup {"none"}
Statuses == {"none", "queued", "updated", "failed", "skipped"}

VARIABLES
  controller,  \* the build the controller runs
  pc,          \* run -> where orchestrateSelfUpdate is
  force,       \* run -> the force flag of the request
  late,        \* run -> its deadline has passed
  phase,       \* run -> selfUpdateRun.Phase, as the user follows it
  rows,        \* run -> agent -> agentUpdate.Status; "none": not in run.Agents
  from,        \* run -> agent -> agentUpdate.fromDigest
  pass,        \* run -> the pass of the wait loop: agents to visit, digests listed
  current,     \* selfUpdateTracker.run, 0 when nil
  command,     \* run -> agent -> status of the queued command, "none" if none
  digest,      \* agent -> servers.agent_digest
  agent,       \* agent -> its container
  work,        \* agent -> what its process is doing
  helper       \* agent -> its self-update helper

runVars   == <<pc, force, late, phase, rows, from, pass, current>>
agentVars == <<agent, work, helper>>
vars      == <<controller, runVars, command, digest, agentVars>>

\* "known": the hostname is the id of the container, so that SelfContainerID
\* finds it.
Container == [build : Builds, up : BOOLEAN, dying : BOOLEAN, known : BOOLEAN]
Work      == [batch : SUBSET Runs, at : {"idle", "clear", "launch", "post"},
              outcome : {"done", "failed"}]
\* "failed": the last one failed; no container is left of it.
Helper    == [at : {"none", "boot", "recreate", "failed"}, sawUp : BOOLEAN]

Waiting == {"top", "pass"}
Over    == {"rest", "failed", "launched", "lost"}

TypeOK ==
  /\ controller \in Builds
  /\ pc \in [Runs -> {"rest", "top", "pass", "decide", "launch", "launched", "failed", "lost"}]
  /\ force \in [Runs -> BOOLEAN]
  /\ late \in [Runs -> BOOLEAN]
  /\ phase \in [Runs -> {"none", "agents", "controller", "failed"}]
  /\ rows \in [Runs -> [Agents -> Statuses]]
  /\ from \in [Runs -> [Agents -> Digests]]
  /\ pass \in [Runs -> [todo : SUBSET Agents, listed : [Agents -> Digests]]]
  /\ current \in 0..MaxRuns
  /\ command \in [Runs -> [Agents -> {"none", "pending", "done", "failed"}]]
  /\ digest \in [Agents -> Digests]
  /\ agent \in [Agents -> Container]
  /\ work \in [Agents -> Work]
  /\ \A a \in Agents : /\ agent[a].dying => agent[a].up
                       /\ ~agent[a].up => work[a].batch = {}
  /\ helper \in [Agents -> Helper]

Idle     == [batch |-> {}, at |-> "idle", outcome |-> "done"]
NoHelper == [at |-> "none", sawUp |-> FALSE]
NoPass   == [todo |-> {}, listed |-> [a \in Agents |-> "none"]]

Init ==
  /\ controller = "old"
  /\ pc = [r \in Runs |-> "rest"]
  /\ force = [r \in Runs |-> FALSE]
  /\ late = [r \in Runs |-> FALSE]
  /\ phase = [r \in Runs |-> "none"]
  /\ rows = [r \in Runs |-> [a \in Agents |-> "none"]]
  /\ from = [r \in Runs |-> [a \in Agents |-> "none"]]
  /\ pass = [r \in Runs |-> NoPass]
  /\ current = 0
  /\ command = [r \in Runs |-> [a \in Agents |-> "none"]]
  /\ agent = [a \in Agents |-> [build |-> "old", up |-> TRUE, dying |-> FALSE, known |-> TRUE]]
  /\ digest = [a \in Agents |-> IF DigestKnown THEN "old" ELSE "none"]
  /\ work = [a \in Agents |-> Idle]
  /\ helper = [a \in Agents |-> NoHelper]

-----------------------------------------------------------------------------
(* The controller.                                                         *)

AtWork(a) == helper[a].at \in {"boot", "recreate"}

Goto(r, label) == pc' = [pc EXCEPT ![r] = label]

\* setPhase and fail: they, too, change the tracker's run.
Show(label) ==
  phase' = IF current = 0 THEN phase ELSE [phase EXCEPT ![current] = label]

\* updateAgent changes the row of the run the tracker holds, whichever run's
\* goroutine calls it.
Marked(a, status) ==
  IF current # 0 /\ rows[current][a] # "none"
  THEN [rows EXCEPT ![current][a] = status]
  ELSE rows

InRow(r, statuses) == {a \in Agents : rows[r][a] \in statuses}

\* handleApplySelfUpdate and startSelfUpdateRun: plan the run, make it the
\* tracker's, and start its goroutine.  Nothing looks for a run in progress.
\* When the servers cannot be listed the plan is empty.
Start(r) ==
  /\ controller = "old"
  /\ pc[r] = "rest"
  /\ \A q \in 1..(r - 1) : pc[q] # "rest"
  /\ \E f \in BOOLEAN : force' = [force EXCEPT ![r] = f]
  /\ \E plan \in [Agents -> {"queued", "failed", "skipped"}] \cup {[a \in Agents |-> "none"]} :
       /\ rows' = [rows EXCEPT ![r] = plan]
       /\ command' = [command EXCEPT ![r] =
            [a \in Agents |-> IF plan[a] = "queued" THEN "pending" ELSE "none"]]
       /\ Goto(r, IF \E a \in Agents : plan[a] = "queued" THEN "top" ELSE "decide")
  /\ phase' = [phase EXCEPT ![r] = "agents"]
  /\ from' = [from EXCEPT ![r] = digest]
  /\ current' = r
  /\ UNCHANGED <<controller, late, pass, digest, agentVars>>

\* The deadline of waitForAgents passes.
Expire(r) ==
  /\ pc[r] \in Waiting
  /\ ~late[r]
  /\ late' = [late EXCEPT ![r] = TRUE]
  /\ UNCHANGED <<controller, pc, force, phase, rows, from, pass, current, command, digest, agentVars>>

\* The top of the wait loop: every row has settled.
AllSettled(r) ==
  /\ pc[r] = "top"
  /\ InRow(r, {"queued"}) = {}
  /\ Goto(r, "decide")
  /\ UNCHANGED <<controller, force, late, phase, rows, from, pass, current, command, digest, agentVars>>

\* Faulty variant of GiveUp: the rows that are still queued are left as they are.
GiveUp_MarksNothing(r) ==
  /\ pc[r] = "top"
  /\ InRow(r, {"queued"}) # {}
  /\ late[r]
  /\ Goto(r, "decide")
  /\ UNCHANGED <<controller, force, late, phase, rows, from, pass, current, command, digest, agentVars>>

\* The top of the wait loop: the deadline has passed, and the agents that are
\* still queued in this run are marked failed, in the tracker's run.
GiveUp(r) ==
  /\ pc[r] = "top"
  /\ InRow(r, {"queued"}) # {}
  /\ late[r]
  /\ rows' = IF current = 0 THEN rows
             ELSE [rows EXCEPT ![current] =
                    [a \in Agents |-> IF rows[r][a] = "queued" /\ rows[current][a] # "none"
                                      THEN "failed" ELSE rows[current][a]]]
  /\ Goto(r, "decide")
  /\ UNCHANGED <<controller, force, late, phase, from, pass, current, command, digest, agentVars>>

\* Otherwise, after a pause, list the servers and visit the queued agents; when
\* the listing fails the loop starts over.
List(r) ==
  /\ pc[r] = "top"
  /\ InRow(r, {"queued"}) # {}
  /\ ~late[r]
  /\ pass' = [pass EXCEPT ![r] = [todo |-> InRow(r, {"queued"}), listed |-> digest]]
  /\ Goto(r, "pass")
  /\ UNCHANGED <<controller, force, late, phase, rows, from, current, command, digest, agentVars>>

\* Faulty variant of Finding: a command still pending counts as done.
Finding_PendingIsDone(r, a) ==
  IF command[r][a] = "failed" THEN "failed" ELSE "updated"

\* What a visit finds: the listed digest first, then the command's status.
Finding(r, a) ==
  IF pass[r].listed[a] \notin {"none", from[r][a]} THEN "updated"
  ELSE CASE command[r][a] = "done"   -> "updated"
         [] command[r][a] = "failed" -> "failed"
         [] OTHER                    -> "queued"

Visit(r, a) ==
  /\ pc[r] = "pass"
  /\ a \in pass[r].todo
  /\ pass' = [pass EXCEPT ![r].todo = @ \ {a}]
  /\ rows' = IF rows[r][a] = "queued" /\ Finding(r, a) # "queued"
             THEN Marked(a, Finding(r, a)) ELSE rows
  /\ UNCHANGED <<controller, pc, force, late, phase, from, current, command, digest, agentVars>>

\* Faulty variant of EndPass: the loop does not come back to the deadline.
EndPass_KeepsListing(r) ==
  /\ pc[r] = "pass"
  /\ pass[r].todo = {}
  /\ IF InRow(r, {"queued"}) = {}
     THEN Goto(r, "top") /\ UNCHANGED pass
     ELSE pass' = [pass EXCEPT ![r] = [todo |-> InRow(r, {"queued"}), listed |-> digest]]
          /\ UNCHANGED pc
  /\ UNCHANGED <<controller, force, late, phase, rows, from, current, command, digest, agentVars>>

EndPass(r) ==
  /\ pc[r] = "pass"
  /\ pass[r].todo = {}
  /\ pass' = [pass EXCEPT ![r] = NoPass]
  /\ Goto(r, "top")
  /\ UNCHANGED <<controller, force, late, phase, rows, from, current, command, digest, agentVars>>

\* A failed agent stops the run, unless it is forced.
Decide(r) ==
  LET stop == InRow(r, {"failed"}) # {} /\ ~force[r] IN
  /\ pc[r] = "decide"
  /\ Goto(r, IF stop THEN "failed" ELSE "launch")
  /\ Show(IF stop THEN "failed" ELSE "controller")
  /\ UNCHANGED <<controller, force, late, rows, from, pass, current, command, digest, agentVars>>

\* StartSelfUpdate on the controller's own container.
Launch(r) ==
  /\ pc[r] = "launch"
  /\ \/ Goto(r, "launched") /\ Show("controller")
     \/ Goto(r, "failed") /\ Show("failed")
  /\ UNCHANGED <<controller, force, late, rows, from, pass, current, command, digest, agentVars>>

\* The controller's helper replaces it, or restores it after a failure.  Either
\* way the process restarts: the runs in progress and the tracker are gone.
Replace(r) ==
  /\ pc[r] = "launched"
  /\ controller' = "new" \/ (HelperFaults /\ UNCHANGED controller)
  /\ pc' = [q \in Runs |-> IF pc[q] \in {"rest", "failed"} THEN pc[q] ELSE "lost"]
  /\ current' = 0
  /\ UNCHANGED <<force, late, phase, rows, from, pass, command, digest, agentVars>>

-----------------------------------------------------------------------------
(* An agent: one loop, so that it reports or executes but not both.        *)

Resting(a) == agent[a].up /\ work[a].at = "idle" /\ work[a].batch = {}

PendingOf(a) == {r \in Runs : command[r][a] = "pending"}

\* Commands are executed in order of creation.
First(a) == CHOOSE r \in work[a].batch : \A q \in work[a].batch : r <= q

\* reportOnce and handleAgentReport.  The agent describes itself only if it can
\* identify its container; a report without a digest keeps the one stored.
Report(a) ==
  /\ Resting(a)
  /\ agent[a].known
  /\ digest' = [digest EXCEPT ![a] = agent[a].build]
  /\ UNCHANGED <<controller, runVars, command, agentVars>>

\* pollCommands: the commands pending now.
Poll(a) ==
  /\ Resting(a)
  /\ PendingOf(a) # {}
  /\ work' = [work EXCEPT ![a].batch = PendingOf(a)]
  /\ UNCHANGED <<controller, runVars, command, digest, agent, helper>>

Answer(a, outcome) == work' = [work EXCEPT ![a].at = "post", ![a].outcome = outcome]

\* selfUpdate up to the pull: without its own container's id, or when a call
\* fails, the answer is "failed"; "already running" is an answer "done", given
\* only when the reference deployed is the one it runs.
Execute(a) ==
  /\ agent[a].up
  /\ work[a].at = "idle"
  /\ work[a].batch # {}
  /\ \/ Answer(a, "failed")
     \/ agent[a].known /\ agent[a].build = "new" /\ Answer(a, "done")
     \/ agent[a].known /\ work' = [work EXCEPT ![a].at = "clear"]
  /\ UNCHANGED <<controller, runVars, command, digest, agent, helper>>

\* A helper of that name, left over or not, is removed by force, best effort.
ClearHelper(a) ==
  /\ agent[a].up
  /\ work[a].at = "clear"
  /\ (AtWork(a) /\ helper' = [helper EXCEPT ![a] = NoHelper]) \/ UNCHANGED helper
  /\ work' = [work EXCEPT ![a].at = "launch"]
  /\ UNCHANGED <<controller, runVars, command, digest, agent>>

\* The name is still taken if the removal failed; then the start fails.
LaunchHelper(a) ==
  /\ agent[a].up
  /\ work[a].at = "launch"
  /\ \/ ~AtWork(a) /\ helper' = [helper EXCEPT ![a].at = "boot"] /\ Answer(a, "done")
     \/ UNCHANGED helper /\ Answer(a, "failed")
  /\ UNCHANGED <<controller, runVars, command, digest, agent>>

\* The answer is posted, and handleAgentCommandResult records it if the command
\* is still pending; if it is lost the command stays pending.
Post(a) ==
  LET r == First(a) IN
  /\ agent[a].up
  /\ work[a].at = "post"
  /\ \/ command' = IF command[r][a] = "pending"
                   THEN [command EXCEPT ![r][a] = work[a].outcome] ELSE command
     \/ a \in LostReplies /\ UNCHANGED command
  /\ work' = [work EXCEPT ![a] = [Idle EXCEPT !.batch = work[a].batch \ {r}]]
  /\ UNCHANGED <<controller, runVars, digest, agent, helper>>

\* The process ends: it crashes and is restarted, or it was told to stop.
Crash(a) ==
  /\ a \in LostReplies
  /\ agent[a].up
  /\ ~agent[a].dying
  /\ work[a] # Idle
  /\ work' = [work EXCEPT ![a] = Idle]
  /\ UNCHANGED <<controller, runVars, command, digest, agent, helper>>

Exit(a) ==
  /\ agent[a].dying
  /\ agent' = [agent EXCEPT ![a].up = FALSE, ![a].dying = FALSE]
  /\ work' = [work EXCEPT ![a] = Idle]
  /\ UNCHANGED <<controller, runVars, command, digest, helper>>

-----------------------------------------------------------------------------
(* The helper: RecreateContainer on the agent's container.                 *)

\* Inspect, pull and, if the agent runs, tell it to stop.
HelperStop(a) ==
  /\ helper[a].at = "boot"
  /\ helper' = [helper EXCEPT ![a] = [at |-> "recreate", sawUp |-> agent[a].up]]
  /\ agent' = [agent EXCEPT ![a].dying = agent[a].up]
  /\ UNCHANGED <<controller, runVars, command, digest, work>>

\* The replacement gets the configuration of the original, hostname included.
HelperReplace(a) ==
  /\ helper[a].at = "recreate"
  /\ ~agent[a].up
  /\ agent' = [agent EXCEPT ![a] = [build |-> "new", up |-> TRUE, dying |-> FALSE, known |-> FALSE]]
  /\ helper' = [helper EXCEPT ![a] = NoHelper]
  /\ UNCHANGED <<controller, runVars, command, digest, work>>

\* The helper fails before the stop, or after it and restores the original.
HelperFail(a) ==
  /\ HelperFaults
  /\ \/ helper[a].at = "boot" /\ UNCHANGED agent
     \/ /\ helper[a].at = "recreate"
        /\ ~agent[a].up
        /\ agent' = [agent EXCEPT ![a].up = helper[a].sawUp]
  /\ helper' = [helper EXCEPT ![a].at = "failed"]
  /\ UNCHANGED <<controller, runVars, command, digest, work>>

\* The operator deploys the new build by hand: a container of its own, with a
\* hostname of its own.
Redeploy(a) ==
  /\ a \in ByHand
  /\ ~AtWork(a)
  /\ agent[a].build = "old"
  /\ agent' = [agent EXCEPT ![a] = [build |-> "new", up |-> TRUE, dying |-> FALSE, known |-> TRUE]]
  /\ work' = [work EXCEPT ![a] = Idle]
  /\ UNCHANGED <<controller, runVars, command, digest, helper>>

-----------------------------------------------------------------------------
RunStep(r) ==
  \/ AllSettled(r) \/ GiveUp(r) \/ List(r) \/ EndPass(r) \/ Decide(r) \/ Launch(r)
  \/ \E a \in Agents : Visit(r, a)

AgentStep(a) ==
  \/ Report(a) \/ Poll(a) \/ Execute(a) \/ ClearHelper(a) \/ LaunchHelper(a) \/ Post(a)
  \/ Crash(a) \/ Exit(a) \/ HelperStop(a) \/ HelperReplace(a) \/ HelperFail(a) \/ Redeploy(a)

Next ==
  \/ \E r \in Runs : Start(r) \/ Expire(r) \/ RunStep(r) \/ Replace(r)
  \/ \E a \in Agents : AgentStep(a)

Spec == Init /\ [][Next]_vars

\* The run's goroutine is scheduled and its deadline passes.  Nothing is assumed
\* of agents, helpers or users.
Fairness == \A r \in Runs : WF_vars(RunStep(r)) /\ WF_vars(Expire(r))

FairSpec == Spec /\ Fairness

-----------------------------------------------------------------------------
(* Properties.                                                             *)

\* A run that is not forced goes on to the controller only when every agent of
\* its plan was updated or skipped: none failed and none is still out (README:
\* an agent that fails, or that does not report back, stops the run).
SettledFirst ==
  \A r \in Runs :
    pc[r] \in {"launch", "launched"} /\ ~force[r] => InRow(r, {"queued", "failed"}) = {}

\* When the controller comes back on the new build after a run that was not
\* forced, each agent the run called updated is on the new build, or its helper
\* is at work or has failed: none is left that was not even tried.
ControllerLast ==
  controller = "new" =>
    \A r \in Runs : pc[r] = "lost" /\ ~force[r] =>
      \A a \in InRow(r, {"updated"}) : agent[a].build = "new" \/ helper[a].at # "none"

\* The stronger promise of the README: the controller restarts only once all
\* the agents it updated are back, running the new build.
AgentsBackFirst ==
  [][\A r \in Runs : pc[r] = "decide" /\ pc'[r] = "launch" /\ ~force[r] =>
       \A a \in InRow(r, {"updated"}) : agent[a].build = "new" /\ agent[a].up]_vars

\* Once every run is over, every command answered and no helper at work, the
\* agents the runs reached are on the controller's build, forced runs aside: a
\* deployment is never split across two versions (README).
NeverSplit ==
  (/\ \A r \in Runs : pc[r] \in Over \ {"launched"} /\ ~force[r]
   /\ \A a \in Agents : Resting(a) /\ PendingOf(a) = {} /\ ~AtWork(a))
    => \A r \in Runs : \A a \in InRow(r, {"queued", "updated", "failed"}) :
         agent[a].build = controller

\* An agent that was replaced and is back on the new build is not called failed
\* because of an answer posted after that: a lost reply is harmless (agent.go).
ReconnectCounts ==
  [][\A r \in Runs, a \in Agents :
       rows[r][a] = "queued" /\ rows'[r][a] = "failed" /\ command[r][a] = "failed"
         => ~(agent[a].build = "new" /\ agent[a].up)]_vars

\* An agent that is down has a helper at work on it: a self-update never leaves
\* its agent stopped with nothing to bring it back.
NeverStranded == \A a \in Agents : agent[a].up \/ AtWork(a)

\* The wait for the agents ends, whatever they do: the deadline bounds it.
WaitEnds == \A r \in Runs : pc[r] \in Waiting ~> pc[r] \notin Waiting
=============================================================================
