--------------------------- MODULE SelfUpdateProofs ---------------------------
(***************************************************************************)
(* Theorems about SelfUpdateRun, for any agents and whatever fails, is     *)
(* lost, crashes or is redeployed by hand: of one run (two that overlap    *)
(* mark each other's rows), and, for ControllerLast, of a controller that  *)
(* knows the agents' digests when it plans.                                *)
(***************************************************************************)
EXTENDS SelfUpdateRun, TLAPS

OneRun == MaxRuns = 1

LEMMA TheRun == OneRun => Runs = {1}
BY DEF OneRun, Runs

-----------------------------------------------------------------------------
(* The run and its rows.                                                   *)

RunTypes ==
  /\ pc \in [Runs -> {"rest", "top", "pass", "decide", "launch", "launched", "failed", "lost"}]
  /\ force \in [Runs -> BOOLEAN]
  /\ rows \in [Runs -> [Agents -> Statuses]]

(* The tracker holds the run while it is in progress, so that a mark is one *)
(* on its own row.                                                         *)
Tracked == pc[1] \in {"top", "pass", "decide", "launch", "launched"} => current = 1

NoneQueued == pc[1] \in {"decide", "launch", "launched"} => InRow(1, {"queued"}) = {}

NoneFailed == pc[1] \in {"launch", "launched"} /\ ~force[1] => InRow(1, {"failed"}) = {}

RunInv == RunTypes /\ Tracked /\ NoneQueued /\ NoneFailed

LEMMA InitRun == OneRun /\ Init => RunInv
BY TheRun DEF Init, RunInv, RunTypes, Tracked, NoneQueued, NoneFailed, Statuses

\* Agents do not touch the run.
LEMMA StepRun == OneRun /\ RunInv /\ [Next]_vars => RunInv'
<1> SUFFICES ASSUME OneRun, RunInv, [Next]_vars PROVE RunInv'
  OBVIOUS
<1>0. 1 \in Runs /\ \A r \in Runs : r = 1
  BY TheRun
<1>1. CASE Start(1)
  <2>1. PICK plan \in [Agents -> {"queued", "failed", "skipped"}] \cup {[a \in Agents |-> "none"]} :
          /\ rows' = [rows EXCEPT ![1] = plan]
          /\ pc' = [pc EXCEPT ![1] = IF \E a \in Agents : plan[a] = "queued" THEN "top" ELSE "decide"]
    BY <1>1 DEF Start, Goto
  <2>2. plan \in [Agents -> Statuses] /\ rows'[1] = plan /\ force' \in [Runs -> BOOLEAN]
    BY <1>0, <1>1, <2>1 DEF Statuses, RunInv, RunTypes, Start
  <2>3. RunTypes'
    BY <2>1, <2>2, <1>0 DEF RunInv, RunTypes
  <2>4. Tracked' /\ NoneQueued' /\ NoneFailed'
    BY <1>0, <1>1, <2>1, <2>2 DEF Tracked, NoneQueued, NoneFailed, InRow, RunInv, RunTypes, Start
  <2>. QED BY <2>3, <2>4 DEF RunInv
<1>2. CASE AllSettled(1)
  BY <1>0, <1>2 DEF AllSettled, Goto, RunInv, RunTypes, Tracked, NoneQueued, NoneFailed, InRow
<1>3. CASE GiveUp(1)
  <2>0. current = 1
    BY <1>3 DEF GiveUp, RunInv, Tracked
  <2>1. /\ pc' = [pc EXCEPT ![1] = "decide"] /\ force' = force
        /\ rows' = [rows EXCEPT ![1] = [a \in Agents |->
             IF rows[1][a] = "queued" /\ rows[1][a] # "none" THEN "failed" ELSE rows[1][a]]]
    BY <1>3, <2>0 DEF GiveUp, Goto
  <2>2. rows' \in [Runs -> [Agents -> Statuses]] /\ InRow(1, {"queued"})' = {}
    BY <1>0, <2>1 DEF RunInv, RunTypes, Statuses, InRow
  <2>3. pc' \in [Runs -> {"rest", "top", "pass", "decide", "launch", "launched", "failed", "lost"}]
        /\ pc'[1] = "decide"
    BY <1>0, <2>1 DEF RunInv, RunTypes
  <2>4. RunTypes'
    BY <2>1, <2>2, <2>3 DEF RunInv, RunTypes
  <2>5. current' = 1
    BY <1>3, <2>0 DEF GiveUp
  <2>. QED BY <2>2, <2>3, <2>4, <2>5 DEF RunInv, Tracked, NoneQueued, NoneFailed
<1>4. CASE List(1) \/ EndPass(1)
  BY <1>0, <1>4 DEF List, EndPass, Goto, RunInv, RunTypes, Tracked, NoneQueued, NoneFailed
<1>5. ASSUME NEW a \in Agents, Visit(1, a) PROVE RunInv'
  <2>1. rows' \in [Runs -> [Agents -> Statuses]]
    BY <1>0, <1>5 DEF Visit, Marked, Finding, RunInv, RunTypes, Tracked, Statuses
  <2>. QED BY <1>5, <2>1 DEF Visit, RunInv, RunTypes, Tracked, NoneQueued, NoneFailed
<1>6. CASE Decide(1)
  BY <1>0, <1>6 DEF Decide, Goto, RunInv, RunTypes, Tracked, NoneQueued, NoneFailed, InRow
<1>7. CASE Launch(1)
  BY <1>0, <1>7 DEF Launch, Goto, RunInv, RunTypes, Tracked, NoneQueued, NoneFailed, InRow
<1>8. CASE Replace(1)
  BY <1>0, <1>8 DEF Replace, RunInv, RunTypes, Tracked, NoneQueued, NoneFailed, InRow
<1>9. CASE Expire(1)
  BY <1>9 DEF Expire, RunInv, RunTypes, Tracked, NoneQueued, NoneFailed, InRow
<1>10. CASE (\E a \in Agents : AgentStep(a)) \/ UNCHANGED vars
  <2>1. UNCHANGED <<pc, force, rows, current>>
    BY <1>10 DEF AgentStep, Report, Poll, Execute, ClearHelper, LaunchHelper, Post, Crash, Exit,
                 HelperStop, HelperReplace, HelperFail, Redeploy, vars, runVars
  <2>. QED BY <2>1 DEF RunInv, RunTypes, Tracked, NoneQueued, NoneFailed, InRow
<1>. QED BY <1>0, <1>1, <1>2, <1>3, <1>4, <1>5, <1>6, <1>7, <1>8, <1>9, <1>10 DEF Next, RunStep

\* A run that nobody forced does not go on to the controller while an agent of its
\* plan has failed or is still out (selfupdate_run.go:239-258), whatever its
\* agents do and whenever its deadline passes.
THEOREM AgentsSettleFirst == OneRun => (Spec => []SettledFirst)
<1> SUFFICES ASSUME OneRun PROVE Spec => []SettledFirst
  OBVIOUS
<1>1. RunInv => SettledFirst
  BY TheRun DEF RunInv, RunTypes, NoneQueued, NoneFailed, SettledFirst, InRow
<1>. QED BY <1>1, InitRun, StepRun, PTL DEF Spec

-----------------------------------------------------------------------------
(* Agents and their answers.                                               *)

AgentTypes ==
  /\ agent \in [Agents -> Container]
  /\ helper \in [Agents -> Helper]
  /\ work \in [Agents -> Work]
  /\ command \in [Runs -> [Agents -> {"none", "pending", "done", "failed"}]]
  /\ digest \in [Agents -> Digests]
  /\ from \in [Runs -> [Agents -> Digests]]
  /\ pass \in [Runs -> [todo : SUBSET Agents, listed : [Agents -> Digests]]]

LEMMA InitAgents == Init => AgentTypes
BY DEF Init, AgentTypes, Container, Helper, Work, Digests, Builds, Idle, NoHelper, NoPass

LEMMA Answers ==
  ASSUME AgentTypes, NEW a \in Agents, NEW o \in {"done", "failed"}, Answer(a, o)
  PROVE  work' \in [Agents -> Work]
<1>1. [work[a] EXCEPT !.at = "post", !.outcome = o] \in Work
  <2>1. work[a] \in Work
    BY DEF AgentTypes
  <2>. QED BY <2>1 DEF Work
<1>2. work' = [work EXCEPT ![a] = [work[a] EXCEPT !.at = "post", !.outcome = o]]
  BY DEF Answer, AgentTypes
<1>. QED BY <1>1, <1>2 DEF AgentTypes

LEMMA StepAgents == OneRun /\ RunInv /\ AgentTypes /\ [Next]_vars => AgentTypes'
<1> SUFFICES ASSUME OneRun, RunInv, AgentTypes, [Next]_vars PROVE AgentTypes'
  OBVIOUS
<1>0. 1 \in Runs /\ \A r \in Runs : r = 1
  BY TheRun
<1>1. CASE Start(1)
  <2>1. command' \in [Runs -> [Agents -> {"none", "pending", "done", "failed"}]]
    BY <1>0, <1>1 DEF Start, AgentTypes
  <2>. QED BY <2>1, <1>1 DEF Start, AgentTypes, agentVars
<1>2. CASE List(1)
  BY <1>0, <1>2 DEF List, AgentTypes, InRow, agentVars
<1>3. ASSUME NEW a \in Agents, Visit(1, a) PROVE AgentTypes'
  BY <1>0, <1>3 DEF Visit, AgentTypes, agentVars
<1>4. CASE EndPass(1)
  BY <1>0, <1>4 DEF EndPass, AgentTypes, NoPass, Digests, agentVars
<1>5. CASE AllSettled(1) \/ GiveUp(1) \/ Decide(1) \/ Launch(1) \/ Replace(1) \/ Expire(1) \/ UNCHANGED vars
  BY <1>5 DEF AllSettled, GiveUp, Decide, Launch, Replace, Expire, AgentTypes, agentVars, runVars, vars
<1>6. ASSUME NEW a \in Agents, AgentStep(a) PROVE AgentTypes'
  <2>0. /\ agent[a] \in Container /\ helper[a] \in Helper /\ work[a] \in Work
        /\ Idle \in Work /\ NoHelper \in Helper
    BY DEF AgentTypes, Idle, NoHelper, Work, Helper
  <2>1. CASE Report(a)
    BY <2>0, <2>1 DEF Report, AgentTypes, Container, Digests, runVars, agentVars
  <2>2. CASE Poll(a)
    <3>1. [work[a] EXCEPT !.batch = PendingOf(a)] \in Work
      BY <2>0 DEF Work, PendingOf
    <3>. QED BY <3>1, <2>2 DEF Poll, AgentTypes, runVars
  <2>3. CASE Execute(a)
    <3>1. [work[a] EXCEPT !.at = "clear"] \in Work
      BY <2>0 DEF Work
    <3>2. work' \in [Agents -> Work]
      BY <3>1, <2>3, Answers DEF Execute, AgentTypes
    <3>. QED BY <3>2, <2>3 DEF Execute, AgentTypes, runVars
  <2>4. CASE ClearHelper(a)
    <3>1. [work[a] EXCEPT !.at = "launch"] \in Work
      BY <2>0 DEF Work
    <3>. QED BY <3>1, <2>0, <2>4 DEF ClearHelper, AgentTypes, runVars
  <2>5. CASE LaunchHelper(a)
    <3>1. [helper[a] EXCEPT !.at = "boot"] \in Helper
      BY <2>0 DEF Helper
    <3>2. helper' \in [Agents -> Helper]
      BY <3>1, <2>5 DEF LaunchHelper, AgentTypes
    <3>3. work' \in [Agents -> Work]
      BY <2>5, Answers DEF LaunchHelper
    <3>. QED BY <3>2, <3>3, <2>5 DEF LaunchHelper, AgentTypes, runVars
  <2>6. CASE Post(a)
    <3>1. [Idle EXCEPT !.batch = work[a].batch \ {First(a)}] \in Work /\ work[a].outcome \in {"done", "failed"}
      BY <2>0 DEF Work, Idle
    <3>2. ASSUME NEW r PROVE [command EXCEPT ![r][a] = work[a].outcome]
                               \in [Runs -> [Agents -> {"none", "pending", "done", "failed"}]]
      BY <3>1 DEF AgentTypes
    <3>3. command' \in [Runs -> [Agents -> {"none", "pending", "done", "failed"}]]
      <4>1. command' = [command EXCEPT ![First(a)][a] = work[a].outcome] \/ command' = command
        BY <2>6 DEF Post
      <4>2. [command EXCEPT ![First(a)][a] = work[a].outcome]
              \in [Runs -> [Agents -> {"none", "pending", "done", "failed"}]]
        BY <3>2
      <4>. QED BY <4>1, <4>2 DEF AgentTypes
    <3>4. work' \in [Agents -> Work] /\ UNCHANGED <<runVars, digest, agent, helper>>
      BY <3>1, <2>6 DEF Post, AgentTypes
    <3>. QED BY <3>3, <3>4 DEF AgentTypes, runVars
  <2>7. CASE Crash(a) \/ Exit(a)
    <3>1. [agent[a] EXCEPT !.up = FALSE, !.dying = FALSE] \in Container
      BY <2>0 DEF Container
    <3>. QED BY <3>1, <2>0, <2>7 DEF Crash, Exit, AgentTypes, runVars
  <2>8. CASE HelperStop(a)
    <3>1. /\ [agent[a] EXCEPT !.dying = agent[a].up] \in Container
          /\ [at |-> "recreate", sawUp |-> agent[a].up] \in Helper
      BY <2>0 DEF Container, Helper
    <3>. QED BY <3>1, <2>8 DEF HelperStop, AgentTypes, runVars
  <2>9. CASE HelperReplace(a) \/ Redeploy(a)
    <3>1. \A k \in BOOLEAN : [build |-> "new", up |-> TRUE, dying |-> FALSE, known |-> k] \in Container
      BY DEF Container, Builds
    <3>. QED BY <3>1, <2>0, <2>9 DEF HelperReplace, Redeploy, AgentTypes, runVars
  <2>10. CASE HelperFail(a)
    <3>1. /\ [agent[a] EXCEPT !.up = helper[a].sawUp] \in Container
          /\ [helper[a] EXCEPT !.at = "failed"] \in Helper
      BY <2>0 DEF Container, Helper
    <3>2. helper' \in [Agents -> Helper] /\ UNCHANGED <<runVars, command, digest, work>>
      BY <3>1, <2>10 DEF HelperFail, AgentTypes
    <3>3. agent' \in [Agents -> Container]
      BY <3>1, <2>10 DEF HelperFail, AgentTypes
    <3>. QED BY <3>2, <3>3 DEF AgentTypes, runVars
  <2>. QED BY <1>6, <2>1, <2>2, <2>3, <2>4, <2>5, <2>6, <2>7, <2>8, <2>9, <2>10 DEF AgentStep
<1>. QED BY <1>0, <1>1, <1>2, <1>3, <1>4, <1>5, <1>6 DEF Next, RunStep

(* No agent goes back to the old build, so that a digest, once it is new,   *)
(* proves the new build for good; a digest the run lists is different from *)
(* the one it was planned with for no other reason.                        *)
DigestsTrue ==
  \A a \in Agents :
    /\ digest[a] \in Builds /\ (digest[a] = "new" => agent[a].build = "new")
    /\ pc[1] # "rest" => from[1][a] \in Builds /\ (from[1][a] = "new" => digest[a] = "new")
    /\ pc[1] = "pass" /\ pass[1].listed[a] \notin {"none", from[1][a]} => agent[a].build = "new"

(* An answer "done" is about an agent that is on the new build or has a     *)
(* helper.  A command that is executed again, and with that its helper     *)
(* removed, is one whose answer was lost: it is pending still.             *)
Tried(a) == agent[a].build = "new" \/ helper[a].at # "none"

AnswersTrue ==
  \A a \in Agents :
    /\ pc[1] = "rest" => command[1][a] = "none"
    /\ work[a].batch # {} => command[1][a] = "pending"
    /\ work[a].at # "idle" => work[a].batch # {}
    /\ work[a].at = "post" /\ work[a].outcome = "done" => Tried(a)
    /\ command[1][a] = "done" => Tried(a)

RowsTrue ==
  \A a \in Agents :
    rows[1][a] = "updated" => agent[a].build = "new" \/ command[1][a] = "done"

TriedInv == RunInv /\ AgentTypes /\ DigestsTrue /\ AnswersTrue /\ RowsTrue

LEMMA InitTried == OneRun /\ DigestKnown /\ Init => TriedInv
<1> SUFFICES ASSUME OneRun, DigestKnown, Init PROVE TriedInv
  OBVIOUS
<1>1. 1 \in Runs
  BY TheRun
<1>. QED BY <1>1, InitRun, InitAgents
     DEF Init, TriedInv, DigestsTrue, AnswersTrue, RowsTrue, Builds, Idle, NoHelper

\* What the run does: it plans, lists, and marks what a visit finds.
LEMMA RunTries ==
  OneRun /\ TriedInv /\ AgentTypes' =>
    /\ Start(1) => DigestsTrue' /\ AnswersTrue' /\ RowsTrue'
    /\ Expire(1) \/ RunStep(1) \/ Replace(1) => DigestsTrue' /\ AnswersTrue' /\ RowsTrue'
<1> SUFFICES ASSUME OneRun, TriedInv, AgentTypes'
             PROVE  /\ Start(1) => DigestsTrue' /\ AnswersTrue' /\ RowsTrue'
                    /\ Expire(1) \/ RunStep(1) \/ Replace(1) => DigestsTrue' /\ AnswersTrue' /\ RowsTrue'
  OBVIOUS
<1>0. 1 \in Runs /\ (\A r \in Runs : r = 1) /\ pc \in [Runs -> {"rest", "top", "pass", "decide", "launch", "launched", "failed", "lost"}]
      /\ rows \in [Runs -> [Agents -> Statuses]] /\ rows[1] \in [Agents -> Statuses]
  BY TheRun DEF TriedInv, RunInv, RunTypes
<1>1. ASSUME Start(1) PROVE DigestsTrue' /\ AnswersTrue' /\ RowsTrue'
  <2>1. PICK plan \in [Agents -> {"queued", "failed", "skipped"}] \cup {[a \in Agents |-> "none"]} :
          /\ rows' = [rows EXCEPT ![1] = plan]
          /\ command' = [command EXCEPT ![1] =
               [a \in Agents |-> IF plan[a] = "queued" THEN "pending" ELSE "none"]]
          /\ pc' = [pc EXCEPT ![1] = IF \E a \in Agents : plan[a] = "queued" THEN "top" ELSE "decide"]
    BY <1>1 DEF Start, Goto
  <2>2. pc[1] = "rest" /\ pc'[1] \in {"top", "decide"}
    BY <1>0, <1>1, <2>1 DEF Start
  <2>3. \A a \in Agents : rows'[1][a] # "updated" /\ command'[1][a] \in {"none", "pending"}
    BY <1>0, <2>1 DEF TriedInv, AgentTypes
  <2>4. \A a \in Agents : work[a].batch = {} /\ work[a].at = "idle"
    BY <2>2 DEF TriedInv, AnswersTrue
  <2>5. from'[1] = digest /\ UNCHANGED <<digest, agent, work, helper>>
    BY <1>0, <1>1 DEF Start, TriedInv, AgentTypes, agentVars
  <2>6. DigestsTrue'
    BY <2>2, <2>5 DEF TriedInv, DigestsTrue
  <2>7. AnswersTrue'
    BY <2>2, <2>3, <2>4, <2>5 DEF AnswersTrue
  <2>. QED BY <2>3, <2>6, <2>7 DEF RowsTrue
<1>2. CASE List(1)
  <2>1. pc'[1] = "pass" /\ pc[1] = "top" /\ pass'[1].listed = digest
    BY <1>0, <1>2 DEF List, Goto, TriedInv, AgentTypes
  <2>2. UNCHANGED <<rows, from, command, digest, agent, work, helper>>
    BY <1>2 DEF List, agentVars
  <2>3. DigestsTrue'
    BY <2>1, <2>2 DEF TriedInv, DigestsTrue, Builds
  <2>. QED BY <2>1, <2>2, <2>3 DEF TriedInv, AnswersTrue, RowsTrue, Tried
<1>3. ASSUME NEW a \in Agents, Visit(1, a) PROVE DigestsTrue' /\ AnswersTrue' /\ RowsTrue'
  <2>1. /\ pc[1] = "pass" /\ pc' = pc /\ current = 1 /\ pass'[1].listed = pass[1].listed
        /\ UNCHANGED <<from, command, digest, agent, work, helper>>
    BY <1>0, <1>3 DEF Visit, TriedInv, RunInv, Tracked, AgentTypes, agentVars
  <2>2. Finding(1, a) = "updated" => agent[a].build = "new" \/ command[1][a] = "done"
    BY <2>1, <1>0 DEF Finding, TriedInv, DigestsTrue, AgentTypes
  <2>3. \A b \in Agents : rows'[1][b] = rows[1][b] \/ (b = a /\ rows'[1][b] = Finding(1, a))
    BY <1>0, <1>3, <2>1 DEF Visit, Marked
  <2>4. RowsTrue'
    BY <2>1, <2>2, <2>3 DEF TriedInv, RowsTrue
  <2>. QED BY <2>1, <2>4 DEF TriedInv, DigestsTrue, AnswersTrue, Tried
<1>4. CASE EndPass(1)
  <2>1. pc[1] = "pass" /\ pc'[1] = "top" /\ UNCHANGED <<rows, from, command, digest, agent, work, helper>>
    BY <1>0, <1>4 DEF EndPass, Goto, agentVars
  <2>. QED BY <2>1 DEF TriedInv, DigestsTrue, AnswersTrue, RowsTrue, Tried
<1>5. CASE GiveUp(1)
  <2>1. /\ pc[1] = "top" /\ pc'[1] = "decide" /\ current = 1
        /\ UNCHANGED <<from, command, digest, agent, work, helper>>
    BY <1>0, <1>5 DEF GiveUp, Goto, agentVars, TriedInv, RunInv, Tracked
  <2>2. \A a \in Agents : rows'[1][a] \in {rows[1][a], "failed"}
    BY <1>0, <1>5, <2>1 DEF GiveUp
  <2>. QED BY <2>1, <2>2 DEF TriedInv, DigestsTrue, AnswersTrue, RowsTrue, Tried
<1>6. CASE AllSettled(1) \/ Decide(1) \/ Launch(1) \/ Replace(1) \/ Expire(1)
  <2>1. UNCHANGED <<rows, from, pass, command, digest, agent, work, helper>>
    BY <1>6 DEF AllSettled, Decide, Launch, Replace, Expire, agentVars
  <2>2. (pc'[1] = "rest" <=> pc[1] = "rest") /\ (pc'[1] = "pass" => pc[1] = "pass")
    BY <1>0, <1>6 DEF AllSettled, Decide, Launch, Replace, Expire, Goto
  <2>. QED BY <2>1, <2>2 DEF TriedInv, DigestsTrue, AnswersTrue, RowsTrue, Tried
<1>. QED BY <1>1, <1>2, <1>3, <1>4, <1>5, <1>6 DEF RunStep

\* What an agent and its helper do is about no other agent; the build is never
\* the old one again, and only a command that is pending has its helper removed.
LEMMA AgentTries ==
  OneRun /\ TriedInv =>
    \A a \in Agents : AgentStep(a) => DigestsTrue' /\ AnswersTrue' /\ RowsTrue'
<1> SUFFICES ASSUME OneRun, TriedInv, NEW a \in Agents, AgentStep(a)
             PROVE  DigestsTrue' /\ AnswersTrue' /\ RowsTrue'
  OBVIOUS
<1>0. /\ 1 \in Runs /\ Runs = {1}
      /\ agent \in [Agents -> Container] /\ helper \in [Agents -> Helper] /\ work \in [Agents -> Work]
      /\ command \in [Runs -> [Agents -> {"none", "pending", "done", "failed"}]]
      /\ digest \in [Agents -> Digests]
      /\ command[1] \in [Agents -> {"none", "pending", "done", "failed"}]
      /\ agent[a].build \in Builds
  BY TheRun DEF TriedInv, AgentTypes, Container
<1>1. pc' = pc /\ rows' = rows /\ from' = from /\ pass' = pass
  BY DEF AgentStep, Report, Poll, Execute, ClearHelper, LaunchHelper, Post, Crash, Exit,
         HelperStop, HelperReplace, HelperFail, Redeploy, runVars
<1>2. ASSUME NEW b \in Agents, b # a
      PROVE  /\ agent'[b] = agent[b] /\ helper'[b] = helper[b] /\ work'[b] = work[b]
             /\ digest'[b] = digest[b] /\ command'[1][b] = command[1][b]
  <2>1. CASE Report(a) \/ Poll(a) \/ Execute(a) \/ ClearHelper(a)
    BY <1>0, <1>2, <2>1 DEF Report, Poll, Execute, Answer, ClearHelper, agentVars
  <2>2. CASE LaunchHelper(a)
    BY <1>0, <1>2, <2>2 DEF LaunchHelper, Answer
  <2>3. CASE Post(a)
    <3>1. command' = [command EXCEPT ![First(a)][a] = work[a].outcome] \/ command' = command
      BY <2>3 DEF Post
    <3>2. command'[1][b] = command[1][b]
      BY <1>0, <1>2, <3>1
    <3>. QED BY <1>0, <1>2, <2>3, <3>2 DEF Post
  <2>4. CASE Crash(a) \/ Exit(a) \/ HelperStop(a)
    BY <1>0, <1>2, <2>4 DEF Crash, Exit, HelperStop
  <2>5. CASE HelperReplace(a) \/ HelperFail(a) \/ Redeploy(a)
    BY <1>0, <1>2, <2>5 DEF HelperReplace, HelperFail, Redeploy
  <2>. QED BY <2>1, <2>2, <2>3, <2>4, <2>5 DEF AgentStep
<1>3. agent[a].build = "new" => agent'[a].build = "new"
  <2>1. CASE Exit(a)
    BY <1>0, <2>1 DEF Exit
  <2>2. CASE HelperStop(a)
    BY <1>0, <2>2 DEF HelperStop
  <2>3. CASE HelperFail(a)
    <3>1. agent' = agent \/ agent' = [agent EXCEPT ![a].up = helper[a].sawUp]
      BY <2>3 DEF HelperFail
    <3>2. \A u : [agent EXCEPT ![a].up = u][a].build = agent[a].build
      BY <1>0 DEF Container
    <3>. QED BY <3>1, <3>2
  <2>4. CASE HelperReplace(a) \/ Redeploy(a)
    BY <1>0, <2>4 DEF HelperReplace, Redeploy
  <2>5. CASE agent' = agent
    BY <2>5
  <2>. QED BY <2>1, <2>2, <2>3, <2>4, <2>5
           DEF AgentStep, Report, Poll, Execute, ClearHelper, LaunchHelper, Post, Crash, agentVars
<1>4. digest'[a] \in Builds /\ (digest'[a] = "new" => agent'[a].build = "new")
      /\ (digest[a] = "new" => digest'[a] = "new")
  <2>1. CASE Report(a)
    BY <1>0, <2>1 DEF Report, agentVars, TriedInv, DigestsTrue
  <2>2. CASE digest' = digest
    BY <2>2, <1>3 DEF TriedInv, DigestsTrue
  <2>. QED BY <2>1, <2>2 DEF AgentStep, Poll, Execute, ClearHelper, LaunchHelper, Post, Crash, Exit,
                             HelperStop, HelperReplace, HelperFail, Redeploy
<1>5. /\ pc[1] = "rest" => command'[1][a] = "none"
      /\ work'[a].batch # {} => command'[1][a] = "pending"
      /\ work'[a].at # "idle" => work'[a].batch # {}
      /\ work'[a].at = "post" /\ work'[a].outcome = "done" => Tried(a)'
      /\ command'[1][a] = "done" => Tried(a)'
      /\ command[1][a] = "done" => command'[1][a] = "done"
  <2>0. /\ agent[a] \in Container /\ helper[a] \in Helper /\ work[a] \in Work
        /\ pc[1] = "rest" => command[1][a] = "none"
        /\ work[a].batch # {} => command[1][a] = "pending"
        /\ work[a].at # "idle" => work[a].batch # {}
        /\ work[a].at = "post" /\ work[a].outcome = "done" => Tried(a)
        /\ command[1][a] = "done" => Tried(a)
    BY <1>0 DEF TriedInv, AnswersTrue
  <2>1. CASE Report(a)
    BY <2>0, <2>1 DEF Report, agentVars, Tried
  <2>2. CASE Poll(a)
    <3>1. command[1][a] = "pending" /\ work'[a].at = "idle"
      BY <1>0, <2>0, <2>2 DEF Poll, PendingOf, Resting
    <3>2. command' = command
      BY <2>2 DEF Poll
    <3>. QED BY <3>1, <3>2, <2>0
  <2>3. CASE Execute(a)
    <3>1. work'[a].batch = work[a].batch /\ work[a].batch # {} /\ UNCHANGED <<command, agent, helper>>
      BY <1>0, <2>0, <2>3 DEF Execute, Answer, Work
    <3>2. work'[a].at = "post" /\ work'[a].outcome = "done" => agent[a].build = "new"
      BY <1>0, <2>0, <2>3 DEF Execute, Answer, Work
    <3>. QED BY <3>1, <3>2, <2>0 DEF Tried
  <2>4. CASE ClearHelper(a)
    <3>1. work'[a].at = "launch" /\ work'[a].batch = work[a].batch /\ command[1][a] = "pending"
      BY <1>0, <2>0, <2>4 DEF ClearHelper, Work
    <3>. QED BY <3>1, <2>0, <2>4 DEF ClearHelper
  <2>5. CASE LaunchHelper(a)
    <3>1. /\ work'[a].batch = work[a].batch /\ work[a].batch # {} /\ command' = command
          /\ command[1][a] = "pending"
          /\ work'[a].outcome = "done" => helper'[a].at = "boot"
      BY <1>0, <2>0, <2>5 DEF LaunchHelper, Answer, Work, Helper
    <3>. QED BY <3>1, <2>0 DEF Tried
  <2>6. CASE Post(a)
    <3>1. work[a].batch = {1}
      BY <1>0, <2>0, <2>6 DEF Post, Work
    <3>2. First(a) = 1
      BY <3>1 DEF First
    <3>3. work'[a] = [Idle EXCEPT !.batch = {}]
      BY <1>0, <3>1, <3>2, <2>6 DEF Post
    <3>4. /\ command'[1][a] \in {work[a].outcome, "pending"} /\ command[1][a] = "pending"
          /\ UNCHANGED <<agent, helper>> /\ work[a].at = "post"
      BY <1>0, <2>0, <3>1, <3>2, <2>6 DEF Post
    <3>. QED BY <3>3, <3>4, <2>0 DEF Idle, Tried
  <2>7. CASE Crash(a) \/ Exit(a)
    <3>1. work'[a] = Idle /\ UNCHANGED <<command, helper>>
      BY <1>0, <2>7 DEF Crash, Exit
    <3>. QED BY <3>1, <2>0, <1>3 DEF Idle, Tried
  <2>8. CASE HelperStop(a)
    <3>1. helper'[a].at = "recreate" /\ UNCHANGED <<command, work>>
      BY <1>0, <2>8 DEF HelperStop
    <3>. QED BY <3>1, <2>0 DEF Tried
  <2>9. CASE HelperReplace(a)
    <3>1. agent'[a].build = "new" /\ UNCHANGED <<command, work>>
      BY <1>0, <2>9 DEF HelperReplace
    <3>. QED BY <3>1, <2>0 DEF Tried
  <2>10. CASE HelperFail(a)
    <3>1. helper'[a].at = "failed" /\ UNCHANGED <<command, work>>
      BY <1>0, <2>10 DEF HelperFail
    <3>. QED BY <3>1, <2>0 DEF Tried
  <2>11. CASE Redeploy(a)
    <3>1. agent'[a].build = "new" /\ work'[a] = Idle /\ UNCHANGED command
      BY <1>0, <2>11 DEF Redeploy
    <3>. QED BY <3>1, <2>0 DEF Tried, Idle
  <2>. QED BY <2>1, <2>2, <2>3, <2>4, <2>5, <2>6, <2>7, <2>8, <2>9, <2>10, <2>11 DEF AgentStep
<1>6. DigestsTrue'
  <2> SUFFICES ASSUME NEW b \in Agents
               PROVE  /\ digest'[b] \in Builds /\ (digest'[b] = "new" => agent'[b].build = "new")
                      /\ pc[1] # "rest" => from[1][b] \in Builds /\ (from[1][b] = "new" => digest'[b] = "new")
                      /\ pc[1] = "pass" /\ pass[1].listed[b] \notin {"none", from[1][b]}
                           => agent'[b].build = "new"
    BY <1>1 DEF DigestsTrue
  <2>1. CASE b = a
    BY <2>1, <1>3, <1>4 DEF TriedInv, DigestsTrue
  <2>2. CASE b # a
    BY <2>2, <1>2 DEF TriedInv, DigestsTrue
  <2>. QED BY <2>1, <2>2
<1>7. AnswersTrue'
  <2> SUFFICES ASSUME NEW b \in Agents
               PROVE  /\ pc[1] = "rest" => command'[1][b] = "none"
                      /\ work'[b].batch # {} => command'[1][b] = "pending"
                      /\ work'[b].at # "idle" => work'[b].batch # {}
                      /\ work'[b].at = "post" /\ work'[b].outcome = "done" => Tried(b)'
                      /\ command'[1][b] = "done" => Tried(b)'
    BY <1>1 DEF AnswersTrue
  <2>1. CASE b = a
    BY <2>1, <1>5
  <2>2. CASE b # a
    BY <2>2, <1>2 DEF TriedInv, AnswersTrue, Tried
  <2>. QED BY <2>1, <2>2
<1>8. RowsTrue'
  <2> SUFFICES ASSUME NEW b \in Agents, rows[1][b] = "updated"
               PROVE  agent'[b].build = "new" \/ command'[1][b] = "done"
    BY <1>1 DEF RowsTrue
  <2>1. CASE b = a
    BY <2>1, <1>3, <1>5 DEF TriedInv, RowsTrue
  <2>2. CASE b # a
    BY <2>2, <1>2 DEF TriedInv, RowsTrue
  <2>. QED BY <2>1, <2>2
<1>. QED BY <1>6, <1>7, <1>8

LEMMA StepTried == OneRun /\ TriedInv /\ [Next]_vars => TriedInv'
<1> SUFFICES ASSUME OneRun, TriedInv, [Next]_vars PROVE TriedInv'
  OBVIOUS
<1>1. RunInv' /\ AgentTypes'
  BY StepRun, StepAgents DEF TriedInv
<1>2. CASE UNCHANGED vars
  BY <1>1, <1>2 DEF vars, runVars, agentVars, TriedInv, DigestsTrue, AnswersTrue, RowsTrue, Tried
<1>3. CASE Next
  <2>1. \A r \in Runs : r = 1
    BY TheRun
  <2>. QED BY <1>1, <1>3, <2>1, RunTries, AgentTries DEF Next, TriedInv
<1>. QED BY <1>2, <1>3

\* When the controller is back on the new build, no agent that its run called
\* updated was left untried (selfupdate_run.go:270-338, agent.go:163-191): it is
\* on the new build, or its helper is at work or has failed.  Lost answers, an
\* answer after the agent's replacement, crashes, helpers that are removed while
\* at work and agents redeployed by hand included.
THEOREM NoAgentUntried == OneRun /\ DigestKnown => (Spec => []ControllerLast)
<1> SUFFICES ASSUME OneRun, DigestKnown PROVE Spec => []ControllerLast
  OBVIOUS
<1>1. TriedInv => ControllerLast
  <2>1. TriedInv => \A a \in Agents : rows[1][a] = "updated" => Tried(a)
    BY DEF TriedInv, AnswersTrue, RowsTrue, Tried
  <2>. QED BY <2>1, TheRun DEF ControllerLast, InRow, Tried
<1>. QED BY <1>1, InitTried, StepTried, PTL DEF Spec
=============================================================================
