------------------------------ MODULE AgentQueue ------------------------------
(***************************************************************************)
(* Container updates on a host with an agent: the command queue of         *)
(* internal/store/extra.go, its HTTP handlers in                           *)
(* internal/server/agent_handlers.go, and the loop of                      *)
(* internal/agent/agent.go that polls it.                                  *)
(*                                                                         *)
(* A command stays pending until an answer to it is recorded, so an agent  *)
(* that crashes, or whose answer is lost, executes it again.  A command    *)
(* names a container by its Docker id, and a container that was updated    *)
(* is removed: that is all that keeps an update from running twice.  The   *)
(* removal may fail, though, without failing the update; what it leaves is *)
(* stopped, reported, and updated again by whoever names it.               *)
(*                                                                         *)
(* Nobody but the agent starts, stops or removes containers, and no answer *)
(* of the engine is lost (Recreate has those).                             *)
(***************************************************************************)
EXTENDS Integers, FiniteSets, Functions

CONSTANTS
  Workloads,    \* the workloads on the agent's host, one container each
  MaxIds,       \* bound: Docker ids in one behaviour
  MaxCommands,  \* bound: commands queued in one behaviour
  MaxLosses,    \* bound: answers lost, and crashes of the agent
  StoreFails    \* whether a command may fail to be stored

ASSUME QueueAssumption ==
  /\ IsFiniteSet(Workloads)
  /\ MaxIds \in Nat /\ MaxCommands \in Nat /\ MaxLosses \in Nat
  /\ StoreFails \in BOOLEAN
  /\ MaxIds > Cardinality(Workloads)

Ids      == 1..MaxIds
Commands == 1..MaxCommands

VARIABLES
  next,       \* the next Docker id
  of,         \* Docker id -> the workload of its container
  there,      \* Docker ids of the containers that exist
  alive,      \* those of them that run
  listed,     \* Docker ids with a row in the controller's containers table
  job,        \* Docker id -> updateJob.Status of its row, "none" without a job
  queued,     \* commands created so far
  on,         \* command -> Docker id it names
  status,     \* command -> its status in the commands table
  batch,      \* commands the agent fetched and has not answered, taken by age
  answer,     \* the answer it is about to post, or "none"
  losses,     \* answers lost and crashes so far
  made,       \* history: command -> Docker ids it has put in place of the one it names
  left        \* history: those that left the container they replaced where it was

hostState == <<next, of, there, alive, made, left>>
queueing  == <<hostState, listed, job, queued, on, status, batch, answer, losses>>

\* ListPendingCommands.
Pending == {c \in Commands : status[c] = "pending"}

QueueTypeOK ==
  /\ next \in 1..(MaxIds + 1)
  /\ of \in [1..(next - 1) -> Workloads]
  /\ alive \subseteq there /\ there \subseteq 1..(next - 1)
  /\ listed \subseteq 1..(next - 1)
  /\ job \in [Ids -> {"none", "queued", "done", "failed"}]
  /\ queued \in 0..MaxCommands
  /\ on \in [Commands -> Ids]
  /\ \A c \in Commands : c <= queued => on[c] < next
  /\ status \in [Commands -> {"none", "pending", "done", "failed"}]
  /\ batch \subseteq Pending
  /\ answer \in {"none", "done", "failed"}
  /\ answer # "none" => batch # {}
  /\ losses \in 0..MaxLosses
  /\ made \in [Commands -> SUBSET (1..(next - 1))]
  /\ left \subseteq 1..(next - 1)

QueueInit ==
  /\ next = Cardinality(Workloads) + 1
  /\ of \in Bijection(1..Cardinality(Workloads), Workloads)
  /\ there = 1..Cardinality(Workloads)
  /\ alive = there
  /\ listed = there
  /\ job = [i \in Ids |-> "none"]
  /\ queued = 0
  /\ on = [c \in Commands |-> 1]
  /\ status = [c \in Commands |-> "none"]
  /\ batch = {}
  /\ answer = "none"
  /\ losses = 0
  /\ made = [c \in Commands |-> {}]
  /\ left = {}

agentState == <<batch, answer>>
queueState == <<queued, on, status>>

-----------------------------------------------------------------------------
(* The controller.                                                         *)

\* handleRequestUpdate for a container of an agent: a job, then a command.  A
\* command that cannot be stored leaves the job behind.
Request(i) ==
  /\ i \in listed
  /\ queued < MaxCommands
  /\ job' = [job EXCEPT ![i] = "queued"]
  /\ \/ /\ queued' = queued + 1
        /\ on' = [on EXCEPT ![queued'] = i]
        /\ status' = [status EXCEPT ![queued'] = "pending"]
     \/ /\ StoreFails
        /\ job[i] # "queued"
        /\ UNCHANGED queueState
  /\ UNCHANGED <<listed, losses, agentState, hostState>>

\* The controller restarts: commands are stored, jobs are not.
ControllerRestarts ==
  /\ \E i \in Ids : job[i] # "none"
  /\ job' = [i \in Ids |-> "none"]
  /\ UNCHANGED <<listed, losses, agentState, hostState, queueState>>

-----------------------------------------------------------------------------
(* The agent: it reports, or executes the commands it fetched, in turn.    *)

Resting == batch = {} /\ answer = "none"

\* Commands are listed, and taken, in order of creation.
First(c) == c \in batch /\ \A d \in batch : c <= d

\* A report replaces the rows of the server by the containers that exist, those
\* that an update left behind among them.
Report ==
  /\ Resting
  /\ listed' = there
  /\ UNCHANGED <<job, losses, agentState, hostState, queueState>>

Poll ==
  /\ Resting
  /\ Pending # {}
  /\ batch' = Pending
  /\ UNCHANGED <<answer, listed, job, losses, hostState, queueState>>

\* The Engine makes another container like i.
Create(i) ==
  /\ next <= MaxIds
  /\ next' = next + 1
  /\ of' = [j \in 1..next |-> IF j = next THEN of[i] ELSE of[j]]

\* Container i is stopped and a new one runs in its place; i is removed last.
Replace(c, i, removed) ==
  /\ Create(i)
  /\ there' = (there \ (IF removed THEN {i} ELSE {})) \cup {next}
  /\ alive' = (alive \ {i}) \cup {next}
  /\ made' = [made EXCEPT ![c] = @ \cup {next}]
  /\ left' = left \cup (IF removed THEN {} ELSE {next})

\* The update of i ends halfway: i was stopped, and not started again by the undo
\* if any; a new container that does not run was left behind (see Recreate).
Halfway(i) ==
  /\ alive' \in {alive, alive \ {i}}
  /\ \/ UNCHANGED <<next, of, there>>
     \/ Create(i) /\ there' = there \cup {next}
  /\ UNCHANGED <<made, left>>

\* RecreateContainer.  The error of the removal is ignored.
Recreate(c, i) == (\E removed \in BOOLEAN : Replace(c, i, removed)) /\ answer' = "done"

\* Faulty variant of OnItsContainer: the container is found by its workload.
OnItsContainer_ByName(c) ==
  UNCHANGED batch /\ \E i \in alive : of[i] = of[on[c]] /\ Recreate(c, i)

OnItsContainer(c) == UNCHANGED batch /\ on[c] \in there /\ Recreate(c, on[c])

Refused(c) == UNCHANGED hostState \/ (on[c] \in there /\ Halfway(on[c]))

\* Faulty variants of Refuse: the error is not passed on; a command whose
\* container is gone is passed over.
Refuse_AsDone(c) == answer' = "done" /\ UNCHANGED batch /\ Refused(c)
Refuse_PassesOver(c) == batch' = batch \ {c} /\ UNCHANGED <<answer, hostState>>

\* The update fails, or there is no such container.
Refuse(c) == answer' = "failed" /\ UNCHANGED batch /\ Refused(c)

Execute ==
  /\ answer = "none"
  /\ \E c \in batch : First(c) /\ (OnItsContainer(c) \/ Refuse(c))
  /\ UNCHANGED <<listed, job, losses, queueState>>

\* Post the answer.  handleAgentCommandResult records it if the command is still
\* pending, and sets the job if the container still has its row.
Recorded(c, result) ==
  IF status[c] = "pending"
  THEN /\ status' = [status EXCEPT ![c] = result]
       /\ job' = IF on[c] \in listed THEN [job EXCEPT ![on[c]] = result] ELSE job
  ELSE UNCHANGED <<status, job>>

Post ==
  /\ answer # "none"
  /\ \E c \in batch : First(c) /\ Recorded(c, answer) /\ batch' = batch \ {c}
  /\ answer' = "none"
  /\ UNCHANGED <<listed, losses, queued, on, hostState>>

\* The answer does not arrive: the agent logs it and goes on.
Lose ==
  /\ answer # "none"
  /\ losses < MaxLosses
  /\ losses' = losses + 1
  /\ \E c \in batch : First(c) /\ batch' = batch \ {c}
  /\ answer' = "none"
  /\ UNCHANGED <<listed, job, hostState, queueState>>

\* The agent crashes, perhaps in the middle of an update, and restarts: what it
\* fetched is forgotten.
Crash ==
  /\ ~Resting
  /\ losses < MaxLosses
  /\ losses' = losses + 1
  /\ batch' = {}
  /\ answer' = "none"
  /\ \/ UNCHANGED hostState
     \/ /\ answer = "none"
        /\ \E c \in batch : First(c) /\ on[c] \in there /\ (Halfway(on[c]) \/ Replace(c, on[c], FALSE))
  /\ UNCHANGED <<listed, job, queueState>>

QueueNext ==
  \/ \E i \in Ids : Request(i)
  \/ ControllerRestarts \/ Report \/ Poll \/ Execute \/ Post \/ Lose \/ Crash

QueueSpec == QueueInit /\ [][QueueNext]_queueing

\* The agent's loop keeps running and its polls and answers get through again.
QueueFairSpec == QueueSpec /\ WF_queueing(Poll) /\ WF_queueing(Execute) /\ WF_queueing(Post)

-----------------------------------------------------------------------------
(* Properties.                                                             *)

\* A container is replaced once, however many commands name it and however often
\* each is executed: of two containers put in its place, the first left it where
\* it was.
AtMostOnce ==
  \A c, d \in Commands : \A i \in made[c], j \in made[d] :
    on[c] = on[d] /\ i < j => i \in left

\* A command answered "done" has put a container in the place of the one it names,
\* which does not run any more, and its workload still has a newer one.
DoneMeansReplaced ==
  \A c \in Commands : status[c] = "done" =>
    /\ made[c] # {}
    /\ on[c] \notin alive
    /\ \E i \in there : i > on[c] /\ of[i] = of[on[c]]

\* Every command is answered in the end, whatever is lost in between: whether
\* the container it names still exists or not.
EveryCommandAnswered ==
  \A c \in Commands : status[c] = "pending" ~> status[c] \in {"done", "failed"}

\* Once every command on a container is answered, its job is not shown as queued
\* any more (agent_handlers.go: so the UI can surface completion).
JobSettles ==
  \A i \in Ids :
    (\E c \in Commands : status[c] # "none" /\ on[c] = i) /\ job[i] = "queued"
      => \E c \in Commands : on[c] = i /\ status[c] = "pending"
=============================================================================
