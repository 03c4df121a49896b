------------------------------ MODULE Recreate ------------------------------
(***************************************************************************)
(* The classic container update of internal/dockerx/recreate.go: inspect,  *)
(* pull, stop, rename the original out of the way, create the replacement  *)
(* under its name, start it, remove the original; and the recovery taken   *)
(* when one of these calls fails.                                          *)
(*                                                                         *)
(* Each job is one run of recreateContainer, started by handleRequestUpdate*)
(* (or by an agent) in a goroutine of its own.  Every call to the Docker   *)
(* Engine is one step, so the calls of two jobs interleave.  The engine    *)
(* itself is external: a set of containers with a name, an image and a     *)
(* running flag, and for every call an answer that is "ok", "refused" (an  *)
(* error without effect) or "lost" (an error although the call took        *)
(* effect: the connection dropped, or the client gave up waiting).         *)
(***************************************************************************)
EXTENDS Integers, Sequences

CONSTANTS
  Jobs,           \* runs of recreateContainer that may be in flight together
  Images,         \* image references
  MaxIds,         \* bound: container ids the engine hands out
  MaxRequests,    \* bound: updates requested in one behaviour
  Faults,         \* ways a forward call may fail, a subset of {"refused", "lost"}
  RestoreFaults,  \* ways a call of the recovery may fail
  AutoRemove,     \* the workload was created with HostConfig.AutoRemove (--rm)
  CrashAt         \* the calls before which the process that runs a job may end

Forward  == {"inspect", "pull", "stop", "rename", "create", "start", "remove"}
Recovery == {"cleanup", "restoreName", "restoreStart"}
AtRest   == {"rest", "done", "failed"}

ASSUME BoundsAssumption  == MaxIds \in Nat \ {0} /\ MaxRequests \in Nat
ASSUME FaultsAssumption  == /\ Faults \subseteq {"refused", "lost"}
                            /\ RestoreFaults \subseteq {"refused", "lost"}
ASSUME PolicyAssumption  == AutoRemove \in BOOLEAN /\ CrashAt \subseteq Forward \cup Recovery

VARIABLES
  alive,      \* ids of the containers that exist
  running,    \* those of them that run
  name,       \* id -> name
  image,      \* id -> image reference
  next,       \* the id the engine hands out next
  requests,   \* updates requested so far; the clock that stamps backup names
  pc,         \* job -> the call it makes next, or "rest", "done", "failed"
  insp,       \* job -> what its ContainerInspect returned
  target,     \* job -> targetImage
  repl,       \* job -> created.ID, 0 before ContainerCreate answered
  started     \* history: replacements whose ContainerStart answered ok

engine == <<alive, running, name, image, next>>
vars   == <<alive, running, name, image, next, requests, pc, insp, target, repl, started>>

Ids   == 1..MaxIds
First == 1                       \* the workload as the user created it
Base  == <<>>                    \* its name; a backup of n is Append(n, stamp)
Names == Seq(Nat)

Inspection == [id : Ids, name : Names, image : Images, up : BOOLEAN, stamp : Nat]

TypeOK ==
  /\ alive \subseteq Ids
  /\ running \subseteq alive
  /\ name \in [Ids -> Names]
  /\ image \in [Ids -> Images]
  /\ next \in 2..(MaxIds + 1)
  /\ \A i \in alive : i < next
  /\ requests \in 0..MaxRequests
  /\ pc \in [Jobs -> Forward \cup Recovery \cup AtRest]
  /\ insp \in [Jobs -> Inspection]
  /\ target \in [Jobs -> Images]
  /\ repl \in [Jobs -> 0..MaxIds]
  /\ started \subseteq Ids

Init ==
  /\ alive = {First}
  /\ running \in {{}, {First}}
  /\ name = [i \in Ids |-> Base]
  /\ \E img \in Images :
       /\ image = [i \in Ids |-> img]
       /\ insp = [j \in Jobs |-> [id |-> First, name |-> Base, image |-> img,
                                  up |-> FALSE, stamp |-> 0]]
       /\ target = [j \in Jobs |-> img]
  /\ next = 2
  /\ requests = 0
  /\ pc = [j \in Jobs |-> "rest"]
  /\ repl = [j \in Jobs |-> 0]
  /\ started = {}

-----------------------------------------------------------------------------
(* The engine's side of a call.                                            *)

\* How the engine may answer a call that it can serve only when legal holds.
Answers(legal, faults) ==
  IF legal THEN {"ok"} \cup faults ELSE {"refused"}

TookEffect(a) == a \in {"ok", "lost"}

NameFree(n, i) == \A k \in alive \ {i} : name[k] # n

\* Stopping a container started with --rm also deletes it.
StopEffect(i) ==
  /\ running' = running \ {i}
  /\ alive' = IF AutoRemove /\ i \in running THEN alive \ {i} ELSE alive

RemoveEffect(i) ==
  /\ running' = running \ {i}
  /\ alive' = alive \ {i}

GoTo(j, label) == pc' = [pc EXCEPT ![j] = label]

\* Faulty variant of AfterName: the original is started even if it did not run.
AfterName_AlwaysStarts(j) == "restoreStart"

\* restore() starts the original only if it ran; then the failure is reported.
AfterName(j) == IF insp[j].up THEN "restoreStart" ELSE "failed"

-----------------------------------------------------------------------------
(* The steps of a job.                                                     *)

\* handleRequestUpdate starts a goroutine for a container the inventory lists.
\* The id may be stale: the container it names may since have been replaced.
Request(j) ==
  /\ pc[j] \in AtRest
  /\ requests < MaxRequests
  /\ requests' = requests + 1
  /\ \E i \in 1..(next - 1), img \in Images :
       /\ insp' = [insp EXCEPT ![j].id = i, ![j].stamp = requests']
       /\ target' = [target EXCEPT ![j] = img]
  /\ repl' = [repl EXCEPT ![j] = 0]
  /\ GoTo(j, "inspect")
  /\ UNCHANGED <<engine, started>>

Inspect(j) ==
  /\ pc[j] = "inspect"
  /\ LET i == insp[j].id IN
       \E a \in Answers(i \in alive, Faults) :
         IF a = "ok"
         THEN /\ insp' = [insp EXCEPT ![j].name = name[i], ![j].image = image[i],
                                      ![j].up = i \in running]
              /\ GoTo(j, "pull")
         ELSE /\ GoTo(j, "failed")
              /\ UNCHANGED insp
  /\ UNCHANGED <<engine, requests, target, repl, started>>

PullThen(j, next_call) ==
  /\ pc[j] = "pull"
  /\ \E a \in Answers(TRUE, Faults) : GoTo(j, IF a = "ok" THEN next_call ELSE "failed")
  /\ UNCHANGED <<engine, requests, insp, target, repl, started>>

\* Faulty variant of Pull: the original is not stopped first.
Pull_SkipsStop(j) == PullThen(j, "rename")

\* The image is pulled before the container is touched; only a running one is stopped.
Pull(j) == PullThen(j, IF insp[j].up THEN "stop" ELSE "rename")

\* A failed stop returns at once: restore() is not defined yet.
Stop(j) ==
  /\ pc[j] = "stop"
  /\ \E a \in Answers(insp[j].id \in alive, Faults) :
       /\ IF TookEffect(a) THEN StopEffect(insp[j].id) ELSE UNCHANGED <<alive, running>>
       /\ GoTo(j, IF a = "ok" THEN "rename" ELSE "failed")
  /\ UNCHANGED <<name, image, next, requests, insp, target, repl, started>>

Rename(j) ==
  LET i == insp[j].id
      backup == Append(insp[j].name, insp[j].stamp)
  IN
  /\ pc[j] = "rename"
  /\ \E a \in Answers(i \in alive /\ NameFree(backup, i), Faults) :
       /\ name' = IF TookEffect(a) THEN [name EXCEPT ![i] = backup] ELSE name
       /\ GoTo(j, IF a = "ok" THEN "create" ELSE AfterName(j))
  /\ UNCHANGED <<alive, running, image, next, requests, insp, target, repl, started>>

\* ContainerCreate of a container with image img under the original name; on an
\* error the job goes on at onError.
CreateOr(j, img, onError) ==
  /\ pc[j] = "create"
  /\ next <= MaxIds
  /\ \E a \in Answers(NameFree(insp[j].name, 0), Faults) :
       /\ IF TookEffect(a)
          THEN /\ alive' = alive \cup {next}
               /\ name' = [name EXCEPT ![next] = insp[j].name]
               /\ image' = [image EXCEPT ![next] = img]
               /\ next' = next + 1
          ELSE UNCHANGED <<alive, name, image, next>>
       /\ IF a = "ok"
          THEN repl' = [repl EXCEPT ![j] = next] /\ GoTo(j, "start")
          ELSE GoTo(j, onError) /\ UNCHANGED repl
  /\ UNCHANGED <<running, requests, insp, target, started>>

\* Faulty variants of Create: restore() does not rename the original back;
\* newConfig.Image stays as inspected.
Create_KeepsBackupName(j) == CreateOr(j, target[j], AfterName(j))
Create_OldImage(j)        == CreateOr(j, insp[j].image, "restoreName")

Create(j) == CreateOr(j, target[j], "restoreName")

\* ContainerStart of the replacement; on an error the job goes on at onError.
StartOr(j, onError) ==
  /\ pc[j] = "start"
  /\ \E a \in Answers(repl[j] \in alive, Faults) :
       /\ running' = IF TookEffect(a) THEN running \cup {repl[j]} ELSE running
       /\ started' = IF a = "ok" THEN started \cup {repl[j]} ELSE started
       /\ GoTo(j, IF a = "ok" THEN "remove" ELSE onError)
  /\ UNCHANGED <<alive, name, image, next, requests, insp, target, repl>>

\* Faulty variants of Start: the error is ignored and the original dropped; the
\* replacement that failed to start is left behind.
Start_IgnoresError(j) == StartOr(j, "remove")
Start_NoCleanup(j)    == StartOr(j, "restoreName")

Start(j) == StartOr(j, "cleanup")

\* Best effort: the update is reported done whatever the answer.
Remove(j) ==
  /\ pc[j] = "remove"
  /\ \E a \in Answers(insp[j].id \in alive, Faults) :
       IF TookEffect(a) THEN RemoveEffect(insp[j].id) ELSE UNCHANGED <<alive, running>>
  /\ GoTo(j, "done")
  /\ UNCHANGED <<name, image, next, requests, insp, target, repl, started>>

\* The replacement that would not start is force-removed, best effort.
Cleanup(j) ==
  /\ pc[j] = "cleanup"
  /\ \E a \in Answers(repl[j] \in alive, RestoreFaults) :
       IF TookEffect(a) THEN RemoveEffect(repl[j]) ELSE UNCHANGED <<alive, running>>
  /\ GoTo(j, "restoreName")
  /\ UNCHANGED <<name, image, next, requests, insp, target, repl, started>>

RestoreName(j) ==
  LET i == insp[j].id IN
  /\ pc[j] = "restoreName"
  /\ \E a \in Answers(i \in alive /\ NameFree(insp[j].name, i), RestoreFaults) :
       name' = IF TookEffect(a) THEN [name EXCEPT ![i] = insp[j].name] ELSE name
  /\ GoTo(j, AfterName(j))
  /\ UNCHANGED <<alive, running, image, next, requests, insp, target, repl, started>>

\* Faulty variant of RestoreStart: it starts the replacement just removed.
RestoreStart_WrongId(j) ==
  /\ pc[j] = "restoreStart"
  /\ \E a \in Answers(insp[j].id \in alive, RestoreFaults) :
       running' = IF TookEffect(a) THEN running \cup {repl[j]} ELSE running
  /\ GoTo(j, "failed")
  /\ UNCHANGED <<alive, name, image, next, requests, insp, target, repl, started>>

RestoreStart(j) ==
  LET i == insp[j].id IN
  /\ pc[j] = "restoreStart"
  /\ \E a \in Answers(i \in alive, RestoreFaults) :
       running' = IF TookEffect(a) THEN running \cup {i} ELSE running
  /\ GoTo(j, "failed")
  /\ UNCHANGED <<alive, name, image, next, requests, insp, target, repl, started>>

\* The process that runs the job ends: a shutdown does not wait for it, an update
\* of an agent's or the controller's own container stops it, the next self-update
\* removes the helper.  Nothing of a job is persisted, so nothing takes it up again.
Crash(j) ==
  /\ pc[j] \in CrashAt
  /\ GoTo(j, "rest")
  /\ UNCHANGED <<engine, requests, insp, target, repl, started>>

\* The user starts or stops a container while no update is in flight.
Toggle(i) ==
  /\ \A j \in Jobs : pc[j] \in AtRest
  /\ i \in alive
  /\ \/ i \in running /\ StopEffect(i)
     \/ i \notin running /\ running' = running \cup {i} /\ UNCHANGED alive
  /\ UNCHANGED <<name, image, next, requests, pc, insp, target, repl, started>>

Step(j) ==
  \/ Inspect(j) \/ Pull(j) \/ Stop(j) \/ Rename(j) \/ Create(j) \/ Start(j) \/ Remove(j)
  \/ Cleanup(j) \/ RestoreName(j) \/ RestoreStart(j)

Next ==
  \/ \E j \in Jobs : Request(j) \/ Step(j) \/ Crash(j)
  \/ \E i \in Ids : Toggle(i)

Spec == Init /\ [][Next]_vars

-----------------------------------------------------------------------------
(* Safety.                                                                 *)

InFlight(j) == pc[j] \notin AtRest
Ends(j, label) == pc[j] # label /\ pc'[j] = label

\* At every moment, whatever calls fail, however many updates run on it and
\* wherever the process that runs one ends, the workload exists: the original, or
\* a replacement the engine did start.  It is what makes "pull, then create, then
\* remove" the right order.
NeverLost ==
  ~AutoRemove => \E i \in alive : i = First \/ i \in started

\* The original and the replacement of one update never run together: they
\* would share volumes and published ports.
NeverBothRunning ==
  \A j \in Jobs : InFlight(j) => ~(repl[j] \in running /\ insp[j].id \in running)

\* Whenever no update is in flight some container carries the workload's name.
\* Others reach it by that name: a proxy, a network alias, the next update.
NameKept ==
  (\A j \in Jobs : ~InFlight(j)) => \E i \in alive : name[i] = Base

\* A failed update puts the original back under its name, in the running state
\* it was found in, and leaves no replacement behind (recreateDirect: "Every
\* failure after the stop restores the original container").
Restored(j) ==
  /\ insp[j].id \in alive
  /\ name[insp[j].id] = insp[j].name
  /\ insp[j].up <=> insp[j].id \in running
  /\ repl[j] \notin alive

FailureStep ==
  \A j \in Jobs : Ends(j, "failed") /\ pc[j] # "inspect" => Restored(j)'

FailureRestores == [][FailureStep]_vars

\* A failed update never leaves a workload that ran stopped: something of it
\* still runs, the original or a replacement.
FailureKeepsRunning ==
  [][\A j \in Jobs : Ends(j, "failed") /\ pc[j] # "inspect" /\ insp[j].up
                        => running' # {}]_vars

\* An update reported done has its replacement running the target image under
\* the name of the original, and the original neither runs nor holds that name.
Replaced(j) ==
  /\ repl[j] \in running
  /\ name[repl[j]] = insp[j].name
  /\ image[repl[j]] = target[j]
  /\ insp[j].id \notin running
  /\ insp[j].id \in alive => name[insp[j].id] # insp[j].name

SuccessStep == \A j \in Jobs : Ends(j, "done") => Replaced(j)'

SuccessReplaces == [][SuccessStep]_vars

\* Updating a container that was not running does not leave it running.
StoppedStaysStopped ==
  [][\A j \in Jobs : Ends(j, "done") /\ ~insp[j].up => repl[j] \notin running']_vars

-----------------------------------------------------------------------------
(* One update at a time implements the all-or-nothing contract.  While an   *)
(* update is between its stop and its commit, the contract sees the        *)
(* workload as the inspection found it.                                    *)

Seen(i) == [name |-> name[i], image |-> image[i], up |-> i \in running]

Covered == {j \in Jobs : pc[j] \in {"rename", "create", "start"} \cup Recovery}
Hidden  == {insp[j].id : j \in Covered \cup {k \in Jobs : pc[k] = "remove"}}
             \cup {repl[j] : j \in Covered}

Workloads ==
  {Seen(i) : i \in alive \ Hidden}
    \cup {[name |-> insp[j].name, image |-> insp[j].image, up |-> insp[j].up] : j \in Covered}

Phase ==
  IF \A j \in Jobs : pc[j] \in AtRest THEN "idle"
  ELSE IF \E j \in Jobs : pc[j] = "remove" THEN "committed" ELSE "open"

Contract == INSTANCE UpdateContract WITH workloads <- Workloads, phase <- Phase

\* Every behaviour of recreateDirect is one of the all-or-nothing contract.
ImplementsContract == Contract!Spec
=============================================================================
