------------------------------ MODULE SelfSwap ------------------------------
(***************************************************************************)
(* How the app replaces its own container: startSelfUpdate of              *)
(* internal/dockerx/selfupdate.go launches a helper container, and the     *)
(* helper runs the update of Recreate on the app's container.              *)
(*                                                                         *)
(* The containers of Recreate are the app's: the one the user created, and *)
(* its replacements.  Stopping one takes a while, and its process goes on  *)
(* meanwhile.  A job is launched by the process of one of them and driven  *)
(* by the helper; there is one helper at most, for there is one name.      *)
(***************************************************************************)
EXTENDS Recreate

CONSTANT OwnRow   \* the app's own container may be updated like any other

ASSUME OwnRowAssumption == OwnRow \in BOOLEAN

VARIABLES
  helper,     \* the job of the helper container, or "none"; "stale": one that never started
  host,       \* job -> the container whose process launched it
  leaving,    \* containers that were told to stop
  cutShort    \* history: a swap was ended in its middle, with whoever drove it

recreate == <<engine, requests, pc, insp, target, repl, started>>
swapVars == <<recreate, helper, host, leaving, cutShort>>

SwapInit ==
  /\ Init
  /\ running = {First}
  /\ helper = "none"
  /\ host = [j \in Jobs |-> First]
  /\ leaving = {}
  /\ cutShort = FALSE

\* A replacement gets the hostname of the original, so this is what each of them
\* takes for its own id.
SelfContainerID == First

Launching == {"prepare", "clear", "create helper", "start helper"}

SwapTypeOK ==
  /\ pc \in [Jobs -> Launching \cup Forward \cup Recovery \cup AtRest]
  /\ helper \in Jobs \cup {"none", "stale"}
  /\ host \in [Jobs -> Ids]
  /\ leaving \subseteq alive
  /\ cutShort \in BOOLEAN

\* The process that takes the next step of j still runs.
Alive(j) == (helper = j /\ pc[j] \notin Launching) \/ host[j] \in running

\* Faulty variant of Driven: the launching process does the swap itself.
Driven_ByApp(j) == pc[j] \notin Launching \cup AtRest /\ host[j] \in running

\* The helper is at work on j, or the app itself on its own row.
Driven(j) == pc[j] \notin Launching \cup AtRest /\ Alive(j)

-----------------------------------------------------------------------------
(* startSelfUpdate, in the process of one of the app's containers.         *)

Ask(j, i, label) ==
  /\ pc[j] \in AtRest /\ helper # j
  /\ requests < MaxRequests
  /\ requests' = requests + 1
  /\ insp' = [insp EXCEPT ![j].id = i, ![j].stamp = requests']
  /\ \E img \in Images : target' = [target EXCEPT ![j] = img]
  /\ repl' = [repl EXCEPT ![j] = 0]
  /\ GoTo(j, label)
  /\ UNCHANGED <<engine, started, helper, leaving, cutShort>>

Launch(j) ==
  /\ \E p \in running : host' = [host EXCEPT ![j] = p]
  /\ Ask(j, SelfContainerID, "prepare")

LaunchStep(j, label) ==
  /\ pc[j] = label
  /\ host[j] \in running
  /\ UNCHANGED <<engine, requests, insp, target, repl, started, host, leaving>>

\* Inspect the own container, pull, and compare the images.
Prepare(j) ==
  /\ LaunchStep(j, "prepare")
  /\ \E a \in Answers(SelfContainerID \in alive, Faults) :
       IF a # "ok" THEN GoTo(j, "failed")
       ELSE \/ GoTo(j, "clear")
            \/ image[SelfContainerID] = target[j] /\ GoTo(j, "done")
  /\ UNCHANGED <<helper, cutShort>>

\* A container that has the helper's name is removed, best effort, be it a
\* leftover or at work.
Clear(j) ==
  /\ LaunchStep(j, "clear")
  /\ LET busy == {k \in Jobs \ {j} : helper = k /\ Driven(k)}
         next_pc(killed) == [k \in Jobs |-> IF k = j THEN "create helper"
                                            ELSE IF k \in killed THEN "rest" ELSE pc[k]]
     IN
     \/ /\ helper' = "none"
        /\ pc' = next_pc(busy)
        /\ cutShort' = (cutShort \/ busy # {})
     \/ /\ Faults # {} /\ helper # "none"
        /\ pc' = next_pc({})
        /\ UNCHANGED <<helper, cutShort>>

CreateHelper(j) ==
  /\ LaunchStep(j, "create helper")
  /\ \E a \in Answers(helper = "none", Faults) :
       /\ helper' = CASE a = "ok" -> j [] a = "lost" -> "stale" [] OTHER -> helper
       /\ GoTo(j, IF a = "ok" THEN "start helper" ELSE "failed")
  /\ UNCHANGED cutShort

\* A helper that does not start is removed, best effort.
StartHelper(j) ==
  /\ LaunchStep(j, "start helper")
  /\ \E a \in Answers(helper = j, Faults), removed \in Answers(helper = j, Faults) :
       IF a = "ok" \/ (a = "lost" /\ removed = "refused")
       THEN GoTo(j, "inspect") /\ UNCHANGED helper
       ELSE /\ GoTo(j, "failed")
            /\ helper' = IF helper # j THEN helper ELSE IF TookEffect(removed) THEN "none" ELSE "stale"
  /\ UNCHANGED cutShort

\* The helper ends with its job, and the engine removes it.
HelperGone(j) ==
  /\ helper = j /\ pc[j] \in AtRest
  /\ helper' = "none"
  /\ UNCHANGED <<recreate, host, leaving, cutShort>>

\* handleRequestUpdate on the app's own row, in the process it is about.
UpdateOwnRow(j) ==
  /\ OwnRow
  /\ \E p \in running : host' = [host EXCEPT ![j] = p] /\ Ask(j, p, "inspect")

-----------------------------------------------------------------------------
(* The swap, and the app's processes.                                      *)

\* The engine tells the container to stop, and answers when it has: not to a
\* process of that container, which has ended by then.
TellStop(j) ==
  /\ Driven(j) /\ pc[j] = "stop"
  /\ insp[j].id \in alive \ leaving
  /\ leaving' = leaving \cup {insp[j].id}
  /\ UNCHANGED <<recreate, helper, host, cutShort>>

Swap(j) ==
  /\ Driven(j)
  /\ LET i == insp[j].id IN
       /\ Step(j)
       /\ pc[j] = "stop" /\ i \in leaving => helper = j
       /\ pc[j] = "stop" /\ i \in alive => (i \in leaving <=> i \notin running')
       /\ leaving' = IF pc[j] = "stop" THEN leaving \ {i} ELSE leaving
  /\ UNCHANGED <<helper, host, cutShort>>

\* A container that was told to stop does, whether or not the one who told it
\* still waits for the answer.
Exit(i) ==
  /\ i \in leaving
  /\ ~\E j \in Jobs : pc[j] = "stop" /\ insp[j].id = i /\ helper = j
  /\ StopEffect(i)
  /\ leaving' = leaving \ {i}
  /\ UNCHANGED <<name, image, next, requests, pc, insp, target, repl, started, helper, host, cutShort>>

\* What a process was at ends with it: an update of its own row, or a launch,
\* whose helper then does not start.
Die(j) ==
  /\ pc[j] \notin AtRest /\ ~Alive(j)
  /\ GoTo(j, "rest")
  /\ helper' = IF helper = j THEN "stale" ELSE helper
  /\ cutShort' = (cutShort \/ pc[j] \notin Launching)
  /\ UNCHANGED <<engine, requests, insp, target, repl, started, host, leaving>>

Launches(j) == Prepare(j) \/ Clear(j) \/ CreateHelper(j) \/ StartHelper(j)

Goes(j) == Launches(j) \/ HelperGone(j) \/ TellStop(j) \/ Swap(j) \/ Die(j)

SwapNext ==
  \/ \E j \in Jobs : Launch(j) \/ UpdateOwnRow(j) \/ Goes(j)
  \/ \E i \in Ids : Exit(i)

\* What was begun goes on: the helper and the app are scheduled, the engine
\* answers, and a container that was told to stop does.
SwapSpec ==
  /\ SwapInit /\ [][SwapNext]_swapVars
  /\ \A j \in Jobs : WF_swapVars(Goes(j))
  /\ \A i \in Ids : WF_swapVars(Exit(i))

-----------------------------------------------------------------------------
(* Properties.                                                             *)

\* The app goes down for the swap and comes back under its name, again and
\* again, whatever call is refused and whoever launches next (README.md: "the
\* app goes down for a few seconds and comes back on the new version, with the
\* same name").  It need not if a helper at its work was removed, or if the app
\* was updated by its own row and stopped itself.
AppComesBack ==
  []<>(cutShort \/ \E i \in running : name[i] = Base)

\* The same without that exception (recreate.go: "A failed update must never leave
\* a workload stopped").
AlwaysComesBack ==
  []<>(\E i \in running : name[i] = Base)

\* Two of the app's containers never run at the same time, on one database
\* (agent.go: what stops an agent from replacing the wrong thing).
NeverTwice == \A i, k \in running : i = k
=============================================================================
