--------------------------- MODULE RecreateProofs ---------------------------
(***************************************************************************)
(* Theorems about Recreate, for any set of jobs, any images and any bounds.*)
(***************************************************************************)
EXTENDS SelfSwap, TLAPS

-----------------------------------------------------------------------------
(* Type correctness.                                                       *)

LEMMA InitType == Init => TypeOK
BY BoundsAssumption
   DEF Init, TypeOK, Ids, First, Base, Names, Inspection, Forward, Recovery, AtRest

LEMMA BackupIsName ==
  ASSUME NEW n \in Names, NEW k \in Nat
  PROVE  Append(n, k) \in Names /\ Append(n, k) # n
BY DEF Names

\* The type of the state, where a job is at one of the given labels: SelfSwap has
\* more of them.
Typed(labels) ==
  /\ alive \subseteq Ids
  /\ running \subseteq alive
  /\ name \in [Ids -> Names]
  /\ image \in [Ids -> Images]
  /\ next \in 2..(MaxIds + 1)
  /\ \A i \in alive : i < next
  /\ requests \in 0..MaxRequests
  /\ pc \in [Jobs -> labels]
  /\ insp \in [Jobs -> Inspection]
  /\ target \in [Jobs -> Images]
  /\ repl \in [Jobs -> 0..MaxIds]
  /\ started \subseteq Ids

LEMMA TypeIsTyped == TypeOK <=> Typed(Forward \cup Recovery \cup AtRest)
BY DEF TypeOK, Typed

LEMMA StepTyped ==
  ASSUME NEW labels, Forward \cup Recovery \cup AtRest \subseteq labels, Typed(labels), [Next]_vars
  PROVE  Typed(labels)'
<1> USE DEF engine
<1>1. ASSUME NEW j \in Jobs, Request(j) PROVE Typed(labels)'
  <2>1. PICK i \in 1..(next - 1), img \in Images :
          /\ insp' = [insp EXCEPT ![j].id = i, ![j].stamp = requests']
          /\ target' = [target EXCEPT ![j] = img]
    BY <1>1 DEF Request
  <2>2. i \in Ids /\ requests' \in 0..MaxRequests
    BY <1>1, BoundsAssumption DEF Request, Typed, Ids
  <2>3. insp' \in [Jobs -> Inspection]
    <3>1. insp[j] \in Inspection /\ requests' \in Nat
      BY <2>2, BoundsAssumption DEF Typed
    <3>2. [insp[j] EXCEPT !.id = i, !.stamp = requests'] \in Inspection
      BY <2>2, <3>1 DEF Inspection
    <3>. QED BY <2>1, <3>2 DEF Typed
  <2>4. pc' \in [Jobs -> labels]
    BY <1>1 DEF Request, Typed, GoTo, Forward
  <2>. QED BY <1>1, <2>1, <2>2, <2>3, <2>4, BoundsAssumption DEF Request, Typed
<1>2. ASSUME NEW j \in Jobs, Inspect(j) PROVE Typed(labels)'
  <2>1. insp' \in [Jobs -> Inspection]
    <3>1. insp[j] \in Inspection /\ name[insp[j].id] \in Names /\ image[insp[j].id] \in Images
      BY DEF Typed, Inspection
    <3>2. (insp[j].id \in running) \in BOOLEAN
      OBVIOUS
    <3>3. \A up \in BOOLEAN :
            [insp[j] EXCEPT !.name = name[insp[j].id], !.image = image[insp[j].id],
                            !.up = up] \in Inspection
      BY <3>1 DEF Inspection
    <3>. QED BY <1>2, <3>2, <3>3 DEF Inspect, Typed
  <2>2. pc' \in [Jobs -> labels]
    BY <1>2 DEF Inspect, Typed, GoTo, Forward, AtRest
  <2>. QED BY <1>2, <2>1, <2>2 DEF Inspect, Typed
<1>3. ASSUME NEW j \in Jobs, Pull(j) PROVE Typed(labels)'
  <2>1. pc' \in [Jobs -> labels]
    BY <1>3 DEF Pull, PullThen, Typed, GoTo, Forward, AtRest
  <2>. QED BY <1>3, <2>1 DEF Pull, PullThen, Typed
<1>4. ASSUME NEW j \in Jobs, Stop(j) PROVE Typed(labels)'
  <2>1. pc' \in [Jobs -> labels]
    BY <1>4 DEF Stop, Typed, GoTo, Forward, AtRest
  <2>2. running' \subseteq alive' /\ alive' \subseteq alive
    BY <1>4 DEF Stop, StopEffect, Typed
  <2>. QED BY <1>4, <2>1, <2>2 DEF Stop, Typed
<1>5. ASSUME NEW j \in Jobs, Rename(j) PROVE Typed(labels)'
  <2>1. pc' \in [Jobs -> labels]
    BY <1>5 DEF Rename, AfterName, Typed, GoTo, Forward, Recovery, AtRest
  <2>2. Append(insp[j].name, insp[j].stamp) \in Names
    BY BackupIsName DEF Typed, Inspection
  <2>3. name' \in [Ids -> Names]
    BY <1>5, <2>2 DEF Rename, Typed
  <2>. QED BY <1>5, <2>1, <2>3 DEF Rename, Typed
<1>6. ASSUME NEW j \in Jobs, Create(j) PROVE Typed(labels)'
  <2>1. pc' \in [Jobs -> labels]
    BY <1>6 DEF Create, CreateOr, Typed, GoTo, Forward, Recovery
  <2>2. next \in Ids /\ insp[j].name \in Names
    BY <1>6, BoundsAssumption DEF Create, CreateOr, Typed, Ids, Inspection
  <2>7. \/ alive' = alive \cup {next} /\ next' = next + 1
        \/ alive' = alive /\ next' = next
    BY <1>6 DEF Create, CreateOr
  <2>3. alive' \subseteq Ids /\ alive \subseteq alive' /\ next' \in 2..(MaxIds + 1)
    <3>1. CASE alive' = alive \cup {next} /\ next' = next + 1
      BY <2>2, <3>1, BoundsAssumption DEF Typed, Ids
    <3>2. CASE alive' = alive /\ next' = next
      BY <3>2 DEF Typed
    <3>. QED BY <2>7, <3>1, <3>2
  <2>4. \A i \in alive' : i < next'
    <3>1. CASE alive' = alive \cup {next} /\ next' = next + 1
      BY <2>2, <3>1, BoundsAssumption DEF Typed, Ids
    <3>2. CASE alive' = alive /\ next' = next
      BY <3>2 DEF Typed
    <3>. QED BY <2>7, <3>1, <3>2
  <2>5. name' \in [Ids -> Names] /\ image' \in [Ids -> Images]
    BY <1>6, <2>2 DEF Create, CreateOr, Typed
  <2>6. repl' \in [Jobs -> 0..MaxIds]
    <3>1. repl' = [repl EXCEPT ![j] = next] \/ repl' = repl
      BY <1>6 DEF Create, CreateOr
    <3>2. next \in 0..MaxIds /\ repl \in [Jobs -> 0..MaxIds]
      BY <2>2, BoundsAssumption DEF Typed, Ids
    <3>. QED BY <3>1, <3>2
  <2>. QED BY <1>6, <2>1, <2>3, <2>4, <2>5, <2>6 DEF Create, CreateOr, Typed
<1>7. ASSUME NEW j \in Jobs, Start(j) PROVE Typed(labels)'
  <2>1. pc' \in [Jobs -> labels]
    BY <1>7 DEF Start, StartOr, Typed, GoTo, Forward, Recovery
  <2>2. PICK a \in Answers(repl[j] \in alive, Faults) :
          /\ running' = IF TookEffect(a) THEN running \cup {repl[j]} ELSE running
          /\ started' = IF a = "ok" THEN started \cup {repl[j]} ELSE started
          /\ GoTo(j, IF a = "ok" THEN "remove" ELSE "cleanup")
    BY <1>7 DEF Start, StartOr
  <2>3. TookEffect(a) => repl[j] \in alive
    BY <2>2, FaultsAssumption DEF Answers, TookEffect
  <2>4. running' \subseteq alive /\ started' \subseteq Ids
    BY <2>2, <2>3 DEF Typed, TookEffect
  <2>. QED BY <1>7, <2>1, <2>4 DEF Start, StartOr, Typed
<1>8. ASSUME NEW j \in Jobs, Remove(j) PROVE Typed(labels)'
  <2>1. pc' \in [Jobs -> labels]
    BY <1>8 DEF Remove, Typed, GoTo, AtRest
  <2>2. running' \subseteq alive' /\ alive' \subseteq alive
    BY <1>8 DEF Remove, RemoveEffect, Typed
  <2>. QED BY <1>8, <2>1, <2>2 DEF Remove, Typed
<1>9. ASSUME NEW j \in Jobs, Cleanup(j) PROVE Typed(labels)'
  <2>1. pc' \in [Jobs -> labels]
    BY <1>9 DEF Cleanup, Typed, GoTo, Recovery
  <2>2. running' \subseteq alive' /\ alive' \subseteq alive
    BY <1>9 DEF Cleanup, RemoveEffect, Typed
  <2>. QED BY <1>9, <2>1, <2>2 DEF Cleanup, Typed
<1>10. ASSUME NEW j \in Jobs, RestoreName(j) PROVE Typed(labels)'
  <2>1. pc' \in [Jobs -> labels]
    BY <1>10 DEF RestoreName, AfterName, Typed, GoTo, Recovery, AtRest
  <2>2. name' \in [Ids -> Names]
    BY <1>10 DEF RestoreName, Typed, Inspection
  <2>. QED BY <1>10, <2>1, <2>2 DEF RestoreName, Typed
<1>11. ASSUME NEW j \in Jobs, RestoreStart(j) PROVE Typed(labels)'
  <2>1. pc' \in [Jobs -> labels]
    BY <1>11 DEF RestoreStart, Typed, GoTo, AtRest
  <2>2. running' \subseteq alive
    BY <1>11, FaultsAssumption DEF RestoreStart, Typed, Answers, TookEffect
  <2>. QED BY <1>11, <2>1, <2>2 DEF RestoreStart, Typed
<1>12. ASSUME NEW i \in Ids, Toggle(i) PROVE Typed(labels)'
  BY <1>12 DEF Toggle, StopEffect, Typed
<1>13. ASSUME UNCHANGED vars PROVE Typed(labels)'
  BY <1>13 DEF vars, Typed
<1>14. ASSUME NEW j \in Jobs, Crash(j) PROVE Typed(labels)'
  <2>1. pc' \in [Jobs -> labels]
    BY <1>14 DEF Crash, Typed, GoTo, AtRest
  <2>. QED BY <1>14, <2>1 DEF Crash, Typed
<1>. QED
  BY <1>1, <1>2, <1>3, <1>4, <1>5, <1>6, <1>7, <1>8, <1>9, <1>10, <1>11, <1>12, <1>13, <1>14
     DEF Next, Step

LEMMA StepType == TypeOK /\ [Next]_vars => TypeOK'
<1> DEFINE labels == Forward \cup Recovery \cup AtRest
<1>1. TypeOK' <=> Typed(labels)'
  BY DEF TypeOK, Typed
<1>2. TypeOK /\ [Next]_vars => Typed(labels)'
  BY TypeIsTyped, StepTyped
<1>. QED BY <1>1, <1>2

\* Recreate's state always has its type: in particular only containers that
\* exist run, and every id was handed out by the engine.
THEOREM TypeCorrect == Spec => []TypeOK
<1>1. Init => TypeOK
  BY InitType
<1>2. TypeOK /\ [Next]_vars => TypeOK'
  BY StepType
<1>. QED BY <1>1, <1>2, PTL DEF Spec

-----------------------------------------------------------------------------
(* A workload is never lost, with any number of concurrent updates and any  *)
(* failures.  A container is removed by the job that replaced it, and its   *)
(* replacement is younger: ids grow.  So the youngest container that ever   *)
(* ran as the workload is never removed.  A replacement that failed to      *)
(* start is removed too, but it never counted.                              *)

Labels == Launching \cup Forward \cup Recovery \cup AtRest
Shaped == Typed(Labels)

LEMMA TypeIsShaped == TypeOK => Shaped
BY DEF TypeOK, Shaped, Typed, Labels

Kept == {First} \cup started

Younger ==
  \A j \in Jobs :
    /\ insp[j].id < next
    /\ repl[j] < next
    /\ pc[j] = "remove" => repl[j] \in started /\ insp[j].id < repl[j]
    /\ pc[j] \in {"start", "cleanup"} => repl[j] \notin Kept

OwnReplacement ==
  \A j, k \in Jobs :
    pc[j] \in {"start", "cleanup"} /\ pc[k] \in {"start", "cleanup"} /\ repl[j] = repl[k]
      => j = k

YoungestStays ==
  \E m \in Kept :
    /\ AutoRemove \/ m \in alive
    /\ \A k \in Kept : k <= m

KeepInv ==
  /\ Shaped
  /\ Younger
  /\ OwnReplacement
  /\ YoungestStays
  /\ \A k \in Kept : k < next
  /\ \A j \in Jobs : pc[j] = "start" => insp[j].id < repl[j]

LEMMA InitKeep == Init => KeepInv
<1> SUFFICES ASSUME Init PROVE KeepInv
  OBVIOUS
<1>1. Shaped
  BY InitType, TypeIsShaped
<1>2. Kept = {1} /\ alive = {1} /\ next = 2
  BY DEF Init, Kept, First
<1>3. ASSUME NEW j \in Jobs PROVE pc[j] = "rest" /\ insp[j].id = 1 /\ repl[j] = 0
  <2>1. PICK img \in Images :
          insp = [k \in Jobs |-> [id |-> First, name |-> Base, image |-> img,
                                 up |-> FALSE, stamp |-> 0]]
    BY DEF Init
  <2>. QED BY <2>1 DEF Init, First
<1>4. Younger
  <2>1. ASSUME NEW j \in Jobs
        PROVE  /\ insp[j].id < next
               /\ repl[j] < next
               /\ pc[j] \notin {"remove", "start", "cleanup"}
    BY <1>2, <1>3
  <2>. QED BY <2>1 DEF Younger
<1>5. OwnReplacement
  BY <1>3 DEF OwnReplacement
<1>6. YoungestStays
  BY <1>2 DEF YoungestStays
<1>. QED BY <1>1, <1>2, <1>3, <1>4, <1>5, <1>6 DEF KeepInv

\* Steps that replace and remove nothing.
Quiet ==
  /\ UNCHANGED <<next, started, repl>>
  /\ AutoRemove \/ alive \subseteq alive'
  /\ \A k \in Jobs :
       /\ insp'[k].id = insp[k].id
       /\ pc'[k] \in {"start", "cleanup", "remove"} => pc'[k] = pc[k]

LEMMA QuietKeeps == KeepInv /\ Shaped' /\ Quiet => KeepInv'
<1> SUFFICES ASSUME KeepInv, Shaped', Quiet PROVE KeepInv'
  OBVIOUS
<1>1. Kept' = Kept /\ next' = next /\ repl' = repl /\ started' = started
  BY DEF Quiet, Kept
<1>2. ASSUME NEW j \in Jobs
      PROVE  /\ insp'[j].id = insp[j].id
             /\ pc'[j] \in {"start", "cleanup", "remove"} => pc'[j] = pc[j]
  BY DEF Quiet
<1>3. ASSUME NEW j \in Jobs
      PROVE  /\ insp'[j].id < next'
             /\ repl'[j] < next'
             /\ pc'[j] = "remove" => repl'[j] \in started' /\ insp'[j].id < repl'[j]
             /\ pc'[j] \in {"start", "cleanup"} => repl'[j] \notin Kept'
             /\ pc'[j] = "start" => insp'[j].id < repl'[j]
  BY <1>1, <1>2 DEF KeepInv, Younger
<1>4. Younger'
  BY <1>3 DEF Younger
<1>5. ASSUME NEW j \in Jobs, NEW k \in Jobs,
             pc'[j] \in {"start", "cleanup"}, pc'[k] \in {"start", "cleanup"},
             repl'[j] = repl'[k]
      PROVE  j = k
  BY <1>1, <1>2, <1>5 DEF KeepInv, OwnReplacement
<1>6. OwnReplacement'
  BY <1>5 DEF OwnReplacement
<1>7. YoungestStays'
  BY <1>1 DEF KeepInv, YoungestStays, Quiet
<1>. QED BY <1>1, <1>3, <1>4, <1>6, <1>7 DEF KeepInv

LEMMA StepKeep == KeepInv /\ [Next]_vars => KeepInv'
<1> SUFFICES ASSUME KeepInv, [Next]_vars PROVE KeepInv'
  OBVIOUS
<1>t. Shaped /\ Shaped'
  BY StepTyped DEF KeepInv, Shaped, Labels
<1>1. ASSUME NEW j \in Jobs, Request(j) PROVE KeepInv'
  <2>1. PICK i \in 1..(next - 1), img \in Images :
          /\ insp' = [insp EXCEPT ![j].id = i, ![j].stamp = requests']
          /\ target' = [target EXCEPT ![j] = img]
    BY <1>1 DEF Request
  <2>2. /\ UNCHANGED <<alive, next, started>>
        /\ repl' = [repl EXCEPT ![j] = 0]
        /\ pc' = [pc EXCEPT ![j] = "inspect"]
    BY <1>1 DEF Request, engine, GoTo
  <2>3. next \in Nat /\ next > 0 /\ i < next /\ insp'[j].id = i
    BY <1>t, <2>1, BoundsAssumption DEF Shaped, Typed, Inspection
  <2>4. \A k \in Jobs \ {j} : insp'[k] = insp[k] /\ repl'[k] = repl[k] /\ pc'[k] = pc[k]
    BY <1>t, <2>1, <2>2 DEF Shaped, Typed
  <2>5. repl'[j] = 0 /\ pc'[j] = "inspect" /\ Kept' = Kept
    BY <1>t, <2>2 DEF Shaped, Typed, Kept
  <2>6. Younger'
    BY <2>2, <2>3, <2>4, <2>5 DEF KeepInv, Younger
  <2>7. OwnReplacement'
    BY <2>4, <2>5 DEF KeepInv, OwnReplacement
  <2>8. YoungestStays'
    BY <2>2, <2>5 DEF KeepInv, YoungestStays
  <2>. QED BY <1>t, <2>2, <2>4, <2>5, <2>6, <2>7, <2>8 DEF KeepInv
<1>2. ASSUME NEW j \in Jobs, Inspect(j) PROVE KeepInv'
  <2>1. Quiet
    BY <1>2, <1>t DEF Inspect, Quiet, engine, GoTo, Shaped, Typed, Inspection
  <2>. QED BY <1>t, <2>1, QuietKeeps
<1>3. ASSUME NEW j \in Jobs, Pull(j) PROVE KeepInv'
  <2>1. Quiet
    BY <1>3, <1>t DEF Pull, PullThen, Quiet, engine, GoTo, Shaped, Typed
  <2>. QED BY <1>t, <2>1, QuietKeeps
<1>4. ASSUME NEW j \in Jobs, Stop(j) PROVE KeepInv'
  <2>1. AutoRemove \/ alive \subseteq alive'
    BY <1>4 DEF Stop, StopEffect
  <2>2. Quiet
    BY <1>4, <1>t, <2>1 DEF Stop, Quiet, GoTo, Shaped, Typed
  <2>. QED BY <1>t, <2>2, QuietKeeps
<1>5. ASSUME NEW j \in Jobs, Rename(j) PROVE KeepInv'
  <2>1. Quiet
    BY <1>5, <1>t DEF Rename, AfterName, Quiet, GoTo, Shaped, Typed
  <2>. QED BY <1>t, <2>1, QuietKeeps
<1>6. ASSUME NEW j \in Jobs, Create(j) PROVE KeepInv'
  <2>1. /\ UNCHANGED <<insp, started>>
        /\ Kept' = Kept
        /\ alive \subseteq alive'
    BY <1>6 DEF Create, CreateOr, Kept
  <2>2. YoungestStays'
    BY <2>1 DEF KeepInv, YoungestStays
  <2>3. next \in Nat /\ (\A k \in Jobs : insp[k].id \in Nat /\ repl[k] \in Nat)
    BY <1>t, BoundsAssumption DEF Shaped, Typed, Inspection, Ids
  <2>4. CASE UNCHANGED repl /\ pc' = [pc EXCEPT ![j] = "restoreName"]
    <3>1. next' \in {next, next + 1}
      BY <1>6 DEF Create, CreateOr
    <3>2. \A k \in Jobs : pc'[k] \in {"start", "cleanup", "remove"} => pc'[k] = pc[k]
      BY <1>t, <2>4 DEF Shaped, Typed
    <3>3. Younger'
      BY <2>1, <2>3, <2>4, <3>1, <3>2 DEF KeepInv, Younger
    <3>4. OwnReplacement'
      BY <2>4, <3>2 DEF KeepInv, OwnReplacement
    <3>5. \A k \in Kept' : k < next'
      <4>. Kept \subseteq Nat
        BY <1>t, BoundsAssumption DEF Shaped, Typed, Kept, Ids, First
      <4>. QED BY <2>1, <2>3, <3>1 DEF KeepInv
    <3>6. \A k \in Jobs : pc'[k] = "start" => insp'[k].id < repl'[k]
      BY <2>1, <2>4, <3>2 DEF KeepInv
    <3>. QED BY <1>t, <2>2, <3>3, <3>4, <3>5, <3>6 DEF KeepInv
  <2>5. CASE /\ repl' = [repl EXCEPT ![j] = next]
             /\ pc' = [pc EXCEPT ![j] = "start"]
             /\ next' = next + 1
    <3>1. repl'[j] = next /\ pc'[j] = "start"
      BY <1>t, <2>5 DEF Shaped, Typed
    <3>2. \A k \in Jobs \ {j} : repl'[k] = repl[k] /\ pc'[k] = pc[k]
      BY <1>t, <2>5 DEF Shaped, Typed
    <3>3. \A k \in Kept' : k < next /\ k \in Nat
      BY <1>t, <2>1, BoundsAssumption DEF KeepInv, Shaped, Typed, Kept, Ids, First
    <3>4. next \notin Kept'
      BY <2>3, <3>3
    <3>5. ASSUME NEW k \in Jobs
          PROVE  /\ insp'[k].id < next'
                 /\ repl'[k] < next'
                 /\ pc'[k] = "remove" => repl'[k] \in started' /\ insp'[k].id < repl'[k]
                 /\ pc'[k] \in {"start", "cleanup"} => repl'[k] \notin Kept'
                 /\ pc'[k] = "start" => insp'[k].id < repl'[k]
      <4>1. CASE k = j
        BY <2>1, <2>3, <2>5, <3>1, <3>4, <4>1 DEF KeepInv, Younger
      <4>2. CASE k # j
        BY <2>1, <2>3, <2>5, <3>2, <4>2 DEF KeepInv, Younger
      <4>. QED BY <4>1, <4>2
    <3>6. Younger'
      BY <3>5 DEF Younger
    <3>7. OwnReplacement'
      <4>1. \A k \in Jobs \ {j} : repl'[k] # repl'[j]
        BY <2>3, <3>1, <3>2 DEF KeepInv, Younger
      <4>. QED BY <3>2, <4>1 DEF KeepInv, OwnReplacement
    <3>8. \A k \in Kept' : k < next'
      BY <2>3, <2>5, <3>3
    <3>. QED BY <1>t, <2>2, <3>5, <3>6, <3>7, <3>8 DEF KeepInv
  <2>. QED BY <1>6, <2>4, <2>5 DEF Create, CreateOr, GoTo, TookEffect
<1>7. ASSUME NEW j \in Jobs, Start(j) PROVE KeepInv'
  <2>1. UNCHANGED <<alive, next, insp, repl>> /\ pc[j] = "start"
    BY <1>7 DEF Start, StartOr
  <2>2. CASE UNCHANGED started /\ pc' = [pc EXCEPT ![j] = "cleanup"]
    <3>1. pc'[j] = "cleanup" /\ (\A k \in Jobs \ {j} : pc'[k] = pc[k]) /\ Kept' = Kept
      BY <1>t, <2>2 DEF Shaped, Typed, Kept
    <3>2. Younger'
      BY <2>1, <2>2, <3>1 DEF KeepInv, Younger
    <3>3. OwnReplacement'
      BY <2>1, <3>1 DEF KeepInv, OwnReplacement
    <3>4. YoungestStays'
      BY <2>1, <3>1 DEF KeepInv, YoungestStays
    <3>. QED BY <1>t, <2>1, <3>1, <3>2, <3>3, <3>4 DEF KeepInv
  <2>3. CASE /\ repl[j] \in alive
             /\ started' = started \cup {repl[j]}
             /\ pc' = [pc EXCEPT ![j] = "remove"]
    <3>1. pc'[j] = "remove" /\ (\A k \in Jobs \ {j} : pc'[k] = pc[k])
      BY <1>t, <2>3 DEF Shaped, Typed
    <3>2. Kept' = Kept \cup {repl[j]} /\ Kept' \subseteq Nat
      BY <1>t, <2>3, BoundsAssumption DEF Shaped, Typed, Kept, Ids, First
    <3>3. ASSUME NEW k \in Jobs, pc'[k] \in {"start", "cleanup"} PROVE repl'[k] \notin Kept'
      <4>1. k # j /\ pc[k] \in {"start", "cleanup"}
        BY <3>1, <3>3
      <4>2. repl[k] # repl[j]
        BY <2>1, <4>1 DEF KeepInv, OwnReplacement
      <4>. QED BY <2>1, <3>2, <4>1, <4>2 DEF KeepInv, Younger
    <3>4. Younger'
      BY <2>1, <2>3, <3>1, <3>3 DEF KeepInv, Younger
    <3>5. OwnReplacement'
      BY <2>1, <3>1 DEF KeepInv, OwnReplacement
    <3>6. YoungestStays'
      <4>1. PICK m \in Kept : (AutoRemove \/ m \in alive) /\ (\A k \in Kept : k <= m)
        BY DEF KeepInv, YoungestStays
      <4>2. CASE repl[j] <= m
        BY <2>1, <3>2, <4>1, <4>2 DEF YoungestStays
      <4>3. CASE m < repl[j]
        <5>1. \A k \in Kept' : k <= repl[j]
          BY <3>2, <4>1, <4>3
        <5>. QED BY <2>1, <2>3, <3>2, <5>1 DEF YoungestStays
      <4>. QED BY <3>2, <4>1, <4>2, <4>3
    <3>7. \A k \in Kept' : k < next'
      BY <2>1, <3>2 DEF KeepInv, Younger
    <3>. QED BY <1>t, <2>1, <3>1, <3>4, <3>5, <3>6, <3>7 DEF KeepInv
  <2>. QED
    BY <1>7, <2>2, <2>3, FaultsAssumption DEF Start, StartOr, GoTo, Answers, TookEffect
<1>8. ASSUME NEW j \in Jobs, Remove(j) PROVE KeepInv'
  <2>1. /\ UNCHANGED <<next, insp, repl, started>>
        /\ pc[j] = "remove" /\ pc' = [pc EXCEPT ![j] = "done"]
        /\ alive \ {insp[j].id} \subseteq alive'
    BY <1>8 DEF Remove, RemoveEffect, GoTo
  <2>2. pc'[j] = "done" /\ (\A k \in Jobs \ {j} : pc'[k] = pc[k]) /\ Kept' = Kept
    BY <1>t, <2>1 DEF Shaped, Typed, Kept
  <2>3. YoungestStays'
    <3>1. PICK m \in Kept : (AutoRemove \/ m \in alive) /\ (\A k \in Kept : k <= m)
      BY DEF KeepInv, YoungestStays
    <3>2. repl[j] \in Kept /\ insp[j].id < repl[j] /\ insp[j].id \in Nat
          /\ repl[j] \in Nat /\ m \in Nat
      BY <1>t, <2>1, BoundsAssumption
         DEF KeepInv, Younger, Kept, Shaped, Typed, Inspection, Ids, First
    <3>3. m # insp[j].id
      BY <3>1, <3>2
    <3>. QED BY <2>1, <2>2, <3>1, <3>3 DEF YoungestStays
  <2>4. Younger'
    BY <2>1, <2>2 DEF KeepInv, Younger
  <2>5. OwnReplacement'
    BY <2>1, <2>2 DEF KeepInv, OwnReplacement
  <2>. QED BY <1>t, <2>1, <2>2, <2>3, <2>4, <2>5 DEF KeepInv
<1>9. ASSUME NEW j \in Jobs, Cleanup(j) PROVE KeepInv'
  <2>1. /\ UNCHANGED <<next, insp, repl, started>>
        /\ pc[j] = "cleanup" /\ pc' = [pc EXCEPT ![j] = "restoreName"]
        /\ alive \ {repl[j]} \subseteq alive'
    BY <1>9 DEF Cleanup, RemoveEffect, GoTo
  <2>2. pc'[j] = "restoreName" /\ (\A k \in Jobs \ {j} : pc'[k] = pc[k]) /\ Kept' = Kept
    BY <1>t, <2>1 DEF Shaped, Typed, Kept
  <2>3. YoungestStays'
    <3>1. repl[j] \notin Kept
      BY <2>1 DEF KeepInv, Younger
    <3>. QED BY <2>1, <2>2, <3>1 DEF KeepInv, YoungestStays
  <2>4. Younger'
    BY <2>1, <2>2 DEF KeepInv, Younger
  <2>5. OwnReplacement'
    BY <2>1, <2>2 DEF KeepInv, OwnReplacement
  <2>. QED BY <1>t, <2>1, <2>2, <2>3, <2>4, <2>5 DEF KeepInv
<1>10. ASSUME NEW j \in Jobs, RestoreName(j) PROVE KeepInv'
  <2>1. Quiet
    BY <1>10, <1>t DEF RestoreName, AfterName, Quiet, GoTo, Shaped, Typed
  <2>. QED BY <1>t, <2>1, QuietKeeps
<1>11. ASSUME NEW j \in Jobs, RestoreStart(j) PROVE KeepInv'
  <2>1. Quiet
    BY <1>11, <1>t DEF RestoreStart, Quiet, GoTo, Shaped, Typed
  <2>. QED BY <1>t, <2>1, QuietKeeps
<1>12. ASSUME NEW i \in Ids, Toggle(i) PROVE KeepInv'
  <2>1. Quiet
    BY <1>12, <1>t DEF Toggle, StopEffect, Quiet
  <2>. QED BY <1>t, <2>1, QuietKeeps
<1>13. ASSUME UNCHANGED vars PROVE KeepInv'
  <2>1. Quiet
    BY <1>13 DEF vars, Quiet
  <2>. QED BY <1>t, <2>1, QuietKeeps
<1>14. ASSUME NEW j \in Jobs, Crash(j) PROVE KeepInv'
  <2>1. Quiet
    BY <1>14, <1>t DEF Crash, Quiet, engine, GoTo, Shaped, Typed
  <2>. QED BY <1>t, <2>1, QuietKeeps
<1>. QED
  BY <1>1, <1>2, <1>3, <1>4, <1>5, <1>6, <1>7, <1>8, <1>9, <1>10, <1>11, <1>12, <1>13, <1>14
     DEF Next, Step

\* However many updates run on a workload, whichever calls fail or lose their
\* answer and wherever a process that runs one ends, the original or a replacement
\* that was started still exists.
THEOREM WorkloadNeverLost == Spec => []NeverLost
<1>1. Init => KeepInv
  BY InitKeep
<1>2. KeepInv /\ [Next]_vars => KeepInv'
  BY StepKeep
<1>3. KeepInv => NeverLost
  BY DEF KeepInv, YoungestStays, NeverLost, Kept
<1>. QED BY <1>1, <1>2, <1>3, PTL DEF Spec

-----------------------------------------------------------------------------
(* The same when the app replaces its own container: launching a helper, a  *)
(* process that ends and a container that was told to stop replace and      *)
(* remove nothing, and the helper takes the steps of any other job.         *)

\* A job that is asked for begins with the container it names and no replacement.
Fresh(j, i, label) ==
  /\ UNCHANGED <<alive, next, started>>
  /\ insp' = [insp EXCEPT ![j].id = i, ![j].stamp = requests']
  /\ repl' = [repl EXCEPT ![j] = 0]
  /\ pc' = [pc EXCEPT ![j] = label]

LEMMA FreshKeeps ==
  ASSUME KeepInv, Shaped', NEW j \in Jobs, NEW i \in 1..(next - 1),
         NEW label, label \notin {"start", "cleanup", "remove"}, Fresh(j, i, label)
  PROVE  KeepInv'
<1>1. next \in Nat /\ next > 0 /\ i < next /\ insp'[j].id = i
  BY BoundsAssumption DEF KeepInv, Shaped, Typed, Inspection, Fresh
<1>2. \A k \in Jobs \ {j} : insp'[k] = insp[k] /\ repl'[k] = repl[k] /\ pc'[k] = pc[k]
  BY DEF KeepInv, Shaped, Typed, Fresh
<1>3. repl'[j] = 0 /\ pc'[j] = label /\ Kept' = Kept
  BY DEF KeepInv, Shaped, Typed, Kept, Fresh
<1>4. UNCHANGED <<alive, next, started>>
  BY DEF Fresh
<1>5. Younger'
  BY <1>1, <1>2, <1>3, <1>4 DEF KeepInv, Younger
<1>6. OwnReplacement'
  BY <1>2, <1>3 DEF KeepInv, OwnReplacement
<1>7. YoungestStays'
  BY <1>3, <1>4 DEF KeepInv, YoungestStays
<1>8. \A k \in Jobs : pc'[k] = "start" => insp'[k].id < repl'[k]
  BY <1>2, <1>3 DEF KeepInv
<1>. QED BY <1>3, <1>4, <1>5, <1>6, <1>7, <1>8 DEF KeepInv

LEMMA AskKeeps ==
  ASSUME KeepInv, NEW j \in Jobs, NEW i \in 1..(next - 1),
         NEW label \in {"prepare", "inspect"}, Ask(j, i, label)
  PROVE  KeepInv'
<1>1. Fresh(j, i, label)
  BY DEF Ask, Fresh, GoTo, engine
<1>2. PICK img \in Images : target' = [target EXCEPT ![j] = img]
  BY DEF Ask
<1>3. Shaped'
  <2>1. Shaped
    BY DEF KeepInv
  <2>2. i \in Ids /\ requests' \in 0..MaxRequests
    BY <2>1, BoundsAssumption DEF Ask, Shaped, Typed, Ids
  <2>3. insp' \in [Jobs -> Inspection]
    <3>1. insp[j] \in Inspection /\ requests' \in Nat
      BY <2>1, <2>2, BoundsAssumption DEF Shaped, Typed
    <3>2. [insp[j] EXCEPT !.id = i, !.stamp = requests'] \in Inspection
      BY <2>2, <3>1 DEF Inspection
    <3>. QED BY <1>1, <2>1, <3>2 DEF Fresh, Shaped, Typed
  <2>4. pc' \in [Jobs -> Labels]
    BY <1>1, <2>1 DEF Fresh, Shaped, Typed, Labels, Launching, Forward
  <2>5. target' \in [Jobs -> Images]
    BY <1>2, <2>1 DEF Shaped, Typed
  <2>6. repl' \in [Jobs -> 0..MaxIds]
    BY <1>1, <2>1, BoundsAssumption DEF Fresh, Shaped, Typed
  <2>. QED BY <2>1, <2>2, <2>3, <2>4, <2>5, <2>6 DEF Ask, engine, Shaped, Typed
<1>. QED BY <1>1, <1>3, FreshKeeps

LEMMA LaunchKeeps ==
  ASSUME KeepInv, NEW j \in Jobs, Launch(j) \/ UpdateOwnRow(j)
  PROVE  KeepInv'
<1>1. First \in 1..(next - 1) /\ (\A p \in running : p \in 1..(next - 1))
  BY BoundsAssumption DEF KeepInv, Shaped, Typed, Ids, First
<1>2. CASE Launch(j)
  BY <1>1, <1>2, AskKeeps DEF Launch, SelfContainerID
<1>3. CASE UpdateOwnRow(j)
  <2>1. PICK p \in running : Ask(j, p, "inspect")
    BY <1>3 DEF UpdateOwnRow
  <2>. QED BY <1>1, <2>1, AskKeeps
<1>. QED BY <1>2, <1>3

\* Steps that change no container and bring no job into a swap.
Aside ==
  /\ UNCHANGED <<engine, requests, insp, target, repl, started>>
  /\ pc' \in [Jobs -> Labels]
  /\ \A k \in Jobs : pc'[k] \in {"start", "cleanup", "remove"} => pc'[k] = pc[k]

LEMMA AsideKeeps == KeepInv /\ Aside => KeepInv'
<1> SUFFICES ASSUME KeepInv, Aside PROVE KeepInv'
  OBVIOUS
<1>1. Shaped'
  BY DEF KeepInv, Shaped, Typed, Aside, engine
<1>2. Quiet
  BY DEF Aside, engine, Quiet
<1>. QED BY <1>1, <1>2, QuietKeeps

LEMMA GoAside ==
  ASSUME KeepInv, NEW j \in Jobs, NEW label \in {"clear", "create helper", "start helper",
         "inspect"} \cup AtRest,
         UNCHANGED <<engine, requests, insp, target, repl, started>>, GoTo(j, label)
  PROVE  KeepInv'
<1>1. label \in Labels /\ label \notin {"start", "cleanup", "remove"}
  BY DEF Labels, Launching, Forward, AtRest
<1>2. pc \in [Jobs -> Labels]
  BY DEF KeepInv, Shaped, Typed
<1>3. Aside
  BY <1>1, <1>2 DEF Aside, GoTo
<1>. QED BY <1>3, AsideKeeps

LEMMA LaunchesKeep ==
  ASSUME KeepInv, NEW j \in Jobs, Launches(j)
  PROVE  KeepInv'
<1>1. UNCHANGED <<engine, requests, insp, target, repl, started>>
  BY DEF Launches, Prepare, Clear, CreateHelper, StartHelper, LaunchStep
<1>2. CASE Prepare(j)
  <2>1. GoTo(j, "failed") \/ GoTo(j, "clear") \/ GoTo(j, "done")
    BY <1>2 DEF Prepare
  <2>. QED BY <1>1, <2>1, GoAside DEF AtRest
<1>3. CASE Clear(j)
  <2> DEFINE busy == {k \in Jobs \ {j} : helper = k /\ Driven(k)}
             next_pc(killed) == [k \in Jobs |-> IF k = j THEN "create helper"
                                                ELSE IF k \in killed THEN "rest" ELSE pc[k]]
  <2>1. pc' = next_pc(busy) \/ pc' = next_pc({})
    BY <1>3 DEF Clear
  <2>2. pc \in [Jobs -> Labels] /\ "create helper" \in Labels /\ "rest" \in Labels
    BY DEF KeepInv, Shaped, Typed, Labels, Launching, AtRest
  <2>3. Aside
    BY <1>1, <2>1, <2>2 DEF Aside
  <2>. QED BY <2>3, AsideKeeps
<1>4. CASE CreateHelper(j)
  <2>1. GoTo(j, "start helper") \/ GoTo(j, "failed")
    BY <1>4 DEF CreateHelper
  <2>. QED BY <1>1, <2>1, GoAside DEF AtRest
<1>5. CASE StartHelper(j)
  <2>1. GoTo(j, "inspect") \/ GoTo(j, "failed")
    BY <1>5 DEF StartHelper
  <2>. QED BY <1>1, <2>1, GoAside DEF AtRest
<1>. QED BY <1>2, <1>3, <1>4, <1>5 DEF Launches

LEMMA SwapStepKeeps == KeepInv /\ [SwapNext]_swapVars => KeepInv'
<1> SUFFICES ASSUME KeepInv, [SwapNext]_swapVars PROVE KeepInv'
  OBVIOUS
<1>1. UNCHANGED recreate => KeepInv'
  BY StepKeep DEF recreate, vars, engine
<1>2. ASSUME NEW j \in Jobs, Launch(j) \/ UpdateOwnRow(j) PROVE KeepInv'
  BY <1>2, LaunchKeeps
<1>3. ASSUME NEW j \in Jobs, Launches(j) PROVE KeepInv'
  BY <1>3, LaunchesKeep
<1>4. ASSUME NEW j \in Jobs, HelperGone(j) \/ TellStop(j) PROVE KeepInv'
  BY <1>1, <1>4 DEF HelperGone, TellStop
<1>5. ASSUME NEW j \in Jobs, Swap(j) PROVE KeepInv'
  BY <1>5, StepKeep DEF Swap, Next
<1>6. ASSUME NEW j \in Jobs, Die(j) PROVE KeepInv'
  BY <1>6, GoAside DEF Die, AtRest
<1>7. ASSUME NEW i \in Ids, Exit(i) PROVE KeepInv'
  <2>1. Shaped'
    BY <1>7 DEF Exit, StopEffect, KeepInv, Shaped, Typed
  <2>2. Quiet
    BY <1>7 DEF Exit, StopEffect, Quiet
  <2>. QED BY <2>1, <2>2, QuietKeeps
<1>. QED
  BY <1>1, <1>2, <1>3, <1>4, <1>5, <1>6, <1>7 DEF SwapNext, Goes, swapVars

\* The app is never lost either, however often it replaces itself and whatever ends
\* in the middle of it: a helper that is removed at its work, a process that stops
\* itself, a call that is refused.
THEOREM AppNeverLost == SwapSpec => []NeverLost
<1>1. SwapInit => KeepInv
  BY InitKeep DEF SwapInit
<1>2. KeepInv /\ [SwapNext]_swapVars => KeepInv'
  BY SwapStepKeeps
<1>3. KeepInv => NeverLost
  BY DEF KeepInv, YoungestStays, NeverLost, Kept
<1>4. SwapSpec => SwapInit /\ [][SwapNext]_swapVars
  BY PTL DEF SwapSpec
<1>. QED BY <1>1, <1>2, <1>3, <1>4, PTL

-----------------------------------------------------------------------------
(* One update at a time, on an engine whose recovery calls are served and   *)
(* whose answers arrive, keeps the contract, also when its process ends     *)
(* before the stop or before the removal.  SoloInv says, for every call the *)
(* job may make next, what the calls before it have established.            *)

Solo ==
  /\ \A a, b \in Jobs : a = b
  /\ Faults \subseteq {"refused"}
  /\ RestoreFaults = {}
  /\ ~AutoRemove
  /\ CrashAt \subseteq {"inspect", "pull", "stop", "remove"}

UniqueNames == \A a, b \in alive : name[a] = name[b] => a = b

\* No container but those of set X holds the name the job works on.
NameLeft(j, X) == \A k \in alive : k \notin X => name[k] # insp[j].name

OriginalThere(j) ==
  pc[j] \notin {"rest", "inspect", "done", "failed"} => insp[j].id \in alive

OriginalNamed(j) ==
  /\ pc[j] \in {"pull", "stop", "rename", "restoreStart"} => name[insp[j].id] = insp[j].name
  /\ pc[j] \in {"create", "start", "remove", "cleanup", "restoreName"} =>
       name[insp[j].id] # insp[j].name

OriginalStopped(j) ==
  /\ pc[j] = "pull" => (insp[j].up <=> insp[j].id \in running)
  /\ pc[j] = "stop" => insp[j].up /\ insp[j].id \in running
  /\ pc[j] = "restoreStart" => insp[j].up
  /\ pc[j] \in {"rename", "create", "start", "remove", "cleanup", "restoreName", "restoreStart"} =>
       insp[j].id \notin running

Replacement(j) ==
  /\ pc[j] \in {"start", "cleanup", "remove"} =>
       /\ repl[j] \in alive /\ repl[j] # insp[j].id
       /\ name[repl[j]] = insp[j].name /\ image[repl[j]] = target[j]
  /\ pc[j] = "remove" => repl[j] \in running
  /\ pc[j] \in {"inspect", "pull", "stop", "rename", "create", "restoreName", "restoreStart"} =>
       repl[j] \notin alive

NameReserved(j) ==
  /\ pc[j] \in {"create", "restoreName"} => NameLeft(j, {insp[j].id})
  /\ pc[j] = "cleanup" => NameLeft(j, {insp[j].id, repl[j]})

Established(j) ==
  OriginalThere(j) /\ OriginalNamed(j) /\ OriginalStopped(j) /\ Replacement(j) /\ NameReserved(j)

SoloInv == TypeOK /\ UniqueNames /\ \A j \in Jobs : Established(j)

LEMMA InitSolo == Init => SoloInv
<1> SUFFICES ASSUME Init PROVE SoloInv
  OBVIOUS
<1>1. TypeOK
  BY InitType
<1>2. UniqueNames
  BY DEF Init, UniqueNames
<1>3. ASSUME NEW j \in Jobs PROVE pc[j] = "rest"
  BY DEF Init
<1>4. ASSUME NEW j \in Jobs PROVE Established(j)
  BY <1>3 DEF Established, OriginalThere, OriginalNamed, OriginalStopped, Replacement, NameReserved
<1>. QED BY <1>1, <1>2, <1>4 DEF SoloInv

\* On such an engine a call is either served or refused.
LEMMA SoloAnswers ==
  ASSUME Solo, NEW legal, NEW a
  PROVE  /\ a \in Answers(legal, Faults) => a \in {"ok", "refused"} /\ (a = "ok" => legal)
         /\ a \in Answers(legal, RestoreFaults) => a = IF legal THEN "ok" ELSE "refused"
BY DEF Solo, Answers

LEMMA StepSolo == Solo /\ SoloInv /\ [Next]_vars => SoloInv'
<1> SUFFICES ASSUME Solo, SoloInv, [Next]_vars PROVE SoloInv'
  OBVIOUS
<1> USE DEF engine, GoTo, TookEffect
<1>t. TypeOK /\ TypeOK'
  BY StepType DEF SoloInv
<1>s. ASSUME NEW j \in Jobs, Established(j)' PROVE \A k \in Jobs : Established(k)'
  BY <1>s DEF Solo
<1>j. ASSUME NEW j \in Jobs
      PROVE  /\ OriginalThere(j) /\ OriginalNamed(j) /\ OriginalStopped(j)
             /\ Replacement(j) /\ NameReserved(j)
             /\ insp[j] \in Inspection /\ repl[j] \in Int
             /\ UniqueNames
  BY <1>t DEF SoloInv, Established, TypeOK
<1>1. ASSUME NEW j \in Jobs, Request(j) PROVE SoloInv'
  <2>1. pc'[j] = "inspect" /\ repl'[j] = 0 /\ 0 \notin alive'
    BY <1>1, <1>t DEF Request, TypeOK, Ids
  <2>2. Established(j)'
    BY <2>1 DEF Established, OriginalThere, OriginalNamed, OriginalStopped, Replacement, NameReserved
  <2>3. UniqueNames'
    BY <1>1, <1>j DEF Request, UniqueNames
  <2>. QED BY <1>t, <1>s, <2>2, <2>3 DEF SoloInv
<1>2. ASSUME NEW j \in Jobs, Inspect(j) PROVE SoloInv'
  <2>1. pc[j] = "inspect" /\ UNCHANGED <<alive, running, name, image, repl, target>>
    BY <1>2 DEF Inspect
  <2>2. \/ pc'[j] = "failed"
        \/ /\ pc'[j] = "pull" /\ insp[j].id \in alive
           /\ insp'[j].id = insp[j].id /\ insp'[j].name = name[insp[j].id]
           /\ insp'[j].up = (insp[j].id \in running)
    BY <1>2, <1>t, SoloAnswers DEF Inspect, TypeOK, Inspection
  <2>3. OriginalThere(j)' /\ OriginalNamed(j)' /\ OriginalStopped(j)' /\ NameReserved(j)'
    BY <2>1, <2>2 DEF OriginalThere, OriginalNamed, OriginalStopped, NameReserved
  <2>4. Replacement(j)'
    BY <1>j, <2>1, <2>2 DEF Replacement
  <2>5. UniqueNames'
    BY <1>j, <2>1 DEF UniqueNames
  <2>. QED BY <1>t, <1>s, <2>3, <2>4, <2>5 DEF SoloInv, Established
<1>3. ASSUME NEW j \in Jobs, Pull(j) PROVE SoloInv'
  <2>1. /\ pc[j] = "pull" /\ UNCHANGED <<alive, running, name, image, repl, target, insp>>
        /\ pc'[j] \in {"failed", IF insp[j].up THEN "stop" ELSE "rename"}
    BY <1>3, <1>t DEF Pull, PullThen, TypeOK
  <2>2. OriginalThere(j)' /\ OriginalNamed(j)' /\ OriginalStopped(j)' /\ NameReserved(j)'
    BY <1>j, <2>1 DEF OriginalThere, OriginalNamed, OriginalStopped, NameReserved, Inspection
  <2>3. Replacement(j)'
    BY <1>j, <2>1 DEF Replacement
  <2>4. UniqueNames'
    BY <1>j, <2>1 DEF UniqueNames
  <2>. QED BY <1>t, <1>s, <2>2, <2>3, <2>4 DEF SoloInv, Established
<1>4. ASSUME NEW j \in Jobs, Stop(j) PROVE SoloInv'
  <2>1. pc[j] = "stop" /\ UNCHANGED <<name, image, repl, target, insp>>
    BY <1>4 DEF Stop
  <2>2. \/ pc'[j] = "failed" /\ UNCHANGED <<alive, running>>
        \/ pc'[j] = "rename" /\ alive' = alive /\ running' = running \ {insp[j].id}
    BY <1>4, <1>t, SoloAnswers DEF Stop, StopEffect, TypeOK, Solo
  <2>3. OriginalThere(j)' /\ OriginalNamed(j)' /\ OriginalStopped(j)' /\ NameReserved(j)'
    BY <1>j, <2>1, <2>2 DEF OriginalThere, OriginalNamed, OriginalStopped, NameReserved
  <2>4. Replacement(j)'
    BY <1>j, <2>1, <2>2 DEF Replacement
  <2>5. UniqueNames'
    BY <1>j, <2>1, <2>2 DEF UniqueNames
  <2>. QED BY <1>t, <1>s, <2>3, <2>4, <2>5 DEF SoloInv, Established
<1>5. ASSUME NEW j \in Jobs, Rename(j) PROVE SoloInv'
  <2> DEFINE i == insp[j].id
             backup == Append(insp[j].name, insp[j].stamp)
  <2>1. pc[j] = "rename" /\ UNCHANGED <<alive, running, image, repl, target, insp>>
    BY <1>5 DEF Rename
  <2>2. \/ name' = name /\ pc'[j] \in {"failed", IF insp[j].up THEN "restoreStart" ELSE "failed"}
        \/ /\ pc'[j] = "create" /\ name' = [name EXCEPT ![i] = backup]
           /\ NameFree(backup, i)
    BY <1>5, <1>t, SoloAnswers DEF Rename, AfterName, TypeOK
  <2>3. i \in alive /\ i \in Ids /\ i \notin running /\ name[i] = insp[j].name
        /\ repl[j] \notin alive
    BY <1>j, <2>1 DEF OriginalThere, OriginalNamed, OriginalStopped, Replacement, Inspection
  <2>4. backup # insp[j].name
    BY <1>j, BackupIsName DEF Inspection
  <2>5. CASE name' = name /\ pc'[j] \in {"failed", IF insp[j].up THEN "restoreStart" ELSE "failed"}
    <3>1. OriginalThere(j)' /\ OriginalNamed(j)' /\ OriginalStopped(j)' /\ NameReserved(j)'
      BY <2>1, <2>3, <2>5 DEF OriginalThere, OriginalNamed, OriginalStopped, NameReserved
    <3>2. Replacement(j)' /\ UniqueNames'
      BY <1>j, <2>1, <2>3, <2>5 DEF Replacement, UniqueNames
    <3>. QED BY <1>t, <1>s, <3>1, <3>2 DEF SoloInv, Established
  <2>6. CASE /\ pc'[j] = "create" /\ name' = [name EXCEPT ![i] = backup]
             /\ NameFree(backup, i)
    <3>1. name'[i] = backup /\ \A k \in alive \ {i} : name'[k] = name[k]
      BY <1>t, <2>3, <2>6 DEF TypeOK
    <3>2. OriginalThere(j)' /\ OriginalNamed(j)' /\ OriginalStopped(j)'
      BY <2>1, <2>3, <2>4, <2>6, <3>1 DEF OriginalThere, OriginalNamed, OriginalStopped
    <3>3. Replacement(j)'
      BY <2>1, <2>3, <2>6 DEF Replacement
    <3>4. \A k \in alive : k # i => name[k] # insp[j].name
      BY <1>j, <2>3 DEF UniqueNames
    <3>5. NameReserved(j)'
      BY <2>1, <2>6, <3>1, <3>4 DEF NameReserved, NameLeft
    <3>6. UniqueNames'
      <4>1. \A k \in alive \ {i} : name'[k] # name'[i]
        BY <2>6, <3>1 DEF NameFree
      <4>2. \A a, b \in alive \ {i} : name'[a] = name'[b] => a = b
        BY <1>j, <3>1 DEF UniqueNames
      <4>. QED BY <2>1, <4>1, <4>2 DEF UniqueNames
    <3>. QED BY <1>t, <1>s, <3>2, <3>3, <3>5, <3>6 DEF SoloInv, Established
  <2>. QED BY <2>2, <2>5, <2>6
<1>6. ASSUME NEW j \in Jobs, Create(j) PROVE SoloInv'
  <2>1. /\ pc[j] = "create" /\ next \in Ids /\ next \notin alive
        /\ UNCHANGED <<running, insp, target>>
    BY <1>6, <1>t, BoundsAssumption DEF Create, CreateOr, TypeOK, Ids
  <2>2. \/ pc'[j] = "restoreName" /\ UNCHANGED <<alive, name, image, repl>>
        \/ /\ pc'[j] = "start" /\ repl' = [repl EXCEPT ![j] = next]
           /\ alive' = alive \cup {next}
           /\ name' = [name EXCEPT ![next] = insp[j].name]
           /\ image' = [image EXCEPT ![next] = target[j]]
    BY <1>6, <1>t, SoloAnswers DEF Create, CreateOr, TypeOK
  <2>3. insp[j].id \in alive /\ insp[j].id \notin running /\ name[insp[j].id] # insp[j].name
        /\ repl[j] \notin alive /\ NameLeft(j, {insp[j].id})
    BY <1>j, <2>1 DEF OriginalThere, OriginalNamed, OriginalStopped, Replacement, NameReserved
  <2>4. CASE pc'[j] = "restoreName" /\ UNCHANGED <<alive, name, image, repl>>
    <3>1. OriginalThere(j)' /\ OriginalNamed(j)' /\ OriginalStopped(j)'
      BY <2>1, <2>3, <2>4 DEF OriginalThere, OriginalNamed, OriginalStopped
    <3>2. Replacement(j)' /\ NameReserved(j)' /\ UniqueNames'
      BY <1>j, <2>1, <2>3, <2>4 DEF Replacement, NameReserved, NameLeft, UniqueNames
    <3>. QED BY <1>t, <1>s, <3>1, <3>2 DEF SoloInv, Established
  <2>5. CASE /\ pc'[j] = "start" /\ repl' = [repl EXCEPT ![j] = next]
             /\ alive' = alive \cup {next}
             /\ name' = [name EXCEPT ![next] = insp[j].name]
             /\ image' = [image EXCEPT ![next] = target[j]]
    <3>1. /\ repl'[j] = next /\ name'[next] = insp[j].name /\ image'[next] = target[j]
          /\ \A k \in alive : name'[k] = name[k]
      BY <1>t, <2>1, <2>5 DEF TypeOK
    <3>2. OriginalThere(j)' /\ OriginalNamed(j)' /\ OriginalStopped(j)'
      BY <2>1, <2>3, <2>5, <3>1 DEF OriginalThere, OriginalNamed, OriginalStopped
    <3>3. Replacement(j)' /\ NameReserved(j)'
      BY <2>1, <2>3, <2>5, <3>1 DEF Replacement, NameReserved
    <3>4. \A k \in alive : name[k] # insp[j].name
      BY <2>3 DEF NameLeft
    <3>5. UniqueNames'
      BY <1>j, <2>1, <2>5, <3>1, <3>4 DEF UniqueNames
    <3>. QED BY <1>t, <1>s, <3>2, <3>3, <3>5 DEF SoloInv, Established
  <2>. QED BY <2>2, <2>4, <2>5
<1>7. ASSUME NEW j \in Jobs, Start(j) PROVE SoloInv'
  <2>1. pc[j] = "start" /\ UNCHANGED <<alive, name, image, repl, insp, target>>
    BY <1>7 DEF Start, StartOr
  <2>2. \/ pc'[j] = "cleanup" /\ UNCHANGED running
        \/ pc'[j] = "remove" /\ running' = running \cup {repl[j]}
    BY <1>7, <1>t, SoloAnswers DEF Start, StartOr, TypeOK
  <2>3. /\ insp[j].id \in alive /\ insp[j].id \notin running
        /\ name[insp[j].id] # insp[j].name
        /\ repl[j] \in alive /\ repl[j] # insp[j].id
        /\ name[repl[j]] = insp[j].name /\ image[repl[j]] = target[j]
    BY <1>j, <2>1 DEF OriginalThere, OriginalNamed, OriginalStopped, Replacement
  <2>4. OriginalThere(j)' /\ OriginalNamed(j)' /\ OriginalStopped(j)' /\ Replacement(j)'
    BY <2>1, <2>2, <2>3 DEF OriginalThere, OriginalNamed, OriginalStopped, Replacement
  <2>5. NameReserved(j)'
    BY <1>j, <2>1, <2>2, <2>3 DEF NameReserved, NameLeft, UniqueNames
  <2>6. UniqueNames'
    BY <1>j, <2>1 DEF UniqueNames
  <2>. QED BY <1>t, <1>s, <2>4, <2>5, <2>6 DEF SoloInv, Established
<1>8. ASSUME NEW j \in Jobs, Remove(j) PROVE SoloInv'
  <2>1. pc'[j] = "done" /\ alive' \subseteq alive /\ name' = name
    BY <1>8, <1>t DEF Remove, RemoveEffect, TypeOK
  <2>2. Established(j)'
    BY <2>1 DEF Established, OriginalThere, OriginalNamed, OriginalStopped, Replacement, NameReserved
  <2>3. UniqueNames'
    BY <1>j, <2>1 DEF UniqueNames
  <2>. QED BY <1>t, <1>s, <2>2, <2>3 DEF SoloInv
<1>9. ASSUME NEW j \in Jobs, Cleanup(j) PROVE SoloInv'
  <2>1. /\ pc[j] = "cleanup" /\ pc'[j] = "restoreName"
        /\ UNCHANGED <<name, image, repl, insp, target>>
    BY <1>9, <1>t DEF Cleanup, TypeOK
  <2>2. /\ insp[j].id \in alive /\ insp[j].id \notin running
        /\ name[insp[j].id] # insp[j].name
        /\ repl[j] \in alive /\ repl[j] # insp[j].id
        /\ NameLeft(j, {insp[j].id, repl[j]})
    BY <1>j, <2>1
       DEF OriginalThere, OriginalNamed, OriginalStopped, Replacement, NameReserved
  <2>3. alive' = alive \ {repl[j]} /\ running' = running \ {repl[j]}
    BY <1>9, <2>2, SoloAnswers DEF Cleanup, RemoveEffect
  <2>4. OriginalThere(j)' /\ OriginalNamed(j)' /\ OriginalStopped(j)' /\ Replacement(j)'
    BY <2>1, <2>2, <2>3 DEF OriginalThere, OriginalNamed, OriginalStopped, Replacement
  <2>5. NameReserved(j)' /\ UniqueNames'
    BY <1>j, <2>1, <2>2, <2>3 DEF NameReserved, NameLeft, UniqueNames
  <2>. QED BY <1>t, <1>s, <2>4, <2>5 DEF SoloInv, Established
<1>10. ASSUME NEW j \in Jobs, RestoreName(j) PROVE SoloInv'
  <2> DEFINE i == insp[j].id
  <2>1. /\ pc[j] = "restoreName" /\ UNCHANGED <<alive, running, image, repl, insp, target>>
        /\ pc'[j] = IF insp[j].up THEN "restoreStart" ELSE "failed"
    BY <1>10, <1>t DEF RestoreName, AfterName, TypeOK
  <2>2. i \in alive /\ i \in Ids /\ i \notin running /\ repl[j] \notin alive /\ NameLeft(j, {i})
    BY <1>j, <2>1
       DEF OriginalThere, OriginalStopped, Replacement, NameReserved, Inspection
  <2>3. i \in alive /\ NameFree(insp[j].name, i)
    BY <2>2 DEF NameLeft, NameFree
  <2>4. name' = [name EXCEPT ![i] = insp[j].name]
    BY <1>10, <2>3, SoloAnswers DEF RestoreName
  <2>5. name'[i] = insp[j].name /\ \A k \in alive \ {i} : name'[k] = name[k]
    BY <1>t, <2>2, <2>4 DEF TypeOK
  <2>6. OriginalThere(j)' /\ OriginalNamed(j)' /\ OriginalStopped(j)' /\ Replacement(j)'
        /\ NameReserved(j)'
    BY <2>1, <2>2, <2>5
       DEF OriginalThere, OriginalNamed, OriginalStopped, Replacement, NameReserved
  <2>7. UniqueNames'
    BY <1>j, <2>1, <2>3, <2>5 DEF UniqueNames, NameFree
  <2>. QED BY <1>t, <1>s, <2>6, <2>7 DEF SoloInv, Established
<1>11. ASSUME NEW j \in Jobs, RestoreStart(j) PROVE SoloInv'
  <2>1. pc'[j] = "failed" /\ alive' = alive /\ name' = name
    BY <1>11, <1>t DEF RestoreStart, TypeOK
  <2>2. Established(j)'
    BY <2>1 DEF Established, OriginalThere, OriginalNamed, OriginalStopped, Replacement, NameReserved
  <2>3. UniqueNames'
    BY <1>j, <2>1 DEF UniqueNames
  <2>. QED BY <1>t, <1>s, <2>2, <2>3 DEF SoloInv
<1>12. ASSUME NEW i \in Ids, Toggle(i) PROVE SoloInv'
  <2>1. ASSUME NEW j \in Jobs PROVE Established(j)'
    <3>1. pc'[j] \in {"rest", "done", "failed"}
      BY <1>12 DEF Toggle, AtRest
    <3>. QED
      BY <3>1
         DEF Established, OriginalThere, OriginalNamed, OriginalStopped, Replacement, NameReserved
  <2>2. alive' = alive /\ name' = name
    BY <1>12 DEF Toggle, StopEffect, Solo
  <2>3. UniqueNames'
    BY <2>2 DEF SoloInv, UniqueNames
  <2>. QED BY <1>t, <2>1, <2>3 DEF SoloInv
<1>13. ASSUME UNCHANGED vars PROVE SoloInv'
  BY <1>13
     DEF vars, SoloInv, TypeOK, UniqueNames, Established, OriginalThere, OriginalNamed,
         OriginalStopped, Replacement, NameReserved, NameLeft
<1>14. ASSUME NEW j \in Jobs, Crash(j) PROVE SoloInv'
  <2>1. pc'[j] = "rest" /\ alive' = alive /\ name' = name
    BY <1>14, <1>t DEF Crash, TypeOK
  <2>2. Established(j)'
    BY <2>1 DEF Established, OriginalThere, OriginalNamed, OriginalStopped, Replacement, NameReserved
  <2>3. UniqueNames'
    BY <1>j, <2>1 DEF UniqueNames
  <2>. QED BY <1>t, <1>s, <2>2, <2>3 DEF SoloInv
<1>. QED
  BY <1>1, <1>2, <1>3, <1>4, <1>5, <1>6, <1>7, <1>8, <1>9, <1>10, <1>11, <1>12, <1>13, <1>14
     DEF Next, Step

LEMMA StepRestores == Solo /\ SoloInv /\ [Next]_vars => [FailureStep]_vars
<1> SUFFICES ASSUME Solo, SoloInv, Next, NEW j \in Jobs, Ends(j, "failed"), pc[j] # "inspect"
             PROVE  Restored(j)'
  BY DEF FailureStep
<1> USE DEF GoTo, TookEffect, engine
<1>t. TypeOK
  BY DEF SoloInv
<1>j. /\ OriginalThere(j) /\ OriginalNamed(j) /\ OriginalStopped(j)
      /\ Replacement(j) /\ NameReserved(j)
      /\ insp[j] \in Inspection
  BY DEF SoloInv, Established, TypeOK
<1>1. Step(j)
  <2>1. PICK k \in Jobs : Request(k) \/ Step(k) \/ Crash(k)
    BY DEF Next, Toggle, Ends
  <2>2. k = j
    BY DEF Solo
  <2>3. ~Request(j) /\ ~Crash(j)
    BY <1>t DEF Request, Crash, Ends, TypeOK
  <2>. QED BY <2>1, <2>2, <2>3
<1>2. CASE Pull(j)
  BY <1>2, <1>j
     DEF Pull, PullThen, Restored, OriginalThere, OriginalNamed, OriginalStopped, Replacement,
         Inspection
<1>3. CASE Stop(j)
  <2>1. UNCHANGED <<alive, running, name, repl, insp>> /\ pc[j] = "stop"
    BY <1>3, <1>t, SoloAnswers DEF Stop, StopEffect, TypeOK, Ends
  <2>. QED
    BY <1>j, <2>1
       DEF Restored, OriginalThere, OriginalNamed, OriginalStopped, Replacement
<1>4. CASE Rename(j)
  <2>1. UNCHANGED <<alive, running, name, repl, insp>> /\ pc[j] = "rename" /\ ~insp[j].up
    BY <1>4, <1>t, SoloAnswers DEF Rename, AfterName, TypeOK, Ends
  <2>. QED
    BY <1>j, <2>1 DEF Restored, OriginalThere, OriginalNamed, OriginalStopped, Replacement
<1>5. CASE RestoreName(j)
  <2>1. pc[j] = "restoreName" /\ ~insp[j].up /\ UNCHANGED <<alive, running, repl, insp>>
    BY <1>5, <1>t DEF RestoreName, AfterName, TypeOK, Ends
  <2>2. /\ insp[j].id \in alive /\ insp[j].id \notin running /\ repl[j] \notin alive
        /\ NameFree(insp[j].name, insp[j].id)
    BY <1>j, <2>1
       DEF OriginalThere, OriginalStopped, Replacement, NameReserved, NameLeft, NameFree
  <2>3. name' = [name EXCEPT ![insp[j].id] = insp[j].name]
    BY <1>5, <2>2, SoloAnswers DEF RestoreName
  <2>. QED BY <1>t, <1>j, <2>1, <2>2, <2>3 DEF Restored, TypeOK, Inspection
<1>6. CASE RestoreStart(j)
  <2>1. pc[j] = "restoreStart" /\ UNCHANGED <<alive, name, repl, insp>>
    BY <1>6 DEF RestoreStart
  <2>2. /\ insp[j].id \in alive /\ name[insp[j].id] = insp[j].name /\ insp[j].up
        /\ repl[j] \notin alive
    BY <1>j, <2>1 DEF OriginalThere, OriginalNamed, OriginalStopped, Replacement
  <2>3. running' = running \cup {insp[j].id}
    BY <1>6, <2>2, SoloAnswers DEF RestoreStart
  <2>. QED BY <2>1, <2>2, <2>3 DEF Restored
<1>7. ~Inspect(j) /\ ~Create(j) /\ ~Start(j) /\ ~Remove(j) /\ ~Cleanup(j)
  BY <1>t DEF Inspect, Create, CreateOr, Start, StartOr, Remove, Cleanup, TypeOK, Ends
<1>. QED BY <1>1, <1>2, <1>3, <1>4, <1>5, <1>6, <1>7 DEF Step

\* With one update at a time, an engine that answers and recovery calls that are
\* served, a failed update leaves the original exactly as it was found.
THEOREM FailedUpdateRestores == ASSUME Solo PROVE Spec => FailureRestores
<1>1. Init => SoloInv
  BY InitSolo
<1>2. SoloInv /\ [Next]_vars => SoloInv'
  BY StepSolo
<1>3. SoloInv /\ [Next]_vars => [FailureStep]_vars
  BY StepRestores
<1>. QED BY <1>1, <1>2, <1>3, PTL DEF Spec, FailureRestores

\* Under the same conditions an update reported done has replaced the original.
THEOREM DoneUpdateReplaced == ASSUME Solo PROVE Spec => SuccessReplaces
<1>1. Init => SoloInv
  BY InitSolo
<1>2. SoloInv /\ [Next]_vars => SoloInv'
  BY StepSolo
<1>3. SoloInv /\ [Next]_vars => [SuccessStep]_vars
  <2> SUFFICES ASSUME SoloInv, Next, NEW j \in Jobs, Ends(j, "done")
               PROVE  Replaced(j)'
    BY DEF SuccessStep
  <2> USE DEF GoTo, TookEffect, engine
  <2>t. TypeOK
    BY DEF SoloInv
  <2>j. OriginalNamed(j) /\ OriginalStopped(j) /\ Replacement(j)
    BY DEF SoloInv, Established
  <2>1. Remove(j)
    <3>1. PICK k \in Jobs : Request(k) \/ Step(k) \/ Crash(k)
      BY DEF Next, Toggle, Ends
    <3>2. k = j
      BY DEF Solo
    <3>3. ~Request(j) /\ ~Crash(j)
      BY <2>t DEF Request, Crash, Ends, TypeOK
    <3>4. /\ ~Inspect(j) /\ ~Pull(j) /\ ~Stop(j) /\ ~Rename(j) /\ ~Create(j) /\ ~Start(j)
          /\ ~Cleanup(j) /\ ~RestoreName(j) /\ ~RestoreStart(j)
      BY <2>t
         DEF Inspect, Pull, PullThen, Stop, Rename, Create, CreateOr, Start, StartOr, Cleanup,
             RestoreName, RestoreStart, AfterName, TypeOK, Ends
    <3>. QED BY <3>1, <3>2, <3>3, <3>4 DEF Step
  <2>2. /\ pc[j] = "remove" /\ UNCHANGED <<name, image, insp, target, repl>>
        /\ running \ {insp[j].id} \subseteq running' /\ running' \subseteq running
        /\ alive' \subseteq alive
    BY <2>1 DEF Remove, RemoveEffect
  <2>3. /\ repl[j] \in running /\ repl[j] # insp[j].id /\ insp[j].id \notin running
        /\ name[repl[j]] = insp[j].name /\ image[repl[j]] = target[j]
        /\ name[insp[j].id] # insp[j].name
    BY <2>j, <2>2 DEF OriginalNamed, OriginalStopped, Replacement
  <2>. QED BY <2>2, <2>3 DEF Replaced
<1>. QED BY <1>1, <1>2, <1>3, PTL DEF Spec, SuccessReplaces

\* Under the same conditions the original and its replacement never run together.
THEOREM NeverTogether == ASSUME Solo PROVE Spec => []NeverBothRunning
<1>1. Init => SoloInv
  BY InitSolo
<1>2. SoloInv /\ [Next]_vars => SoloInv'
  BY StepSolo
<1>3. SoloInv => NeverBothRunning
  <2> SUFFICES ASSUME SoloInv, NEW j \in Jobs, InFlight(j)
               PROVE  ~(repl[j] \in running /\ insp[j].id \in running)
    BY DEF NeverBothRunning
  <2>1. pc[j] \in Forward \cup Recovery /\ running \subseteq alive
    BY DEF SoloInv, TypeOK, InFlight
  <2>. QED BY <2>1 DEF SoloInv, Established, OriginalStopped, Replacement, Forward, Recovery
<1>. QED BY <1>1, <1>2, <1>3, PTL DEF Spec

-----------------------------------------------------------------------------
(* The workload's name is held when no update is in flight.  While a job    *)
(* has it renamed away, either it is the name the job will give back, or a  *)
(* container the job does not touch has it.                                *)

HeldOutside(X) == \E i \in alive \ X : name[i] = Base

Holds(j) ==
  /\ pc[j] \in {"inspect", "pull", "stop", "rename", "restoreStart"} => HeldOutside({})
  /\ pc[j] \in {"create", "restoreName"} => insp[j].name = Base \/ HeldOutside({insp[j].id})
  /\ pc[j] \in {"start", "cleanup"} =>
       insp[j].name = Base \/ HeldOutside({insp[j].id, repl[j]})
  /\ pc[j] = "remove" => HeldOutside({insp[j].id})

NameInv == NameKept /\ \A j \in Jobs : Holds(j)

\* Steps that leave every name to a container that exists.
LEMMA SameNames ==
  ASSUME NameInv, UNCHANGED <<alive, name>>, NEW j \in Jobs, SoloInv,
         UNCHANGED insp \/ pc[j] = "inspect" \/ pc[j] \in AtRest,
         pc[j] \in {"inspect", "pull", "stop", "restoreStart"} \cup AtRest,
         pc'[j] \in {"inspect", "pull", "stop", "rename", "restoreStart"} \cup AtRest,
         Solo
  PROVE  NameInv'
<1>1. HeldOutside({})
  <2>1. CASE pc[j] \in AtRest
    BY <2>1 DEF NameInv, NameKept, InFlight, HeldOutside, Solo
  <2>2. CASE pc[j] \notin AtRest
    BY <2>2 DEF NameInv, Holds
  <2>. QED BY <2>1, <2>2
<1>2. HeldOutside({})'
  BY <1>1 DEF HeldOutside
<1>3. NameKept'
  BY <1>2 DEF NameKept, HeldOutside
<1>4. ASSUME NEW k \in Jobs PROVE Holds(k)'
  <2>1. k = j
    BY DEF Solo
  <2>. QED BY <1>2, <2>1 DEF Holds, AtRest
<1>. QED BY <1>3, <1>4 DEF NameInv

LEMMA StepNamed == Solo /\ SoloInv /\ SoloInv' /\ NameInv /\ [Next]_vars => NameInv'
<1> SUFFICES ASSUME Solo, SoloInv, SoloInv', NameInv, [Next]_vars PROVE NameInv'
  OBVIOUS
<1> USE DEF engine, GoTo, TookEffect
<1>t. TypeOK /\ TypeOK'
  BY DEF SoloInv
<1>o. ASSUME NEW j \in Jobs, Holds(j)', pc'[j] \notin AtRest PROVE NameInv'
  BY <1>o DEF Solo, NameInv, NameKept, InFlight
<1>r. ASSUME NEW j \in Jobs, HeldOutside({})', pc'[j] \in AtRest \cup {"restoreStart"} PROVE NameInv'
  <2>1. NameKept'
    BY <1>r DEF NameKept, HeldOutside
  <2>2. ASSUME NEW k \in Jobs PROVE Holds(k)'
    <3>1. k = j
      BY DEF Solo
    <3>. QED BY <1>r, <3>1 DEF Holds, AtRest
  <2>. QED BY <2>1, <2>2 DEF NameInv
<1>j. ASSUME NEW j \in Jobs
      PROVE  /\ OriginalThere(j) /\ OriginalNamed(j) /\ Replacement(j) /\ NameReserved(j)
             /\ insp[j] \in Inspection /\ Holds(j)
  BY DEF SoloInv, Established, TypeOK, NameInv
<1>1. ASSUME NEW j \in Jobs, Request(j) PROVE NameInv'
  BY <1>1, <1>t, SameNames DEF Request, TypeOK
<1>2. ASSUME NEW j \in Jobs, Inspect(j) PROVE NameInv'
  BY <1>2, <1>t, SameNames DEF Inspect, TypeOK, AtRest
<1>3. ASSUME NEW j \in Jobs, Pull(j) PROVE NameInv'
  BY <1>3, <1>t, SameNames DEF Pull, PullThen, TypeOK, AtRest
<1>4. ASSUME NEW j \in Jobs, Stop(j) PROVE NameInv'
  <2>1. UNCHANGED <<alive, name, insp>>
    BY <1>4 DEF Stop, StopEffect, Solo
  <2>. QED BY <1>4, <1>t, <2>1, SameNames DEF Stop, TypeOK, AtRest
<1>5. ASSUME NEW j \in Jobs, Rename(j) PROVE NameInv'
  <2>1. pc[j] = "rename" /\ HeldOutside({}) /\ name[insp[j].id] = insp[j].name
        /\ UNCHANGED <<alive, insp>>
    BY <1>5, <1>j DEF Rename, Holds, OriginalNamed
  <2>2. \/ pc'[j] = "create" /\ \E b : name' = [name EXCEPT ![insp[j].id] = b]
        \/ pc'[j] \in {"restoreStart", "failed"} /\ name' = name
    <3>1. pc'[j] \in {"create", "restoreStart", "failed"}
      BY <1>5, <1>t DEF Rename, AfterName, TypeOK
    <3>2. ASSUME pc'[j] # "create" PROVE name' = name
      BY <1>5, <1>t, <3>2 DEF Rename, Answers, Solo, TypeOK
    <3>3. name' = name \/ \E b : name' = [name EXCEPT ![insp[j].id] = b]
      BY <1>5 DEF Rename
    <3>4. name' = [name EXCEPT ![insp[j].id] = name[insp[j].id]] \/ name' # name
      BY <1>t DEF TypeOK
    <3>. QED BY <3>1, <3>2, <3>3, <3>4
  <2>3. CASE pc'[j] = "create" /\ \E b : name' = [name EXCEPT ![insp[j].id] = b]
    <3>1. insp[j].name = Base \/ HeldOutside({insp[j].id})
      BY <2>1 DEF HeldOutside
    <3>2. (insp[j].name = Base \/ HeldOutside({insp[j].id}))'
      BY <1>t, <2>1, <2>3, <3>1 DEF HeldOutside, TypeOK
    <3>. QED BY <1>o, <2>3, <3>2 DEF Holds, AtRest
  <2>4. CASE pc'[j] \in {"restoreStart", "failed"} /\ name' = name
    <3>1. HeldOutside({})'
      BY <2>1, <2>4 DEF HeldOutside
    <3>. QED BY <1>r, <2>4, <3>1 DEF AtRest
  <2>. QED BY <2>2, <2>3, <2>4
<1>6. ASSUME NEW j \in Jobs, Create(j) PROVE NameInv'
  <2>1. pc[j] = "create" /\ (insp[j].name = Base \/ HeldOutside({insp[j].id})) /\ UNCHANGED insp
    BY <1>6, <1>j DEF Create, CreateOr, Holds
  <2>2. \/ pc'[j] = "restoreName" /\ UNCHANGED <<alive, name>>
        \/ /\ pc'[j] = "start" /\ repl'[j] = next /\ alive' = alive \cup {next}
           /\ name' = [name EXCEPT ![next] = insp[j].name]
    BY <1>6, <1>t DEF Create, CreateOr, Answers, Solo, TypeOK
  <2>3. CASE pc'[j] = "restoreName" /\ UNCHANGED <<alive, name>>
    <3>1. (insp[j].name = Base \/ HeldOutside({insp[j].id}))'
      BY <2>1, <2>3 DEF HeldOutside
    <3>. QED BY <1>o, <2>3, <3>1 DEF Holds, AtRest
  <2>4. CASE /\ pc'[j] = "start" /\ repl'[j] = next /\ alive' = alive \cup {next}
             /\ name' = [name EXCEPT ![next] = insp[j].name]
    <3>1. next \notin alive
      BY <1>t, BoundsAssumption DEF TypeOK, Ids
    <3>2. (insp[j].name = Base \/ HeldOutside({insp[j].id, repl[j]}))'
      BY <1>t, <2>1, <2>4, <3>1 DEF HeldOutside, TypeOK
    <3>. QED BY <1>o, <2>4, <3>2 DEF Holds, AtRest
  <2>. QED BY <2>2, <2>3, <2>4
<1>7. ASSUME NEW j \in Jobs, Start(j) PROVE NameInv'
  <2>1. /\ pc[j] = "start" /\ (insp[j].name = Base \/ HeldOutside({insp[j].id, repl[j]}))
        /\ repl[j] \in alive /\ repl[j] # insp[j].id /\ name[repl[j]] = insp[j].name
        /\ UNCHANGED <<alive, name, insp, repl>>
    BY <1>7, <1>j DEF Start, StartOr, Holds, Replacement
  <2>2. pc'[j] \in {"cleanup", "remove"}
    BY <1>7, <1>t DEF Start, StartOr, TypeOK
  <2>3. (insp[j].name = Base \/ HeldOutside({insp[j].id, repl[j]}))'
    BY <2>1 DEF HeldOutside
  <2>4. HeldOutside({insp[j].id})'
    BY <2>1 DEF HeldOutside
  <2>. QED BY <1>o, <2>2, <2>3, <2>4 DEF Holds, AtRest
<1>8. ASSUME NEW j \in Jobs, Remove(j) PROVE NameInv'
  <2>1. HeldOutside({insp[j].id}) /\ pc'[j] = "done" /\ name' = name
        /\ alive \ {insp[j].id} \subseteq alive'
    BY <1>8, <1>j, <1>t DEF Remove, RemoveEffect, Holds, TypeOK
  <2>2. HeldOutside({})'
    BY <2>1 DEF HeldOutside
  <2>. QED BY <1>r, <2>1, <2>2 DEF AtRest
<1>9. ASSUME NEW j \in Jobs, Cleanup(j) PROVE NameInv'
  <2>1. /\ insp[j].name = Base \/ HeldOutside({insp[j].id, repl[j]})
        /\ pc'[j] = "restoreName" /\ UNCHANGED <<name, insp>>
        /\ alive \ {repl[j]} \subseteq alive'
    BY <1>9, <1>j, <1>t DEF Cleanup, RemoveEffect, Holds, TypeOK
  <2>2. (insp[j].name = Base \/ HeldOutside({insp[j].id}))'
    BY <2>1 DEF HeldOutside
  <2>. QED BY <1>o, <2>1, <2>2 DEF Holds, AtRest
<1>10. ASSUME NEW j \in Jobs, RestoreName(j) PROVE NameInv'
  <2>1. /\ pc[j] = "restoreName" /\ insp[j].id \in alive
        /\ insp[j].name = Base \/ HeldOutside({insp[j].id})
        /\ NameFree(insp[j].name, insp[j].id)
        /\ pc'[j] \in {"restoreStart", "failed"} /\ alive' = alive
    BY <1>10, <1>j, <1>t
       DEF RestoreName, AfterName, Holds, OriginalThere, NameReserved, NameLeft, NameFree, TypeOK
  <2>2. name' = [name EXCEPT ![insp[j].id] = insp[j].name]
    BY <1>10, <2>1, SoloAnswers DEF RestoreName
  <2>3. HeldOutside({})'
    BY <1>t, <2>1, <2>2 DEF HeldOutside, TypeOK
  <2>. QED BY <1>r, <2>1, <2>3 DEF AtRest
<1>11. ASSUME NEW j \in Jobs, RestoreStart(j) PROVE NameInv'
  BY <1>11, <1>t, SameNames DEF RestoreStart, TypeOK, AtRest
<1>12. ASSUME NEW i \in Ids, Toggle(i) PROVE NameInv'
  <2>1. UNCHANGED <<alive, name, pc, insp, repl>>
    BY <1>12 DEF Toggle, StopEffect, Solo
  <2>. QED BY <2>1 DEF NameInv, NameKept, InFlight, Holds, HeldOutside
<1>13. ASSUME UNCHANGED vars PROVE NameInv'
  BY <1>13 DEF vars, NameInv, NameKept, InFlight, Holds, HeldOutside
<1>14. ASSUME NEW j \in Jobs, Crash(j) PROVE NameInv'
  <2>1. pc[j] \in {"inspect", "pull", "stop", "remove"} /\ pc'[j] = "rest" /\ UNCHANGED <<alive, name>>
    BY <1>14, <1>t DEF Crash, Solo, TypeOK
  <2>2. HeldOutside({})
    BY <1>j, <2>1 DEF Holds, HeldOutside
  <2>3. HeldOutside({})'
    BY <2>1, <2>2 DEF HeldOutside
  <2>. QED BY <1>r, <2>1, <2>3 DEF AtRest
<1>. QED
  BY <1>1, <1>2, <1>3, <1>4, <1>5, <1>6, <1>7, <1>8, <1>9, <1>10, <1>11, <1>12, <1>13, <1>14
     DEF Next, Step

\* Under the same conditions some container has the workload's name whenever no
\* update is in flight, whichever containers were updated and however it went.
THEOREM NameStays == ASSUME Solo PROVE Spec => []NameKept
<1>1. Init => SoloInv
  BY InitSolo
<1>2. SoloInv /\ [Next]_vars => SoloInv'
  BY StepSolo
<1>3. Init => NameInv
  <2> SUFFICES ASSUME Init PROVE NameInv
    OBVIOUS
  <2>1. First \in alive /\ name[First] = Base /\ \A j \in Jobs : pc[j] = "rest"
    BY BoundsAssumption DEF Init, First, Ids
  <2>. QED BY <2>1 DEF NameInv, NameKept, Holds
<1>4. SoloInv /\ NameInv /\ [Next]_vars => NameInv'
  BY <1>2, StepNamed
<1>5. NameInv => NameKept
  BY DEF NameInv
<1>. QED BY <1>1, <1>2, <1>3, <1>4, <1>5, PTL DEF Spec

-----------------------------------------------------------------------------
(* Under the same conditions Recreate implements UpdateContract.  What the  *)
(* contract sees of an update is what SoloInv says, and the image of the    *)
(* original, which no call changes.                                        *)

ImageKept(j) ==
  pc[j] \notin {"rest", "inspect", "done", "failed"} => image[insp[j].id] = insp[j].image

ImageInv == \A j \in Jobs : ImageKept(j)

LEMMA StepImage == Solo /\ SoloInv /\ ImageInv /\ [Next]_vars => ImageInv'
<1> SUFFICES ASSUME Solo, SoloInv, ImageInv, [Next]_vars, NEW j \in Jobs PROVE ImageKept(j)'
  BY DEF ImageInv
<1> USE DEF engine, GoTo
<1>t. TypeOK /\ ImageKept(j) /\ OriginalThere(j)
  BY DEF SoloInv, ImageInv, Established
<1>1. CASE Request(j)
  BY <1>t, <1>1 DEF Request, ImageKept, TypeOK
<1>2. CASE Inspect(j)
  <2>1. \/ pc'[j] = "failed"
        \/ image' = image /\ insp'[j].id = insp[j].id /\ insp'[j].image = image[insp[j].id]
    BY <1>t, <1>2 DEF Inspect, TypeOK, Inspection
  <2>. QED BY <2>1 DEF ImageKept
<1>3. CASE Create(j)
  <2>1. pc[j] = "create" /\ insp' = insp /\ insp[j].id \in alive
    BY <1>t, <1>3 DEF Create, CreateOr, OriginalThere
  <2>2. image' = image \/ image' = [image EXCEPT ![next] = target[j]]
    BY <1>3 DEF Create, CreateOr
  <2>3. insp[j].id # next
    BY <1>t, <2>1, BoundsAssumption DEF TypeOK, Ids
  <2>. QED BY <1>t, <2>1, <2>2, <2>3 DEF ImageKept, TypeOK
<1>4. CASE \/ Pull(j) \/ Stop(j) \/ Rename(j) \/ Start(j) \/ Remove(j)
           \/ Cleanup(j) \/ RestoreName(j) \/ RestoreStart(j)
  <2>1. image' = image /\ insp' = insp /\ pc[j] \notin {"rest", "inspect", "done", "failed"}
    BY <1>4 DEF Pull, PullThen, Stop, Rename, Start, StartOr, Remove, Cleanup, RestoreName, RestoreStart
  <2>. QED BY <1>t, <2>1 DEF ImageKept
<1>5. CASE Crash(j)
  BY <1>t, <1>5 DEF Crash, ImageKept, TypeOK
<1>6. CASE UNCHANGED vars \/ \E i \in Ids : Toggle(i)
  BY <1>t, <1>6 DEF vars, Toggle, ImageKept
<1>. QED
  BY <1>1, <1>2, <1>3, <1>4, <1>5, <1>6 DEF Next, Step, Solo

SeenOf(X) == {Seen(i) : i \in X}
Found(j)  == [name |-> insp[j].name, image |-> insp[j].image, up |-> insp[j].up]

CoveredAt   == {"rename", "create", "start"} \cup Recovery
UncoveredAt == {"inspect", "pull", "stop"} \cup AtRest

\* What the contract sees, by the call the only job makes next.
View(j) ==
  /\ pc[j] \in UncoveredAt => Workloads = SeenOf(alive)
  /\ pc[j] \in CoveredAt =>
       Workloads = SeenOf(alive \ {insp[j].id, repl[j]}) \cup {Found(j)}
  /\ pc[j] = "remove" => Workloads = SeenOf(alive \ {insp[j].id})
  /\ Phase = IF pc[j] \in AtRest THEN "idle" ELSE IF pc[j] = "remove" THEN "committed" ELSE "open"

LEMMA OneView == ASSUME Solo, NEW j \in Jobs PROVE View(j) /\ View(j)'
<1>0. \A k \in Jobs : k = j
  BY DEF Solo
<1>1. View(j)
  <2>1. Covered = IF pc[j] \in CoveredAt THEN {j} ELSE {}
    BY <1>0 DEF Covered, CoveredAt
  <2>2. {k \in Jobs : pc[k] = "remove"} = IF pc[j] = "remove" THEN {j} ELSE {}
    BY <1>0
  <2>3. Phase = IF pc[j] \in AtRest THEN "idle" ELSE IF pc[j] = "remove" THEN "committed" ELSE "open"
    BY <1>0 DEF Phase
  <2>4. CASE pc[j] \in UncoveredAt
    <3>1. Covered = {} /\ Hidden = {}
      BY <2>1, <2>2, <2>4 DEF Hidden, CoveredAt, UncoveredAt, Recovery, AtRest
    <3>2. Workloads = SeenOf(alive)
      BY <3>1 DEF Workloads, SeenOf
    <3>. QED BY <2>3, <2>4, <3>2 DEF View, CoveredAt, UncoveredAt, Recovery, AtRest
  <2>5. CASE pc[j] \in CoveredAt
    <3>1. Covered = {j} /\ Hidden = {insp[j].id, repl[j]}
      BY <2>1, <2>2, <2>5 DEF Hidden, CoveredAt, Recovery
    <3>2. Workloads = SeenOf(alive \ {insp[j].id, repl[j]}) \cup {Found(j)}
      BY <3>1 DEF Workloads, SeenOf, Found
    <3>. QED BY <2>3, <2>5, <3>2 DEF View, CoveredAt, UncoveredAt, Recovery, AtRest
  <2>6. CASE pc[j] = "remove"
    <3>1. Covered = {} /\ Hidden = {insp[j].id}
      BY <2>1, <2>2, <2>6 DEF Hidden, CoveredAt, Recovery
    <3>2. Workloads = SeenOf(alive \ {insp[j].id})
      BY <3>1 DEF Workloads, SeenOf
    <3>. QED BY <2>3, <2>6, <3>2 DEF View, CoveredAt, UncoveredAt, Recovery, AtRest
  <2>. QED BY <2>3, <2>4, <2>5, <2>6 DEF View
<1>. QED BY <1>1, PTL

\* The same from the pull on: the original as the inspection found it, and the rest.
OpenView(j) == SeenOf(alive \ {insp[j].id, repl[j]}) \cup {Found(j)}

AsFound(j) == insp[j].id \in alive /\ repl[j] \notin alive /\ Seen(insp[j].id) = Found(j)

LEMMA FoundIsSeen ==
  ASSUME NEW j \in Jobs
  PROVE  /\ AsFound(j) => SeenOf(alive) = OpenView(j)
         /\ (AsFound(j) => SeenOf(alive) = OpenView(j))'
<1>1. AsFound(j) => SeenOf(alive) = OpenView(j)
  BY DEF AsFound, SeenOf, OpenView
<1>. QED BY <1>1, PTL

InOpen == {"pull", "stop", "rename", "create", "start"} \cup Recovery

LEMMA OpenIsSeen ==
  ASSUME Solo, NEW j \in Jobs
  PROVE  /\ SoloInv /\ ImageInv /\ pc[j] \in InOpen => Workloads = OpenView(j) /\ Phase = "open"
         /\ (SoloInv /\ ImageInv /\ pc[j] \in InOpen => Workloads = OpenView(j) /\ Phase = "open")'
<1>1. SoloInv /\ ImageInv /\ pc[j] \in InOpen => Workloads = OpenView(j) /\ Phase = "open"
  <2> SUFFICES ASSUME SoloInv, ImageInv, pc[j] \in InOpen
               PROVE  Workloads = OpenView(j) /\ Phase = "open"
    OBVIOUS
  <2>1. Phase = "open"
    BY OneView DEF View, InOpen, Recovery, AtRest
  <2>2. CASE pc[j] \in CoveredAt
    BY <2>1, <2>2, OneView DEF View, OpenView
  <2>3. CASE pc[j] \in {"pull", "stop"}
    <3>1. AsFound(j)
      <4>1. /\ OriginalThere(j) /\ OriginalNamed(j) /\ OriginalStopped(j) /\ Replacement(j)
            /\ ImageKept(j) /\ insp[j] \in Inspection
        BY DEF SoloInv, Established, ImageInv, TypeOK
      <4>2. /\ insp[j].id \in alive /\ repl[j] \notin alive
            /\ name[insp[j].id] = insp[j].name /\ image[insp[j].id] = insp[j].image
            /\ insp[j].up = (insp[j].id \in running)
        BY <2>3, <4>1
           DEF OriginalThere, OriginalNamed, OriginalStopped, Replacement, ImageKept, Inspection
      <4>. QED BY <4>2 DEF AsFound, Seen, Found
    <3>2. Workloads = SeenOf(alive)
      BY <2>3, OneView DEF View, UncoveredAt
    <3>. QED BY <2>1, <3>1, <3>2, FoundIsSeen
  <2>. QED BY <2>2, <2>3 DEF InOpen, CoveredAt
<1>. QED BY <1>1, PTL

\* No call but the start of the replacement changes what the contract sees.
LEMMA OpenStays ==
  ASSUME Solo, SoloInv, NEW j \in Jobs,
         \/ Pull(j) \/ Stop(j) \/ Rename(j) \/ Create(j) \/ Start(j) \/ Cleanup(j)
         \/ RestoreName(j) \/ RestoreStart(j),
         pc'[j] # "remove"
  PROVE  OpenView(j)' = OpenView(j)
<1> USE DEF engine, GoTo, TookEffect
<1> DEFINE others == alive \ {insp[j].id, repl[j]}
<1>t. TypeOK /\ Replacement(j)
  BY DEF SoloInv, Established
<1>1. insp' = insp /\ alive' \ {insp[j].id, repl'[j]} = others
  <2>1. CASE Create(j)
    <3>1. /\ pc[j] = "create" /\ next \notin alive /\ insp' = insp
          /\ \/ alive' = alive /\ repl' = repl
             \/ alive' = alive \cup {next} /\ repl' = [repl EXCEPT ![j] = next]
      BY <1>t, <2>1, SoloAnswers, BoundsAssumption DEF Create, CreateOr, TypeOK, Ids
    <3>2. repl[j] \notin alive
      BY <1>t, <3>1 DEF Replacement
    <3>. QED BY <1>t, <3>1, <3>2 DEF TypeOK
  <2>2. CASE Cleanup(j)
    BY <2>2 DEF Cleanup, RemoveEffect
  <2>3. CASE Stop(j)
    BY <2>3 DEF Stop, StopEffect, Solo
  <2>4. CASE Pull(j) \/ Rename(j) \/ Start(j) \/ RestoreName(j) \/ RestoreStart(j)
    BY <2>4 DEF Pull, PullThen, Rename, Start, StartOr, RestoreName, RestoreStart
  <2>. QED BY <2>1, <2>2, <2>3, <2>4
<1>2. ASSUME NEW i \in others PROVE Seen(i)' = Seen(i)
  <2>1. i \in Ids /\ i # insp[j].id /\ i # repl[j] /\ i # next
    BY <1>t, <1>2, BoundsAssumption DEF TypeOK, Ids
  <2>2. CASE Create(j)
    <3>1. /\ running' = running
          /\ name' = name \/ name' = [name EXCEPT ![next] = insp[j].name]
          /\ image' = image \/ image' = [image EXCEPT ![next] = target[j]]
      BY <2>2 DEF Create, CreateOr
    <3>2. name'[i] = name[i] /\ image'[i] = image[i]
      BY <1>t, <2>1, <3>1 DEF TypeOK
    <3>. QED BY <3>1, <3>2 DEF Seen
  <2>3. CASE Pull(j) \/ Stop(j) \/ Rename(j)
    <3>1. /\ image' = image
          /\ running' = running \/ running' = running \ {insp[j].id}
          /\ name' = name \/ \E n : name' = [name EXCEPT ![insp[j].id] = n]
      BY <2>3 DEF Pull, PullThen, Stop, StopEffect, Rename
    <3>2. name'[i] = name[i] /\ (i \in running' <=> i \in running)
      BY <1>t, <2>1, <3>1 DEF TypeOK
    <3>. QED BY <3>1, <3>2 DEF Seen
  <2>4. CASE Start(j) \/ Cleanup(j)
    BY <1>t, <2>1, <2>4 DEF Start, StartOr, Cleanup, RemoveEffect, Seen, TypeOK
  <2>5. CASE RestoreName(j) \/ RestoreStart(j)
    BY <1>t, <2>1, <2>5 DEF RestoreName, RestoreStart, Seen, TypeOK
  <2>. QED BY <2>2, <2>3, <2>4, <2>5
<1>3. SeenOf(alive \ {insp[j].id, repl[j]})' = SeenOf(others)
  BY <1>1, <1>2 DEF SeenOf
<1>4. Found(j)' = Found(j)
  BY <1>1 DEF Found
<1>. QED BY <1>3, <1>4 DEF OpenView

LEMMA StepContract ==
  Solo /\ SoloInv /\ SoloInv' /\ ImageInv /\ ImageInv' /\ [Next]_vars
    => [Contract!Next]_(Contract!vars)
<1> SUFFICES ASSUME Solo, SoloInv, SoloInv', ImageInv, ImageInv', [Next]_vars
             PROVE  Contract!Next \/ UNCHANGED <<Workloads, Phase>>
  BY DEF Contract!vars
<1> USE DEF engine, GoTo, TookEffect
<1>t. TypeOK /\ TypeOK' /\ UniqueNames
  BY DEF SoloInv
<1>v. ASSUME NEW j \in Jobs PROVE View(j) /\ View(j)'
  BY OneView
<1>j. ASSUME NEW j \in Jobs
      PROVE  /\ OriginalThere(j) /\ OriginalNamed(j) /\ OriginalStopped(j)
             /\ Replacement(j) /\ NameReserved(j) /\ ImageKept(j) /\ insp[j] \in Inspection
  BY <1>t DEF SoloInv, Established, ImageInv, TypeOK
\* A step after which no update is in flight, or still one, and nothing was seen of it.
<1>q. ASSUME Workloads' = Workloads, Phase = "open", Phase' \in {"open", "idle"}
      PROVE  Contract!Next \/ UNCHANGED <<Workloads, Phase>>
  BY <1>q DEF Contract!Next, Contract!Abort
\* A step that leaves the stopped original behind, or nothing.
<1>l. ASSUME NEW j \in Jobs, pc[j] = "remove", pc'[j] \in AtRest, UNCHANGED <<name, image, insp>>,
             \/ alive' = alive \ {insp[j].id} /\ running' = running \ {insp[j].id}
             \/ UNCHANGED <<alive, running>>
      PROVE  Contract!Next \/ UNCHANGED <<Workloads, Phase>>
  <2> DEFINE i == insp[j].id
  <2>1. /\ Workloads = SeenOf(alive \ {i}) /\ Phase = "committed"
        /\ Workloads' = SeenOf(alive)' /\ Phase' = "idle"
    BY <1>v, <1>l DEF View, UncoveredAt, AtRest
  <2>2. i \in alive /\ i \notin running
    BY <1>j, <1>l DEF OriginalThere, OriginalStopped
  <2>3. running' = running
    BY <1>l, <2>2
  <2>4. \A k : Seen(k)' = Seen(k)
    BY <1>l, <2>3 DEF Seen
  <2>5. CASE alive' = alive \ {i}
    <3>1. Workloads' = Workloads
      BY <2>1, <2>4, <2>5 DEF SeenOf
    <3>. QED BY <2>1, <3>1 DEF Contract!Next, Contract!Close
  <2>6. CASE alive' = alive
    <3>1. Workloads' = Workloads \cup {Seen(i)}
      BY <2>1, <2>2, <2>4, <2>6 DEF SeenOf
    <3>2. ~Seen(i).up /\ Seen(i).name = name[i]
      BY <2>2 DEF Seen
    <3>3. Seen(i).name \notin Contract!NamesOf(Workloads)
      <4>1. \A k \in alive \ {i} : name[k] # name[i]
        BY <1>t, <2>2 DEF UniqueNames
      <4>. QED BY <2>1, <3>2, <4>1 DEF Contract!NamesOf, SeenOf, Seen
    <3>. QED BY <2>1, <3>1, <3>2, <3>3 DEF Contract!Next, Contract!Close
  <2>. QED BY <1>l, <2>5, <2>6
<1>1. ASSUME NEW j \in Jobs, Request(j) PROVE Contract!Next
  <2>1. /\ pc[j] \in AtRest /\ pc'[j] = "inspect" /\ UNCHANGED <<alive, running, name, image>>
    BY <1>1, <1>t DEF Request, TypeOK
  <2>2. /\ Workloads = SeenOf(alive) /\ Phase = "idle"
        /\ Workloads' = SeenOf(alive)' /\ Phase' = "open"
    BY <1>v, <2>1 DEF View, UncoveredAt, AtRest
  <2>3. Workloads' = Workloads
    BY <2>1, <2>2 DEF SeenOf, Seen
  <2>. QED BY <2>2, <2>3 DEF Contract!Next, Contract!Begin
<1>2. ASSUME NEW j \in Jobs, Inspect(j) \/ (Crash(j) /\ pc[j] # "remove")
      PROVE Contract!Next \/ UNCHANGED <<Workloads, Phase>>
  <2>1. /\ pc[j] \in {"inspect", "pull", "stop"} /\ UNCHANGED <<alive, running, name, image>>
        /\ pc'[j] \in {"pull", "failed", "rest"}
    BY <1>2, <1>t DEF Inspect, Crash, Solo, TypeOK
  <2>2. /\ Workloads = SeenOf(alive) /\ Phase = "open"
        /\ Workloads' = SeenOf(alive)' /\ Phase' \in {"open", "idle"}
    BY <1>v, <2>1 DEF View, UncoveredAt, AtRest
  <2>3. Workloads' = Workloads
    BY <2>1, <2>2 DEF SeenOf, Seen
  <2>. QED BY <1>q, <2>2, <2>3
<1>3. ASSUME NEW j \in Jobs,
             \/ Pull(j) \/ Stop(j) \/ Rename(j) \/ Create(j) \/ Start(j) \/ Cleanup(j)
             \/ RestoreName(j) \/ RestoreStart(j),
             pc'[j] # "remove"
      PROVE Contract!Next \/ UNCHANGED <<Workloads, Phase>>
  <2>1. pc[j] \in InOpen /\ pc'[j] \in InOpen \cup {"failed"} /\ insp' = insp
    BY <1>3, <1>t
       DEF Pull, PullThen, Stop, Rename, AfterName, Create, CreateOr, Start, StartOr, Cleanup,
           RestoreName, RestoreStart, InOpen, Recovery, TypeOK
  <2>2. Workloads = OpenView(j) /\ Phase = "open" /\ OpenView(j)' = OpenView(j)
    BY <1>3, <2>1, OpenIsSeen, OpenStays
  <2>3. CASE pc'[j] \in InOpen
    <3>1. Workloads' = OpenView(j)' /\ Phase' = "open"
      BY <2>3, OpenIsSeen
    <3>. QED BY <1>q, <2>2, <3>1
  <2>4. CASE pc'[j] = "failed"
    <3>1. Restored(j)'
      <4>1. pc[j] \notin {"inspect", "failed"}
        BY <2>1 DEF InOpen, Recovery
      <4>2. Next /\ pc' # pc
        BY <1>3, <2>4, <4>1 DEF Next, Step
      <4>. QED BY <2>4, <4>1, <4>2, StepRestores DEF FailureStep, Ends, vars
    <3>2. image'[insp[j].id] = insp[j].image
      <4>1. ~Create(j)
        BY <1>t, <2>4 DEF Create, CreateOr, TypeOK
      <4>2. image' = image
        BY <1>3, <4>1
           DEF Pull, PullThen, Stop, Rename, Start, StartOr, Cleanup, RestoreName, RestoreStart
      <4>. QED BY <1>j, <2>1, <4>2 DEF ImageKept, InOpen, Recovery
    <3>3. AsFound(j)'
      BY <1>j, <2>1, <3>1, <3>2 DEF AsFound, Restored, Seen, Found, Inspection
    <3>4. Workloads' = SeenOf(alive)' /\ Phase' = "idle"
      BY <1>v, <2>4 DEF View, UncoveredAt, AtRest
    <3>5. Workloads' = OpenView(j)'
      BY <3>3, <3>4, FoundIsSeen
    <3>. QED BY <1>q, <2>2, <3>4, <3>5
  <2>. QED BY <2>1, <2>3, <2>4
<1>4. ASSUME NEW j \in Jobs, Start(j), pc'[j] = "remove" PROVE Contract!Next
  <2> DEFINE i == insp[j].id
             r == repl[j]
             others == alive \ {i, r}
  <2>1. /\ pc[j] = "start" /\ running' = running \cup {r}
        /\ UNCHANGED <<alive, name, image, insp, repl>>
    BY <1>4, <1>t, SoloAnswers DEF Start, StartOr, TypeOK
  <2>2. /\ Workloads = SeenOf(others) \cup {Found(j)} /\ Phase = "open"
        /\ Workloads' = SeenOf(alive \ {i})' /\ Phase' = "committed"
    BY <1>4, <1>v, <2>1 DEF View, CoveredAt, AtRest
  <2>3. r \in alive /\ r # i /\ name[r] = insp[j].name
    BY <1>j, <2>1 DEF Replacement
  <2>4. \A k \in others : Seen(k)' = Seen(k) /\ Seen(k) # Found(j)
    BY <1>t, <2>1, <2>3 DEF UniqueNames, Seen, Found
  <2>5. SeenOf(alive \ {i})' = SeenOf(others) \cup {Seen(r)'}
    BY <2>1, <2>3, <2>4 DEF SeenOf
  <2>6. Workloads' = (Workloads \ {Found(j)}) \cup {Seen(r)'}
    BY <2>2, <2>4, <2>5 DEF SeenOf
  <2>7. Seen(r)'.name = Found(j).name /\ Seen(r)'.up
    BY <2>1, <2>3 DEF Seen, Found
  <2>. QED BY <2>2, <2>6, <2>7 DEF Contract!Next, Contract!Commit
<1>5. ASSUME NEW j \in Jobs, Remove(j) PROVE Contract!Next \/ UNCHANGED <<Workloads, Phase>>
  <2>1. /\ pc[j] = "remove" /\ pc'[j] \in AtRest /\ UNCHANGED <<name, image, insp>>
        /\ \/ alive' = alive \ {insp[j].id} /\ running' = running \ {insp[j].id}
           \/ UNCHANGED <<alive, running>>
    BY <1>5, <1>t DEF Remove, RemoveEffect, TypeOK, AtRest
  <2>. QED BY <1>l, <2>1
<1>6. ASSUME NEW j \in Jobs, Crash(j), pc[j] = "remove"
      PROVE Contract!Next \/ UNCHANGED <<Workloads, Phase>>
  <2>1. pc'[j] \in AtRest /\ UNCHANGED <<name, image, insp, alive, running>>
    BY <1>6, <1>t DEF Crash, TypeOK, AtRest
  <2>. QED BY <1>6, <1>l, <2>1
<1>7. ASSUME NEW i \in Ids, Toggle(i) PROVE Contract!Next
  <2>1. /\ i \in alive /\ UNCHANGED <<alive, name, image, pc>>
        /\ \A j \in Jobs : pc[j] \in AtRest
        /\ running' = IF i \in running THEN running \ {i} ELSE running \cup {i}
    BY <1>7 DEF Toggle, StopEffect, Solo
  <2>2. Covered = {} /\ Hidden = {} /\ Phase = "idle" /\ (Covered = {} /\ Hidden = {} /\ Phase = "idle")'
    BY <2>1 DEF Covered, Hidden, Phase, AtRest, Recovery
  <2>3. Workloads = SeenOf(alive) /\ Workloads' = SeenOf(alive)'
    BY <2>2 DEF Workloads, SeenOf
  <2>4. \A k \in alive \ {i} : Seen(k)' = Seen(k) /\ Seen(k) # Seen(i)
    BY <1>t, <2>1 DEF UniqueNames, Seen
  <2>5. Seen(i)' = [Seen(i) EXCEPT !.up = ~@]
    <3>0. (i \in running) \in BOOLEAN /\ (i \in running') \in BOOLEAN /\ (i \in running') = ~(i \in running)
      BY <2>1
    <3>1. PICK u \in BOOLEAN, v \in BOOLEAN : u = (i \in running) /\ v = (i \in running') /\ v = ~u
      BY <3>0, Zenon
    <3>2. Seen(i) = [name |-> name[i], image |-> image[i], up |-> u]
      BY <3>1 DEF Seen
    <3>3. Seen(i)' = [name |-> name[i], image |-> image[i], up |-> v]
      BY <2>1, <3>1 DEF Seen
    <3>4. [[name |-> name[i], image |-> image[i], up |-> u] EXCEPT !.up = ~@]
            = [name |-> name[i], image |-> image[i], up |-> v]
      BY <3>1
    <3>. QED BY <3>2, <3>3, <3>4, Zenon
  <2>6. Workloads' = (Workloads \ {Seen(i)}) \cup {Seen(i)'}
    BY <2>1, <2>3, <2>4 DEF SeenOf
  <2>7. Seen(i) \in Workloads
    BY <2>1, <2>3 DEF SeenOf
  <2>. QED BY <2>2, <2>5, <2>6, <2>7 DEF Contract!Next, Contract!Toggle
<1>8. ASSUME UNCHANGED vars PROVE UNCHANGED <<Workloads, Phase>>
  BY <1>8 DEF vars, Workloads, Phase, Covered, Hidden, Seen
<1>. QED
  <2>1. CASE \E j \in Jobs : Request(j) \/ Step(j) \/ Crash(j)
    <3>1. PICK j \in Jobs : Request(j) \/ Step(j) \/ Crash(j)
      BY <2>1
    <3>2. CASE Step(j)
      <4>1. CASE pc'[j] # "remove"
        <5>1. CASE Inspect(j) \/ Remove(j)
          BY <5>1, <1>2, <1>5
        <5>2. CASE ~Inspect(j) /\ ~Remove(j)
          BY <3>2, <4>1, <5>2, <1>3 DEF Step
        <5>. QED BY <5>1, <5>2
      <4>2. CASE pc'[j] = "remove"
        <5>1. Start(j) \/ Remove(j)
          BY <1>t, <3>2, <4>2
             DEF Step, Inspect, Pull, PullThen, Stop, Rename, AfterName, Create, CreateOr, Start,
                 StartOr, Cleanup, RestoreName, RestoreStart, TypeOK
        <5>. QED BY <4>2, <5>1, <1>4, <1>5
      <4>. QED BY <4>1, <4>2
    <3>3. CASE Crash(j)
      BY <3>3, <1>2, <1>6
    <3>. QED BY <3>1, <3>2, <3>3, <1>1
  <2>2. CASE \E i \in Ids : Toggle(i)
    BY <2>2, <1>7
  <2>. QED BY <2>1, <2>2, <1>8 DEF Next

\* One update at a time, on an engine that answers and serves the undo, is all or
\* nothing: every behaviour of recreateDirect is one of the contract, in which a
\* workload is replaced in one step or left as it was.
THEOREM UpdateIsAtomic == ASSUME Solo PROVE Spec => ImplementsContract
<1>1. Init => SoloInv
  BY InitSolo
<1>2. SoloInv /\ [Next]_vars => SoloInv'
  BY StepSolo
<1>3. Init => ImageInv
  BY DEF Init, ImageInv, ImageKept
<1>4. SoloInv /\ ImageInv /\ [Next]_vars => ImageInv'
  BY StepImage
<1>5. Init => Contract!Init
  <2> SUFFICES ASSUME Init PROVE Contract!Init
    OBVIOUS
  <2>1. Covered = {} /\ Hidden = {} /\ Phase = "idle" /\ alive = {First}
    BY DEF Init, Covered, Hidden, Phase, AtRest, Recovery
  <2>2. Workloads = {Seen(First)}
    BY <2>1 DEF Workloads
  <2>. QED BY <2>1, <2>2 DEF Contract!Init
<1>6. SoloInv /\ SoloInv' /\ ImageInv /\ ImageInv' /\ [Next]_vars => [Contract!Next]_(Contract!vars)
  BY StepContract
<1>. QED BY <1>1, <1>2, <1>3, <1>4, <1>5, <1>6, PTL DEF Spec, ImplementsContract, Contract!Spec
=============================================================================
