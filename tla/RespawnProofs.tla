----------------------------- MODULE RespawnProofs -----------------------------
(***************************************************************************)
(* Theorems about Respawn, for any images, policy and bounds, and whatever *)
(* the unit does meanwhile.                                                *)
(*                                                                         *)
(* The job knows the unit's containers by name alone.  That the one it     *)
(* finds is the one the unit started after the stop rests on the ids: they *)
(* only grow, the unit has one container at a time, and the one inspected  *)
(* was it.                                                                 *)
(***************************************************************************)
EXTENDS Respawn, TLAPS

-----------------------------------------------------------------------------
(* The invariant.                                                          *)

\* No id is given out twice, and the job asks for one that was given out.
Numbered ==
  /\ alive \subseteq 1..(next - 1)
  /\ insp.id \in (1..(next - 1)) \ {Lookalike}

\* Once a container was inspected the unit has none that is older.
NotBefore == pc \in {"pull", "stop", "poll"} => \A i \in Owned : i >= insp.id

\* The container that was stopped stays down.
StaysDown == pc \in {"poll", "verify"} => insp.id \notin running

FoundLater == pc = "verify" => found > insp.id /\ found # Lookalike

RespawnInv == TypeOK /\ Numbered /\ NotBefore /\ StaysDown /\ FoundLater

LEMMA Start == Init => RespawnInv
<1> SUFFICES ASSUME Init PROVE RespawnInv
  OBVIOUS
<1>1. MaxIds \in Nat /\ MaxIds >= 2 /\ MaxRequests \in Nat
  BY BoundsAssumption
<1>2. TypeOK
  <2>1. PICK old \in Images : /\ image = [i \in Ids |-> old] /\ resolved = old
                             /\ insp = [id |-> First, image |-> old, up |-> FALSE]
    BY DEF Init
  <2>2. image \in [Ids -> Images] /\ resolved \in Images
    BY <2>1
  <2>3. First \in Ids /\ Lookalike \in Ids
    BY <1>1 DEF First, Lookalike, Ids
  <2>4. insp \in [id : Ids, image : Images, up : BOOLEAN] /\ found \in Ids
    BY <2>1, <2>3 DEF Init
  <2>5. alive \subseteq Ids /\ running \subseteq alive /\ \A i, k \in Owned : i = k
    BY <2>3 DEF Init, Owned
  <2>6. /\ next \in 3..(MaxIds + 1) /\ requests \in 0..MaxRequests
        /\ wanted = FALSE /\ late = FALSE /\ faulted = FALSE /\ pc = "rest"
    BY <1>1 DEF Init
  <2>. QED BY <2>2, <2>4, <2>5, <2>6 DEF TypeOK, AtRest
<1>. QED
  BY <1>1, <1>2 DEF Init, RespawnInv, Numbered, NotBefore, StaysDown, FoundLater, First, Lookalike

-----------------------------------------------------------------------------
(* The unit.                                                               *)

LEMMA StartsKeeps == ASSUME RespawnInv, Starts PROVE RespawnInv'
<1>0. TypeOK /\ Numbered /\ NotBefore /\ StaysDown /\ FoundLater
  BY DEF RespawnInv
<1>1. /\ MaxIds \in Nat /\ next \in 3..(MaxIds + 1) /\ next <= MaxIds
      /\ alive' = alive \cup {next} /\ running' = running \cup {next}
      /\ next' = next + 1 /\ image' = [image EXCEPT ![next] = resolved] /\ wanted' = FALSE /\ Owned = {}
      /\ UNCHANGED <<resolved, requests, pc, insp, found, late, faulted>>
  BY <1>0, BoundsAssumption DEF Starts, TypeOK, job
<1>2. Owned' = {next} /\ next # Lookalike
  BY <1>1 DEF Owned, Lookalike
<1>3. next \in Ids /\ insp.id \in Nat /\ insp.id < next
  BY <1>0, <1>1 DEF Ids, Numbered
<1>4. TypeOK'
  <2>1. alive' \subseteq Ids /\ running' \subseteq alive' /\ image' \in [Ids -> Images]
    BY <1>0, <1>1, <1>3 DEF TypeOK
  <2>2. next' \in 3..(MaxIds + 1) /\ \A i, k \in Owned' : i = k
    BY <1>1, <1>2
  <2>. QED BY <1>0, <1>1, <2>1, <2>2 DEF TypeOK
<1>5. Numbered'
  BY <1>0, <1>1 DEF Numbered
<1>6. NotBefore' /\ StaysDown' /\ FoundLater'
  BY <1>0, <1>1, <1>2, <1>3 DEF NotBefore, StaysDown, FoundLater
<1>. QED BY <1>4, <1>5, <1>6 DEF RespawnInv

LEMMA UnitKeeps == ASSUME RespawnInv, Unit PROVE RespawnInv'
<1>0. TypeOK /\ Numbered /\ NotBefore /\ StaysDown /\ FoundLater
  BY DEF RespawnInv
<1>1. ASSUME NEW i \in Ids, Exits(i) PROVE RespawnInv'
  <2>1. Owned' = Owned /\ running' \subseteq running
    BY <1>1 DEF Exits, Owned
  <2>2. TypeOK'
    BY <1>0, <1>1, <2>1 DEF Exits, job, TypeOK
  <2>3. Numbered' /\ NotBefore' /\ StaysDown' /\ FoundLater'
    BY <1>0, <1>1, <2>1 DEF Exits, job, Numbered, NotBefore, StaysDown, FoundLater
  <2>. QED BY <2>2, <2>3 DEF RespawnInv
<1>2. ASSUME NEW i \in Ids, TearsDown(i) PROVE RespawnInv'
  <2>1. Owned' \subseteq Owned /\ alive' \subseteq alive /\ running' = running /\ running \subseteq alive'
    BY <1>0, <1>2 DEF TearsDown, Owned, TypeOK
  <2>2. wanted' \in BOOLEAN
    BY <1>2, PolicyAssumption DEF TearsDown
  <2>3. TypeOK'
    BY <1>0, <1>2, <2>1, <2>2 DEF TearsDown, job, TypeOK
  <2>4. Numbered' /\ NotBefore' /\ StaysDown' /\ FoundLater'
    BY <1>0, <1>2, <2>1 DEF TearsDown, job, Numbered, NotBefore, StaysDown, FoundLater
  <2>. QED BY <2>3, <2>4 DEF RespawnInv
<1>. QED BY <1>1, <1>2, StartsKeeps DEF Unit

-----------------------------------------------------------------------------
(* The job.                                                                *)

\* A step of the job that leaves the unit alone and what was inspected.
LEMMA QuietKeeps ==
  ASSUME RespawnInv, UNCHANGED <<alive, image, next, wanted, insp>>,
         running' \subseteq running,
         resolved' \in Images, requests' \in 0..MaxRequests, found' \in Ids,
         late' \in BOOLEAN, faulted' \in BOOLEAN,
         \/ pc' \in AtRest
         \/ pc' = pc /\ found' = found
         \/ pc = "pull" /\ pc' = "stop" /\ insp.up
         \/ pc = "stop" /\ pc' = "poll" /\ insp.id \notin running'
         \/ pc = "poll" /\ pc' = "verify" /\ found' \in Owned /\ found' # insp.id
  PROVE  RespawnInv'
<1>0. TypeOK /\ Numbered /\ NotBefore /\ StaysDown /\ FoundLater
  BY DEF RespawnInv
<1>1. Owned' = Owned /\ Numbered'
  BY <1>0 DEF Owned, Numbered
<1>2. TypeOK'
  BY <1>0, <1>1 DEF TypeOK, AtRest
<1>3. NotBefore'
  BY <1>0, <1>1 DEF NotBefore, AtRest
<1>4. StaysDown'
  BY <1>0 DEF StaysDown, AtRest
<1>5. FoundLater'
  <2>1. CASE pc = "poll" /\ pc' = "verify" /\ found' \in Owned /\ found' # insp.id
    <3>1. found' >= insp.id /\ found' # Lookalike
      BY <1>0, <2>1 DEF NotBefore, Owned
    <3>2. found' \in Nat /\ insp.id \in Nat
      BY <1>0 DEF Ids, TypeOK
    <3>. QED BY <2>1, <3>1, <3>2 DEF FoundLater
  <2>. QED BY <1>0, <2>1 DEF FoundLater, AtRest
<1>. QED BY <1>1, <1>2, <1>3, <1>4, <1>5 DEF RespawnInv

LEMMA RequestKeeps == ASSUME RespawnInv, Request PROVE RespawnInv'
<1>0. TypeOK /\ Numbered /\ NotBefore /\ StaysDown /\ FoundLater
  BY DEF RespawnInv
<1>1. PICK i \in (1..(next - 1)) \ {Lookalike} : insp' = [insp EXCEPT !.id = i]
  BY DEF Request
<1>2. /\ UNCHANGED <<alive, running, image, next, wanted, resolved, found>>
      /\ pc' = "inspect" /\ late' = FALSE /\ faulted' = FALSE
      /\ requests < MaxRequests /\ requests' = requests + 1
  BY DEF Request, unit, GoTo
<1>3. i \in Ids
  BY <1>0, BoundsAssumption DEF TypeOK, Ids
<1>4. insp' \in [id : Ids, image : Images, up : BOOLEAN] /\ insp'.id = i
  BY <1>0, <1>1, <1>3 DEF TypeOK
<1>5. requests' \in 0..MaxRequests
  BY <1>0, <1>2, BoundsAssumption DEF TypeOK
<1>6. Owned' = Owned
  BY <1>2 DEF Owned
<1>7. TypeOK'
  BY <1>0, <1>2, <1>4, <1>5, <1>6 DEF TypeOK
<1>. QED
  BY <1>0, <1>1, <1>2, <1>4, <1>7 DEF RespawnInv, Numbered, NotBefore, StaysDown, FoundLater

LEMMA InspectKeeps == ASSUME RespawnInv, Inspect PROVE RespawnInv'
<1>0. TypeOK /\ Numbered /\ NotBefore /\ StaysDown /\ FoundLater
  BY DEF RespawnInv
<1>1. CASE Fails /\ faulted' \in BOOLEAN
  BY <1>0, <1>1, QuietKeeps DEF Fails, GoTo, unit, AtRest, TypeOK
<1>2. CASE /\ insp.id \in alive
           /\ insp' = [insp EXCEPT !.image = image[insp.id], !.up = insp.id \in running]
           /\ GoTo("pull")
           /\ UNCHANGED <<unit, resolved, requests, found, late, faulted>>
  <2>1. insp.id \in Ids /\ image[insp.id] \in Images
    BY <1>0 DEF TypeOK
  <2>2. PICK u \in BOOLEAN : u = (insp.id \in running)
    <3>1. \E u \in BOOLEAN : u <=> (insp.id \in running)
      <4>1. CASE insp.id \in running
        BY <4>1
      <4>2. CASE insp.id \notin running
        BY <4>2
      <4>. QED BY <4>1, <4>2
    <3>2. ASSUME NEW u \in BOOLEAN, u <=> (insp.id \in running) PROVE u = (insp.id \in running)
      BY <3>2
    <3>. QED BY <3>1, <3>2
  <2>3. insp' = [insp EXCEPT !.image = image[insp.id], !.up = u]
    BY <1>2, <2>2
  <2>4. insp' \in [id : Ids, image : Images, up : BOOLEAN] /\ insp'.id = insp.id
    BY <1>0, <2>1, <2>3 DEF TypeOK
  <2>5. Owned' = Owned /\ insp.id \in Owned /\ pc' = "pull"
    BY <1>0, <1>2 DEF Owned, unit, Numbered, GoTo
  <2>6. \A i \in Owned' : i = insp'.id
    BY <1>0, <2>4, <2>5 DEF TypeOK
  <2>7. TypeOK'
    BY <1>0, <1>2, <2>4, <2>5 DEF TypeOK, unit
  <2>8. NotBefore'
    BY <2>4, <2>6, <2>1 DEF NotBefore, Ids
  <2>. QED BY <1>0, <1>2, <2>4, <2>5, <2>7, <2>8 DEF RespawnInv, Numbered, StaysDown, FoundLater, unit
<1>. QED BY <1>0, <1>1, <1>2 DEF Inspect, Fault, TypeOK

LEMMA StepKeeps == ASSUME RespawnInv, Step PROVE RespawnInv'
<1>0. TypeOK /\ Numbered /\ NotBefore /\ StaysDown /\ FoundLater
  BY DEF RespawnInv
<1>1. CASE Fails /\ faulted' \in BOOLEAN
  BY <1>0, <1>1, QuietKeeps DEF Fails, GoTo, unit, AtRest, TypeOK
<1>2. CASE Pull
  <2>1. CASE /\ resolved' \in IF PinnedUnit THEN {resolved} ELSE Images
             /\ GoTo(IF insp.up THEN "stop" ELSE "failed")
             /\ UNCHANGED <<unit, requests, insp, found, late, faulted>>
    <3>1. resolved' \in Images /\ pc' = IF insp.up THEN "stop" ELSE "failed"
      BY <1>0, <2>1 DEF TypeOK, GoTo
    <3>. QED BY <1>0, <1>2, <2>1, <3>1, QuietKeeps DEF Pull, unit, AtRest, TypeOK
  <2>. QED BY <1>1, <1>2, <2>1 DEF Pull, Fault
<1>3. CASE Stop
  <2>1. CASE /\ insp.id \in alive
             /\ running' = running \ {insp.id}
             /\ GoTo("poll")
             /\ UNCHANGED <<alive, image, next, wanted, resolved, requests, insp, found, late, faulted>>
    BY <1>0, <1>3, <2>1, QuietKeeps DEF Stop, StopOr, GoTo, TypeOK
  <2>2. CASE /\ insp.id \notin alive
             /\ GoTo("poll")
             /\ UNCHANGED <<unit, resolved, requests, insp, found, late, faulted>>
    BY <1>0, <1>3, <2>2, QuietKeeps DEF Stop, StopOr, GoTo, unit, TypeOK
  <2>. QED BY <1>1, <1>3, <2>1, <2>2 DEF Stop, StopOr, Fault
<1>4. CASE Poll
  <2>1. PICK seen \in SUBSET Owned : PollSeeing(seen, late)
    BY <1>4 DEF Poll, PollOf
  <2>2. faulted' \in BOOLEAN
    BY <1>0, <1>4 DEF Poll, PollOf, Fault, TypeOK
  <2>3. /\ pc = "poll" /\ UNCHANGED <<alive, running, image, next, wanted, resolved, requests, insp, late>>
        /\ \/ pc' = "verify" /\ found' \in Owned /\ found' # insp.id
           \/ pc' = "failed" /\ found' = found
    BY <2>1 DEF PollSeeing, GoTo, unit
  <2>4. found' \in Ids
    BY <1>0, <2>3 DEF TypeOK, Owned
  <2>. QED BY <1>0, <2>2, <2>3, <2>4, QuietKeeps DEF AtRest, TypeOK
<1>5. CASE Verify
  BY <1>0, <1>5, QuietKeeps DEF Verify, Fault, GoTo, unit, AtRest, TypeOK
<1>. QED BY <1>2, <1>3, <1>4, <1>5, InspectKeeps DEF Step

LEMMA NextKeeps == RespawnInv /\ [Next]_vars => RespawnInv'
<1> SUFFICES ASSUME RespawnInv, [Next]_vars PROVE RespawnInv'
  OBVIOUS
<1>1. CASE Expire
  BY <1>1, QuietKeeps DEF Expire, unit, RespawnInv, TypeOK
<1>2. CASE UNCHANGED vars
  BY <1>2, QuietKeeps DEF vars, RespawnInv, TypeOK
<1>. QED BY <1>1, <1>2, UnitKeeps, RequestKeeps, StepKeeps DEF Next

LEMMA Invariant == Spec => []RespawnInv
BY Start, NextKeeps, PTL DEF Spec

\* A job is done by looking at the container it found.
LEMMA DoneByVerify == ASSUME Next, Done PROVE Verify
BY DEF Next, Done, Unit, Starts, Exits, TearsDown, job, Request, Expire, Step, Inspect, Pull, Stop, StopOr,
       Poll, PollOf, PollSeeing, Fails, GoTo

\* Whatever the unit does meanwhile, and whatever calls fail: an update reported done
\* found a container of the exact name that the unit started after the one it
\* stopped, and that one does not run any more (findContainerByName compares names,
\* decideRespawnOutcome ids).
THEOREM DoneIsRespawned == Spec => DoneMeansRespawned
<1>1. RespawnInv /\ [Next]_vars =>
        [Done => /\ found > insp.id /\ found # Lookalike
                 /\ insp.id \notin running]_vars
  <2> SUFFICES ASSUME RespawnInv, Next, Done
               PROVE  found > insp.id /\ found # Lookalike /\ insp.id \notin running
    OBVIOUS
  <2>1. pc = "verify"
    BY DoneByVerify DEF Verify
  <2>. QED BY <2>1 DEF RespawnInv, StaysDown, FoundLater
<1>. QED BY <1>1, Invariant, PTL DEF Spec, DoneMeansRespawned

\* An update that got as far as the stop, with no call that failed, fails at its
\* deadline or for the image alone: a container the unit removed first is no error.
THEOREM FailsOnlyLate == Spec => FailsLate
<1>1. [Next]_vars => [(pc \in {"stop", "poll"} /\ pc' = "failed" /\ ~faulted') => late]_vars
  <2> SUFFICES ASSUME Next, pc \in {"stop", "poll"}, pc' = "failed", ~faulted' PROVE late
    OBVIOUS
  <2>1. Stop \/ Poll
    BY DEF Next, Unit, Starts, Exits, TearsDown, job, Request, Expire, Step, Inspect, Pull, Verify,
           GoTo, AtRest
  <2>2. ~Stop
    BY DEF Stop, StopOr, Fault, GoTo
  <2>3. Poll
    BY <2>1, <2>2
  <2>. QED BY <2>3 DEF Poll, PollOf, PollSeeing, Fault, GoTo
<1>. QED BY <1>1, PTL DEF Spec, FailsLate

=============================================================================
