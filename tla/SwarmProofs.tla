------------------------------ MODULE SwarmProofs ------------------------------
(***************************************************************************)
(* Theorems about swarm services: whom SwarmReadiness lets be updated, for *)
(* any hosts and snapshots, and what ServiceRollout promises of an update, *)
(* for any tasks, images and bounds.                                       *)
(***************************************************************************)
EXTENDS ServiceRollout, SwarmReadiness, TLAPS

-----------------------------------------------------------------------------
(* Readiness.  A row is only as good as the finding that is stored in it,   *)
(* and a finding is made in three steps: it starts without services, is     *)
(* given them by a call a manager alone makes, and is stored later, when    *)
(* the host may be no manager any more.                                     *)

FindingsFit == \A h \in Hosts, s \in Snapshots : seen[h][s].services => seen[h][s].role = "manager"

ReadinessInv == ReadinessTypeOK /\ FindingsFit /\ OnlyManagersServe

LEMMA InFlightSnapshots == \A h \in Hosts : InFlight(h) \subseteq Snapshots
BY HostsAssumption DEF InFlight

LEMMA ReadinessStarts == ReadinessInit => ReadinessInv
BY ChangesAssumption
   DEF ReadinessInit, ReadinessInv, ReadinessTypeOK, FindingsFit, OnlyManagersServe, Nothing, Finding, Roles

\* A finding and the stage of its snapshot may change together.
LEMMA OneFinding ==
  ASSUME ReadinessInv, NEW h \in Hosts, NEW s \in Snapshots, NEW f \in Finding,
         NEW label \in {"rest", "probe", "answered", "store"},
         seen' = [seen EXCEPT ![h][s] = f], MoveOn(h, s, label),
         f.services => f.role = "manager",
         label \in {"probe", "answered"} => f.role = "manager"
  PROVE  /\ stage' \in [Hosts -> [Snapshots -> {"rest", "probe", "answered", "store"}]]
         /\ seen' \in [Hosts -> [Snapshots -> Finding]]
         /\ \A g \in Hosts, t \in Snapshots :
              stage'[g][t] \in {"probe", "answered"} => seen'[g][t].role = "manager"
         /\ FindingsFit'
<1>1. /\ seen \in [Hosts -> [Snapshots -> Finding]]
      /\ stage \in [Hosts -> [Snapshots -> {"rest", "probe", "answered", "store"}]]
  BY DEF ReadinessInv, ReadinessTypeOK
<1>2. /\ seen' \in [Hosts -> [Snapshots -> Finding]]
      /\ stage' \in [Hosts -> [Snapshots -> {"rest", "probe", "answered", "store"}]]
  BY <1>1 DEF MoveOn
<1>3. seen'[h][s] = f /\ stage'[h][s] = label
  BY <1>1 DEF MoveOn
<1>4. \A g \in Hosts, t \in Snapshots : g # h \/ t # s => seen'[g][t] = seen[g][t] /\ stage'[g][t] = stage[g][t]
  BY <1>1 DEF MoveOn
<1>5. \A g \in Hosts, t \in Snapshots :
        stage'[g][t] \in {"probe", "answered"} => seen'[g][t].role = "manager"
  BY <1>3, <1>4 DEF ReadinessInv, ReadinessTypeOK
<1>6. FindingsFit'
  BY <1>3, <1>4 DEF ReadinessInv, FindingsFit
<1>. QED BY <1>2, <1>5, <1>6

LEMMA SnapshotKeepsInv ==
  ASSUME ReadinessInv, NEW h \in Hosts, NEW s \in Snapshots, Snapshot(h, s)
  PROVE  ReadinessInv'
<1>0. /\ ReadinessTypeOK /\ FindingsFit /\ OnlyManagersServe
      /\ role[h] \in Roles /\ cap[h].ok \in BOOLEAN /\ seen[h][s] \in Finding
      /\ seen[h][s].role \in Roles /\ seen[h][s].services \in BOOLEAN
  BY DEF ReadinessInv, ReadinessTypeOK, Finding
<1>1. ASSUME NEW r \in Roles, NEW b \in BOOLEAN, NEW label \in {"probe", "answered", "store"},
             b => r = "manager", label # "store" => r = "manager",
             seen' = [seen EXCEPT ![h][s] = [role |-> r, services |-> b]], MoveOn(h, s, label),
             UNCHANGED <<role, granted, row, denied, changes>>, cap' \in [Hosts -> [recent : BOOLEAN, ok : BOOLEAN]]
      PROVE  ReadinessInv'
  <2> DEFINE f == [role |-> r, services |-> b]
  <2>1. f \in Finding /\ f.role = r /\ f.services = b
    BY DEF Finding
  <2> HIDE DEF f
  <2>2. seen' = [seen EXCEPT ![h][s] = f]
    BY <1>1 DEF f
  <2>3. /\ stage' \in [Hosts -> [Snapshots -> {"rest", "probe", "answered", "store"}]]
        /\ seen' \in [Hosts -> [Snapshots -> Finding]]
        /\ \A g \in Hosts, t \in Snapshots :
             stage'[g][t] \in {"probe", "answered"} => seen'[g][t].role = "manager"
        /\ FindingsFit'
    <3>1. f.services => f.role = "manager"
      BY <1>1, <2>1
    <3>2. label \in {"probe", "answered"} => f.role = "manager"
      BY <1>1, <2>1
    <3>3. label \in {"rest", "probe", "answered", "store"}
      OBVIOUS
    <3>4. f \in Finding /\ MoveOn(h, s, label)
      BY <1>1, <2>1
    <3>. QED BY <2>2, <3>1, <3>2, <3>3, <3>4, OneFinding
  <2>4. ReadinessTypeOK'
    BY <1>0, <1>1, <2>3 DEF ReadinessTypeOK
  <2>5. OnlyManagersServe'
    BY <1>0, <1>1 DEF OnlyManagersServe
  <2>. QED BY <2>3, <2>4, <2>5 DEF ReadinessInv
<1>2. CASE Look(h, s)
  <2>1. CASE role[h] # "manager"
    BY <1>0, <1>1, <1>2, <2>1 DEF Look, LookWith, Found, ReadinessTypeOK
  <2>2. CASE role[h] = "manager" /\ cap[h].recent
    <3>1. /\ seen' = [seen EXCEPT ![h][s] = [role |-> role[h], services |-> cap[h].ok]]
          /\ MoveOn(h, s, "store") /\ UNCHANGED <<role, granted, cap, row, denied, changes>>
      BY <1>2, <2>2 DEF Look, LookWith, Found
    <3>2. cap' \in [Hosts -> [recent : BOOLEAN, ok : BOOLEAN]]
      BY <1>0, <3>1 DEF ReadinessTypeOK
    <3>. QED BY <1>0, <1>1, <2>2, <3>1, <3>2
  <2>3. CASE role[h] = "manager" /\ ~cap[h].recent
    BY <1>0, <1>1, <1>2, <2>3 DEF Look, LookWith, ReadinessTypeOK
  <2>. QED BY <2>1, <2>2, <2>3
<1>3. CASE Probe(h, s)
  <2>1. seen[h][s].role = "manager"
    BY <1>0, <1>3 DEF Probe, ReadinessTypeOK
  <2>2. PICK b \in BOOLEAN : b = (h \in granted)
    <3>1. \E b \in BOOLEAN : b <=> (h \in granted)
      <4>1. CASE h \in granted
        BY <4>1
      <4>2. CASE h \notin granted
        BY <4>2
      <4>. QED BY <4>1, <4>2
    <3>2. ASSUME NEW b \in BOOLEAN, b <=> (h \in granted) PROVE b = (h \in granted)
      BY <3>2
    <3>. QED BY <3>1, <3>2
  <2>4. [seen[h][s] EXCEPT !.services = b] = [role |-> "manager", services |-> b]
    BY <1>0, <2>1 DEF Finding
  <2>3. seen' = [seen EXCEPT ![h][s] = [role |-> "manager", services |-> b]]
    <3>1. seen' = [seen EXCEPT ![h][s] = [seen[h][s] EXCEPT !.services = b]]
      BY <1>0, <1>3, <2>2 DEF Probe, ReadinessTypeOK
    <3>. QED BY <2>4, <3>1
  <2>. QED BY <1>0, <1>1, <1>3, <2>3 DEF Probe, ReadinessTypeOK, Roles
<1>4. CASE Keep(h, s)
  <2>1. cap' \in [Hosts -> [recent : BOOLEAN, ok : BOOLEAN]]
    BY <1>0, <1>4 DEF Keep, ReadinessTypeOK
  <2>2. seen' = [seen EXCEPT ![h][s] = [role |-> seen[h][s].role, services |-> seen[h][s].services]]
    BY <1>0, <1>4 DEF Keep, ReadinessTypeOK, Finding
  <2>. QED BY <1>0, <1>1, <1>4, <2>1, <2>2 DEF Keep, FindingsFit
<1>5. CASE Store(h, s)
  <2>1. stage' \in [Hosts -> [Snapshots -> {"rest", "probe", "answered", "store"}]]
    BY <1>0, <1>5 DEF Store, MoveOn, ReadinessTypeOK
  <2>2. \A g \in Hosts, t \in Snapshots : stage'[g][t] \in {stage[g][t], "rest"}
    BY <1>0, <1>5 DEF Store, MoveOn, ReadinessTypeOK
  <2>3. row' \in [Hosts -> Finding] /\ \A g \in Hosts : row'[g] \in {row[g], seen[g][s]}
    BY <1>0, <1>5 DEF Store, ReadinessTypeOK
  <2>4. OnlyManagersServe'
    BY <1>0, <2>3 DEF OnlyManagersServe, FindingsFit
  <2>5. FindingsFit'
    BY <1>0, <1>5 DEF Store, FindingsFit
  <2>6. UNCHANGED <<role, granted, cap, seen, denied, changes>>
    BY <1>5 DEF Store
  <2>7. \A g \in Hosts, t \in Snapshots :
          stage'[g][t] \in {"probe", "answered"} => seen'[g][t].role = "manager"
    BY <1>0, <2>2, <2>6 DEF ReadinessTypeOK
  <2>8. ReadinessTypeOK'
    BY <1>0, <2>1, <2>3, <2>6, <2>7 DEF ReadinessTypeOK
  <2>. QED BY <2>4, <2>5, <2>8 DEF ReadinessInv
<1>. QED BY <1>2, <1>3, <1>4, <1>5 DEF Snapshot

LEMMA ReadinessKeeps == ReadinessInv /\ [ReadinessNext]_readiness => ReadinessInv'
<1> SUFFICES ASSUME ReadinessInv, [ReadinessNext]_readiness PROVE ReadinessInv'
  OBVIOUS
<1>0. ReadinessTypeOK /\ FindingsFit /\ OnlyManagersServe
  BY DEF ReadinessInv
<1>1. ASSUME NEW h \in Hosts, Lapse(h) PROVE ReadinessInv'
  <2>1. cap' \in [Hosts -> [recent : BOOLEAN, ok : BOOLEAN]]
    BY <1>0, <1>1 DEF Lapse, LapseIf, ReadinessTypeOK
  <2>. QED BY <1>0, <1>1, <2>1 DEF Lapse, LapseIf, ReadinessInv, ReadinessTypeOK, FindingsFit, OnlyManagersServe
<1>2. ASSUME NEW h \in Hosts, Denied(h) PROVE ReadinessInv'
  BY <1>0, <1>2 DEF Denied, ReadinessInv, ReadinessTypeOK, FindingsFit, OnlyManagersServe
<1>3. ASSUME NEW h \in Hosts, Change(h) PROVE ReadinessInv'
  <2>1. granted' \subseteq Hosts /\ denied' \subseteq Hosts \ granted'
    BY <1>0, <1>3 DEF Change, ReadinessTypeOK
  <2>2. role' \in [Hosts -> Roles] /\ changes' \in 0..MaxChanges
    <3>1. role' \in [Hosts -> Roles]
      BY <1>0, <1>3 DEF Change, ReadinessTypeOK
    <3>2. changes \in 0..MaxChanges /\ changes < MaxChanges /\ changes' = changes + 1
      BY <1>0, <1>3 DEF Change, ReadinessTypeOK
    <3>. QED BY <3>1, <3>2, ChangesAssumption
  <2>. QED BY <1>0, <1>3, <2>1, <2>2 DEF Change, ReadinessInv, ReadinessTypeOK, FindingsFit, OnlyManagersServe
<1>4. ASSUME NEW h \in Hosts, NEW s \in InFlight(h), Snapshot(h, s) PROVE ReadinessInv'
  BY <1>4, InFlightSnapshots, SnapshotKeepsInv
<1>5. CASE UNCHANGED readiness
  BY <1>0, <1>5 DEF readiness, ReadinessInv, ReadinessTypeOK, FindingsFit, OnlyManagersServe
<1>. QED BY <1>1, <1>2, <1>3, <1>4, <1>5 DEF ReadinessNext

\* Whatever snapshots of whatever hosts overlap, and whenever hosts are promoted,
\* demoted, granted and denied: a row says that services can be updated only of a
\* host that was a manager in the same snapshot (probeServices is asked of managers
\* alone, and its kept answer is used of managers alone).
THEOREM ManagersAlone == ReadinessSpec => []OnlyManagersServe
<1>1. ReadinessInv => OnlyManagersServe
  BY DEF ReadinessInv
<1>. QED BY <1>1, ReadinessStarts, ReadinessKeeps, PTL DEF ReadinessSpec

-----------------------------------------------------------------------------
(* The rollout.  Force counters only grow, so that for any jobs they are    *)
(* numbers; that they stay within the bound of the requests is for TLC.     *)

Deployable == [image : Images, digest : {Unresolved} \cup Digests, force : Nat]
Calls == {"inspect", "pull", "update", "poll", "reinspect", "rollback"} \cup AtRest

RolloutTyped ==
  /\ spec \in Deployable
  /\ prev \in Deployable \cup {NoSpec}
  /\ status \in States
  /\ task \in [Replicas -> [spec : Deployable, up : BOOLEAN]]
  /\ pc \in [Jobs -> Calls]
  /\ target \in [Jobs -> Images]
  /\ insp \in [Jobs -> Deployable]
  /\ stale \subseteq Jobs
  /\ pushed \in Digests

\* There is a spec to go back to whenever a rollout is under way, or about to be.
Undoable ==
  /\ status = "updating" => prev # NoSpec
  /\ (status = "none" /\ prev = NoSpec) => Outdated = {}

\* A version that is not out of date is that of the spec the job inspected.
Fresh == \A j \in Jobs : (pc[j] \in {"pull", "update"} /\ j \notin stale) => insp[j] = spec

RolloutInv == RolloutTyped /\ Undoable /\ Fresh

\* No spec of the service is the one that stands for none.
LEMMA SpecsAreReal == NoSpec \notin Deployable
BY ImageAssumption DEF NoSpec, Deployable

LEMMA RolloutStarts == Init => RolloutInv
<1> SUFFICES ASSUME Init PROVE RolloutInv
  OBVIOUS
<1>0. 1 \in Digests
  BY BoundAssumption DEF Digests
<1>1. spec \in Deployable
  BY <1>0 DEF Init, Deployable
<1>2. Outdated = {}
  BY DEF Init, Outdated
<1>3. RolloutTyped
  <2>1. task \in [Replicas -> [spec : Deployable, up : BOOLEAN]]
    BY <1>1 DEF Init
  <2>2. target \in [Jobs -> Images] /\ insp \in [Jobs -> Deployable]
    BY <1>1 DEF Init, Deployable
  <2>. QED BY <1>0, <1>1, <2>1, <2>2 DEF Init, RolloutTyped, States, Calls, AtRest
<1>. QED BY <1>2, <1>3 DEF Init, RolloutInv, Undoable, Fresh

\* What the orchestrator does to the service: it writes it and makes every
\* version out of date, or it leaves it alone.
LEMMA OrchestratorEffect ==
  ASSUME RolloutInv, Orchestrator
  PROVE  /\ UNCHANGED jobs
         /\ spec' \in Deployable /\ prev' \in Deployable \cup {NoSpec} /\ status' \in States
         /\ task' \in [Replicas -> [spec : Deployable, up : BOOLEAN]]
         /\ Undoable'
         /\ stale' = Jobs \/ UNCHANGED <<spec, prev, status, stale>>
<1>0. RolloutTyped /\ Undoable
  BY DEF RolloutInv
<1>1. CASE Begins
  <2>1. prev # NoSpec
    BY <1>0, <1>1 DEF Begins, Undoable
  <2>. QED BY <1>0, <1>1, <2>1 DEF Begins, Writes, RolloutTyped, Undoable, jobs, States
<1>2. CASE Completes
  <2>1. status' \in {"completed", "rollback_completed"}
    BY <1>2 DEF Completes
  <2>. QED BY <1>0, <1>2, <2>1 DEF Completes, Writes, RolloutTyped, Undoable, jobs, States
<1>3. CASE GivesUp
  <2>1. status' \in {"paused", "rollback_started", "rollback_paused"}
    BY <1>3 DEF GivesUp
  <2>2. /\ spec' \in Deployable /\ prev' \in Deployable \cup {NoSpec}
    BY <1>0, <1>3 DEF GivesUp, RolloutTyped, Undoable
  <2>3. Undoable'
    BY <2>1 DEF Undoable
  <2>. QED BY <1>0, <1>3, <2>1, <2>2, <2>3 DEF GivesUp, Writes, RolloutTyped, jobs, States
<1>4. CASE Vanishes
  BY <1>0, <1>4 DEF Vanishes, RolloutTyped, Undoable, Outdated, jobs
<1>5. ASSUME NEW i \in Replicas, Replaces(i) PROVE task' \in [Replicas -> [spec : Deployable, up : BOOLEAN]]
  BY <1>0, <1>5 DEF Replaces, RolloutTyped
<1>6. ASSUME NEW i \in Replicas, Replaces(i) PROVE Undoable'
  BY <1>0, <1>6 DEF Replaces, Undoable, service
<1>7. ASSUME NEW i \in Replicas, Flaps(i)
      PROVE  /\ task' \in [Replicas -> [spec : Deployable, up : BOOLEAN]]
             /\ Outdated' = Outdated
  <2>1. PICK u \in BOOLEAN : task' = [task EXCEPT ![i] = [spec |-> task[i].spec, up |-> u]]
    <3>1. PICK w \in BOOLEAN, u \in BOOLEAN : w = task[i].up /\ u = ~w
      BY <1>0, <1>7 DEF RolloutTyped
    <3>2. task[i] \in [spec : Deployable, up : BOOLEAN]
      BY <1>0, <1>7 DEF RolloutTyped
    <3>3. task' = [task EXCEPT ![i] = [task[i] EXCEPT !.up = u]]
      BY <1>0, <1>7, <3>1 DEF Flaps, RolloutTyped
    <3>4. [task[i] EXCEPT !.up = u] = [spec |-> task[i].spec, up |-> u]
      BY <3>2
    <3>. QED BY <3>3, <3>4
  <2>2. spec' = spec /\ task[i].spec \in Deployable
    BY <1>0, <1>7 DEF Flaps, RolloutTyped, service
  <2>3. \A k \in Replicas : task'[k].spec = task[k].spec
    BY <1>0, <2>1 DEF RolloutTyped
  <2>. QED BY <1>0, <2>1, <2>2, <2>3 DEF RolloutTyped, Outdated
<1>8. ASSUME NEW i \in Replicas, Replaces(i) \/ Flaps(i)
      PROVE  UNCHANGED <<spec, prev, status, stale, jobs>>
  BY <1>8 DEF Replaces, Flaps, service
<1>9. ASSUME NEW i \in Replicas, Flaps(i) PROVE Undoable'
  BY <1>0, <1>7, <1>8, <1>9 DEF Undoable
<1>. QED
  BY <1>0, <1>1, <1>2, <1>3, <1>4, <1>5, <1>6, <1>7, <1>8, <1>9 DEF Orchestrator, RolloutTyped

\* The service was on the very digest that the tag asked for still stands for.
Unmoved(j) == Pinned(j) /\ spec'.digest = insp[j].digest

\* What an update does to the service, when it takes effect: a spec with the target
\* image, and another one than the job inspected unless the digest has not moved.
LEMMA UpdateEffect ==
  ASSUME RolloutInv, NEW j \in Jobs, Update(j)
  PROVE  /\ UNCHANGED <<exists, onFailure, task, pushed, target, insp>>
         /\ pc[j] = "update" /\ pc' \in {[pc EXCEPT ![j] = "poll"], [pc EXCEPT ![j] = "failed"]}
         /\ \/ /\ prev' = spec /\ status' = "none" /\ stale' = Jobs
               /\ spec' \in Deployable /\ spec'.image = target[j]
               /\ spec' # insp[j] \/ Unmoved(j)
               /\ exists /\ j \notin stale
            \/ /\ UNCHANGED <<prev, spec, status, stale>>
               /\ pc' = [pc EXCEPT ![j] = "failed"]
<1> DEFINE force == IF Same(j) THEN insp[j].force + 1 ELSE insp[j].force
           new(d) == [image |-> target[j], digest |-> d, force |-> force]
           legal == exists /\ j \notin stale
<1>1. insp[j] \in Deployable /\ target[j] \in Images /\ insp[j].force \in Nat
  BY DEF RolloutInv, RolloutTyped, Deployable
<1>2. ASSUME NEW d \in {Unresolved, pushed}
      PROVE  /\ new(d) \in Deployable /\ new(d).image = target[j] /\ new(d).digest = d
             /\ new(d) # insp[j] \/ (Pinned(j) /\ d = insp[j].digest)
  <2>1. force \in Nat
    BY <1>1
  <2>2. d \in {Unresolved} \cup Digests
    BY DEF RolloutInv, RolloutTyped
  <2>3. CASE Same(j)
    <3>1. new(d).force # insp[j].force
      BY <1>1, <2>3
    <3>. QED BY <1>1, <2>1, <2>2, <3>1 DEF Deployable
  <2>4. CASE ~Same(j)
    BY <1>1, <2>1, <2>2, <2>4 DEF Deployable, Same, Pinned
  <2>. QED BY <2>3, <2>4
<1>3. UpdateWith(j, force)
  BY DEF Update
<1>4. PICK a \in Answers(legal) :
        /\ IF TookEffect(a)
           THEN /\ prev' = spec /\ status' = "none" /\ stale' = Jobs
                /\ \E d \in {Unresolved, pushed} : spec' = new(d)
           ELSE UNCHANGED <<prev, spec, status, stale>>
        /\ GoTo(j, IF a = "ok" THEN "poll" ELSE "failed")
  BY <1>3 DEF UpdateWith
<1>5. TookEffect(a) => legal
  BY DEF Answers, TookEffect
<1>6. /\ UNCHANGED <<exists, onFailure, task, pushed, target, insp>> /\ pc[j] = "update"
  BY <1>3 DEF UpdateWith
<1>7. /\ pc' \in {[pc EXCEPT ![j] = "poll"], [pc EXCEPT ![j] = "failed"]}
      /\ ~TookEffect(a) => pc' = [pc EXCEPT ![j] = "failed"]
  BY <1>4 DEF GoTo, TookEffect
<1> HIDE DEF new, legal
<1>8. CASE TookEffect(a)
  <2>1. PICK d \in {Unresolved, pushed} : spec' = new(d)
    BY <1>4, <1>8
  <2>2. /\ spec' \in Deployable /\ spec'.image = target[j]
        /\ spec' # insp[j] \/ Unmoved(j)
    BY <1>2, <2>1 DEF Unmoved
  <2>. QED BY <1>4, <1>5, <1>6, <1>7, <1>8, <2>2 DEF legal
<1>9. CASE ~TookEffect(a)
  BY <1>4, <1>6, <1>7, <1>9
<1>. QED BY <1>8, <1>9

\* The same of a rollback: back to the spec before, when there is one.
LEMMA RollbackEffect ==
  ASSUME NEW j \in Jobs, Rollback(j)
  PROVE  /\ UNCHANGED <<exists, task, pushed, target, insp>>
         /\ pc[j] = "rollback" /\ pc' = [pc EXCEPT ![j] = "failed"]
         /\ hindered => hindered'
         /\ \/ /\ spec' = prev /\ prev' = NoSpec /\ status' = "rollback_started" /\ stale' = Jobs
               /\ prev # NoSpec
            \/ /\ UNCHANGED <<prev, spec, status, stale>>
               /\ (exists /\ j \notin stale /\ prev # NoSpec) => hindered'
<1> DEFINE legal == exists /\ j \notin stale /\ prev # NoSpec
<1>1. PICK a \in Answers(legal) :
        /\ IF TookEffect(a)
           THEN spec' = prev /\ prev' = NoSpec /\ status' = "rollback_started" /\ stale' = Jobs
           ELSE UNCHANGED <<spec, prev, status, stale>>
        /\ hindered' = (hindered \/ (legal /\ a # "ok"))
  BY DEF Rollback, Hinders
<1>2. /\ UNCHANGED <<exists, task, pushed, target, insp>>
      /\ pc[j] = "rollback" /\ pc' = [pc EXCEPT ![j] = "failed"]
  BY DEF Rollback, GoTo
<1>3. CASE TookEffect(a)
  BY <1>1, <1>2, <1>3 DEF Answers, TookEffect
<1>4. CASE ~TookEffect(a)
  BY <1>1, <1>2, <1>4 DEF TookEffect
<1>. QED BY <1>3, <1>4

\* The steps that leave the service alone.
Watches(j) == Request(j) \/ Expire(j) \/ Inspect(j) \/ Pull(j) \/ Poll(j) \/ PollAgain(j) \/ Reinspect(j)

LEMMA WatchEffect ==
  ASSUME RolloutInv, NEW j \in Jobs, Watches(j)
  PROVE  /\ UNCHANGED <<exists, spec, prev, status, onFailure, task, pushed>>
         /\ target' \in [Jobs -> Images] /\ insp' \in [Jobs -> Deployable] /\ stale' \subseteq Jobs
         /\ pc' \in [Jobs -> Calls]
         /\ \A k \in Jobs \ {j} : /\ pc'[k] = pc[k] /\ insp'[k] = insp[k] /\ target'[k] = target[k]
                                  /\ k \in stale' <=> k \in stale
         /\ (pc'[j] \in {"pull", "update"} /\ j \notin stale') => insp'[j] = spec
<1>0. /\ RolloutTyped /\ Fresh
      /\ DOMAIN pc = Jobs /\ DOMAIN insp = Jobs /\ DOMAIN target = Jobs
  BY DEF RolloutInv, RolloutTyped
<1>1. CASE Request(j)
  BY <1>0, <1>1 DEF Request, GoTo, service, RolloutTyped, Calls
<1>2. CASE Expire(j)
  BY <1>0, <1>2 DEF Expire, service, RolloutTyped, Fresh
<1>3. CASE Inspect(j)
  BY <1>0, <1>3 DEF Inspect, GoTo, service, RolloutTyped, Calls, AtRest
<1>4. CASE Pull(j)
  BY <1>0, <1>4 DEF Pull, GoTo, service, RolloutTyped, Calls, AtRest, Fresh
<1>5. CASE Poll(j)
  <2>1. pc' \in {[pc EXCEPT ![j] = "done"], [pc EXCEPT ![j] = "failed"], [pc EXCEPT ![j] = "reinspect"]}
    BY <1>5 DEF Poll, GoTo
  <2>. QED BY <1>0, <1>5, <2>1 DEF Poll, service, RolloutTyped, Calls, AtRest
<1>6. CASE PollAgain(j)
  BY <1>0, <1>6 DEF PollAgain, vars, service, RolloutTyped, Fresh
<1>7. CASE Reinspect(j)
  BY <1>0, <1>7 DEF Reinspect, ReinspectWith, GoTo, service, RolloutTyped, Calls, AtRest
<1>. QED BY <1>1, <1>2, <1>3, <1>4, <1>5, <1>6, <1>7 DEF Watches

LEMMA JobSteps == \A j \in Jobs : (Request(j) \/ Step(j) \/ Expire(j)) => Watches(j) \/ Update(j) \/ Rollback(j)
BY DEF Step, Watches

LEMMA RolloutKeeps == RolloutInv /\ [Next]_vars => RolloutInv'
<1> SUFFICES ASSUME RolloutInv, [Next]_vars PROVE RolloutInv'
  OBVIOUS
<1>0. RolloutTyped /\ Undoable /\ Fresh /\ DOMAIN pc = Jobs
  BY DEF RolloutInv, RolloutTyped
<1>1. CASE Orchestrator
  <2>1. UNCHANGED <<pc, target, insp, pushed>>
    BY <1>1, OrchestratorEffect DEF jobs
  <2>2. Fresh' /\ stale' \subseteq Jobs
    BY <1>0, <1>1, <2>1, OrchestratorEffect DEF Fresh, RolloutTyped
  <2>. QED BY <1>0, <1>1, <2>1, <2>2, OrchestratorEffect DEF RolloutInv, RolloutTyped
<1>2. ASSUME NEW j \in Jobs, Watches(j) PROVE RolloutInv'
  <2>1. Fresh'
    BY <1>0, <1>2, WatchEffect DEF Fresh
  <2>2. Undoable'
    BY <1>0, <1>2, WatchEffect DEF Undoable, Outdated
  <2>. QED BY <1>0, <1>2, <2>1, <2>2, WatchEffect DEF RolloutInv, RolloutTyped
<1>3. ASSUME NEW j \in Jobs, Update(j) PROVE RolloutInv'
  <2>1. pc' \in [Jobs -> Calls] /\ \A k \in Jobs : pc'[k] \in {"pull", "update"} => pc[k] = pc'[k] /\ k # j
    BY <1>0, <1>3, UpdateEffect DEF RolloutTyped, Calls, AtRest
  <2>2. RolloutTyped'
    BY <1>0, <1>3, <2>1, UpdateEffect DEF RolloutTyped, States
  <2>3. Undoable'
    BY <1>0, <1>3, UpdateEffect, SpecsAreReal DEF RolloutTyped, Undoable, Outdated
  <2>4. Fresh'
    BY <1>0, <1>3, <2>1, UpdateEffect DEF Fresh
  <2>. QED BY <2>2, <2>3, <2>4 DEF RolloutInv
<1>4. ASSUME NEW j \in Jobs, Rollback(j) PROVE RolloutInv'
  <2>1. pc' \in [Jobs -> Calls] /\ \A k \in Jobs : pc'[k] \in {"pull", "update"} => pc[k] = pc'[k] /\ k # j
    BY <1>0, <1>4, RollbackEffect DEF RolloutTyped, Calls, AtRest
  <2>2. RolloutTyped'
    BY <1>0, <1>4, <2>1, RollbackEffect DEF RolloutTyped, States
  <2>3. Undoable'
    BY <1>0, <1>4, RollbackEffect DEF Undoable, Outdated
  <2>4. Fresh'
    BY <1>0, <1>4, <2>1, RollbackEffect DEF Fresh
  <2>. QED BY <2>2, <2>3, <2>4 DEF RolloutInv
<1>5. CASE UNCHANGED vars
  BY <1>0, <1>5 DEF vars, service, RolloutInv, RolloutTyped, Undoable, Outdated, Fresh
<1>6. CASE Push
  <2>1. pushed' \in Digests
    <3>1. pushed \in 1..(MaxPushes + 1) /\ pushed <= MaxPushes /\ pushed' = pushed + 1
      BY <1>0, <1>6 DEF Push, RolloutTyped, Digests
    <3>. QED BY <3>1, BoundAssumption DEF Digests
  <2>. QED BY <1>0, <1>6, <2>1 DEF Push, service, RolloutInv, RolloutTyped, Undoable, Outdated, Fresh
<1>. QED BY <1>1, <1>2, <1>3, <1>4, <1>5, <1>6, JobSteps DEF Next

\* However many jobs update the service at once, and whatever the orchestrator does
\* in between: an update accepted while every task was on the service's spec leaves
\* tasks to replace, also when the reference is the one the service has already (the
\* force counter of updateService; the version makes sure that it is the counter the
\* job inspected), unless the service was on the very digest the tag stands for.
THEOREM UpdateReplacesTasks == ASSUME Replicas # {} PROVE Spec => UpdateRollsOut
<1>1. RolloutInv /\ [Next]_vars =>
        [\A j \in Jobs :
           pc[j] = "update" /\ pc'[j] = "poll" /\ Outdated = {}
             => Outdated' # {} \/ (Pinned(j) /\ spec'.digest = insp[j].digest)]_vars
  <2> SUFFICES ASSUME RolloutInv, Next, NEW j \in Jobs,
                      pc[j] = "update", pc'[j] = "poll", Outdated = {}, ~Unmoved(j)
               PROVE  Outdated' # {}
    BY DEF Unmoved
  <2>0. DOMAIN pc = Jobs
    BY DEF RolloutInv, RolloutTyped
  <2>1. ~Orchestrator /\ ~Push
    BY OrchestratorEffect DEF jobs, Push
  <2>2. \A k \in Jobs \ {j} : ~(Watches(k) \/ Update(k) \/ Rollback(k))
    BY <2>0, WatchEffect, UpdateEffect, RollbackEffect
  <2>3. ~Watches(j)
    BY <2>0 DEF Watches, Request, Expire, Inspect, Pull, Poll, PollAgain, Reinspect, ReinspectWith, AtRest, GoTo
  <2>4. Update(j)
    BY <2>1, <2>2, <2>3, JobSteps, RollbackEffect DEF Next
  <2>5. spec' # insp[j] /\ j \notin stale /\ task' = task
    BY <2>0, <2>4, UpdateEffect
  <2>6. spec' # spec
    BY <2>5 DEF RolloutInv, Fresh
  <2>. QED BY <2>5, <2>6 DEF Outdated
<1>. QED BY <1>1, RolloutStarts, RolloutKeeps, PTL DEF Spec, UpdateRollsOut

-----------------------------------------------------------------------------
(* What one job may conclude.  Nobody else writes the service, so from the  *)
(* moment its update is accepted the service is either on the spec the job  *)
(* asked for, with the one it inspected to go back to, or back on the       *)
(* latter.  With a second job neither theorem holds (README, findings).     *)

OneJob == \A j, k \in Jobs : j = k

\* A rollout that has completed has replaced every task.
Completed == status = "completed" => Outdated = {}

Ahead(j) == /\ status \in {"none", "updating", "paused", "completed"}
            /\ prev = insp[j] /\ spec.image = target[j]
            /\ spec # insp[j] \/ Pinned(j)
Back(j)  == /\ status \in {"rollback_started", "rollback_paused", "rollback_completed"}
            /\ prev = NoSpec /\ spec = insp[j]
Watched  == \A j \in Jobs : pc[j] \in {"poll", "reinspect", "rollback"} => Ahead(j) \/ Back(j)

\* A version that went out of date since the last inspection is a hindrance.
Hindrance == \A j \in Jobs : (pc[j] = "rollback" /\ j \in stale) => hindered

JobInv == RolloutInv /\ Completed /\ Watched /\ Hindrance

LEMMA JobStarts == Init => JobInv
<1> SUFFICES ASSUME Init PROVE JobInv
  OBVIOUS
<1>. QED BY RolloutStarts DEF Init, JobInv, Completed, Outdated, Watched, Hindrance

LEMMA OrchestratorKeepsJob ==
  ASSUME JobInv, Orchestrator
  PROVE  Completed' /\ Watched' /\ Hindrance'
<1>0. RolloutInv /\ Completed /\ Watched /\ Hindrance /\ UNCHANGED <<pc, target, insp>>
  BY OrchestratorEffect DEF JobInv, jobs
<1>1. CASE Begins
  BY <1>0, <1>1 DEF Begins, Writes, Completed, Outdated, Watched, Ahead, Pinned, Back, Hindrance
<1>2. CASE Completes
  BY <1>0, <1>2 DEF Completes, Writes, Completed, Outdated, Watched, Ahead, Pinned, Back, Hindrance
<1>3. CASE GivesUp
  <2>1. status' \in {"paused", "rollback_started", "rollback_paused"}
    BY <1>3 DEF GivesUp
  <2>2. Completed' /\ Hindrance'
    BY <1>0, <1>3, <2>1 DEF GivesUp, Writes, Completed, Hindrance
  <2>3. Watched'
    BY <1>0, <1>3 DEF GivesUp, Watched, Ahead, Pinned, Back
  <2>. QED BY <2>2, <2>3
<1>4. CASE Vanishes
  BY <1>0, <1>4 DEF Vanishes, Completed, Outdated, Watched, Ahead, Pinned, Back, Hindrance
<1>5. ASSUME NEW i \in Replicas, Replaces(i) PROVE Completed' /\ Watched' /\ Hindrance'
  BY <1>0, <1>5 DEF Replaces, service, Completed, Watched, Ahead, Pinned, Back, Hindrance
<1>6. ASSUME NEW i \in Replicas, Flaps(i) PROVE Completed' /\ Watched' /\ Hindrance'
  <2>1. \A k \in Replicas : task'[k].spec = task[k].spec
    <3>1. task \in [Replicas -> [spec : Deployable, up : BOOLEAN]]
      BY <1>0 DEF RolloutInv, RolloutTyped
    <3>2. PICK u : task' = [task EXCEPT ![i] = [task[i] EXCEPT !.up = u]]
      BY <1>6, <3>1 DEF Flaps
    <3>. QED BY <3>1, <3>2
  <2>. QED BY <1>0, <1>6, <2>1 DEF Flaps, service, Completed, Outdated, Watched, Ahead, Pinned, Back, Hindrance
<1>. QED BY <1>1, <1>2, <1>3, <1>4, <1>5, <1>6 DEF Orchestrator

LEMMA JobKeeps ==
  ASSUME OneJob, JobInv, [Next]_vars
  PROVE  JobInv'
<1>0. RolloutInv /\ RolloutTyped /\ Fresh /\ Completed /\ Watched /\ Hindrance /\ DOMAIN pc = Jobs
  BY DEF JobInv, RolloutInv, RolloutTyped
<1>1. RolloutInv'
  BY <1>0, RolloutKeeps
<1>2. CASE Orchestrator
  BY <1>1, <1>2, OrchestratorKeepsJob DEF JobInv
<1>3. ASSUME NEW j \in Jobs, Watches(j) PROVE Completed' /\ Watched' /\ Hindrance'
  <2>1. UNCHANGED <<spec, prev, status, task>>
    BY <1>0, <1>3, WatchEffect
  <2>2. Completed'
    BY <1>0, <2>1 DEF Completed, Outdated
  <2>3. pc'[j] \in {"poll", "reinspect", "rollback"} =>
           pc[j] \in {"poll", "reinspect", "rollback"} /\ insp' = insp /\ target' = target
    BY <1>0, <1>3 DEF Watches, Request, Expire, Inspect, Pull, Poll, PollAgain, Reinspect, ReinspectWith,
                      GoTo, vars
  <2>4. Watched'
    BY <1>0, <2>1, <2>3, OneJob DEF OneJob, Watched, Ahead, Pinned, Back
  <2>5. (pc'[j] = "rollback" /\ j \in stale') => hindered'
    BY <1>0, <1>3 DEF Watches, Request, Expire, Inspect, Pull, Poll, PollAgain, Reinspect, ReinspectWith,
                      GoTo, vars, Hindrance, AtRest
  <2>. QED BY <2>2, <2>4, <2>5, OneJob DEF OneJob, Hindrance
<1>4. ASSUME NEW j \in Jobs, Update(j) PROVE Completed' /\ Watched' /\ Hindrance'
  <2>1. pc'[j] \in {"poll", "failed"} /\ UNCHANGED <<task, target, insp>>
    BY <1>0, <1>4, UpdateEffect
  <2>2. Completed'
    BY <1>0, <1>4, UpdateEffect DEF Completed, Outdated
  <2>3. pc'[j] = "poll" => Ahead(j)'
    <3>1. pc'[j] = "poll" => /\ prev' = spec /\ status' = "none"
                             /\ spec'.image = target[j]
                             /\ spec' # insp[j] \/ Pinned(j)
                             /\ j \notin stale
      BY <1>0, <1>4, UpdateEffect DEF Unmoved
    <3>2. pc[j] = "update"
      BY <1>4, <1>0, UpdateEffect
    <3>. QED BY <1>0, <2>1, <3>1, <3>2 DEF Fresh, Ahead, Pinned
  <2>4. Watched'
    BY <2>1, <2>3, OneJob DEF OneJob, Watched
  <2>5. Hindrance'
    BY <2>1, OneJob DEF OneJob, Hindrance
  <2>. QED BY <2>2, <2>4, <2>5
<1>5. ASSUME NEW j \in Jobs, Rollback(j) PROVE Completed' /\ Watched' /\ Hindrance'
  <2>1. pc'[j] = "failed"
    BY <1>0, <1>5, RollbackEffect
  <2>2. Completed'
    BY <1>0, <1>5, RollbackEffect DEF Completed, Outdated
  <2>. QED BY <2>1, <2>2, OneJob DEF OneJob, Watched, Hindrance
<1>6. CASE UNCHANGED vars
  BY <1>0, <1>1, <1>6 DEF vars, service, JobInv, Completed, Outdated, Watched, Ahead, Pinned, Back, Hindrance
<1>7. CASE Push
  BY <1>0, <1>1, <1>7 DEF Push, service, JobInv, Completed, Outdated, Watched, Ahead, Pinned, Back, Hindrance
<1>. QED BY <1>1, <1>2, <1>3, <1>4, <1>5, <1>6, <1>7, JobSteps DEF Next, JobInv

LEMMA JobInvariant == ASSUME OneJob PROVE Spec => []JobInv
<1>1. JobInv /\ [Next]_vars => JobInv'
  BY JobKeeps
<1>. QED BY <1>1, JobStarts, PTL DEF Spec

\* Updates made one at a time, of any service, to any images, under any failure
\* action and with whatever calls refused or lost: when one is reported done, every
\* task is up, on the image asked for, and was replaced since, unless the service was
\* on that image by its digest (done is concluded from a completed rollout alone,
\* classifyServiceConvergence).
THEOREM DoneIsServing == ASSUME OneJob PROVE Spec => DoneMeansServing
<1>1. JobInv /\ [Next]_vars =>
        [\A j \in Jobs : Ends(j, "done") =>
           \A i \in Replicas : /\ task[i].up
                               /\ task[i].spec.image = target[j]
                               /\ task[i].spec # insp[j] \/ Pinned(j)]_vars
  <2> SUFFICES ASSUME JobInv, Next, NEW j \in Jobs, Ends(j, "done"), NEW i \in Replicas
               PROVE  /\ task[i].up
                      /\ task[i].spec.image = target[j]
                      /\ task[i].spec # insp[j] \/ Pinned(j)
    OBVIOUS
  <2>0. RolloutInv /\ Completed /\ Watched /\ DOMAIN pc = Jobs
    BY DEF JobInv, RolloutInv, RolloutTyped
  <2>1. ~Orchestrator /\ ~Push
    BY <2>0, OrchestratorEffect DEF jobs, Push, Ends
  <2>2. Watches(j)
    BY <2>0, <2>1, OneJob, JobSteps, UpdateEffect, RollbackEffect DEF OneJob, Next, Ends
  <2>3. Poll(j)
    BY <2>0, <2>2 DEF Watches, Request, Expire, Inspect, Pull, PollAgain, Reinspect, ReinspectWith,
                      GoTo, vars, Ends
  <2>4. pc[j] = "poll" /\ Classify(j \in late) = "done"
    BY <2>0, <2>3 DEF Poll, GoTo, Ends
  <2>5. status = "completed" /\ Down = {}
    BY <2>4 DEF Classify
  <2>6. Outdated = {} /\ Ahead(j)
    BY <2>0, <2>4, <2>5 DEF Completed, Watched, Back
  <2>. QED BY <2>5, <2>6 DEF Outdated, Down, Ahead
<1>. QED BY <1>1, JobInvariant, PTL DEF Spec, DoneMeansServing

\* Likewise: an update that fails after it was accepted leaves the service on the
\* spec the job inspected, unless the service is gone, a call that could have been
\* carried out failed, or somebody wrote the service between the last inspection
\* and the rollback (rollbackService is tried once).
THEOREM FailureIsUndone == ASSUME OneJob PROVE Spec => FailureUndoes
<1>1. JobInv /\ [Next]_vars =>
        [\A j \in Jobs : (Fails(j) /\ exists /\ ~hindered') => spec' = insp[j]]_vars
  <2> SUFFICES ASSUME JobInv, Next, NEW j \in Jobs, Fails(j), exists, ~hindered'
               PROVE  spec' = insp[j]
    OBVIOUS
  <2>0. RolloutInv /\ Watched /\ Hindrance /\ DOMAIN pc = Jobs /\ insp[j] \in Deployable
    BY DEF JobInv, RolloutInv, RolloutTyped
  <2>1. ~Orchestrator /\ ~Push
    BY <2>0, OrchestratorEffect DEF jobs, Push, Fails
  <2>2. Watches(j) \/ Rollback(j)
    BY <2>0, <2>1, OneJob, JobSteps, UpdateEffect DEF OneJob, Next, Fails
  <2>3. Ahead(j) \/ Back(j)
    BY <2>0 DEF Fails, Watched
  <2>4. CASE Watches(j)
    <3>1. Poll(j) \/ Reinspect(j)
      BY <2>0, <2>4 DEF Watches, Request, Expire, Inspect, Pull, PollAgain, GoTo, vars, Fails
    <3>2. ~Reinspect(j)
      BY <2>0 DEF Reinspect, ReinspectWith, Hinders, GoTo, Fails
    <3>3. Classify(j \in late) = "rolledBack" /\ spec' = spec
      BY <2>0, <3>1, <3>2 DEF Poll, GoTo, service, Fails
    <3>4. status \in {"rollback_completed", "rollback_paused"}
      BY <3>3 DEF Classify
    <3>. QED BY <2>3, <3>3, <3>4 DEF Ahead, Pinned, Back
  <2>5. CASE Rollback(j)
    <3>1. j \notin stale
      BY <2>0, <2>5, RollbackEffect DEF Hindrance
    <3>2. CASE Ahead(j)
      BY <2>0, <2>5, <3>1, <3>2, RollbackEffect, SpecsAreReal DEF Ahead
    <3>3. CASE Back(j)
      BY <2>5, <3>3, RollbackEffect DEF Back
    <3>. QED BY <2>3, <3>2, <3>3
  <2>. QED BY <2>2, <2>4, <2>5
<1>. QED BY <1>1, JobInvariant, PTL DEF Spec, FailureUndoes

=============================================================================
