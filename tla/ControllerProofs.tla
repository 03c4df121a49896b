--------------------------- MODULE ControllerProofs ---------------------------
(***************************************************************************)
(* Theorems about what the controller does for containers: UpdateCheck,    *)
(* for any rows, repositories and triggers, and AgentQueue, for any        *)
(* workloads; both for any bounds.                                         *)
(***************************************************************************)
EXTENDS UpdateCheck, AgentQueue, FiniteSetTheorems, TLAPS

-----------------------------------------------------------------------------
(* The check.                                                              *)

(* The types of what a check has, and of everything else.                  *)
CheckType ==
  /\ running \in BOOLEAN
  /\ pc \in [Triggers -> {"rest", "list", "drop", "fetch", "apply"}]
  /\ cut \in BOOLEAN
  /\ drops \subseteq Rows /\ items \subseteq Rows /\ keys \subseteq Repos
  /\ cache \in [Repos -> {None} \cup 0..MaxRelease]
WorldType ==
  /\ present \subseteq Rows
  /\ retired \subseteq Rows \ present
  /\ pinned \subseteq present
  /\ deleting \in [Rows -> Nat]
  /\ ignored \subseteq Rows
  /\ offer \in [Rows -> Offers]
  /\ \A r \in Rows \ present : offer[r] = None
  /\ refused \subseteq Rows
  /\ upstream \in [Repos -> 0..MaxRelease]
  /\ changes \in 0..MaxChanges
  /\ baseline \in Baseline

LEMMA Types == TypeOK <=> CheckType /\ WorldType
BY DEF TypeOK, CheckType, WorldType

LEMMA InitType == Init => TypeOK
<1> SUFFICES ASSUME Init PROVE TypeOK
  OBVIOUS
<1>1. 0 \in 0..MaxRelease /\ 0 \in 0..MaxChanges
  BY BoundsAssumption
<1>2. baseline \in Baseline
  <2>1. [k \in Repos |-> 0] \in [Repos -> 0..MaxRelease]
    BY <1>1
  <2>. QED BY <2>1 DEF Init, Baseline
<1>3. WorldType
  BY <1>1, <1>2 DEF Init, WorldType, Offers
<1>4. CheckType
  BY DEF Init, CheckType
<1>. QED BY <1>3, <1>4, Types

(* The steps of a check, and of the others. *)
LEMMA StepCheckType == TypeOK /\ [Next]_vars => CheckType'
<1> SUFFICES ASSUME TypeOK, [Next]_vars PROVE CheckType'
  OBVIOUS
<1>t. CheckType /\ WorldType
  BY Types
<1>1. CASE UNCHANGED checkVars
  BY <1>t, <1>1 DEF checkVars, CheckType
<1>2. ASSUME NEW t \in Triggers, Begin(t) \/ ListFails(t) \/ Dropped(t) \/ Fetched(t) \/ Orphan(t) \/ Applied(t) \/ Abort(t)
      PROVE  CheckType'
  BY <1>t, <1>2 DEF Begin, Admit, ListFails, Dropped, Fetched, Orphan, Applied, Abort, EndOn, Finish, Goto, CheckType
<1>3. ASSUME NEW t \in Triggers, List(t) PROVE CheckType'
  BY <1>t, <1>3, RepoOfAssumption DEF List, Goto, CheckType, WorldType
<1>4. ASSUME NEW t \in Triggers, NEW r \in Rows, Drop(t, r) \/ Apply(t, r) PROVE CheckType'
  BY <1>t, <1>4 DEF Drop, Drops, Apply, ApplyTo, CheckType
<1>5. ASSUME NEW t \in Triggers, NEW k \in Repos, Fetch(t, k) PROVE CheckType'
  <2>1. PICK rels \in {None} \cup 0..MaxRelease : cache' = [cache EXCEPT ![k] = rels]
    BY <1>t, <1>5 DEF Fetch, WorldType
  <2>. QED BY <1>t, <1>5, <2>1 DEF Fetch, CheckType
<1>6. CASE Cut
  BY <1>t, <1>6 DEF Cut, CheckType
<1>7. CASE Restart
  BY <1>t, <1>7 DEF Restart, CheckType
<1>8. ASSUME NEW r \in Rows, Pin(r) \/ PinDone(r) \/ Unpin(r) \/ Ignore(r) \/ Vanish(r) \/ Appear(r)
      PROVE  UNCHANGED checkVars
  BY <1>8 DEF Pin, PinDone, Unpin, Ignore, Vanish, Appear
<1>9. ASSUME NEW k \in Repos, Publish(k) PROVE UNCHANGED checkVars
  BY <1>9 DEF Publish
<1>. QED BY <1>1, <1>2, <1>3, <1>4, <1>5, <1>6, <1>7, <1>8, <1>9 DEF Next, Check, Others, vars

LEMMA StepWorldType == TypeOK /\ [Next]_vars => WorldType'
<1> SUFFICES ASSUME TypeOK, [Next]_vars PROVE WorldType'
  OBVIOUS
<1>t. CheckType /\ WorldType
  BY Types
<1> USE BoundsAssumption
<1>1. CASE UNCHANGED <<world, updates, baseline>>
  BY <1>t, <1>1 DEF world, updates, WorldType
<1>2. ASSUME NEW t \in Triggers, Begin(t) \/ ListFails(t) \/ Dropped(t) \/ Fetched(t) \/ Orphan(t) \/ Applied(t) \/ Abort(t)
      PROVE  UNCHANGED <<world, updates, baseline>>
  BY <1>2 DEF Begin, Admit, ListFails, Dropped, Fetched, Orphan, Applied, Abort, EndOn
<1>3. ASSUME NEW t \in Triggers, List(t) PROVE WorldType'
  <2>1. baseline' \in Baseline
    BY <1>t, <1>3 DEF List, WorldType, Baseline
  <2>. QED BY <1>t, <1>3, <2>1 DEF List, world, updates, WorldType
<1>4. ASSUME NEW t \in Triggers, NEW r \in Rows, Drop(t, r) PROVE WorldType'
  BY <1>t, <1>4 DEF Drop, Drops, Deleted, Kept, world, WorldType, Offers
<1>5. ASSUME NEW t \in Triggers, NEW r \in Rows, Apply(t, r) PROVE WorldType'
  <2>1. PICK d \in Decisions(cache[RepoOf[r]]) : (d # None => r \in present) /\ offer' = [offer EXCEPT ![r] = d]
    BY <1>5 DEF Apply, ApplyTo
  <2>2. cache[RepoOf[r]] \in {None} \cup 0..MaxRelease
    BY <1>t, RepoOfAssumption DEF CheckType
  <2>3. d \in Offers
    BY <2>1, <2>2 DEF Decisions, Offers, None, OwnTag
  <2>. QED BY <1>t, <1>5, <2>1, <2>3 DEF Apply, ApplyTo, world, WorldType
<1>6. ASSUME NEW t \in Triggers, NEW k \in Repos, Fetch(t, k) PROVE UNCHANGED <<world, updates, baseline>>
  BY <1>6 DEF Fetch
<1>7. CASE Cut
  BY <1>7, <1>1 DEF Cut
<1>8. CASE Restart
  BY <1>t, <1>8 DEF Restart, Change, updates, WorldType
<1>9. ASSUME NEW r \in Rows, Pin(r) \/ PinDone(r) \/ Unpin(r) \/ Ignore(r) PROVE WorldType'
  <2>1. baseline' \in Baseline
    BY <1>t, <1>9 DEF Pin, PinDone, Unpin, Ignore, WorldType, Baseline
  <2>2. CASE Pin(r) \/ Unpin(r) \/ Ignore(r)
    BY <1>t, <2>1, <2>2 DEF Pin, Unpin, Ignore, Change, updates, WorldType
  <2>3. CASE PinDone(r)
    <3>1. deleting' \in [Rows -> Nat]
      BY <1>t, <2>3 DEF PinDone, WorldType
    <3>. QED BY <1>t, <2>1, <2>3, <3>1 DEF PinDone, Deleted, Kept, WorldType, Offers
  <2>. QED BY <1>9, <2>2, <2>3
<1>10. ASSUME NEW r \in Rows, Vanish(r) \/ Appear(r) PROVE WorldType'
  <2>1. baseline' \in Baseline
    <3>1. [baseline EXCEPT !.pinned = @ \ {r}, !.free = @ \ {r}] \in Baseline
      BY <1>t DEF WorldType, Baseline
    <3>. QED BY <1>t, <1>10, <3>1 DEF Vanish, Appear, WorldType
  <2>2. offer' \in [Rows -> Offers]
    BY <1>t, <1>10 DEF Vanish, Appear, Deleted, updates, WorldType, Offers
  <2>. QED BY <1>t, <1>10, <2>1, <2>2 DEF Vanish, Appear, Deleted, Change, updates, WorldType
<1>11. ASSUME NEW k \in Repos, Publish(k) PROVE WorldType'
  BY <1>t, <1>11 DEF Publish, updates, WorldType
<1>. QED BY <1>1, <1>2, <1>3, <1>4, <1>5, <1>6, <1>7, <1>8, <1>9, <1>10, <1>11 DEF Next, Check, Others, vars, checkVars, world, updates

LEMMA StepType == TypeOK /\ [Next]_vars => TypeOK'
<1> SUFFICES ASSUME TypeOK, [Next]_vars PROVE TypeOK'
  OBVIOUS
<1>. QED BY StepCheckType, StepWorldType DEF TypeOK, CheckType, WorldType

-----------------------------------------------------------------------------
LEMMA StepOne == TypeOK /\ OneCheckAtATime /\ [Next]_vars => OneCheckAtATime'
<1> SUFFICES ASSUME TypeOK, OneCheckAtATime, [Next]_vars PROVE OneCheckAtATime'
  OBVIOUS
<1>t. CheckType
  BY Types
<1> USE DEF OneCheckAtATime, Active, CheckType
<1>1. CASE UNCHANGED <<running, pc>>
  BY <1>1
<1>2. ASSUME NEW t \in Triggers, Begin(t) PROVE OneCheckAtATime'
  BY <1>t, <1>2 DEF Begin, Admit, Goto
<1>3. ASSUME NEW t \in Triggers, List(t) \/ Dropped(t) \/ Fetched(t) PROVE OneCheckAtATime'
  <2>1. /\ Active(t) /\ running' = running
        /\ \E label \in {"drop", "fetch", "apply"} : pc' = [pc EXCEPT ![t] = label]
    BY <1>t, <1>3 DEF List, Dropped, Fetched, Goto
  <2>. QED BY <1>t, <2>1
<1>4. ASSUME NEW t \in Triggers, ListFails(t) \/ Orphan(t) \/ Applied(t) \/ Abort(t) PROVE OneCheckAtATime'
  <2>1. Active(t) /\ running' = FALSE /\ pc' = [pc EXCEPT ![t] = "rest"]
    BY <1>t, <1>4 DEF ListFails, Orphan, Applied, Abort, EndOn, Finish, Goto
  <2>. QED BY <1>t, <2>1
<1>5. ASSUME NEW t \in Triggers, NEW r \in Rows, Drop(t, r) \/ Apply(t, r) PROVE UNCHANGED <<running, pc>>
  BY <1>5 DEF Drop, Drops, Apply, ApplyTo
<1>6. ASSUME NEW t \in Triggers, NEW k \in Repos, Fetch(t, k) PROVE UNCHANGED <<running, pc>>
  BY <1>6 DEF Fetch
<1>7. CASE Restart
  BY <1>7 DEF Restart
<1>8. ASSUME NEW r \in Rows, Pin(r) \/ PinDone(r) \/ Unpin(r) \/ Ignore(r) \/ Vanish(r) \/ Appear(r)
      PROVE  UNCHANGED <<running, pc>>
  BY <1>8 DEF Pin, PinDone, Unpin, Ignore, Vanish, Appear, checkVars
<1>9. ASSUME NEW k \in Repos, Publish(k) PROVE UNCHANGED <<running, pc>>
  BY <1>9 DEF Publish, checkVars
<1>10. Cut => UNCHANGED <<running, pc>>
  BY DEF Cut
<1>. QED BY <1>1, <1>2, <1>3, <1>4, <1>5, <1>6, <1>7, <1>8, <1>9, <1>10 DEF Next, Check, Others, vars, checkVars

\* At most one check runs (server.go:74-98), whatever starts or restarts.
THEOREM SingleFlight == Spec => []OneCheckAtATime
<1>1. Init => TypeOK /\ OneCheckAtATime
  BY InitType DEF Init, OneCheckAtATime, Active
<1>. QED BY <1>1, StepType, StepOne, PTL DEF Spec

-----------------------------------------------------------------------------
(* What a check past its listing keeps of the rows that were pinned then,  *)
(* and still are: they are not on its list, and have no update but the     *)
(* ones its first pass has yet to drop.                                    *)
PastList(t) == pc[t] \in {"drop", "fetch", "apply"}


PinnedCleared ==
  \A t \in Triggers : PastList(t) =>
    \A r \in baseline.pinned :
      r \notin items /\ (offer[r] = None \/ r \in refused \/ (pc[t] = "drop" /\ r \in drops))

LEMMA StepPinned ==
  TypeOK /\ OneCheckAtATime /\ PinnedCleared /\ [Next]_vars => PinnedCleared'
<1> SUFFICES ASSUME TypeOK, OneCheckAtATime, PinnedCleared, [Next]_vars PROVE PinnedCleared'
  OBVIOUS
<1>t. CheckType /\ WorldType
  BY Types
<1> USE DEF PinnedCleared, PastList, CheckType, WorldType
<1>1. CASE UNCHANGED <<pc, drops, items, offer, refused, baseline>>
  BY <1>1
\* A check that begins is alone, and has yet to list.
<1>2. ASSUME NEW t \in Triggers, Begin(t) PROVE PinnedCleared'
  <2>1. \A u \in Triggers : ~PastList(u)'
    BY <1>t, <1>2 DEF Begin, Admit, Goto, OneCheckAtATime, Active
  <2>. QED BY <2>1
<1>3. ASSUME NEW t \in Triggers, List(t) PROVE PinnedCleared'
  <2>1. \A u \in Triggers : PastList(u)' => u = t
    BY <1>t, <1>3 DEF List, Goto, OneCheckAtATime, Active
  <2>2. baseline'.pinned = pinned /\ offer' = offer /\ refused' = refused /\ pc'[t] = "drop"
    BY <1>t, <1>3 DEF List, Goto, updates
  <2>3. ASSUME NEW r \in pinned PROVE r \notin items' /\ (offer[r] = None \/ r \in drops')
    BY <1>t, <1>3 DEF List
  <2>. QED BY <2>1, <2>2, <2>3
<1>4. ASSUME NEW t \in Triggers, NEW r \in Rows, Drop(t, r) PROVE PinnedCleared'
  <2>1. drops' = drops \ {r} /\ UNCHANGED <<pc, items, baseline>>
    BY <1>4 DEF Drop, Drops
  <2>2. CASE Deleted(r)
    BY <1>t, <2>1, <2>2 DEF Deleted
  <2>3. CASE Kept(r)
    BY <1>t, <2>1, <2>3 DEF Kept
  <2>. QED BY <1>4, <2>2, <2>3 DEF Drop
<1>5. ASSUME NEW t \in Triggers, Dropped(t) PROVE PinnedCleared'
  <2>1. UNCHANGED <<drops, items, offer, refused, baseline>> /\ drops = {} /\ pc[t] = "drop" /\ pc' = [pc EXCEPT ![t] = "fetch"]
    BY <1>5 DEF Dropped, Goto, updates
  <2>. QED BY <1>t, <2>1
<1>6. ASSUME NEW t \in Triggers, Fetched(t) PROVE PinnedCleared'
  <2>1. UNCHANGED <<drops, items, offer, refused, baseline>> /\ pc[t] = "fetch" /\ pc' = [pc EXCEPT ![t] = "apply"]
    BY <1>6 DEF Fetched, Goto, updates
  <2>. QED BY <1>t, <2>1
<1>7. ASSUME NEW t \in Triggers, ListFails(t) \/ Orphan(t) \/ Applied(t) \/ Abort(t) PROVE PinnedCleared'
  <2>1. UNCHANGED <<drops, items, offer, refused, baseline>> /\ pc' = [pc EXCEPT ![t] = "rest"]
    BY <1>7 DEF ListFails, Orphan, Applied, Abort, EndOn, Finish, Goto, updates
  <2>. QED BY <1>t, <2>1
\* The second pass stores updates of listed rows only.
<1>8. ASSUME NEW t \in Triggers, NEW r \in Rows, Apply(t, r) PROVE PinnedCleared'
  <2>1. PICK d : offer' = [offer EXCEPT ![r] = d]
    BY <1>8 DEF Apply, ApplyTo
  <2>2. r \in items /\ items' \subseteq items /\ refused' = refused \ {r} /\ UNCHANGED <<pc, drops, baseline>>
    BY <1>8 DEF Apply, ApplyTo
  <2>. QED BY <1>t, <2>1, <2>2
<1>9. ASSUME NEW t \in Triggers, NEW k \in Repos, Fetch(t, k) PROVE UNCHANGED <<pc, drops, items, offer, refused, baseline>>
  BY <1>9 DEF Fetch, updates
<1>10. Cut => UNCHANGED <<pc, drops, items, offer, refused, baseline>>
  BY DEF Cut, updates
<1>11. CASE Restart
  <2>1. \A u \in Triggers : ~PastList(u)'
    BY <1>11 DEF Restart
  <2>. QED BY <2>1
<1>12. ASSUME NEW r \in Rows, Pin(r) \/ PinDone(r) \/ Unpin(r) \/ Ignore(r) \/ Vanish(r) \/ Appear(r)
      PROVE  PinnedCleared'
  <2>1. baseline.pinned \subseteq Rows
    BY <1>t DEF Baseline
  <2>2. baseline'.pinned \subseteq baseline.pinned
    <3>1. baseline \in Baseline
      BY <1>t
    <3>2. CASE Pin(r)
      BY <3>1, <3>2 DEF Pin, Baseline
    <3>3. CASE Unpin(r)
      BY <3>1, <3>3 DEF Unpin, Baseline
    <3>4. CASE Vanish(r)
      BY <3>1, <3>4 DEF Vanish, Baseline
    <3>5. CASE PinDone(r) \/ Ignore(r) \/ Appear(r)
      BY <3>5 DEF PinDone, Ignore, Appear
    <3>. QED BY <1>12, <3>2, <3>3, <3>4, <3>5
  <2>3. UNCHANGED <<pc, drops, items>>
        /\ ((offer' = offer /\ refused \subseteq refused') \/ Deleted(r))
    BY <1>12 DEF Pin, PinDone, Unpin, Ignore, Vanish, Appear, Kept, checkVars, updates
  <2>. QED BY <1>t, <2>1, <2>2, <2>3 DEF Deleted
<1>13. ASSUME NEW k \in Repos, Publish(k) PROVE UNCHANGED <<pc, drops, items, offer, refused, baseline>>
  BY <1>13 DEF Publish, checkVars, updates
<1>. QED BY <1>1, <1>2, <1>3, <1>4, <1>5, <1>6, <1>7, <1>8, <1>9, <1>10, <1>11, <1>12, <1>13
         DEF Next, Check, Others, vars, checkVars, updates

\* A check that ran to its end leaves no update on a row pinned all the while
\* (updater.go:74-83, 115-127), but one that the database refused to delete: its
\* first pass drops the update, its second does not store one.
THEOREM ClearsPinned == Spec => CheckClearsPinned
<1>1. Init => TypeOK /\ OneCheckAtATime /\ PinnedCleared
  BY InitType DEF Init, OneCheckAtATime, Active, PinnedCleared, PastList
<1>2. PinnedCleared => \A t \in Triggers : Completes(t) => \A r \in baseline.pinned \ refused : offer[r] = None
  BY DEF PinnedCleared, PastList, Completes
<1>. QED BY <1>1, <1>2, StepType, StepOne, StepPinned, PTL DEF Spec, CheckClearsPinned

-----------------------------------------------------------------------------
(* What a check past its listing knows is no older than its beginning; a   *)
(* row that was free to be updated then, and still is, is on the list, or  *)
(* has been given its update.                                              *)
Recent(k) ==
  /\ baseline.upstream[k] <= upstream[k]
  /\ cache[k] # None => cache[k] \in baseline.upstream[k]..upstream[k]

UpToDate(r) ==
  LET k == RepoOf[r] IN
  cache[k] # None /\ baseline.upstream[k] > 0 => offer[r] \in baseline.upstream[k]..upstream[k]

Fresh ==
  \A t \in Triggers : PastList(t) =>
    /\ \A k \in Repos : Recent(k)
    /\ \A r \in baseline.free : r \in items \/ (pc[t] = "apply" /\ UpToDate(r))

\* A row that is free all the while has no request to pin it under way.
NotPinned == \A r \in baseline.free : deleting[r] = 0

LEMMA StepNotPinned == TypeOK /\ NotPinned /\ [Next]_vars => NotPinned'
<1> SUFFICES ASSUME TypeOK, NotPinned, [Next]_vars PROVE NotPinned'
  OBVIOUS
<1>t. WorldType
  BY Types
<1> USE DEF NotPinned
<1>1. CASE UNCHANGED <<deleting, baseline>>
  BY <1>1
<1>2. ASSUME NEW t \in Triggers, List(t) PROVE NotPinned'
  BY <1>2 DEF List, world
<1>3. ASSUME NEW r \in Rows, Pin(r) \/ PinDone(r) \/ Unpin(r) \/ Vanish(r) PROVE NotPinned'
  <2>1. CASE Pin(r)
    BY <1>t, <2>1 DEF Pin, WorldType, Baseline
  <2>2. CASE PinDone(r)
    <3>1. r \notin baseline.free
      BY <1>t, <2>2 DEF PinDone, WorldType
    <3>. QED BY <1>t, <2>2, <3>1 DEF PinDone, WorldType, Baseline
  <2>3. CASE Unpin(r) \/ Vanish(r)
    BY <1>t, <2>3 DEF Unpin, Vanish, WorldType, Baseline
  <2>. QED BY <1>3, <2>1, <2>2, <2>3
<1>4. ASSUME NEW r \in Rows, Ignore(r) \/ Appear(r) PROVE UNCHANGED <<deleting, baseline>>
  BY <1>4 DEF Ignore, Appear
<1>5. ASSUME NEW k \in Repos, Publish(k) PROVE UNCHANGED <<deleting, baseline>>
  BY <1>5 DEF Publish
<1>6. ASSUME NEW t \in Triggers, Begin(t) \/ ListFails(t) \/ Dropped(t) \/ Fetched(t) \/ Orphan(t) \/ Applied(t) \/ Abort(t)
      PROVE  UNCHANGED <<deleting, baseline>>
  BY <1>6 DEF Begin, Admit, ListFails, Dropped, Fetched, Orphan, Applied, Abort, EndOn, world
<1>7. ASSUME NEW t \in Triggers, NEW r \in Rows, Drop(t, r) \/ Apply(t, r) PROVE UNCHANGED <<deleting, baseline>>
  BY <1>7 DEF Drop, Drops, Apply, ApplyTo, world
<1>8. ASSUME NEW t \in Triggers, NEW k \in Repos, Fetch(t, k) PROVE UNCHANGED <<deleting, baseline>>
  BY <1>8 DEF Fetch, world
<1>9. Cut => UNCHANGED <<deleting, baseline>>
  BY DEF Cut, world
<1>10. CASE Restart
  BY <1>t, <1>10 DEF Restart, WorldType, Baseline
<1>. QED BY <1>1, <1>2, <1>3, <1>4, <1>5, <1>6, <1>7, <1>8, <1>9, <1>10 DEF Next, Check, Others, vars, checkVars

LEMMA StepFresh ==
  TypeOK /\ OneCheckAtATime /\ NotPinned /\ Fresh /\ [Next]_vars => Fresh'
<1> SUFFICES ASSUME TypeOK, OneCheckAtATime, NotPinned, Fresh, [Next]_vars PROVE Fresh'
  OBVIOUS
<1>t. CheckType /\ WorldType
  BY Types
<1>n. /\ \A k \in Repos : upstream[k] \in Nat /\ baseline.upstream[k] \in Nat /\ cache[k] \in {None} \cup Nat
      /\ \A r \in Rows : RepoOf[r] \in Repos
      /\ baseline.free \subseteq Rows
  BY <1>t, BoundsAssumption, RepoOfAssumption DEF CheckType, WorldType, Baseline
<1>1. CASE UNCHANGED <<pc, items, offer, upstream, cache, baseline>>
  BY <1>1 DEF Fresh, PastList, Recent, UpToDate
<1>2. ASSUME NEW t \in Triggers, Begin(t) PROVE Fresh'
  <2>1. \A u \in Triggers : ~PastList(u)'
    BY <1>t, <1>2 DEF Begin, Admit, Goto, OneCheckAtATime, Active, PastList, CheckType
  <2>. QED BY <2>1 DEF Fresh
<1>3. ASSUME NEW t \in Triggers, List(t) PROVE Fresh'
  <2>1. baseline'.upstream = upstream /\ baseline'.free \subseteq items' /\ upstream' = upstream
    BY <1>3 DEF List, world
  <2>2. \A k \in Repos : cache'[k] = None
    BY <1>3 DEF List
  <2>3. \A k \in Repos : Recent(k)'
    BY <1>n, <2>1, <2>2 DEF Recent
  <2>. QED BY <2>1, <2>3 DEF Fresh
<1>4. ASSUME NEW t \in Triggers, NEW r \in Rows, Drop(t, r) PROVE Fresh'
  <2>1. UNCHANGED <<pc, items, upstream, cache, baseline>> /\ pc[t] = "drop"
    BY <1>4 DEF Drop, Drops, world
  <2>2. \A u \in Triggers : PastList(u) => u = t
    BY <2>1 DEF OneCheckAtATime, Active, PastList
  <2>3. ASSUME NEW k \in Repos, Recent(k) PROVE Recent(k)'
    BY <2>1, <2>3 DEF Recent
  <2>. QED BY <2>1, <2>2, <2>3 DEF Fresh, PastList
<1>5. ASSUME NEW t \in Triggers, Dropped(t) \/ Fetched(t) PROVE Fresh'
  <2>1. UNCHANGED <<items, offer, upstream, cache, baseline>> /\ pc[t] \in {"drop", "fetch"}
    BY <1>5 DEF Dropped, Fetched, world, updates
  <2>2. \A u \in Triggers : PastList(u)' => u = t
    BY <1>t, <1>5 DEF Dropped, Fetched, Goto, OneCheckAtATime, Active, PastList, CheckType
  <2>3. (\A k \in Repos : Recent(k)) /\ \A r \in baseline.free : r \in items
    BY <2>1 DEF Fresh, PastList
  <2>4. \A k \in Repos : Recent(k)'
    BY <2>1, <2>3 DEF Recent
  <2>. QED BY <2>1, <2>2, <2>3, <2>4 DEF Fresh
<1>6. ASSUME NEW t \in Triggers, NEW k \in Repos, Fetch(t, k) PROVE Fresh'
  <2>1. UNCHANGED <<pc, items, offer, upstream, baseline>> /\ pc[t] = "fetch"
    BY <1>6 DEF Fetch, world, updates
  <2>2. PICK rels \in {None, upstream[k]} : cache' = [cache EXCEPT ![k] = rels]
    BY <1>6 DEF Fetch
  <2>3. \A u \in Triggers : PastList(u) => u = t
    BY <2>1 DEF OneCheckAtATime, Active, PastList
  <2>4. (\A j \in Repos : Recent(j)) /\ \A r \in baseline.free : r \in items
    BY <2>1 DEF Fresh, PastList
  <2>5. ASSUME NEW j \in Repos PROVE Recent(j)'
    BY <1>t, <1>n, <2>1, <2>2, <2>4 DEF Recent, CheckType
  <2>. QED BY <2>1, <2>3, <2>4, <2>5 DEF Fresh
<1>7. ASSUME NEW t \in Triggers, ListFails(t) \/ Orphan(t) \/ Applied(t) \/ Abort(t) PROVE Fresh'
  <2>1. \A u \in Triggers : ~PastList(u)'
    BY <1>t, <1>7 DEF ListFails, Orphan, Applied, Abort, EndOn, Finish, Goto, OneCheckAtATime, Active, PastList, CheckType
  <2>. QED BY <2>1 DEF Fresh
\* The row's update is the newest release fetched, which is no older.
<1>8. ASSUME NEW t \in Triggers, NEW r \in Rows, Apply(t, r) PROVE Fresh'
  <2>1. PICK d \in Decisions(cache[RepoOf[r]]) : offer' = [offer EXCEPT ![r] = d]
    BY <1>8 DEF Apply, ApplyTo
  <2>2. items' = items \ {r} /\ UNCHANGED <<pc, upstream, cache, baseline>> /\ pc[t] = "apply"
    BY <1>8 DEF Apply, ApplyTo, world
  <2>3. \A u \in Triggers : PastList(u) => u = t
    BY <2>2 DEF OneCheckAtATime, Active, PastList
  <2>4. (\A k \in Repos : Recent(k)) /\ \A q \in baseline.free : q \in items \/ UpToDate(q)
    BY <2>2 DEF Fresh, PastList
  <2>5. \A k \in Repos : Recent(k)'
    BY <2>2, <2>4 DEF Recent
  <2>6. ASSUME NEW q \in baseline.free, q # r PROVE q \in items' \/ UpToDate(q)'
    BY <1>t, <1>n, <2>1, <2>2, <2>4, <2>6 DEF UpToDate, WorldType
  <2>7. UpToDate(r)'
    <3> DEFINE k == RepoOf[r]
    <3>1. SUFFICES ASSUME cache[k] # None, baseline.upstream[k] > 0
                   PROVE  offer'[r] \in baseline.upstream[k]..upstream[k]
      BY <2>2 DEF UpToDate
    <3>2. cache[k] \in baseline.upstream[k]..upstream[k]
      BY <1>n, <2>4, <3>1 DEF Recent
    <3>3. cache[k] > 0
      BY <1>n, <3>1, <3>2
    <3>4. d = cache[k]
      BY <2>1, <3>3 DEF Decisions
    <3>. QED BY <1>t, <2>1, <3>1, <3>2, <3>4 DEF WorldType
  <2>8. \A u \in Triggers : PastList(u)' => u = t
    BY <2>2, <2>3 DEF PastList
  <2>9. \A q \in baseline'.free : q \in items' \/ (pc'[t] = "apply" /\ UpToDate(q)')
    BY <2>2, <2>6, <2>7
  <2>. QED BY <2>5, <2>8, <2>9 DEF Fresh
<1>9. Cut => UNCHANGED <<pc, items, offer, upstream, cache, baseline>>
  BY DEF Cut, world, updates
<1>10. CASE Restart
  <2>1. \A u \in Triggers : ~PastList(u)'
    BY <1>10 DEF Restart, PastList
  <2>. QED BY <2>1 DEF Fresh
\* No update changes but of a row that is no longer free.
<1>11. ASSUME NEW r \in Rows, Pin(r) \/ PinDone(r) \/ Unpin(r) \/ Ignore(r) \/ Vanish(r) \/ Appear(r)
      PROVE  Fresh'
  <2>1. baseline'.free \subseteq baseline.free /\ baseline'.upstream = baseline.upstream
    BY <1>t, <1>11 DEF Pin, PinDone, Unpin, Ignore, Vanish, Appear, WorldType, Baseline
  <2>2. UNCHANGED <<pc, items, upstream, cache>>
    BY <1>11 DEF Pin, PinDone, Unpin, Ignore, Vanish, Appear, checkVars
  <2>3. ASSUME NEW q \in baseline'.free PROVE offer'[q] = offer[q]
    <3>1. q \in Rows /\ ~(deleting[q] > 0) /\ offer = [p \in Rows |-> offer[p]]
      BY <1>t, <1>n, <2>1 DEF WorldType, NotPinned
    <3>2. CASE PinDone(r)
      BY <1>t, <3>1, <3>2 DEF PinDone, Deleted, Kept, WorldType
    <3>3. CASE Vanish(r)
      <4>1. q # r
        BY <1>t, <2>1, <3>3 DEF Vanish, WorldType, Baseline
      <4>. QED BY <1>t, <3>1, <3>3, <4>1 DEF Vanish, Deleted, WorldType
    <3>. QED BY <1>11, <3>2, <3>3 DEF Pin, Unpin, Ignore, Appear, updates
  <2>4. ASSUME NEW k \in Repos, Recent(k) PROVE Recent(k)'
    BY <2>1, <2>2, <2>4 DEF Recent
  <2>5. ASSUME NEW q \in baseline'.free, UpToDate(q) PROVE UpToDate(q)'
    BY <2>1, <2>2, <2>3, <2>5 DEF UpToDate
  <2>. QED BY <2>1, <2>2, <2>4, <2>5 DEF Fresh, PastList
<1>12. ASSUME NEW k \in Repos, Publish(k) PROVE Fresh'
  <2>1. UNCHANGED <<pc, items, offer, cache, baseline>>
    BY <1>12 DEF Publish, checkVars, updates
  <2>2. \A j \in Repos : upstream[j] <= upstream'[j] /\ upstream'[j] \in Nat
    BY <1>t, <1>n, <1>12 DEF Publish, WorldType
  <2>3. ASSUME NEW j \in Repos, Recent(j) PROVE Recent(j)'
    BY <1>n, <2>1, <2>2, <2>3 DEF Recent
  <2>4. ASSUME NEW q \in baseline.free, UpToDate(q) PROVE UpToDate(q)'
    BY <1>n, <2>1, <2>2, <2>4 DEF UpToDate
  <2>. QED BY <2>1, <2>3, <2>4 DEF Fresh, PastList
<1>. QED BY <1>1, <1>2, <1>3, <1>4, <1>5, <1>6, <1>7, <1>8, <1>9, <1>10, <1>11, <1>12
         DEF Next, Check, Others, vars, checkVars

\* After a check that ran to its end, a row free to be updated all the while is
\* offered a release of its repository no older than the newest one when the
\* check began (updater.go:94-127), if no request to pin it was under way, although the check works on a
\* list and on releases that others have since made stale.
THEOREM IsFresh == Spec => CheckIsFresh
<1>1. Init => TypeOK /\ OneCheckAtATime /\ NotPinned /\ Fresh
  BY InitType DEF Init, OneCheckAtATime, Active, NotPinned, Fresh, PastList
<1>2. Fresh => \A t \in Triggers : Completes(t) => \A r \in baseline.free :
                 LET k == RepoOf[r] IN
                 cache[k] # None /\ baseline.upstream[k] > 0
                   => offer[r] \in baseline.upstream[k]..upstream[k]
  BY DEF Fresh, PastList, Completes, UpToDate
<1>. QED BY <1>1, <1>2, StepType, StepOne, StepNotPinned, StepFresh, PTL DEF Spec, CheckIsFresh

-----------------------------------------------------------------------------
(* The queue.                                                              *)

Statuses == {"none", "pending", "done", "failed"}
Jobs     == {"none", "queued", "done", "failed"}

(* The types of what is on the host, and of the rest. *)
HostType ==
  /\ next \in 1..(MaxIds + 1)
  /\ of \in [1..(next - 1) -> Workloads]
  /\ alive \subseteq there /\ there \subseteq 1..(next - 1)
  /\ made \in [Commands -> SUBSET (1..(next - 1))]
  /\ left \subseteq 1..(next - 1)
CommandType ==
  /\ queued \in 0..MaxCommands
  /\ on \in [Commands -> Ids]
  /\ status \in [Commands -> Statuses]
  /\ batch \subseteq Pending
  /\ answer \in {"none", "done", "failed"}
  /\ answer # "none" => batch # {}

BookType ==
  /\ listed \subseteq 1..(next - 1)
  /\ job \in [Ids -> Jobs]
  /\ \A c \in Commands : c <= queued => on[c] < next
  /\ losses \in 0..MaxLosses

LEMMA QueueTypes ==
  /\ QueueTypeOK <=> HostType /\ CommandType /\ BookType
  /\ QueueTypeOK' <=> HostType' /\ CommandType' /\ BookType'
BY DEF QueueTypeOK, HostType, CommandType, BookType, Statuses, Jobs

LEMMA QueueInitType == QueueInit => QueueTypeOK
<1> SUFFICES ASSUME QueueInit PROVE QueueTypeOK
  OBVIOUS
<1> DEFINE n == Cardinality(Workloads)
<1>1. n \in Nat /\ MaxCommands \in Nat /\ MaxLosses \in Nat /\ MaxIds \in Nat /\ MaxIds > n
  BY FS_CardinalityType, QueueAssumption
<1>2. of \in [1..n -> Workloads]
  BY DEF QueueInit, Bijection, Injection
<1>3. HostType
  <2>1. next = n + 1 /\ next - 1 = n /\ next \in 1..(MaxIds + 1)
    BY <1>1 DEF QueueInit
  <2>. QED BY <1>2, <2>1 DEF QueueInit, HostType
<1>4. CommandType
  BY <1>1 DEF QueueInit, CommandType, Commands, Ids, Statuses, Pending
<1>5. \A c \in Commands : ~(c <= queued)
  BY <1>1 DEF QueueInit, Commands
<1>. QED BY <1>1, <1>3, <1>4, <1>5, QueueTypes DEF BookType, QueueInit, Jobs, HostType

(* What an update does to the host: it keeps the types, and numbers only grow. *)
LEMMA CreateType ==
  ASSUME HostType, NEW i \in 1..(next - 1), Create(i)
  PROVE  /\ next \in Ids /\ next' \in 1..(MaxIds + 1) /\ next' = next + 1
         /\ of' \in [1..(next' - 1) -> Workloads]
         /\ of'[next] = of[i]
         /\ \A j \in 1..(next - 1) : of'[j] = of[j]
         /\ 1..(next' - 1) = 1..(next - 1) \cup {next}
<1>1. MaxIds \in Nat
  BY QueueAssumption
<1>2. next \in Ids /\ next' \in 1..(MaxIds + 1) /\ next' = next + 1
  BY <1>1 DEF Create, HostType, Ids
<1>3. next \in Nat /\ next' - 1 = next
  BY <1>2 DEF Ids
<1>4. 1..next = 1..(next - 1) \cup {next} /\ next \notin 1..(next - 1)
  BY <1>2 DEF Ids
<1>5. of' = [j \in 1..next |-> IF j = next THEN of[i] ELSE of[j]]
  BY DEF Create
<1>. QED BY <1>2, <1>3, <1>4, <1>5 DEF HostType, Ids

LEMMA UpdateType ==
  ASSUME HostType, NEW c \in Commands, NEW i \in there,
         Halfway(i) \/ \E removed \in BOOLEAN : Replace(c, i, removed)
  PROVE  HostType' /\ next <= next'
<1>0. i \in 1..(next - 1) /\ next \in Nat
  BY DEF HostType
<1>1. ASSUME NEW removed \in BOOLEAN, Replace(c, i, removed) PROVE HostType' /\ next <= next'
  <2>1. Create(i)
    BY <1>1 DEF Replace
  <2>2. /\ next' \in 1..(MaxIds + 1) /\ next' = next + 1
        /\ of' \in [1..(next' - 1) -> Workloads]
        /\ 1..(next' - 1) = 1..(next - 1) \cup {next}
    BY <1>0, <2>1, CreateType
  <2>3. alive' \subseteq there' /\ there' \subseteq 1..(next' - 1) /\ left' \subseteq 1..(next' - 1)
    BY <1>1, <2>2 DEF Replace, HostType
  <2>4. made' \in [Commands -> SUBSET (1..(next' - 1))]
    BY <1>1, <2>2 DEF Replace, HostType
  <2>. QED BY <1>0, <2>2, <2>3, <2>4 DEF HostType
<1>2. ASSUME Halfway(i) PROVE HostType' /\ next <= next'
  <2>1. CASE UNCHANGED <<next, of, there>>
    BY <1>0, <1>2, <2>1 DEF Halfway, HostType
  <2>2. CASE Create(i) /\ there' = there \cup {next}
    <3>1. /\ next' \in 1..(MaxIds + 1) /\ next' = next + 1
          /\ of' \in [1..(next' - 1) -> Workloads]
          /\ 1..(next' - 1) = 1..(next - 1) \cup {next}
      BY <1>0, <2>2, CreateType
    <3>. QED BY <1>0, <1>2, <2>2, <3>1 DEF Halfway, HostType
  <2>. QED BY <1>2, <2>1, <2>2 DEF Halfway
<1>. QED BY <1>1, <1>2

(* What executing commands does: the host as it was, or an update of a container. *)
LEMMA ExecuteOrCrash ==
  ASSUME QueueTypeOK, Execute \/ Crash
  PROVE  \/ UNCHANGED hostState
         \/ \E c \in batch : First(c) /\ on[c] \in there
                             /\ (Halfway(on[c]) \/ \E removed \in BOOLEAN : Replace(c, on[c], removed))
BY DEF Execute, Crash, OnItsContainer, Refuse, Refused, Recreate

LEMMA Wider ==
  \A m, n \in Nat : m <= n => 1..(m - 1) \subseteq 1..(n - 1) /\ \A i \in Nat : i < m => i < n
OBVIOUS

LEMMA QueueStepType == QueueTypeOK /\ [QueueNext]_queueing => QueueTypeOK'
<1> SUFFICES ASSUME QueueTypeOK, [QueueNext]_queueing PROVE QueueTypeOK'
  OBVIOUS
<1>t. /\ HostType /\ CommandType
      /\ listed \subseteq 1..(next - 1)
      /\ job \in [Ids -> Jobs]
      /\ \A c \in Commands : c <= queued => on[c] < next
      /\ losses \in 0..MaxLosses
  BY QueueTypes DEF BookType
<1>b. /\ MaxCommands \in Nat /\ MaxIds \in Nat /\ MaxLosses \in Nat /\ next \in Nat /\ queued \in Nat
      /\ 1..(next - 1) \subseteq Ids
      /\ \A c \in Commands : on[c] \in Nat
  BY <1>t, QueueAssumption DEF HostType, CommandType, Ids
<1>1. ASSUME NEW i \in Ids, Request(i) PROVE QueueTypeOK'
  <2>0. job' \in [Ids -> Jobs] /\ i < next /\ UNCHANGED <<listed, losses, batch, answer, hostState>>
    BY <1>1, <1>t, <1>b DEF Request, Jobs, agentState, Ids
  <2>h. HostType'
    BY <1>t, <2>0 DEF hostState, HostType
  <2>1. CASE UNCHANGED queueState
    <3>1. CommandType'
      BY <1>t, <2>0, <2>1 DEF queueState, CommandType, Pending
    <3>. QED BY <1>t, <2>0, <2>h, <2>1, <3>1, QueueTypes DEF BookType, hostState, queueState
  <2>2. CASE /\ queued < MaxCommands /\ queued' = queued + 1
             /\ on' = [on EXCEPT ![queued'] = i]
             /\ status' = [status EXCEPT ![queued'] = "pending"]
    <3>1. queued' \in 0..MaxCommands
      BY <1>b, <2>2
    <3>2. on' \in [Commands -> Ids] /\ status' \in [Commands -> Statuses]
      BY <1>t, <2>2 DEF CommandType, Statuses
    <3>3. Pending \subseteq Pending'
      BY <1>t, <2>2 DEF CommandType, Pending
    <3>4. CommandType'
      BY <1>t, <2>0, <3>1, <3>2, <3>3 DEF CommandType
    <3>5. ASSUME NEW c \in Commands, c <= queued' PROVE on'[c] < next'
      <4>1. c = queued' \/ (c # queued' /\ c <= queued)
        BY <1>b, <2>2, <3>5 DEF Commands
      <4>. QED BY <1>t, <2>0, <2>2, <4>1 DEF CommandType, hostState
    <3>. QED BY <1>t, <2>0, <2>h, <3>4, <3>5, QueueTypes DEF BookType, hostState
  <2>. QED BY <1>1, <2>1, <2>2 DEF Request
<1>2. CASE ControllerRestarts \/ Report \/ Poll \/ Lose \/ UNCHANGED queueing
  <2>1. UNCHANGED <<hostState, queueState>>
    BY <1>2 DEF ControllerRestarts, Report, Poll, Lose, queueing, queueState
  <2>2. HostType'
    BY <1>t, <2>1 DEF hostState, HostType
  <2>3. job' \in [Ids -> Jobs] /\ listed' \subseteq 1..(next' - 1) /\ losses' \in 0..MaxLosses
    <3>1. CASE Lose
      BY <3>1, <1>t, <1>b, <2>1 DEF Lose, hostState
    <3>2. CASE ControllerRestarts \/ Report
      BY <3>2, <1>t, <1>b, <2>1 DEF ControllerRestarts, Report, hostState, HostType, Jobs
    <3>3. CASE Poll \/ UNCHANGED queueing
      BY <3>3, <1>t, <1>b, <2>1 DEF Poll, queueing, hostState
    <3>. QED BY <1>2, <3>1, <3>2, <3>3
  <2>4. CommandType'
    <3>1. CASE Poll \/ Lose
      BY <3>1, <1>t, <2>1 DEF Poll, Lose, Resting, queueState, CommandType, Pending
    <3>2. CASE ControllerRestarts \/ Report \/ UNCHANGED queueing
      BY <3>2, <1>t, <2>1
         DEF ControllerRestarts, Report, queueing, agentState, queueState, CommandType, Pending
    <3>. QED BY <1>2, <3>1, <3>2
  <2>. QED BY <1>t, <2>1, <2>2, <2>3, <2>4, QueueTypes DEF BookType, hostState, queueState
<1>3. CASE Execute \/ Crash
  <2>1. HostType' /\ next <= next'
    <3>1. CASE UNCHANGED hostState
      BY <1>t, <1>b, <3>1 DEF hostState, HostType
    <3>2. CASE ~UNCHANGED hostState
      <4>1. PICK c \in batch :
              on[c] \in there /\ (Halfway(on[c]) \/ \E removed \in BOOLEAN : Replace(c, on[c], removed))
        BY <1>3, <3>2, ExecuteOrCrash
      <4>2. c \in Commands
        BY <1>t DEF CommandType, Pending
      <4>. QED BY <1>t, <4>1, <4>2, UpdateType
    <3>. QED BY <3>1, <3>2
  <2>2. UNCHANGED <<listed, job, queueState>> /\ losses' \in {losses, losses + 1} /\ losses' <= MaxLosses
    <3>1. CASE Execute
      BY <3>1, <1>t, <1>b DEF Execute, queueState
    <3>2. CASE Crash
      BY <3>2, <1>t, <1>b DEF Crash, queueState
    <3>. QED BY <1>3, <3>1, <3>2
  <2>3. batch' \subseteq batch /\ answer' \in {"none", "done", "failed"}
    BY <1>3 DEF Execute, Crash, OnItsContainer, Recreate, Refuse
  <2>4. answer' # "none" => batch' # {}
    BY <1>3 DEF Execute, Crash, OnItsContainer, Recreate, Refuse
  <2>5. CommandType'
    BY <1>t, <2>2, <2>3, <2>4 DEF queueState, CommandType, Pending
  <2>6. next \in Nat /\ next' \in Nat /\ next <= next'
    BY <1>b, <2>1 DEF HostType
  <2>7. \A c \in Commands : c <= queued' => on'[c] < next'
    <3>1. UNCHANGED <<queued, on>>
      BY <2>2 DEF queueState
    <3>. QED BY <1>t, <1>b, <2>6, <3>1, Wider
  <2>8. listed' \subseteq 1..(next' - 1)
    BY <1>t, <2>2, <2>6, Wider
  <2>. QED BY <1>t, <1>b, <2>1, <2>2, <2>5, <2>7, <2>8, QueueTypes DEF BookType
<1>4. CASE Post
  <2>1. PICK c \in batch : First(c) /\ Recorded(c, answer) /\ batch' = batch \ {c}
    BY <1>4 DEF Post
  <2>2. c \in Commands /\ answer \in {"done", "failed"}
    BY <1>4, <1>t, <2>1 DEF Post, CommandType, Pending
  <2>3. status' \in [Commands -> Statuses] /\ job' \in [Ids -> Jobs]
        /\ \A d \in Commands : d # c => status'[d] = status[d]
    BY <1>t, <2>1, <2>2 DEF Recorded, CommandType, Statuses, Jobs
  <2>4. batch' \subseteq Pending'
    BY <1>t, <2>1, <2>3 DEF CommandType, Pending
  <2>5. CommandType'
    BY <1>4, <1>t, <2>3, <2>4 DEF Post, CommandType
  <2>6. HostType'
    BY <1>4, <1>t DEF Post, hostState, HostType
  <2>. QED BY <1>4, <1>t, <2>3, <2>5, <2>6, QueueTypes DEF BookType, Post, hostState
<1>. QED BY <1>1, <1>2, <1>3, <1>4 DEF QueueNext

-----------------------------------------------------------------------------
(* Ids are not used twice: a container that was replaced and removed is    *)
(* nobody's any more, so a command that is executed again finds none.      *)

\* A container stays where it is only if what was put in its place left it there.
Gone == \A c \in Commands : \A i \in made[c] : i \notin left => on[c] \notin there

\* A command that is still to come has done nothing.
ToCome == \A c \in Commands : c > queued => status[c] = "none" /\ made[c] = {}

\* "done" is what is answered, and recorded, after the replacement.
Done(c) ==
  /\ made[c] # {}
  /\ on[c] \notin alive
  /\ \E i \in there : i > on[c] /\ of[i] = of[on[c]]
DoneIsTrue ==
  /\ answer = "done" => \A c \in batch : First(c) => Done(c)
  /\ \A c \in Commands : status[c] = "done" => Done(c)

QueueInv == Gone /\ ToCome /\ DoneIsTrue /\ AtMostOnce

LEMMA QueueInvStarts == QueueInit => QueueInv
BY DEF QueueInit, QueueInv, Gone, ToCome, DoneIsTrue, AtMostOnce

\* What is done stays done whatever is updated next, by the same command even.
LEMMA StaysDone ==
  ASSUME HostType, UNCHANGED on, NEW c \in Commands, NEW i \in there,
         Halfway(i) \/ \E removed \in BOOLEAN : Replace(c, i, removed),
         NEW d \in Commands, on[d] \in 1..(next - 1), Done(d)
  PROVE  Done(d)'
<1>0. i \in 1..(next - 1) /\ next \in Nat /\ there \subseteq 1..(next - 1) /\ on[d] \in Nat /\ on[d] < next
  BY DEF HostType
<1>1. PICK j \in there : j > on[d] /\ of[j] = of[on[d]]
  BY DEF Done
<1>2. ASSUME Create(i) PROVE of'[next] = of[i] /\ of'[j] = of[j] /\ of'[on[d]] = of[on[d]]
  BY <1>0, <1>2, CreateType
<1>3. ASSUME NEW removed \in BOOLEAN, Replace(c, i, removed) PROVE Done(d)'
  <2>1. made'[d] # {}
    BY <1>3 DEF Replace, HostType, Done
  <2>2. on'[d] \notin alive'
    BY <1>0, <1>3 DEF Replace, Done
  <2>3. CASE j = i
    BY <1>0, <1>1, <1>2, <1>3, <2>1, <2>2, <2>3 DEF Replace, Done
  <2>4. CASE j # i
    <3>1. j \in there'
      BY <1>3, <2>4 DEF Replace
    <3>2. Create(i)
      BY <1>3 DEF Replace
    <3>. QED BY <1>1, <1>2, <2>1, <2>2, <3>1, <3>2 DEF Done
  <2>. QED BY <2>3, <2>4
<1>4. ASSUME Halfway(i) PROVE Done(d)'
  <2>1. made'[d] # {} /\ on'[d] \notin alive'
    BY <1>4 DEF Halfway, Done
  <2>2. j \in there' /\ of'[j] = of'[on'[d]]
    <3>1. CASE UNCHANGED <<next, of, there>>
      BY <1>1, <3>1
    <3>2. CASE Create(i) /\ there' = there \cup {next}
      BY <1>1, <1>2, <3>2
    <3>. QED BY <1>4, <3>1, <3>2 DEF Halfway
  <2>. QED BY <1>1, <2>1, <2>2 DEF Done
<1>. QED BY <1>3, <1>4

\* An update of a command's container keeps the invariants of the history.
LEMMA StepUpdate ==
  ASSUME QueueTypeOK, Gone, ToCome, AtMostOnce,
         NEW c \in batch, on[c] \in there,
         Halfway(on[c]) \/ \E removed \in BOOLEAN : Replace(c, on[c], removed),
         UNCHANGED queueState
  PROVE  Gone' /\ ToCome' /\ AtMostOnce'
<1>t. HostType /\ CommandType /\ BookType
  BY QueueTypes
<1>0. /\ c \in Commands /\ status[c] = "pending" /\ next \in Nat /\ queued \in Nat
      /\ there \subseteq 1..(next - 1)
      /\ \A d \in Commands : d <= queued => on[d] < next
      /\ \A d \in Commands : made[d] \subseteq 1..(next - 1) /\ on[d] \in Nat /\ d \in Nat
      /\ UNCHANGED <<queued, on, status>>
  BY <1>t DEF HostType, CommandType, BookType, Pending, Ids, Commands, queueState
<1>1. ASSUME NEW removed \in BOOLEAN, Replace(c, on[c], removed) PROVE Gone' /\ ToCome' /\ AtMostOnce'
  <2>1. /\ made'[c] = made[c] \cup {next}
        /\ \A d \in Commands : d # c => made'[d] = made[d]
        /\ there' = (there \ (IF removed THEN {on[c]} ELSE {})) \cup {next}
        /\ left' = left \cup (IF removed THEN {} ELSE {next})
    BY <1>0, <1>1, <1>t DEF Replace, HostType
  <2>2. ToCome'
    BY <1>0, <2>1 DEF ToCome
  <2>3. Gone'
    <3> SUFFICES ASSUME NEW d \in Commands, NEW i \in made'[d], i \notin left'
                 PROVE  on[d] \notin there'
      BY <1>0 DEF Gone
    <3>1. d <= queued /\ on[d] # next
      BY <1>0, <2>1 DEF ToCome
    <3>2. CASE i = next
      <4>1. removed /\ d = c
        BY <1>0, <2>1, <3>2
      <4>. QED BY <2>1, <3>1, <4>1
    <3>3. CASE i # next
      <4>1. i \in made[d] /\ i \notin left
        BY <2>1, <3>3
      <4>. QED BY <2>1, <3>1, <4>1 DEF Gone
    <3>. QED BY <3>2, <3>3
  <2>4. AtMostOnce'
    <3> SUFFICES ASSUME NEW d \in Commands, NEW e \in Commands, NEW i \in made'[d], NEW j \in made'[e],
                        on[d] = on[e], i < j
                 PROVE  i \in left'
      BY <1>0 DEF AtMostOnce
    <3>1. i \in 1..next /\ j \in 1..next
      BY <1>0, <2>1
    <3>2. i # next /\ i \in made[d]
      BY <1>0, <2>1, <3>1
    <3>3. CASE j = next
      <4>1. e = c
        BY <1>0, <2>1, <3>3
      <4>. QED BY <2>1, <3>2, <4>1 DEF Gone
    <3>4. CASE j # next
      BY <2>1, <3>2, <3>4 DEF AtMostOnce
    <3>. QED BY <3>3, <3>4
  <2>. QED BY <2>2, <2>3, <2>4
<1>2. ASSUME Halfway(on[c]) PROVE Gone' /\ ToCome' /\ AtMostOnce'
  <2>1. UNCHANGED <<made, left>> /\ there' \subseteq there \cup {next}
    BY <1>2 DEF Halfway
  <2>2. \A d \in Commands : made[d] # {} => on[d] # next
    BY <1>0 DEF ToCome
  <2>. QED BY <1>0, <2>1, <2>2 DEF Gone, ToCome, AtMostOnce
<1>. QED BY <1>1, <1>2

LEMMA StepQueue == QueueTypeOK /\ QueueInv /\ [QueueNext]_queueing => QueueInv'
<1> SUFFICES ASSUME QueueTypeOK, QueueInv, [QueueNext]_queueing PROVE QueueInv'
  OBVIOUS
<1>t. HostType /\ CommandType /\ BookType
  BY QueueTypes
<1>b. /\ batch \subseteq Commands
      /\ \A c \in batch : status[c] = "pending" /\ c <= queued
      /\ \A c \in Commands : (status[c] # "none" \/ made[c] # {}) => on[c] \in 1..(next - 1)
  <2>1. /\ batch \subseteq Commands /\ \A c \in batch : status[c] = "pending"
        /\ queued \in Nat /\ next \in Nat /\ \A c \in Commands : on[c] \in Nat \ {0} /\ c \in Nat
        /\ \A c \in Commands : c <= queued => on[c] < next
    BY <1>t, QueueAssumption DEF HostType, CommandType, BookType, Pending, Ids, Commands
  <2>2. \A c \in Commands : (status[c] # "none" \/ made[c] # {}) => c <= queued
    BY <2>1 DEF QueueInv, ToCome
  <2>. QED BY <2>1, <2>2
\* A new command is not in the batch, and nobody has executed it.
<1>1. ASSUME NEW i \in Ids, Request(i) PROVE QueueInv'
  <2>0. UNCHANGED <<batch, answer, next, of, there, alive, made, left>> /\ queued \in Nat
    BY <1>1, <1>t, QueueAssumption DEF Request, agentState, hostState, CommandType
  <2>1. CASE UNCHANGED queueState
    BY <2>0, <2>1 DEF queueState, QueueInv, Gone, ToCome, DoneIsTrue, Done, AtMostOnce, First
  <2>2. CASE queued' = queued + 1 /\ on' = [on EXCEPT ![queued'] = i]
             /\ status' = [status EXCEPT ![queued'] = "pending"]
    <3>1. \A c \in Commands : c # queued + 1 => on'[c] = on[c] /\ status'[c] = status[c]
      BY <2>2, <1>t DEF CommandType
    <3>2. \A c \in Commands : c = queued + 1 => made[c] = {} /\ status[c] = "none" /\ status'[c] = "pending"
      BY <2>0, <2>2, <1>t DEF QueueInv, ToCome, CommandType, Commands
    <3>3. \A c \in batch : c \in Commands /\ c # queued + 1
      BY <1>b, <3>2
    <3>4. ToCome'
      BY <2>0, <2>2, <3>1 DEF QueueInv, ToCome, Commands
    <3>5. \A c \in Commands : c # queued + 1 /\ Done(c) => Done(c)'
      BY <2>0, <3>1 DEF Done
    <3>6. DoneIsTrue'
      BY <2>0, <3>1, <3>2, <3>3, <3>5 DEF QueueInv, DoneIsTrue, First
    <3>7. Gone' /\ AtMostOnce'
      BY <2>0, <3>1, <3>2 DEF QueueInv, Gone, AtMostOnce
    <3>. QED BY <3>4, <3>6, <3>7 DEF QueueInv
  <2>. QED BY <2>1, <2>2, <1>1 DEF Request
\* A batch is fetched when nothing is to be answered.
<1>2. CASE ControllerRestarts \/ Report \/ Poll \/ Lose \/ UNCHANGED queueing
  <2>1. UNCHANGED <<next, of, there, alive, made, left, queued, on, status>>
    BY <1>2 DEF ControllerRestarts, Report, Poll, Lose, queueing, hostState, queueState
  <2>2. answer' # "done" \/ UNCHANGED <<batch, answer>>
    BY <1>2 DEF ControllerRestarts, Report, Poll, Lose, Resting, queueing, agentState
  <2>3. DoneIsTrue'
    BY <2>1, <2>2 DEF QueueInv, DoneIsTrue, Done, First
  <2>. QED BY <2>1, <2>3 DEF QueueInv, Gone, ToCome, AtMostOnce
<1>3. CASE Execute \/ Crash
  <2>0. UNCHANGED queueState /\ UNCHANGED <<on, status>>
    BY <1>3 DEF Execute, Crash, queueState
  <2>1. CASE UNCHANGED hostState
    <3>1. answer' # "done"
      <4>1. \A c \in batch : ~OnItsContainer(c)
        <5>1. next \in Nat /\ ~(next' = next + 1)
          BY <2>1, <1>t DEF hostState, HostType
        <5>. QED BY <5>1 DEF OnItsContainer, Recreate, Replace, Create
      <4>. QED BY <1>3, <4>1 DEF Execute, Crash, Refuse
    <3>2. DoneIsTrue'
      BY <2>0, <2>1, <3>1 DEF hostState, QueueInv, DoneIsTrue, Done
    <3>. QED BY <2>0, <2>1, <3>2 DEF hostState, queueState, QueueInv, Gone, ToCome, AtMostOnce
  <2>2. CASE ~UNCHANGED hostState
    <3>1. PICK c \in batch : First(c) /\ on[c] \in there
                             /\ (Halfway(on[c]) \/ \E removed \in BOOLEAN : Replace(c, on[c], removed))
      BY <1>3, <2>2, ExecuteOrCrash
    <3>2. Gone' /\ ToCome' /\ AtMostOnce'
      BY <2>0, <3>1, StepUpdate DEF QueueInv
    <3>3. \A d \in Commands : on[d] \in 1..(next - 1) /\ Done(d) => Done(d)'
      BY <1>b, <1>t, <2>0, <3>1, StaysDone
    <3>4. \A d \in Commands : status'[d] = "done" => Done(d)'
      BY <1>b, <2>0, <3>3 DEF QueueInv, DoneIsTrue
    <3>5. ASSUME answer' = "done", NEW d \in batch', First(d)' PROVE Done(d)'
      <4>1. d \in batch /\ First(d) /\ OnItsContainer(d)
        <5>1. PICK e \in batch : First(e) /\ OnItsContainer(e)
          BY <1>3, <3>5 DEF Execute, Crash, Refuse
        <5>2. batch' = batch /\ d \in batch /\ First(d)
          BY <3>5, <5>1 DEF OnItsContainer, First
        <5>3. d \in Int /\ e \in Int /\ d <= e /\ e <= d
          BY <1>b, <5>1, <5>2 DEF First, Commands
        <5>4. d = e
          BY <5>3
        <5>. QED BY <5>1, <5>2, <5>4
      <4>2. PICK removed \in BOOLEAN : Replace(d, on[d], removed)
        BY <4>1 DEF OnItsContainer, Recreate
      <4>3. d \in Commands /\ on[d] \in 1..(next - 1) /\ next \in Nat
        BY <1>b, <1>t, <4>1 DEF HostType
      <4>4. Create(on[d])
        BY <4>2 DEF Replace
      <4>5. of'[next] = of[on[d]] /\ of'[on[d]] = of[on[d]]
        BY <1>t, <4>3, <4>4, CreateType
      <4>6. next \in made'[d] /\ on[d] \notin alive' /\ next \in there' /\ next > on[d]
        BY <1>t, <4>2, <4>3 DEF Replace, HostType
      <4>. QED BY <2>0, <4>5, <4>6 DEF Done
    <3>. QED BY <3>2, <3>4, <3>5 DEF QueueInv, DoneIsTrue
  <2>. QED BY <2>1, <2>2
\* What is recorded is the answer to the command that was executed.
<1>4. CASE Post
  <2>1. PICK c \in batch : First(c) /\ Recorded(c, answer) /\ batch' = batch \ {c}
    BY <1>4 DEF Post
  <2>2. c \in Commands /\ status[c] = "pending" /\ answer' = "none"
        /\ UNCHANGED <<queued, on, next, of, there, alive, made, left>>
    BY <1>4, <1>b, <2>1 DEF Post, hostState
  <2>3. status'[c] = answer /\ \A d \in Commands : d # c => status'[d] = status[d]
    BY <1>t, <2>1, <2>2 DEF Recorded, CommandType
  <2>4. \A d \in Commands : Done(d) => Done(d)'
    BY <2>2 DEF Done
  <2>5. DoneIsTrue'
    BY <2>1, <2>2, <2>3, <2>4 DEF DoneIsTrue, QueueInv
  <2>6. ToCome'
    BY <2>2, <2>3 DEF ToCome, QueueInv
  <2>. QED BY <2>2, <2>5, <2>6 DEF QueueInv, Gone, AtMostOnce
<1>. QED BY <1>1, <1>2, <1>3, <1>4 DEF QueueNext

-----------------------------------------------------------------------------
\* A command is executed again when its answer was lost or the agent crashed
\* (agent.go:111-143), and several may name one container: a container is
\* replaced a second time only if its removal failed (recreate.go:169-171).
THEOREM ReplacesAtMostOnce == QueueSpec => []AtMostOnce
<1>. QED BY QueueInitType, QueueStepType, QueueInvStarts, StepQueue, PTL DEF QueueSpec, QueueInv

\* What the controller records as done (agent_handlers.go:120-173) was done by
\* that command: its container was replaced, has stopped, and stays replaced.
THEOREM DoneIsReplaced == QueueSpec => []DoneMeansReplaced
<1>1. QueueInv => DoneMeansReplaced
  BY DEF QueueInv, DoneIsTrue, Done, DoneMeansReplaced
<1>. QED BY <1>1, QueueInitType, QueueStepType, QueueInvStarts, StepQueue, PTL DEF QueueSpec
=============================================================================
