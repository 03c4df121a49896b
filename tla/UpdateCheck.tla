----------------------------- MODULE UpdateCheck -----------------------------
(***************************************************************************)
(* The update check: CheckAll of internal/updater/updater.go, the          *)
(* single-flight tracker of internal/server/server.go that admits it, and  *)
(* what goes on meanwhile: users pin and ignore containers, agents report  *)
(* other containers, upstream publishes releases, the check is cut short,  *)
(* the process restarts.                                                   *)
(*                                                                         *)
(* A check lists the containers once.  It drops the updates of those that  *)
(* are pinned or ignored, fetches the releases of every repository the     *)
(* others come from, and then decides and stores their updates one by one, *)
(* on what it listed.                                                      *)
(*                                                                         *)
(* The rows of the containers table stand for containers at release 0 of   *)
(* their repository; a container that is recreated gets another row.       *)
(***************************************************************************)
EXTENDS Integers, FiniteSets

CONSTANTS
  Rows,         \* rows of the containers table
  Repos,        \* release sources
  RepoOf,       \* row -> its repository
  Triggers,     \* goroutines that run checks: the updater's loop, "check now"
  MaxRelease,   \* bound: the newest release upstream
  MaxChanges    \* bound: changes by users, reports and restarts

ASSUME BoundsAssumption == MaxRelease \in Nat /\ MaxChanges \in Nat
ASSUME RepoOfAssumption == RepoOf \in [Rows -> Repos]

None    == -1                       \* no update, or no data
OwnTag  == 0                        \* the row's own tag was pushed again
Offers  == {None, OwnTag} \cup 1..MaxRelease

VARIABLES
  present,    \* rows that exist
  retired,    \* rows that are gone for good
  pinned,     \* rows that are pinned
  deleting,   \* row -> requests that pinned it and have yet to delete its update
  ignored,    \* rows whose image the settings ignore
  offer,      \* row -> its update
  refused,    \* history: rows that have an update because it could not be deleted
  upstream,   \* repository -> its newest release
  running,    \* checkRunTracker.running
  pc,         \* trigger -> where its runUpdateCheck is
  cut,        \* the context of the check is done
  drops,      \* listed rows that are pinned or ignored and have an update
  items,      \* listed rows the second pass has yet to do
  keys,       \* repositories yet to fetch
  cache,      \* repository -> release fetched in this cycle
  changes,    \* changes so far
  baseline    \* history: what held when the check listed the rows, and still does

checkVars == <<running, pc, cut, drops, items, keys, cache>>
vars == <<present, retired, pinned, deleting, ignored, offer, refused, upstream, checkVars, changes, baseline>>

Baseline == [pinned : SUBSET Rows, free : SUBSET Rows, upstream : [Repos -> 0..MaxRelease]]

Active(t) == pc[t] # "rest"

TypeOK ==
  /\ present \subseteq Rows
  /\ retired \subseteq Rows \ present
  /\ pinned \subseteq present
  /\ deleting \in [Rows -> Nat]
  /\ ignored \subseteq Rows
  /\ offer \in [Rows -> Offers]
  /\ \A r \in Rows \ present : offer[r] = None
  /\ refused \subseteq Rows
  /\ upstream \in [Repos -> 0..MaxRelease]
  /\ running \in BOOLEAN
  /\ pc \in [Triggers -> {"rest", "list", "drop", "fetch", "apply"}]
  /\ cut \in BOOLEAN
  /\ drops \subseteq Rows /\ items \subseteq Rows /\ keys \subseteq Repos
  /\ cache \in [Repos -> {None} \cup 0..MaxRelease]
  /\ changes \in 0..MaxChanges
  /\ baseline \in Baseline

Init ==
  /\ present \in SUBSET Rows
  /\ retired = {}
  /\ pinned = {} /\ ignored = {} /\ refused = {}
  /\ deleting = [r \in Rows |-> 0]
  /\ offer = [r \in Rows |-> None]
  /\ upstream = [k \in Repos |-> 0]
  /\ running = FALSE
  /\ pc = [t \in Triggers |-> "rest"]
  /\ cut = FALSE
  /\ drops = {} /\ items = {} /\ keys = {}
  /\ cache = [k \in Repos |-> None]
  /\ changes = 0
  /\ baseline = [pinned |-> {}, free |-> {}, upstream |-> [k \in Repos |-> 0]]

-----------------------------------------------------------------------------
(* The check.                                                              *)

world == <<present, retired, pinned, deleting, ignored, upstream, changes>>
updates == <<offer, refused>>

Goto(t, label) == pc' = [pc EXCEPT ![t] = label]

\* checkRunTracker.begin: a second request leaves it to the check in flight.
Admit(t, admitted) ==
  /\ pc[t] = "rest"
  /\ admitted
  /\ running' = TRUE
  /\ cut' = FALSE
  /\ Goto(t, "list")
  /\ UNCHANGED <<world, updates, drops, items, keys, cache, baseline>>

\* Faulty variant of Begin: it does not look for a check in flight.
Begin_Always(t) == Admit(t, TRUE)

Begin(t) == Admit(t, ~running)

\* runUpdateCheck ends, and tells the tracker.
Finish(t) == running' = FALSE /\ Goto(t, "rest")

\* CheckAll lists the rows.  The second pass works on this list.
List(t) ==
  /\ pc[t] = "list"
  /\ LET out  == pinned \cup ignored
         free == present \ out
         quiet == {r \in free : deleting[r] = 0}
     IN
     /\ drops' = {r \in present \cap out : offer[r] # None}
     /\ items' = free
     /\ keys' = {RepoOf[r] : r \in free}
     /\ baseline' = [pinned |-> pinned, free |-> quiet, upstream |-> upstream]
  /\ cache' = [k \in Repos |-> None]
  /\ Goto(t, "drop")
  /\ UNCHANGED <<world, updates, running, cut>>

\* A cut check, or one that cannot list the rows, ends with an error.
ListFails(t) ==
  /\ pc[t] = "list"
  /\ Finish(t)
  /\ UNCHANGED <<world, updates, cut, drops, items, keys, cache, baseline>>

\* The update of r is deleted, or the database refuses; every caller ignores that.
Deleted(r) == offer' = [offer EXCEPT ![r] = None] /\ refused' = refused \ {r}
Kept(r)    == offer[r] # None /\ refused' = refused \cup {r} /\ UNCHANGED offer

Drops(t, r) ==
  /\ pc[t] = "drop"
  /\ r \in drops
  /\ drops' = drops \ {r}
  /\ UNCHANGED <<world, running, pc, cut, items, keys, cache, baseline>>

\* Faulty variant of Drop: the row is passed over with its update in place.
Drop_PassesOver(t, r) == Drops(t, r) /\ UNCHANGED updates

Drop(t, r) == Drops(t, r) /\ (Deleted(r) \/ Kept(r))

Dropped(t) ==
  /\ pc[t] = "drop"
  /\ drops = {}
  /\ Goto(t, "fetch")
  /\ UNCHANGED <<world, updates, running, cut, drops, items, keys, cache, baseline>>

\* The releases of one repository, or no data when the source fails; a failure
\* of a check that is cut ends it instead (Abort).
Fetch(t, k) ==
  /\ pc[t] = "fetch"
  /\ k \in keys
  /\ keys' = keys \ {k}
  /\ \E rels \in {upstream[k]} \cup (IF cut THEN {} ELSE {None}) : cache' = [cache EXCEPT ![k] = rels]
  /\ UNCHANGED <<world, updates, running, pc, cut, drops, items, baseline>>

Fetched(t) ==
  /\ pc[t] = "fetch"
  /\ keys = {}
  /\ Goto(t, "apply")
  /\ UNCHANGED <<world, updates, running, cut, drops, items, keys, cache, baseline>>

\* computeUpdate: a newer release is offered; otherwise, and without data, the
\* registry says whether the row's own tag has moved.
Decisions(rels) == IF rels > 0 THEN {rels} ELSE {None, OwnTag}

ApplyTo(t, r, decisions) ==
  /\ pc[t] = "apply"
  /\ ~cut
  /\ r \in items
  /\ \E d \in decisions :
       /\ d # None => r \in present
       /\ offer' = [offer EXCEPT ![r] = d]
  /\ refused' = refused \ {r}
  /\ items' = items \ {r}
  /\ UNCHANGED <<world, running, pc, cut, drops, keys, cache, baseline>>

\* Faulty variant of Apply: the releases of some other repository are taken.
Apply_AnyRepo(t, r) == \E k \in Repos : ApplyTo(t, r, Decisions(cache[k]))

\* applyContainer: store the update, or delete it when there is none.
Apply(t, r) == ApplyTo(t, r, Decisions(cache[RepoOf[r]]))

EndOn(t, condition) ==
  /\ pc[t] = "apply"
  /\ condition
  /\ Finish(t)
  /\ UNCHANGED <<world, updates, cut, drops, items, keys, cache, baseline>>

Orphaned(t) ==
  pc[t] = "apply" /\ \E r \in items \ present : Decisions(cache[RepoOf[r]]) # {None}

\* Faulty variant of Orphan: the row is tried again.
Orphan_Retries(t) == Orphaned(t) /\ UNCHANGED vars

\* The row is gone, so the foreign key refuses its update: the check ends there.
Orphan(t) == EndOn(t, Orphaned(t))

Applied(t) == EndOn(t, items = {})

\* A check whose context is done ends with an error.
Abort(t) ==
  /\ \/ pc[t] = "fetch" /\ keys # {}
     \/ pc[t] = "apply" /\ items # {}
  /\ cut
  /\ Finish(t)
  /\ UNCHANGED <<world, updates, cut, drops, items, keys, cache, baseline>>

\* Twenty minutes pass, or the process is told to stop.
Cut ==
  /\ running
  /\ ~cut
  /\ cut' = TRUE
  /\ UNCHANGED <<world, updates, running, pc, drops, items, keys, cache, baseline>>

-----------------------------------------------------------------------------
(* The others.                                                             *)

Change == changes < MaxChanges /\ changes' = changes + 1

\* handleSetPin: set the pin, then, if it is set, delete the row's update.  Nothing
\* keeps the two together: another request for the row may come in between.
Pin(r) ==
  /\ Change
  /\ r \in present
  /\ pinned' = pinned \cup {r}
  /\ deleting' = [deleting EXCEPT ![r] = @ + 1]
  /\ baseline' = [baseline EXCEPT !.free = @ \ {r}]
  /\ UNCHANGED <<present, retired, ignored, updates, upstream, checkVars>>

PinDone(r) ==
  /\ deleting[r] > 0
  /\ deleting' = [deleting EXCEPT ![r] = @ - 1]
  /\ Deleted(r) \/ Kept(r)
  /\ UNCHANGED <<present, retired, pinned, ignored, upstream, changes, checkVars, baseline>>

Unpin(r) ==
  /\ Change
  /\ r \in pinned
  /\ pinned' = pinned \ {r}
  /\ baseline' = [baseline EXCEPT !.pinned = @ \ {r}]
  /\ UNCHANGED <<present, retired, deleting, ignored, updates, upstream, checkVars>>

\* handlePutSettings: the globs of ignored images change; no update is deleted.
Ignore(r) ==
  /\ Change
  /\ ignored' = (ignored \ {r}) \cup ({r} \ ignored)
  /\ UNCHANGED <<present, retired, pinned, deleting, updates, upstream, checkVars, baseline>>

\* A snapshot without the row deletes it, and its update with it.
Vanish(r) ==
  /\ Change
  /\ r \in present
  /\ present' = present \ {r}
  /\ retired' = retired \cup {r}
  /\ pinned' = pinned \ {r}
  /\ Deleted(r)
  /\ baseline' = [baseline EXCEPT !.pinned = @ \ {r}, !.free = @ \ {r}]
  /\ UNCHANGED <<deleting, ignored, upstream, checkVars>>

\* A snapshot brings a row that was not there.
Appear(r) ==
  /\ Change
  /\ r \notin present \cup retired
  /\ present' = present \cup {r}
  /\ UNCHANGED <<retired, pinned, deleting, ignored, updates, upstream, checkVars, baseline>>

Publish(k) ==
  /\ upstream[k] < MaxRelease
  /\ upstream' = [upstream EXCEPT ![k] = @ + 1]
  /\ UNCHANGED <<present, retired, pinned, deleting, ignored, updates, checkVars, changes, baseline>>

\* The process restarts: checks and half-done requests are gone, rows are not.
Restart ==
  /\ Change
  /\ running' = FALSE
  /\ pc' = [t \in Triggers |-> "rest"]
  /\ deleting' = [r \in Rows |-> 0]
  /\ UNCHANGED <<present, retired, pinned, ignored, updates, upstream, cut, drops, items, keys,
                 cache, baseline>>

Check(t) ==
  \/ List(t) \/ ListFails(t) \/ Dropped(t) \/ Fetched(t) \/ Orphan(t) \/ Applied(t) \/ Abort(t)
  \/ \E r \in Rows : Drop(t, r) \/ Apply(t, r)
  \/ \E k \in Repos : Fetch(t, k)

Others ==
  \/ \E r \in Rows : Pin(r) \/ PinDone(r) \/ Unpin(r) \/ Ignore(r) \/ Vanish(r) \/ Appear(r)
  \/ \E k \in Repos : Publish(k)
  \/ Restart

Next == (\E t \in Triggers : Begin(t) \/ Check(t)) \/ Cut \/ Others

Spec == Init /\ [][Next]_vars

\* A check that was admitted keeps being scheduled.
FairSpec == Spec /\ \A t \in Triggers : WF_vars(Check(t))

-----------------------------------------------------------------------------
(* Properties.                                                             *)

\* At most one check runs, and the tracker knows: two would share one cache.
OneCheckAtATime ==
  /\ \A t, u \in Triggers : Active(t) /\ Active(u) => t = u
  /\ running <=> \E t \in Triggers : Active(t)

Completes(t) == pc[t] = "apply" /\ items = {} /\ pc'[t] = "rest" /\ changes' = changes

\* After a check that ran to its end no row has an update that was pinned when
\* the check began and has been since, unless the database refused to delete it:
\* a pin that did not delete the update, because it was interrupted, or an update
\* stored against it, does not last.
CheckClearsPinned ==
  [][\A t \in Triggers : Completes(t) =>
       \A r \in baseline.pinned \ refused : offer[r] = None]_vars

\* After a check that ran to its end, a row that was free to be updated all the
\* while, with no request to pin it under way, and whose releases could be fetched,
\* is offered a release no older than the newest one when the check began, and one
\* of its own repository.
CheckIsFresh ==
  [][\A t \in Triggers : Completes(t) =>
       \A r \in baseline.free :
         LET k == RepoOf[r] IN
         cache[k] # None /\ baseline.upstream[k] > 0
           => offer[r] \in baseline.upstream[k]..upstream[k]]_vars

\* A check that was admitted ends: the tracker admits another.
CheckEnds == running ~> ~running

\* No update is offered for a pinned container, once the request that pinned it
\* and the check in flight are over (updater.go: no update may be offered for
\* pinned/ignored containers).
PinnedHasNoUpdate ==
  ~running => \A r \in pinned \ refused : deleting[r] = 0 => offer[r] = None

\* A check that is not cut short does all the rows it listed that are still
\* there (updater.go: CheckAll runs a full cycle across every container).
FullCycle ==
  [][\A t \in Triggers :
       pc[t] = "apply" /\ pc'[t] = "rest" /\ ~cut /\ changes' = changes
         => items \cap present = {}]_vars
=============================================================================
