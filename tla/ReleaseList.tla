------------------------------ MODULE ReleaseList ------------------------------
(***************************************************************************)
(* One listing of what an image has upstream: FetchReleases of             *)
(* internal/changelog, which reads the list of a forge (github.go,         *)
(* gitea.go, and gitlab.go with one page), of Docker Hub or of a registry  *)
(* (registry.go) page by page, while upstream goes on changing it.         *)
(*                                                                         *)
(* Upstream's list is the place of each release in it.  Pages are asked    *)
(* for by number, so that a release that moves between two requests may be *)
(* on both pages or on none.                                               *)
(***************************************************************************)
EXTENDS Integers

CONSTANTS
  Releases,    \* the releases, or tags, upstream may have
  Kind,        \* "forge", "hub" or "registry"
  Size,        \* entries on a page: 100, 50 or 500 in the code
  Pages,       \* pages read at most: 3 or 1
  MaxChanges   \* bound: changes upstream in one behaviour

VARIABLES
  pos,      \* release -> its place in the list, 0 without one
  drafts,   \* the ones that are drafts, or announced only
  step,     \* what FetchReleases does: "rest" when it has returned
  page,     \* the page it asks for
  token,    \* whether it has a pull token
  times,    \* release -> how often it is in what was read
  answer,   \* what was returned: "list", "part" of one, "error"
  kept,     \* history: releases there since the start, none above them withdrawn
  changes

listed == <<pos, drafts, changes>>
listing == <<listed, step, page, token, times, answer, kept>>

Slot(i) == \E r \in Releases : pos[r] = i
Upto(p) == p * Size

ListTypeOK ==
  /\ pos \in [Releases -> Nat]
  /\ drafts \subseteq Releases
  /\ step \in {"rest", "page", "challenge", "token"}
  /\ page \in 1..Pages
  /\ token \in BOOLEAN
  /\ times \in [Releases -> Nat]
  /\ answer \in {"none", "list", "part", "error"}
  /\ kept \subseteq Releases
  /\ \A r \in Releases : \A i \in 1..pos[r] : Slot(i)
  /\ \A r, q \in Releases : pos[r] = pos[q] /\ pos[r] # 0 => r = q

Nowhere == [r \in Releases |-> 0]

ListInit ==
  /\ pos = Nowhere /\ drafts = {} /\ changes = 0
  /\ step = "rest" /\ page = 1 /\ token = FALSE
  /\ times = Nowhere /\ answer = "none" /\ kept = {}

-----------------------------------------------------------------------------
(* Upstream.                                                               *)

Change == changes < MaxChanges /\ changes' = changes + 1

\* A release is published or drafted, as the newest one; the list of a registry
\* is in the order of names.
Enter(r, i) ==
  /\ Change
  /\ pos[r] = 0
  /\ i = 1 \/ (Kind = "registry" /\ Slot(i - 1))
  /\ pos' = [q \in Releases |-> IF q = r THEN i ELSE IF pos[q] >= i THEN pos[q] + 1 ELSE pos[q]]
  /\ drafts' \in IF Kind = "forge" THEN {drafts, drafts \cup {r}} ELSE {drafts}
  /\ UNCHANGED <<step, page, token, times, answer, kept>>

Show(r) ==
  /\ Change
  /\ r \in drafts /\ drafts' = drafts \ {r}
  /\ UNCHANGED <<pos, step, page, token, times, answer, kept>>

Withdraw(r) ==
  /\ Change
  /\ pos[r] # 0
  /\ pos' = [q \in Releases |-> IF q = r THEN 0 ELSE IF pos[q] > pos[r] THEN pos[q] - 1 ELSE pos[q]]
  /\ drafts' = drafts \ {r}
  /\ kept' = {q \in kept : pos[q] < pos[r]}
  /\ UNCHANGED <<step, page, token, times, answer>>

\* Docker Hub's list begins with the tag that was pushed last.
PushAgain(r) ==
  /\ Change
  /\ Kind = "hub" /\ pos[r] # 0
  /\ pos' = [q \in Releases |-> IF q = r THEN 1
                                ELSE IF pos[q] # 0 /\ pos[q] < pos[r] THEN pos[q] + 1 ELSE pos[q]]
  /\ kept' = kept \ {r}
  /\ UNCHANGED <<drafts, step, page, token, times, answer>>

-----------------------------------------------------------------------------
(* FetchReleases.                                                          *)

Begin ==
  /\ step = "rest"
  /\ step' = "page" /\ page' = 1 /\ token' = FALSE
  /\ times' = Nowhere /\ answer' = "none"
  /\ kept' = {r \in Releases : pos[r] # 0} \ drafts
  /\ UNCHANGED listed

\* An error returns nothing of what was read.
Return(a) ==
  /\ step' = "rest" /\ answer' = a
  /\ times' = IF a = "error" THEN Nowhere ELSE times
  /\ UNCHANGED <<page, token>>

\* A forge's pages end with one that is not full; Docker Hub says whether there
\* is another.
Last ==
  \/ page = Pages
  \/ IF Kind = "hub" THEN ~Slot(Upto(page) + 1)
     ELSE \E i \in (Upto(page - 1) + 1)..Upto(page) : ~Slot(i)

Read ==
  /\ step = "page"
  /\ times' = [r \in Releases |->
       IF pos[r] \in (Upto(page - 1) + 1)..Upto(page) /\ r \notin drafts THEN times[r] + 1 ELSE times[r]]
  /\ \/ Last /\ step' = "rest" /\ answer' = "list" /\ UNCHANGED page
     \/ ~Last /\ page' = page + 1 /\ UNCHANGED <<step, answer>>
  /\ UNCHANGED <<listed, token, kept>>

\* "Not found", on a later page too, is the end of the list; so is "unauthorized"
\* from a forge, and from a registry the second time.
NotFound == step = "page" /\ Return("part") /\ UNCHANGED <<listed, kept>>

Unauthorized ==
  /\ step = "page"
  /\ CASE Kind = "hub" -> Return("error")
       [] Kind = "registry" /\ ~token ->
            step' = "challenge" /\ UNCHANGED <<page, token, times, answer>>
       [] OTHER -> Return("part")
  /\ UNCHANGED <<listed, kept>>

\* The request is made again for the challenge in its answer.
Challenge ==
  /\ step = "challenge"
  /\ step' = "token"
  /\ UNCHANGED <<listed, page, token, times, answer, kept>>

FetchToken ==
  /\ step = "token"
  /\ \/ step' = "page" /\ token' = TRUE /\ UNCHANGED <<page, times, answer>>
     \/ Return("part")
  /\ UNCHANGED <<listed, kept>>

\* Any request fails: no answer in time, another status, an answer that cannot be
\* read, a challenge without a realm.
Fail == step # "rest" /\ Return("error") /\ UNCHANGED <<listed, kept>>

Fetch == Begin \/ Read \/ NotFound \/ Unauthorized \/ Challenge \/ FetchToken \/ Fail

ListNext ==
  \/ Fetch
  \/ \E r \in Releases :
       Show(r) \/ Withdraw(r) \/ PushAgain(r) \/ \E i \in 1..(MaxChanges + 1) : Enter(r, i)

ListSpec == ListInit /\ [][ListNext]_listing

-----------------------------------------------------------------------------
(* Properties.                                                             *)

\* A listing that comes to its end has every release that was out when it began,
\* whatever is published or shown meanwhile: it misses those only above which
\* something was withdrawn, those pushed again, and those beyond its last page.
NothingMissed ==
  [][(step = "page" /\ answer' = "list") =>
       \A r \in kept : pos[r] <= Upto(Pages) => times'[r] >= 1]_listing

\* No release is listed, and so counted, twice (README.md: reports how many
\* versions you are behind).
CountedOnce == answer = "list" => \A r \in Releases : times[r] <= 1
=============================================================================
