---------------------------- MODULE ReleaseProofs ----------------------------
(***************************************************************************)
(* Theorems about what there is upstream and what is made of it: a listing *)
(* of ReleaseList, for any releases, changes and pages, and the updates    *)
(* that UpdateDecision offers, for any tags, images and answers.           *)
(***************************************************************************)
EXTENDS ReleaseList, UpdateDecision, TLAPS, WellFoundedInduction

(* Pages are not empty, and there is one. *)
Paging == Size \in Nat \ {0} /\ Pages \in Nat \ {0} /\ MaxChanges \in Nat

LEMMA NextPage ==
  Paging => \A p \in Nat : Upto(p) \in Nat /\ Upto(p + 1) = Upto(p) + Size
<1> SUFFICES ASSUME Paging, NEW p \in Nat PROVE Upto(p) \in Nat /\ Upto(p + 1) = Upto(p) + Size
  OBVIOUS
<1>1. p * Size \in Nat /\ (p + 1) * Size = p * Size + Size
  BY SMT DEF Paging
<1>. QED BY <1>1 DEF Upto

-----------------------------------------------------------------------------
(* Upstream's list has no holes, and one release in each place.            *)

Places == pos \in [Releases -> Nat] /\ drafts \subseteq Releases
NoHoles == \A r \in Releases, i \in Nat : i \in 1..pos[r] => Slot(i)
Apart == \A r, q \in Releases : pos[r] = pos[q] /\ pos[r] # 0 => r = q

(* What a listing has read: every release of kept that is above the page    *)
(* it asks for.  Only what is withdrawn or pushed again moves others, or   *)
(* itself, up.                                                             *)
Covered ==
  step # "rest" =>
    /\ page \in 1..Pages /\ answer = "none"
    /\ \A r \in kept : pos[r] # 0 /\ r \notin drafts
    /\ \A r \in kept : pos[r] <= Upto(page - 1) => times[r] >= 1

ListInv ==
  /\ Places /\ NoHoles /\ Apart
  /\ times \in [Releases -> Nat]
  /\ kept \subseteq Releases
  /\ Covered

LEMMA InitList == ListInit => ListInv
BY DEF ListInit, ListInv, Places, NoHoles, Apart, Nowhere, Slot, Covered

\* Upstream: a place that was taken stays taken, by the same release or by its
\* neighbour.
LEMMA StepUpstream ==
  Paging /\ ListInv =>
    \A r \in Releases :
      /\ \A i \in 1..(MaxChanges + 1) : Enter(r, i) => ListInv'
      /\ Withdraw(r) \/ PushAgain(r) \/ Show(r) => ListInv'
<1> SUFFICES ASSUME Paging, ListInv, NEW r \in Releases
             PROVE  /\ \A i \in 1..(MaxChanges + 1) : Enter(r, i) => ListInv'
                    /\ Withdraw(r) \/ PushAgain(r) \/ Show(r) => ListInv'
  OBVIOUS
<1>t. /\ pos \in [Releases -> Nat] /\ drafts \subseteq Releases /\ kept \subseteq Releases
      /\ times \in [Releases -> Nat] /\ (step # "rest" => Upto(page - 1) \in Nat)
  <2>1. step # "rest" => page - 1 \in Nat
    BY DEF ListInv, Covered, Paging
  <2>. QED BY <2>1, NextPage DEF ListInv, Places
<1>1. ASSUME NEW i \in 1..(MaxChanges + 1), Enter(r, i) PROVE ListInv'
  <2>0. i \in Nat /\ i >= 1
    BY DEF Paging
  <2>1. \A q \in Releases : pos'[q] = IF q = r THEN i ELSE IF pos[q] >= i THEN pos[q] + 1 ELSE pos[q]
    BY <1>1 DEF Enter
  <2>2. Places'
    BY <1>t, <1>1, <2>0 DEF Enter, Places
  <2>3. NoHoles'
    <3> SUFFICES ASSUME NEW q \in Releases, NEW j \in Nat, j \in 1..pos'[q] PROVE Slot(j)'
      BY DEF NoHoles
    <3>1. CASE j = i
      BY <2>1, <3>1 DEF Slot
    <3>2. CASE j < i
      <4>1. Slot(j)
        <5>1. i = 1 \/ Slot(i - 1)
          BY <1>1 DEF Enter
        <5>2. PICK s \in Releases : pos[s] = i - 1
          BY <5>1, <3>2, <2>0 DEF Slot
        <5>. QED BY <5>2, <3>2, <2>0 DEF ListInv, NoHoles
      <4>2. PICK s \in Releases : pos[s] = j
        BY <4>1 DEF Slot
      <4>3. s # r /\ pos'[s] = j
        BY <4>2, <3>2, <2>0, <2>1, <1>1 DEF Enter
      <4>. QED BY <4>3 DEF Slot
    <3>3. CASE j > i
      <4>1. q # r /\ pos[q] >= i /\ j - 1 \in 1..pos[q] /\ j - 1 \in Nat
        BY <3>3, <2>0, <2>1, <1>t
      <4>2. PICK s \in Releases : pos[s] = j - 1
        BY <4>1 DEF ListInv, NoHoles, Slot
      <4>3. s # r /\ pos'[s] = j
        BY <4>2, <3>3, <2>0, <2>1, <1>1 DEF Enter
      <4>. QED BY <4>3 DEF Slot
    <3>. QED BY <3>1, <3>2, <3>3, <2>0
  <2>4. \A q \in kept : step # "rest" => q # r /\ pos'[q] >= pos[q]
    BY <1>t, <1>1, <2>0, <2>1 DEF Enter, ListInv, Covered
  <2>5. \A q \in kept : step # "rest" => pos'[q] # 0 /\ q \notin drafts'
    BY <1>t, <1>1, <2>4 DEF Enter, ListInv, Covered
  <2>6. Covered'
    BY <1>t, <1>1, <2>2, <2>4, <2>5 DEF Enter, ListInv, Covered, Places, Upto
  <2>7. Apart'
    BY <1>t, <1>1, <2>0, <2>1 DEF Enter, ListInv, Apart
  <2>. QED BY <1>t, <1>1, <2>2, <2>3, <2>6, <2>7 DEF Enter, ListInv
<1>2. ASSUME Withdraw(r) PROVE ListInv'
  <2>1. \A q \in Releases : pos'[q] = IF q = r THEN 0 ELSE IF pos[q] > pos[r] THEN pos[q] - 1 ELSE pos[q]
    BY <1>2 DEF Withdraw
  <2>2. Places'
    BY <1>t, <1>2 DEF Withdraw, Places
  <2>3. NoHoles'
    <3> SUFFICES ASSUME NEW q \in Releases, NEW j \in Nat, j \in 1..pos'[q] PROVE Slot(j)'
      BY DEF NoHoles
    <3>0. q # r /\ j \in 1..pos[q]
      BY <2>1, <1>t
    <3>1. CASE j < pos[r]
      <4>1. PICK s \in Releases : pos[s] = j
        BY <3>0 DEF ListInv, NoHoles, Slot
      <4>. QED BY <4>1, <3>1, <2>1, <1>t DEF Slot
    <3>2. CASE j >= pos[r]
      <4>1. j + 1 \in 1..pos[q] /\ j + 1 \in Nat
        BY <3>0, <3>2, <2>1, <1>t DEF ListInv, Apart
      <4>2. PICK s \in Releases : pos[s] = j + 1
        BY <4>1 DEF ListInv, NoHoles, Slot
      <4>. QED BY <4>2, <3>2, <2>1, <1>t DEF Slot
    <3>. QED BY <3>1, <3>2, <1>t
  <2>4. \A q \in kept' : q \in kept /\ pos'[q] = pos[q] /\ (q \in drafts' => q \in drafts)
    BY <1>t, <1>2, <2>1 DEF Withdraw
  <2>5. Covered'
    BY <1>t, <1>2, <2>4 DEF Withdraw, ListInv, Covered, Upto
  <2>7. Apart'
    BY <1>t, <1>2, <2>1 DEF ListInv, Apart
  <2>. QED BY <1>t, <1>2, <2>2, <2>3, <2>5, <2>7 DEF Withdraw, ListInv
<1>3. ASSUME PushAgain(r) PROVE ListInv'
  <2>1. pos[r] # 0 /\
        \A q \in Releases : pos'[q] = IF q = r THEN 1
                                      ELSE IF pos[q] # 0 /\ pos[q] < pos[r] THEN pos[q] + 1 ELSE pos[q]
    BY <1>3 DEF PushAgain
  <2>2. Places'
    BY <1>t, <1>3 DEF PushAgain, Places
  <2>3. NoHoles'
    <3> SUFFICES ASSUME NEW q \in Releases, NEW j \in Nat, j \in 1..pos'[q] PROVE Slot(j)'
      BY DEF NoHoles
    <3>1. CASE j = 1
      BY <3>1, <2>1 DEF Slot
    <3>2. CASE j > 1 /\ j <= pos[r]
      <4>1. PICK s \in Releases : pos[s] = j - 1
        BY <3>2, <1>t DEF ListInv, NoHoles, Slot
      <4>2. s # r /\ pos'[s] = j
        BY <4>1, <3>2, <2>1, <1>t
      <4>. QED BY <4>2 DEF Slot
    <3>3. CASE j > 1 /\ j > pos[r]
      <4>1. j \in 1..pos[q]
        BY <3>3, <2>1, <1>t
      <4>2. PICK s \in Releases : pos[s] = j
        BY <4>1 DEF ListInv, NoHoles, Slot
      <4>3. s # r /\ pos'[s] = j
        BY <4>2, <3>3, <2>1, <1>t
      <4>. QED BY <4>3 DEF Slot
    <3>. QED BY <3>1, <3>2, <3>3, <1>t
  <2>4. \A q \in kept' : q \in kept /\ pos'[q] >= pos[q] /\ (pos[q] # 0 => pos'[q] # 0)
    BY <1>t, <1>3, <2>1 DEF PushAgain
  <2>5. Covered'
    BY <1>t, <1>3, <2>2, <2>4 DEF PushAgain, ListInv, Covered, Places, Upto
  <2>7. Apart'
    BY <1>t, <1>3, <2>1 DEF ListInv, Apart
  <2>. QED BY <1>t, <1>3, <2>2, <2>3, <2>5, <2>7 DEF PushAgain, ListInv
<1>4. ASSUME Show(r) PROVE ListInv'
  BY <1>4 DEF Show, ListInv, Places, NoHoles, Apart, Slot, Covered, Upto
<1>. QED BY <1>1, <1>2, <1>3, <1>4

\* What a page adds is what stands between the last one and the next.
LEMMA StepRead ==
  Paging /\ ListInv /\ Read =>
    /\ times' \in [Releases -> Nat]
    /\ \A r \in kept : pos[r] <= Upto(page) => times'[r] >= 1
<1> SUFFICES ASSUME Paging, ListInv, Read
             PROVE  /\ times' \in [Releases -> Nat]
                    /\ \A r \in kept : pos[r] <= Upto(page) => times'[r] >= 1
  OBVIOUS
<1>t. /\ pos \in [Releases -> Nat] /\ kept \subseteq Releases /\ times \in [Releases -> Nat]
      /\ page \in Nat /\ page - 1 \in Nat /\ step # "rest"
  BY DEF ListInv, Places, Covered, Read, Paging
<1>1. Upto(page - 1) \in Nat /\ Upto(page) \in Nat
  BY <1>t, NextPage
<1>2. \A r \in Releases : times'[r] =
        IF pos[r] \in (Upto(page - 1) + 1)..Upto(page) /\ r \notin drafts THEN times[r] + 1 ELSE times[r]
  BY DEF Read
<1>3. times' \in [Releases -> Nat]
  BY <1>t DEF Read
<1>4. ASSUME NEW r \in kept, pos[r] <= Upto(page) PROVE times'[r] >= 1
  <2>1. r \in Releases /\ r \notin drafts /\ times[r] \in Nat /\ pos[r] \in Nat
    BY <1>t DEF ListInv, Covered
  <2>2. CASE pos[r] <= Upto(page - 1)
    BY <2>1, <2>2, <1>2, <1>t DEF ListInv, Covered
  <2>3. CASE ~(pos[r] <= Upto(page - 1))
    BY <2>1, <2>3, <1>1, <1>2, <1>4
  <2>. QED BY <2>2, <2>3
<1>. QED BY <1>3, <1>4

LEMMA StepList == Paging /\ ListInv /\ [ListNext]_listing => ListInv'
<1> SUFFICES ASSUME Paging, ListInv, [ListNext]_listing PROVE ListInv'
  OBVIOUS
<1>1. ASSUME NEW r \in Releases, Show(r) \/ Withdraw(r) \/ PushAgain(r) \/ \E i \in 1..(MaxChanges + 1) : Enter(r, i)
      PROVE  ListInv'
  BY <1>1, StepUpstream
\* Nothing stands above the first page.
<1>2. CASE Begin
  <2>1. Upto(1 - 1) = 0
    BY SMT DEF Upto, Paging
  <2>2. Covered'
    BY <1>2, <2>1 DEF Begin, Covered, Paging, listed, ListInv, Places
  <2>. QED BY <1>2, <2>2 DEF Begin, ListInv, Places, NoHoles, Apart, Slot, listed, Nowhere
<1>3. CASE Read
  <2>1. times' \in [Releases -> Nat] /\ \A r \in kept : pos[r] <= Upto(page) => times'[r] >= 1
    BY <1>3, StepRead
  <2>2. Places' /\ NoHoles' /\ Apart' /\ kept' = kept /\ pos' = pos /\ drafts' = drafts /\ step # "rest"
    BY <1>3 DEF Read, listed, ListInv, Places, NoHoles, Apart, Slot
  <2>3. CASE step' = "rest"
    BY <2>1, <2>2, <2>3 DEF ListInv, Covered
  <2>4. CASE ~Last /\ page' = page + 1 /\ UNCHANGED <<step, answer>>
    <3>1. page' \in 1..Pages /\ page' - 1 = page
      BY <2>2, <2>4 DEF Last, ListInv, Covered, Paging
    <3>2. \A r \in kept : pos[r] <= Upto(page' - 1) => times'[r] >= 1
      BY <3>1, <2>1
    <3>3. Covered'
      BY <2>2, <2>4, <3>1, <3>2 DEF Covered, ListInv, Upto
    <3>. QED BY <2>1, <2>2, <3>3 DEF ListInv
  <2>. QED BY <1>3, <2>3, <2>4 DEF Read
<1>4. CASE NotFound \/ Unauthorized \/ Challenge \/ FetchToken \/ Fail
  <2>1. /\ UNCHANGED <<listed, kept, page>> /\ step # "rest"
        /\ \/ step' = "rest" /\ times' \in {times, Nowhere}
           \/ UNCHANGED <<times, answer>>
    BY <1>4 DEF NotFound, Unauthorized, Challenge, FetchToken, Fail, Return
  <2>2. times' \in [Releases -> Nat]
    BY <2>1 DEF ListInv, Nowhere
  <2>. QED BY <2>1, <2>2 DEF listed, ListInv, Places, NoHoles, Apart, Slot, Covered, Upto
<1>5. CASE UNCHANGED listing
  BY <1>5 DEF listing, listed, ListInv, Places, NoHoles, Apart, Slot, Covered, Upto
<1>. QED BY <1>1, <1>2, <1>3, <1>4, <1>5 DEF ListNext, Fetch

-----------------------------------------------------------------------------
(* The last page: the highest one that is read, or one after which there   *)
(* is nothing, as the list has no holes.                                   *)
LEMMA ListEnds ==
  Paging /\ ListInv /\ [ListNext]_listing =>
    ((step = "page" /\ answer' = "list") =>
       \A r \in kept : pos[r] <= Upto(Pages) => times'[r] >= 1)
<1> SUFFICES ASSUME Paging, ListInv, [ListNext]_listing, step = "page", answer' = "list",
                    NEW r \in kept, pos[r] <= Upto(Pages)
             PROVE  times'[r] >= 1
  OBVIOUS
<1>t. /\ page \in Nat /\ page >= 1 /\ pos[r] \in Nat /\ r \in Releases
      /\ Upto(page) \in Nat /\ answer = "none"
  BY NextPage DEF ListInv, Places, Covered, Paging
<1>1. Read /\ Last
  BY <1>t DEF ListNext, Fetch, Begin, Read, NotFound, Unauthorized, Challenge, FetchToken, Fail, Return,
              Show, Withdraw, PushAgain, Enter, listing
<1>2. pos[r] <= Upto(page) => times'[r] >= 1
  BY <1>1, StepRead
<1>3. CASE page = Pages
  BY <1>2, <1>3
<1>4. CASE ~Slot(Upto(page) + 1)
  BY <1>2, <1>4, <1>t DEF ListInv, NoHoles
<1>5. ASSUME NEW i \in (Upto(page - 1) + 1)..Upto(page), ~Slot(i) PROVE times'[r] >= 1
  <2>1. Upto(page - 1) \in Nat /\ i \in Nat /\ i >= 1 /\ i <= Upto(page)
    BY <1>t, NextPage
  <2>2. ~(i <= pos[r])
    BY <2>1, <1>5, <1>t DEF ListInv, NoHoles
  <2>. QED BY <2>1, <2>2, <1>2, <1>t
<1>. QED BY <1>1, <1>3, <1>4, <1>5 DEF Last

\* For any size and number of pages and whatever is published, drafted or pushed
\* in between, a listing that comes to its end (github.go:30-75, gitea.go:17-66,
\* registry.go:34-81) has read every release that was there all along within its
\* pages, but for those that something withdrawn or pushed again moved.
THEOREM ReadsEverything == Paging => (ListSpec => NothingMissed)
<1> SUFFICES ASSUME Paging PROVE ListSpec => NothingMissed
  OBVIOUS
<1>1. ListInv /\ [ListNext]_listing =>
        [(step = "page" /\ answer' = "list") =>
           \A r \in kept : pos[r] <= Upto(Pages) => times'[r] >= 1]_listing
  BY ListEnds
<1>2. ListInv /\ [ListNext]_listing => ListInv'
  BY StepList
<1>. QED BY <1>1, <1>2, InitList, PTL DEF ListSpec, NothingMissed
-----------------------------------------------------------------------------
(* Versions.  Two are compared by their first three numbers, in order.     *)

Numbers == [1..3 -> Nat]
P(t) == Padded(t.nums)

\* A tag that IsNewer can order: selfupdate.parseVersion makes something of it.
Orderable(t) == Len(t.nums) # 0 /\ t.lead \in {"", "v"}

LEMMA NumsOf ==
  ASSUME NEW t \in Tags
  PROVE  t.nums \in Seq(Nat) /\ Len(t.nums) \in Nat /\ (t.nums = <<>> <=> Len(t.nums) = 0)
<1>1. t.nums \in Seq(Nat)
  BY TagAssumption DEF TagRecords
<1>. QED BY <1>1

LEMMA PaddedNumbers == ASSUME NEW t \in Tags PROVE P(t) \in Numbers
<1>1. t.nums \in Seq(Nat)
  BY TagAssumption DEF TagRecords
<1>2. Len(t.nums) \in Nat /\ \A i \in 1..Len(t.nums) : t.nums[i] \in Nat
  BY <1>1
<1>3. \A i \in 1..3 : (IF i <= Len(t.nums) THEN t.nums[i] ELSE 0) \in Nat
  BY <1>2
<1>. QED BY <1>3 DEF P, Padded, Numbers

LEMMA AboveInThree ==
  ASSUME NEW x \in Numbers, NEW y \in Numbers
  PROVE  Above(x, y, 3) <=> \/ x[1] > y[1]
                            \/ x[1] = y[1] /\ x[2] > y[2]
                            \/ x[1] = y[1] /\ x[2] = y[2] /\ x[3] > y[3]
BY DEF Above, Numbers

LEMMA SameNumbers ==
  ASSUME NEW x \in Numbers, NEW y \in Numbers
  PROVE  x = y <=> x[1] = y[1] /\ x[2] = y[2] /\ x[3] = y[3]
BY DEF Numbers

LEMMA SomeVersion ==
  ASSUME NEW t \in Tags, NEW s
  PROVE  [nums |-> P(t), suffix |-> s] # NoVersion
<1>1. DOMAIN P(t) = 1..3 /\ DOMAIN <<>> = 1..0
  BY DEF P, Padded
<1>2. P(t) # <<>>
  BY <1>1
<1>. QED BY <1>2 DEF NoVersion

LEMMA ReleaseIs ==
  ASSUME NEW t \in Tags
  PROVE  /\ ReleaseVersion(t) = NoVersion <=> ~Orderable(t)
         /\ Orderable(t) => ReleaseVersion(t) = [nums |-> P(t), suffix |-> 2 * Text[t.suffix]]
BY SomeVersion, NumsOf DEF ReleaseVersion, Orderable, P

BuildSuffix(c) == IF c.tag.suffix = 0 THEN 0 ELSE 2 * Text[c.tag.suffix] + (IF c.ahead THEN 1 ELSE 0)

LEMMA BuildIs ==
  ASSUME NEW b, content[b].tag \in Tags
  PROVE  /\ BuildVersion(b) = NoVersion <=> ~Orderable(content[b].tag)
         /\ Orderable(content[b].tag) =>
              BuildVersion(b) = [nums |-> P(content[b].tag), suffix |-> BuildSuffix(content[b])]
BY SomeVersion, NumsOf DEF BuildVersion, BuildSuffix, Orderable, P

\* A suffix makes a version lower than none.
SuffixAbove(r, s) == r # s /\ (r = 0 \/ (s # 0 /\ r > s))

\* Suffixes are told apart by their texts, and none has the lowest place.
LEMMA TextOf ==
  ASSUME NEW x \in Tags, NEW y \in Tags
  PROVE  /\ Text[x.suffix] \in Nat /\ Text[y.suffix] \in Nat
         /\ (Text[x.suffix] = 0) = (x.suffix = 0)
         /\ (Text[x.suffix] = Text[y.suffix]) = (x.suffix = y.suffix)
<1>1. x.suffix \in Suffixes /\ y.suffix \in Suffixes
  BY DEF Suffixes
<1>. QED BY <1>1, TextAssumption

LEMMA NewerRelease ==
  ASSUME NEW x \in Tags, NEW y \in Tags
  PROVE  IsNewer(ReleaseVersion(x), ReleaseVersion(y)) <=>
           /\ Orderable(x) /\ Orderable(y)
           /\ Above(P(x), P(y), 3) \/ (P(x) = P(y) /\ SuffixAbove(Text[x.suffix], Text[y.suffix]))
<1> DEFINE r == Text[x.suffix]
           q == Text[y.suffix]
<1>1. r \in Nat /\ q \in Nat
  BY TextOf
<1> HIDE DEF r, q
<1>2. SuffixAbove(2 * r, 2 * q) <=> SuffixAbove(r, q)
  BY <1>1 DEF SuffixAbove
<1>3. CASE Orderable(x) /\ Orderable(y)
  <2>1. IsNewer(ReleaseVersion(x), ReleaseVersion(y)) <=> Greater(ReleaseVersion(x), ReleaseVersion(y))
    BY <1>3, ReleaseIs DEF IsNewer
  <2>2. Greater(ReleaseVersion(x), ReleaseVersion(y)) <=>
           Above(P(x), P(y), 3) \/ (P(x) = P(y) /\ SuffixAbove(2 * r, 2 * q))
    BY <1>3, ReleaseIs DEF Greater, SuffixAbove, r, q
  <2>. QED BY <1>2, <1>3, <2>1, <2>2 DEF r, q
<1>4. CASE ~(Orderable(x) /\ Orderable(y))
  BY <1>4, ReleaseIs DEF IsNewer
<1>. QED BY <1>3, <1>4

\* Commits past a release do not make a build lower than it: what is newer than
\* the build is newer than the release.
LEMMA BuildNotBelow ==
  ASSUME NEW x \in Tags, NEW b, content[b].tag \in Tags,
         IsNewer(ReleaseVersion(x), BuildVersion(b))
  PROVE  IsNewer(ReleaseVersion(x), ReleaseVersion(content[b].tag))
<1> DEFINE y == content[b].tag
           r == Text[x.suffix]
           q == Text[y.suffix]
<1>1. r \in Nat /\ q \in Nat /\ (q = 0) = (y.suffix = 0)
  BY TextOf
<1>2. Orderable(x) /\ Orderable(y) /\ Greater(ReleaseVersion(x), BuildVersion(b))
  BY ReleaseIs, BuildIs DEF IsNewer
<1>3. Above(P(x), P(y), 3) \/ (P(x) = P(y) /\ SuffixAbove(2 * r, BuildSuffix(content[b])))
  <2>1. Greater([nums |-> P(x), suffix |-> 2 * r], [nums |-> P(y), suffix |-> BuildSuffix(content[b])])
    BY <1>2, ReleaseIs, BuildIs
  <2>. QED BY <2>1 DEF Greater, SuffixAbove
<1>4. SuffixAbove(2 * r, BuildSuffix(content[b])) => SuffixAbove(r, q)
  <2>1. PICK a \in {0, 1} : BuildSuffix(content[b]) = IF y.suffix = 0 THEN 0 ELSE 2 * q + a
    BY DEF BuildSuffix
  <2>. HIDE DEF r, q
  <2>. QED BY <1>1, <2>1 DEF SuffixAbove
<1>. QED BY <1>2, <1>3, <1>4, NewerRelease

\* x is not of a lower line than y; a tag that has no order is below all others.
AtLeast(x, y) == Orderable(y) => Orderable(x) /\ ~Above(P(y), P(x), 3)

LEMMA AtLeastOrder ==
  ASSUME NEW x \in Tags, NEW y \in Tags, NEW z \in Tags
  PROVE  /\ AtLeast(x, x)
         /\ AtLeast(x, y) /\ AtLeast(y, z) => AtLeast(x, z)
<1>1. P(x) \in Numbers /\ P(y) \in Numbers /\ P(z) \in Numbers
  BY PaddedNumbers
<1>2. ~Above(P(x), P(x), 3)
  BY <1>1, AboveInThree DEF Numbers
<1>3. ~Above(P(y), P(x), 3) /\ ~Above(P(z), P(y), 3) => ~Above(P(z), P(x), 3)
  BY <1>1, AboveInThree DEF Numbers
<1>. QED BY <1>2, <1>3 DEF AtLeast

-----------------------------------------------------------------------------
(* A tag names builds of itself and of the tags it follows.                *)

Kin(m, x) == x = m \/ Follows(m, x)

LEMMA KinAgree ==
  ASSUME NEW m \in Tags, NEW x \in Tags, Kin(m, x)
  PROVE  /\ x.lead = m.lead /\ x.suffix = m.suffix
         /\ Len(m.nums) \in Nat /\ Len(x.nums) \in Nat /\ Len(m.nums) <= Len(x.nums)
         /\ \A i \in 1..3 : P(x)[i] >= P(m)[i] /\ (i <= Len(m.nums) => P(x)[i] = P(m)[i])
         /\ Orderable(m) => Orderable(x)
<1>1. m.nums \in Seq(Nat) /\ x.nums \in Seq(Nat)
  BY TagAssumption DEF TagRecords
<1>2. Len(m.nums) \in Nat /\ Len(x.nums) \in Nat
  BY <1>1
<1>3. /\ x.lead = m.lead /\ x.suffix = m.suffix /\ Len(m.nums) <= Len(x.nums)
      /\ \A i \in 1..Len(m.nums) : m.nums[i] = x.nums[i]
  BY <1>2 DEF Kin, Follows
<1>4. ASSUME NEW i \in 1..3 PROVE P(x)[i] >= P(m)[i] /\ (i <= Len(m.nums) => P(x)[i] = P(m)[i])
  <2>1. /\ P(x)[i] = (IF i <= Len(x.nums) THEN x.nums[i] ELSE 0)
        /\ P(m)[i] = (IF i <= Len(m.nums) THEN m.nums[i] ELSE 0)
    BY DEF P, Padded
  <2>2. P(x)[i] \in Nat
    BY PaddedNumbers DEF Numbers
  <2>3. CASE i <= Len(m.nums)
    BY <1>2, <1>3, <2>1, <2>2, <2>3
  <2>4. CASE ~(i <= Len(m.nums))
    BY <2>1, <2>2, <2>4
  <2>. QED BY <2>3, <2>4
<1>5. Orderable(m) => Orderable(x)
  <2>1. Len(m.nums) # 0 => Len(x.nums) # 0
    BY <1>2, <1>3
  <2>. QED BY <1>3, <2>1 DEF Orderable
<1>. QED BY <1>2, <1>3, <1>4, <1>5

\* What computeUpdate takes for a newer version of a pin.
Passes(t, cur) == Above(P(t), P(cur), Precision(cur))

\* Whatever the tags name, an update that passes the pin raises the version.
LEMMA PassesRaises ==
  ASSUME NEW cur \in Tags, NEW t \in Tags, NEW x \in Tags, NEW y \in Tags,
         Len(cur.nums) # 0, Passes(t, cur), Kin(t, x), Kin(cur, y)
  PROVE  Above(P(x), P(y), 3)
<1>1. P(x) \in Numbers /\ P(y) \in Numbers /\ P(t) \in Numbers /\ P(cur) \in Numbers
  BY PaddedNumbers
<1>2. PICK n \in Nat : n = Len(cur.nums) /\ n > 0
  BY NumsOf
<1>3. Precision(cur) \in 1..3 /\ Precision(cur) <= n
  <2>1. Precision(cur) = IF n \in 1..2 THEN n ELSE 3
    BY <1>2 DEF Precision
  <2>2. n > 0
    BY <1>2
  <2>3. CASE n \in 1..2
    BY <2>1, <2>3
  <2>4. CASE n \notin 1..2
    <3>1. n >= 3
      BY <2>2, <2>4
    <3>2. Precision(cur) = 3
      BY <2>1, <2>4
    <3>. QED BY <3>1, <3>2
  <2>. QED BY <2>3, <2>4
<1>4. PICK i \in 1..Precision(cur) : P(t)[i] > P(cur)[i] /\ \A j \in 1..(i - 1) : P(t)[j] = P(cur)[j]
  BY DEF Passes, Above
<1>5. \A j \in 1..i : j \in 1..3 /\ P(y)[j] = P(cur)[j] /\ P(x)[j] >= P(t)[j]
  BY <1>2, <1>3, <1>4, KinAgree
<1>6. i <= Len(t.nums)
  <2>1. P(t)[i] > 0
    BY <1>1, <1>3, <1>4 DEF Numbers
  <2>. QED BY <1>3, <1>4, <2>1 DEF P, Padded
<1>7. \A j \in 1..i : P(x)[j] = P(t)[j]
  <2>1. Len(t.nums) \in Nat
    BY KinAgree
  <2>. QED BY <1>3, <1>5, <1>6, <2>1, KinAgree
<1>8. i \in 1..3 /\ P(x)[i] > P(y)[i] /\ \A j \in 1..(i - 1) : P(x)[j] = P(y)[j]
  BY <1>3, <1>4, <1>5, <1>7
<1>. QED BY <1>8 DEF Above

\* A tag that moves on does not go back.
LEMMA MovesOn ==
  ASSUME NEW m \in Tags, NEW t \in Tags, NEW b, content[b].tag \in Tags,
         Kin(m, content[b].tag), Follows(m, t), ~IsNewer(BuildVersion(b), ReleaseVersion(t))
  PROVE  AtLeast(t, content[b].tag)
<1> DEFINE y == content[b].tag
<1> SUFFICES ASSUME Orderable(y) PROVE Orderable(t) /\ ~Above(P(y), P(t), 3)
  BY DEF AtLeast
<1>1. Orderable(t)
  <2>1. t.lead = m.lead /\ y.lead = m.lead /\ Len(m.nums) \in Nat /\ Len(m.nums) < Len(t.nums)
    BY KinAgree DEF Follows
  <2>2. Len(t.nums) \in Nat
    BY NumsOf
  <2>3. Len(t.nums) # 0
    BY <2>1, <2>2
  <2>. QED BY <2>1, <2>3 DEF Orderable
<1>2. ~Greater(BuildVersion(b), ReleaseVersion(t))
  BY <1>1, ReleaseIs, BuildIs DEF IsNewer
<1>. QED BY <1>1, <1>2, ReleaseIs, BuildIs DEF Greater
-----------------------------------------------------------------------------
(* The invariant of UpdateDecision.  A tag's build is never of a lower line *)
(* than one it named before, and no offer is of a lower one than what runs. *)

Images == [tag : Tags, ahead : BOOLEAN]

DecisionTyped ==
  /\ releases \in Seq(Tags)
  /\ content \in Seq(Images)
  /\ registry \in [Tags -> 0..Len(content)]
  /\ running \in [tag : Tags, build : 0..Len(content)]
  /\ offer.target \in Tags

\* A release is built once, before the builds that go past it, and the tag of a
\* release that was built names a build.
Lineage ==
  /\ \A m \in Tags : registry[m] # 0 => Kin(m, content[registry[m]].tag)
  /\ \A b \in 1..Len(content) : registry[content[b].tag] # 0
  /\ \A b, c \in 1..Len(content) : content[b].tag = content[c].tag /\ ~content[b].ahead => b <= c

\* What runs is a build that its tag named, now or before.
Current ==
  running.build # 0 =>
    /\ Kin(running.tag, content[running.build].tag)
    /\ running.build <= registry[running.tag]
    /\ AtLeast(content[registry[running.tag]].tag, content[running.build].tag)

Pinned == subject = "self" \/ HasVersion(running.tag)

Fits(t) ==
  \/ t = running.tag
  \/ subject = "container" /\ Passes(t, running.tag)
  \/ /\ subject = "self" /\ running.build # 0
     /\ IsNewer(ReleaseVersion(t), BuildVersion(running.build))

Offered == offer.kind # "none" /\ Pinned => Fits(offer.target)

DecisionInv == DecisionTyped /\ Lineage /\ Current /\ Offered

LEMMA ContentOf ==
  ASSUME DecisionTyped, NEW b \in 1..Len(content)
  PROVE  content[b] \in Images /\ content[b].tag \in Tags
<1>1. content \in Seq(Images)
  BY DEF DecisionTyped
<1>2. content[b] \in Images
  BY <1>1
<1>. QED BY <1>2 DEF Images

LEMMA Pin ==
  ASSUME NEW t \in Tags, HasVersion(t)
  PROVE  Len(t.nums) # 0 /\ Parse(t) = [nums |-> P(t), suffix |-> t.suffix]
<1>1. t.nums # <<>>
  BY DEF HasVersion, Parse
<1>. QED BY <1>1, NumsOf DEF HasVersion, Parse, P

LEMMA DecisionStarts == Init => DecisionInv
<1> SUFFICES ASSUME Init PROVE DecisionInv
  OBVIOUS
<1>1. PICK first \in Firsts :
        /\ ImageOf(first) \in Tags
        /\ releases = IF source = "vcs" THEN <<first>> ELSE <<>>
        /\ content = <<[tag |-> ImageOf(first), ahead |-> FALSE]>>
        /\ registry = [m \in Tags |-> IF m = ImageOf(first) \/ Follows(m, ImageOf(first)) THEN 1 ELSE 0]
  BY DEF Init
<1> DEFINE f == ImageOf(first)
<1> HIDE DEF f
<1>2. /\ f \in Tags /\ first \in Tags /\ Len(content) = 1 /\ content[1] = [tag |-> f, ahead |-> FALSE]
      /\ releases = IF source = "vcs" THEN <<first>> ELSE <<>>
      /\ content = <<[tag |-> f, ahead |-> FALSE]>>
      /\ registry = [m \in Tags |-> IF m = f \/ Follows(m, f) THEN 1 ELSE 0]
  BY <1>1, TagAssumption DEF f
<1>3. /\ running.tag \in Tags /\ registry[running.tag] = 1 /\ running.build \in 0..1
      /\ offer = NoOffer /\ running \in [tag : Tags, build : 0..1]
  BY DEF Init
<1>4. DecisionTyped
  <2>1. releases \in Seq(Tags) /\ content \in Seq(Images)
    BY <1>2 DEF Images
  <2>2. registry \in [Tags -> 0..1]
    BY <1>2
  <2>. QED BY <1>2, <1>3, <2>1, <2>2 DEF DecisionTyped, NoOffer
<1>5. \A m \in Tags : registry[m] # 0 => registry[m] = 1 /\ Kin(m, f)
  BY <1>2 DEF Kin
<1>6. Lineage
  BY <1>2, <1>5 DEF Lineage
<1>7. Current
  <2> SUFFICES ASSUME running.build # 0 PROVE running.build = 1 /\ Kin(running.tag, f) /\ AtLeast(f, f)
    BY <1>2, <1>3 DEF Current
  <2>. QED BY <1>2, <1>3, <1>5, AtLeastOrder
<1>. QED BY <1>3, <1>4, <1>6, <1>7 DEF DecisionInv, Offered, NoOffer

\* A new build leaves the others what they are.
LEMMA Appended ==
  ASSUME DecisionTyped, NEW c \in Images, content' = Append(content, c)
  PROVE  /\ Len(content') = Len(content) + 1 /\ Len(content) \in Nat
         /\ content' \in Seq(Images)
         /\ content'[Len(content) + 1] = c
         /\ \A b \in 1..Len(content) : content'[b] = content[b]
<1>1. content \in Seq(Images)
  BY DEF DecisionTyped
<1>. QED BY <1>1

LEMMA OfferStands ==
  ASSUME DecisionTyped, Offered, UNCHANGED <<setup, running, offer>>,
         \A b \in 1..Len(content) : content'[b] = content[b]
  PROVE  Offered'
<1>1. running.build # 0 => BuildVersion(running.build)' = BuildVersion(running.build)
  <2>1. running.build # 0 => content'[running.build] = content[running.build]
    BY DEF DecisionTyped
  <2>. QED BY <2>1 DEF BuildVersion
<1>2. subject' = subject /\ running' = running /\ offer' = offer
  BY DEF setup
<1>. QED BY <1>1, <1>2 DEF Offered, Pinned, Fits

LEMMA PushKeeps == ASSUME DecisionInv, NEW rel \in Tags, Push(rel) PROVE DecisionInv'
<1> DEFINE n == Len(content) + 1
           t == ImageOf(rel)
<1> USE DEF setup
<1> HIDE DEF t
<1>t. DecisionTyped /\ Lineage /\ Current /\ Offered
  BY DEF DecisionInv
<1>1. /\ t \in Tags /\ registry[t] = 0 /\ content' = Append(content, [tag |-> t, ahead |-> FALSE])
      /\ registry' = [m \in Tags |-> IF m = t \/ m \in Moved(t) THEN Len(content') ELSE registry[m]]
      /\ UNCHANGED <<releases, running, offer>>
  BY DEF Push, t
<1>2. [tag |-> t, ahead |-> FALSE] \in Images
  BY <1>1 DEF Images
<1>3. /\ Len(content') = n /\ n \in Nat /\ n > 0 /\ content' \in Seq(Images)
      /\ content'[n] = [tag |-> t, ahead |-> FALSE]
      /\ \A b \in 1..Len(content) : content'[b] = content[b]
  <2>1. /\ Len(content') = n /\ Len(content) \in Nat /\ content' \in Seq(Images)
        /\ content'[n] = [tag |-> t, ahead |-> FALSE]
        /\ \A b \in 1..Len(content) : content'[b] = content[b]
    BY <1>t, <1>1, <1>2, Appended
  <2>. QED BY <2>1
<1>4. registry' = [m \in Tags |-> IF m = t \/ m \in Moved(t) THEN n ELSE registry[m]]
  BY <1>1, <1>3
<1>5. registry \in [Tags -> 0..Len(content)] /\ running.tag \in Tags /\ running.build \in 0..Len(content)
  BY <1>t DEF DecisionTyped
<1>6. ASSUME NEW m \in Tags
      PROVE  \/ registry'[m] = n /\ Kin(m, t)
             \/ registry'[m] = registry[m] /\ m # t /\ m \notin Moved(t)
  BY <1>4 DEF Kin, Moved
<1>7. DecisionTyped'
  <2>1. registry' \in [Tags -> 0..n]
    BY <1>3, <1>4, <1>5
  <2>2. running' \in [tag : Tags, build : 0..n]
    BY <1>t, <1>1, <1>3 DEF DecisionTyped
  <2>. QED BY <1>t, <1>1, <1>3, <2>1, <2>2 DEF DecisionTyped
<1>8. Lineage'
  <2>1. ASSUME NEW m \in Tags, registry'[m] # 0 PROVE Kin(m, content'[registry'[m]].tag)
    <3>1. CASE registry'[m] = n /\ Kin(m, t)
      BY <1>3, <3>1
    <3>2. CASE registry'[m] = registry[m]
      <4>1. registry[m] \in 1..Len(content)
        BY <1>5, <2>1, <3>2
      <4>. QED BY <1>t, <1>3, <3>2, <4>1 DEF Lineage
    <3>. QED BY <1>6, <3>1, <3>2
  <2>2. ASSUME NEW b \in 1..n PROVE registry'[content'[b].tag] # 0
    <3>1. CASE b = n
      BY <1>1, <1>3, <1>4, <3>1
    <3>2. CASE b # n
      <4>1. b \in 1..Len(content)
        BY <1>3, <3>2
      <4>2. content'[b] = content[b] /\ registry[content[b].tag] # 0 /\ content[b].tag \in Tags
        BY <1>t, <1>3, <4>1, ContentOf DEF Lineage
      <4>. QED BY <1>3, <1>6, <4>2
    <3>. QED BY <3>1, <3>2
  <2>3. ASSUME NEW b \in 1..n, NEW c \in 1..n, content'[b].tag = content'[c].tag, ~content'[b].ahead
        PROVE  b <= c
    <3>1. CASE c = n
      BY <1>3, <3>1
    <3>2. CASE b = n /\ c # n
      <4>1. c \in 1..Len(content) /\ content[c].tag = t
        BY <1>3, <2>3, <3>2
      <4>. QED BY <1>t, <1>1, <4>1 DEF Lineage
    <3>3. CASE b # n /\ c # n
      <4>1. b \in 1..Len(content) /\ c \in 1..Len(content)
        BY <1>3, <3>3
      <4>. QED BY <1>t, <1>3, <2>3, <4>1 DEF Lineage
    <3>. QED BY <3>1, <3>2, <3>3
  <2>. QED BY <1>3, <2>1, <2>2, <2>3 DEF Lineage
<1>9. Current'
  <2> SUFFICES ASSUME running.build # 0
               PROVE  /\ Kin(running.tag, content'[running.build].tag)
                      /\ running.build <= registry'[running.tag]
                      /\ AtLeast(content'[registry'[running.tag]].tag, content'[running.build].tag)
    BY <1>1 DEF Current
  <2> DEFINE m == running.tag
             y == content[registry[m]].tag
             z == content[running.build].tag
  <2>1. /\ running.build \in 1..Len(content) /\ registry[m] \in 1..Len(content)
        /\ running.build <= registry[m] /\ Kin(m, z) /\ AtLeast(y, z)
    BY <1>t, <1>5 DEF Current
  <2>2. content'[running.build] = content[running.build] /\ y \in Tags /\ z \in Tags
    BY <1>t, <1>3, <2>1, ContentOf
  <2>3. CASE registry'[m] = registry[m]
    BY <1>3, <2>1, <2>2, <2>3
  <2>4. CASE registry'[m] = n /\ m \in Moved(t)
    <3>1. Follows(m, t) /\ ~IsNewer(BuildVersion(registry[m]), ReleaseVersion(t)) /\ Kin(m, y)
      BY <1>t, <1>5, <2>1, <2>4 DEF Moved, Lineage
    <3>2. AtLeast(t, y)
      BY <1>1, <1>5, <2>2, <3>1, MovesOn
    <3>3. AtLeast(t, z)
      BY <1>1, <2>1, <2>2, <3>2, AtLeastOrder
    <3>4. content'[registry'[m]].tag = t /\ running.build <= n
      BY <1>3, <2>1, <2>4
    <3>. QED BY <2>1, <2>2, <2>4, <3>3, <3>4
  <2>5. m # t
    BY <1>1, <2>1
  <2>. QED BY <1>4, <1>5, <2>3, <2>4, <2>5
<1>10. Offered'
  BY <1>t, <1>1, <1>3, OfferStands DEF Push
<1>. QED BY <1>7, <1>8, <1>9, <1>10 DEF DecisionInv

LEMMA RebuildKeeps == ASSUME DecisionInv, NEW t \in Tags, Rebuild(t) PROVE DecisionInv'
<1> DEFINE n == Len(content) + 1
           c0 == content[registry[t]]
           c1 == [c0 EXCEPT !.ahead = TRUE]
<1> USE DEF setup
<1>t. DecisionTyped /\ Lineage /\ Current /\ Offered
  BY DEF DecisionInv
<1>1. /\ registry[t] # 0 /\ content' = Append(content, c1)
      /\ UNCHANGED <<releases, running, offer>>
  BY DEF Rebuild
<1>5. registry \in [Tags -> 0..Len(content)] /\ running.tag \in Tags /\ running.build \in 0..Len(content)
  BY <1>t DEF DecisionTyped
<1>2. /\ registry[t] \in 1..Len(content) /\ c0.tag \in Tags
      /\ c1 \in Images /\ c1.tag = c0.tag /\ c1.ahead
  <2>1. registry[t] \in 1..Len(content)
    BY <1>1, <1>5
  <2>. QED BY <1>t, <2>1, ContentOf DEF Images
<1>3. /\ Len(content') = n /\ n \in Nat /\ n > 0 /\ content' \in Seq(Images)
      /\ content'[n].tag = c0.tag /\ content'[n].ahead
      /\ \A b \in 1..Len(content) : content'[b] = content[b]
  <2>1. /\ Len(content') = n /\ Len(content) \in Nat /\ content' \in Seq(Images)
        /\ content'[n] = c1
        /\ \A b \in 1..Len(content) : content'[b] = content[b]
    BY <1>t, <1>1, <1>2, Appended
  <2>. QED BY <1>2, <2>1
<1>4. registry' = [registry EXCEPT ![t] = n]
  BY <1>3 DEF Rebuild
<1>6. registry'[t] = n /\ \A m \in Tags \ {t} : registry'[m] = registry[m]
  BY <1>4, <1>5
<1>7. DecisionTyped'
  <2>1. registry' \in [Tags -> 0..n]
    BY <1>3, <1>4, <1>5
  <2>2. running' \in [tag : Tags, build : 0..n]
    BY <1>t, <1>1, <1>3 DEF DecisionTyped
  <2>. QED BY <1>t, <1>1, <1>3, <2>1, <2>2 DEF DecisionTyped
<1>8. Lineage'
  <2>1. ASSUME NEW m \in Tags, registry'[m] # 0 PROVE Kin(m, content'[registry'[m]].tag)
    <3>1. CASE m = t
      BY <1>t, <1>1, <1>3, <1>6, <3>1 DEF Lineage
    <3>2. CASE m # t
      <4>1. registry'[m] = registry[m] /\ registry[m] \in 1..Len(content)
        BY <1>5, <1>6, <2>1, <3>2
      <4>. QED BY <1>t, <1>3, <4>1 DEF Lineage
    <3>. QED BY <3>1, <3>2
  <2>2. ASSUME NEW b \in 1..n PROVE registry'[content'[b].tag] # 0
    <3>1. \E k \in 1..Len(content) : content'[b].tag = content[k].tag
      BY <1>2, <1>3
    <3>2. PICK k \in 1..Len(content) : content'[b].tag = content[k].tag
      BY <3>1
    <3>3. registry[content[k].tag] # 0 /\ content[k].tag \in Tags
      BY <1>t, ContentOf DEF Lineage
    <3>. QED BY <1>3, <1>6, <3>2, <3>3
  <2>3. ASSUME NEW b \in 1..n, NEW c \in 1..n, content'[b].tag = content'[c].tag, ~content'[b].ahead
        PROVE  b <= c
    <3>1. CASE c = n
      BY <1>3, <3>1
    <3>2. CASE c # n
      <4>1. b \in 1..Len(content) /\ c \in 1..Len(content)
        BY <1>3, <2>3, <3>2
      <4>. QED BY <1>t, <1>3, <2>3, <4>1 DEF Lineage
    <3>. QED BY <3>1, <3>2
  <2>. QED BY <1>3, <2>1, <2>2, <2>3 DEF Lineage
<1>9. Current'
  <2> SUFFICES ASSUME running.build # 0
               PROVE  /\ Kin(running.tag, content'[running.build].tag)
                      /\ running.build <= registry'[running.tag]
                      /\ AtLeast(content'[registry'[running.tag]].tag, content'[running.build].tag)
    BY <1>1 DEF Current
  <2> DEFINE m == running.tag
  <2>1. /\ running.build \in 1..Len(content) /\ registry[m] \in 1..Len(content)
        /\ running.build <= registry[m] /\ Kin(m, content[running.build].tag)
        /\ AtLeast(content[registry[m]].tag, content[running.build].tag)
    BY <1>t, <1>5 DEF Current
  <2>2. content'[running.build] = content[running.build]
    BY <1>3, <2>1
  <2>3. content'[registry'[m]].tag = content[registry[m]].tag /\ running.build <= registry'[m]
    <3>1. CASE m = t
      BY <1>3, <1>6, <2>1, <3>1
    <3>2. CASE m # t
      BY <1>3, <1>5, <1>6, <2>1, <3>2
    <3>. QED BY <3>1, <3>2
  <2>. QED BY <2>1, <2>2, <2>3
<1>10. Offered'
  BY <1>t, <1>1, <1>3, OfferStands DEF Rebuild
<1>. QED BY <1>7, <1>8, <1>9, <1>10 DEF DecisionInv

-----------------------------------------------------------------------------
(* What a check offers.                                                    *)

LEMMA FirstIn ==
  ASSUME NEW S \in SUBSET Nat, S # {}
  PROVE  First(S) \in S /\ \A k \in S : First(S) <= k
<1>1. PICK i \in S : \A k \in S : ~(<<k, i>> \in OpToRel(<, Nat))
  BY NatLessThanWellFounded, WFMin, Zenon
<1>2. \A k \in S : i <= k
  <2>1. \A k \in S : k \in Nat /\ i \in Nat /\ ~(k < i)
    BY <1>1 DEF OpToRel
  <2>. QED BY <2>1
<1>. QED BY <1>2 DEF First

LEMMA PlacesTyped ==
  ASSUME DecisionTyped, NEW ts
  PROVE  PlacesOf(ts) \in SUBSET Nat /\ \A i \in PlacesOf(ts) : releases[i] \in ts \cap Tags
<1>1. releases \in Seq(Tags)
  BY DEF DecisionTyped
<1>. QED BY <1>1 DEF PlacesOf

LEMMA FilteredTags == DecisionTyped => Filtered \subseteq Tags
<1> SUFFICES ASSUME DecisionTyped PROVE Listed \subseteq Tags
  BY DEF Filtered
<1>1. releases \in Seq(Tags)
  BY DEF DecisionTyped
<1>. QED BY <1>1 DEF Listed

LEMMA LatestTyped == DecisionTyped /\ releases # <<>> => LatestRelease \in Tags
<1> SUFFICES ASSUME DecisionTyped, releases # <<>> PROVE LatestRelease \in Tags
  OBVIOUS
<1> DEFINE final == PlacesOf({t \in Tags : ~IsPreRelease(t)})
<1>1. releases \in Seq(Tags) /\ releases[1] \in Tags
  BY DEF DecisionTyped
<1>2. final # {} => First(final) \in final
  BY PlacesTyped, FirstIn
<1>3. final # {} => releases[First(final)] \in Tags
  BY <1>2, PlacesTyped
<1>. QED BY <1>1, <1>3 DEF LatestRelease

LEMMA FallbackKeeps ==
  ASSUME NEW noManifest
  PROVE  /\ RegistryFallback(noManifest).target = running.tag
         /\ RegistryFallback(noManifest).kind \in {"none", "build"}
BY DEF RegistryFallback, NoOffer, Build

\* The tags a pin's update is chosen from pass it, and are of its variant.
LEMMA TargetsPass ==
  ASSUME DecisionTyped, HasVersion(running.tag), NEW t \in Targets(Filtered)
  PROVE  t \in Tags /\ Passes(t, running.tag)
<1> DEFINE cur == running.tag
<1>1. /\ t \in Tags /\ cur \in Tags /\ HasVersion(t) /\ Parse(t).suffix = Parse(cur).suffix
      /\ IsUpdateTarget(Parse(cur), Precision(cur), Parse(t))
  BY FilteredTags DEF Targets, DecisionTyped
<1>2. Parse(t).nums = P(t) /\ Parse(cur).nums = P(cur)
  BY <1>1, Pin
<1>3. CASE Precision(cur) \in 1..2
  BY <1>1, <1>2, <1>3 DEF IsUpdateTarget, Passes
<1>4. CASE Precision(cur) \notin 1..2
  <2>1. Precision(cur) = 3
    BY <1>4 DEF Precision
  <2>2. Greater(Parse(t), Parse(cur))
    BY <1>1, <1>4 DEF IsUpdateTarget
  <2>3. Above(P(t), P(cur), 3)
    BY <1>1, <1>2, <2>2 DEF Greater
  <2>. QED BY <1>1, <2>1, <2>3 DEF Passes
<1>. QED BY <1>3, <1>4

LEMMA ForVersionFits ==
  ASSUME DecisionTyped, HasVersion(running.tag), NEW noManifest, NEW o \in ForVersion(Filtered, noManifest)
  PROVE  o.target \in Tags /\ (o.target = running.tag \/ Passes(o.target, running.tag))
<1>1. CASE o = RegistryFallback(noManifest)
  BY <1>1, FallbackKeeps DEF DecisionTyped
<1>2. CASE o # RegistryFallback(noManifest)
  <2>1. PICK t \in Newest(Targets(Filtered)) :
          o = [kind |-> "release", target |-> t, behind |-> Cardinality(Targets(Filtered))]
    BY <1>2 DEF ForVersion
  <2>2. t \in Targets(Filtered) /\ o.target = t
    BY <2>1 DEF Newest
  <2>. QED BY <2>2, TargetsPass
<1>. QED BY <1>1, <1>2

LEMMA ForNameTyped ==
  ASSUME DecisionTyped, NEW noManifest, NEW o \in ForName(Filtered, noManifest)
  PROVE  o.target \in Tags
<1>t. running.tag \in Tags /\ Filtered \subseteq Tags
  BY FilteredTags DEF DecisionTyped
<1>1. CASE source = "vcs" /\ Positions # {}
  <2> DEFINE above == {i \in PlacesOf(Filtered) : i < First(Positions)}
  <2>1. above # {} => First(above) \in above
    <3>1. above \in SUBSET Nat
      BY PlacesTyped
    <3>. QED BY <3>1, FirstIn
  <2>2. above # {} => releases[First(above)] \in Tags
    BY <2>1, PlacesTyped
  <2>3. o = NoOffer \/ (above # {} /\ o.target = releases[First(above)])
    BY <1>1 DEF ForName
  <2>. QED BY <1>t, <2>2, <2>3 DEF NoOffer
<1>2. CASE ~(source = "vcs" /\ Positions # {})
  <2> DEFINE found == RegistryFallback(noManifest)
             versions == {t \in Filtered : HasVersion(t)}
  <2>1. o = found \/ \E t \in Newest(versions) : o = [found EXCEPT !.target = t]
    BY <1>2 DEF ForName
  <2>2. found.target = running.tag /\ \A t : [found EXCEPT !.target = t].target = t
    BY DEF RegistryFallback, NoOffer, Build
  <2>3. \A t \in Newest(versions) : t \in Tags
    BY <1>t DEF Newest
  <2>. QED BY <1>t, <2>1, <2>2, <2>3
<1>. QED BY <1>1, <1>2

LEMMA ComputeUpdateFits ==
  ASSUME DecisionTyped, NEW noList, NEW noManifest, NEW o \in ComputeUpdate(noList, noManifest)
  PROVE  /\ o.target \in Tags
         /\ HasVersion(running.tag) => o.target = running.tag \/ Passes(o.target, running.tag)
<1> DEFINE ts == IF noList THEN {} ELSE Filtered
<1>1. CASE ts = {}
  <2>1. o = RegistryFallback(noManifest)
    BY <1>1 DEF ComputeUpdate
  <2>. QED BY <2>1, FallbackKeeps DEF DecisionTyped
<1>2. CASE ts # {} /\ HasVersion(running.tag)
  <2>1. o \in ForVersion(Filtered, noManifest)
    BY <1>2 DEF ComputeUpdate
  <2>. QED BY <1>2, <2>1, ForVersionFits
<1>3. CASE ts # {} /\ ~HasVersion(running.tag)
  <2>1. o \in ForName(Filtered, noManifest)
    BY <1>3 DEF ComputeUpdate
  <2>. QED BY <1>3, <2>1, ForNameTyped
<1>. QED BY <1>1, <1>2, <1>3

LEMMA CheckSelfFits ==
  ASSUME DecisionTyped, NEW noList, NEW noManifest
  PROVE  /\ CheckSelf(noList, noManifest).target \in Tags
         /\ \/ CheckSelf(noList, noManifest).target = running.tag
            \/ /\ running.build # 0
               /\ IsNewer(ReleaseVersion(CheckSelf(noList, noManifest).target), BuildVersion(running.build))
<1> DEFINE newer == /\ ~noList
                    /\ releases # <<>>
                    /\ running.build # 0
                    /\ IsNewer(ReleaseVersion(LatestRelease), BuildVersion(running.build))
<1>1. CASE newer
  <2>1. CheckSelf(noList, noManifest).target = LatestRelease
    BY <1>1 DEF CheckSelf
  <2>. QED BY <1>1, <2>1, LatestTyped
<1>2. CASE ~newer
  <2>1. CheckSelf(noList, noManifest) = RegistryFallback(noManifest)
    BY <1>2 DEF CheckSelf
  <2>. QED BY <2>1, FallbackKeeps DEF DecisionTyped
<1>. QED BY <1>1, <1>2

LEMMA CheckKeeps ==
  ASSUME DecisionInv, NEW noList \in BOOLEAN, NEW noManifest \in BOOLEAN, Check(noList, noManifest)
  PROVE  DecisionInv'
<1>1. UNCHANGED <<subject, releases, registry, content, running>>
  BY DEF Check, setup, upstream
<1>2. /\ offer'.target \in Tags
      /\ Pinned => Fits(offer'.target)
  <2>1. CASE subject = "container" /\ offer' \in ComputeUpdate(noList, noManifest)
    BY <2>1, ComputeUpdateFits DEF DecisionInv, Pinned, Fits
  <2>2. CASE subject = "self" /\ offer' = CheckSelf(noList, noManifest)
    BY <2>2, CheckSelfFits DEF DecisionInv, Fits
  <2>. QED BY <2>1, <2>2 DEF Check
<1>3. DecisionTyped' /\ Lineage' /\ Current'
  BY <1>1, <1>2 DEF DecisionInv, DecisionTyped, Lineage, Current
<1>4. Offered'
  BY <1>1, <1>2 DEF Offered, Pinned, Fits, BuildVersion
<1>. QED BY <1>3, <1>4 DEF DecisionInv

LEMMA PublishKeeps == ASSUME DecisionInv, NEW t \in Tags, Publish(t) PROVE DecisionInv'
<1>1. UNCHANGED <<subject, registry, content, running, offer>> /\ releases' = <<t>> \o releases
  BY DEF Publish, setup
<1>2. releases' \in Seq(Tags)
  <2>1. releases \in Seq(Tags) /\ <<t>> \in Seq(Tags)
    BY DEF DecisionInv, DecisionTyped
  <2>. QED BY <1>1, <2>1
<1>. QED BY <1>1, <1>2 DEF DecisionInv, DecisionTyped, Lineage, Current, Offered, Pinned, Fits, BuildVersion

LEMMA AcceptKeeps == ASSUME DecisionInv, Accept PROVE DecisionInv'
<1> DEFINE b == registry[offer.target]
<1>1. /\ b # 0 /\ UNCHANGED <<releases, registry, content>>
      /\ running' = [tag |-> offer.target, build |-> b] /\ offer' = NoOffer'
  BY DEF Accept, upstream
<1>2. DecisionTyped /\ Lineage /\ offer.target \in Tags /\ b \in 1..Len(content)
  BY <1>1 DEF DecisionInv, DecisionTyped
<1>3. offer'.kind = "none" /\ offer'.target = offer.target
  BY <1>1 DEF NoOffer
<1>4. DecisionTyped'
  BY <1>1, <1>2, <1>3 DEF DecisionTyped
<1>5. Current'
  <2>1. content[b].tag \in Tags
    BY <1>2, ContentOf
  <2>2. Kin(offer.target, content[b].tag) /\ b <= b /\ AtLeast(content[b].tag, content[b].tag)
    BY <1>1, <1>2, <2>1, AtLeastOrder DEF Lineage
  <2>. QED BY <1>1, <2>2 DEF Current
<1>6. Lineage' /\ Offered'
  BY <1>1, <1>2, <1>3 DEF Lineage, Offered
<1>. QED BY <1>4, <1>5, <1>6 DEF DecisionInv

LEMMA DecisionStep == DecisionInv /\ [Next]_vars => DecisionInv'
<1> SUFFICES ASSUME DecisionInv, [Next]_vars PROVE DecisionInv'
  OBVIOUS
<1>1. ASSUME NEW t \in Tags, Publish(t) \/ Push(t) \/ Rebuild(t) PROVE DecisionInv'
  BY <1>1, PublishKeeps, PushKeeps, RebuildKeeps
<1>2. ASSUME NEW noList \in BOOLEAN, NEW noManifest \in BOOLEAN, Check(noList, noManifest) PROVE DecisionInv'
  BY <1>2, CheckKeeps
<1>3. CASE Accept
  BY <1>3, AcceptKeeps
<1>4. CASE UNCHANGED vars
  BY <1>4 DEF vars, upstream, setup, DecisionInv, DecisionTyped, Lineage, Current, Offered, Pinned, Fits,
              BuildVersion
<1>. QED BY <1>1, <1>2, <1>3, <1>4 DEF Next

-----------------------------------------------------------------------------
(* Accepting an offer never goes backwards.                                *)

\* A tag that is newer than what runs names builds that are not older than it.
LEMMA KinNotBelow ==
  ASSUME NEW t \in Tags, NEW x \in Tags, NEW y \in Tags, Kin(t, x),
         IsNewer(ReleaseVersion(t), ReleaseVersion(y))
  PROVE  ~IsNewer(ReleaseVersion(y), ReleaseVersion(x)) /\ x # y
<1>1. P(t) \in Numbers /\ P(x) \in Numbers /\ P(y) \in Numbers
  BY PaddedNumbers
<1>2. x.suffix = t.suffix /\ P(x)[1] >= P(t)[1] /\ P(x)[2] >= P(t)[2] /\ P(x)[3] >= P(t)[3]
  BY KinAgree
<1>3. Above(P(t), P(y), 3) \/ (P(t) = P(y) /\ SuffixAbove(Text[t.suffix], Text[y.suffix]))
  BY NewerRelease
<1>4. Text[t.suffix] \in Nat /\ Text[y.suffix] \in Nat /\ Text[x.suffix] = Text[t.suffix]
  BY <1>2, TextOf
<1>5. ~(Above(P(y), P(x), 3) \/ (P(x) = P(y) /\ ~SuffixAbove(Text[x.suffix], Text[y.suffix])))
  BY <1>1, <1>2, <1>3, <1>4, AboveInThree, SameNumbers DEF Numbers
<1>6. ~(SuffixAbove(Text[x.suffix], Text[y.suffix]) /\ SuffixAbove(Text[y.suffix], Text[x.suffix]))
  BY <1>4 DEF SuffixAbove
<1>7. ~IsNewer(ReleaseVersion(y), ReleaseVersion(x))
  BY <1>5, <1>6, NewerRelease
<1>8. x # y
  BY <1>2, <1>3, <1>5 DEF SuffixAbove
<1>. QED BY <1>7, <1>8

LEMMA RaisedNotBelow ==
  ASSUME NEW x \in Tags, NEW y \in Tags, Above(P(x), P(y), 3)
  PROVE  ~IsNewer(ReleaseVersion(y), ReleaseVersion(x)) /\ x # y
<1>1. P(x) \in Numbers /\ P(y) \in Numbers
  BY PaddedNumbers
<1>2. ~Above(P(y), P(x), 3) /\ P(x) # P(y)
  BY <1>1, AboveInThree DEF Numbers
<1>. QED BY <1>2, NewerRelease

LEMMA AcceptNotOlder ==
  ASSUME DecisionInv, Accept, Pinned
  PROVE  ~Older(running'.build, running.build)
<1> DEFINE b == registry[offer.target]
           c == running.build
           x == content[b].tag
           y == content[c].tag
<1>1. /\ b # 0 /\ content' = content /\ running' = [tag |-> offer.target, build |-> b]
      /\ offer.kind # "none"
  BY DEF Accept, upstream
<1> SUFFICES ASSUME c # 0
             PROVE  /\ ~IsNewer(ReleaseVersion(y), ReleaseVersion(x))
                    /\ ~(x = y /\ content[c].ahead /\ ~content[b].ahead)
  BY <1>1 DEF Older
<1>2. /\ DecisionTyped /\ Lineage /\ Current /\ offer.target \in Tags /\ running.tag \in Tags
      /\ b \in 1..Len(content) /\ c \in 1..Len(content)
  BY <1>1 DEF DecisionInv, DecisionTyped
<1>3. x \in Tags /\ y \in Tags
  BY <1>2, ContentOf
<1>4. Kin(offer.target, x) /\ Kin(running.tag, y) /\ Fits(offer.target)
  BY <1>1, <1>2 DEF Lineage, Current, DecisionInv, Offered
<1>5. CASE offer.target = running.tag
  <2>1. AtLeast(x, y) /\ c <= b
    BY <1>2, <1>5 DEF Current
  <2>2. ~Above(P(y), P(x), 3) \/ ~Orderable(y)
    BY <2>1 DEF AtLeast
  <2>3. x.suffix = y.suffix
    BY <1>2, <1>3, <1>4, <1>5, KinAgree
  <2>4. ~IsNewer(ReleaseVersion(y), ReleaseVersion(x))
    BY <1>3, <2>2, <2>3, NewerRelease DEF SuffixAbove
  <2>5. x = y /\ ~content[b].ahead => b = c
    <3>1. x = y /\ ~content[b].ahead => b <= c
      BY <1>2 DEF Lineage
    <3>. QED BY <1>2, <2>1, <3>1
  <2>. QED BY <2>4, <2>5
<1>6. CASE subject = "container" /\ Passes(offer.target, running.tag)
  <2>1. HasVersion(running.tag)
    BY <1>6 DEF Pinned
  <2>2. Len(running.tag.nums) # 0
    BY <1>2, <2>1, Pin
  <2>3. Above(P(x), P(y), 3)
    BY <1>2, <1>3, <1>4, <1>6, <2>2, PassesRaises
  <2>. QED BY <1>3, <2>3, RaisedNotBelow
<1>7. CASE IsNewer(ReleaseVersion(offer.target), BuildVersion(c))
  <2>1. IsNewer(ReleaseVersion(offer.target), ReleaseVersion(y))
    BY <1>2, <1>3, <1>7, BuildNotBelow
  <2>. QED BY <1>2, <1>3, <1>4, <2>1, KinNotBelow
<1>. QED BY <1>4, <1>5, <1>6, <1>7 DEF Fits

\* As long as upstream pushes a tag again only to build what it names once more,
\* and in whatever order it releases, pushes and builds, whatever a registry or a
\* forge answers and however late an offer is accepted: an update of a version pin
\* or of WhatsNewDock itself (updater.go:142-227, selfupdate.go:99-145) never ends
\* with a build that has, by the order of selfupdate.CompareVersions, an older
\* version in it than the one that was running.
THEOREM NeverBack == Spec => NeverBackwards
<1>1. DecisionInv /\ [Next]_vars =>
        [(running' # running /\ (subject = "self" \/ HasVersion(running.tag)))
           => ~Older(running'.build, running.build)]_vars
  <2> SUFFICES ASSUME DecisionInv, Next, running' # running, Pinned
               PROVE  ~Older(running'.build, running.build)
    BY DEF Pinned, vars
  <2>1. Accept
    BY DEF Next, Publish, Push, Rebuild, Check
  <2>. QED BY <2>1, AcceptNotOlder
<1>2. DecisionInv /\ [Next]_vars => DecisionInv'
  BY DecisionStep
<1>. QED BY <1>1, <1>2, DecisionStarts, PTL DEF Spec, NeverBackwards

-----------------------------------------------------------------------------
(* The releases a pin is behind of are the ones it is updated to, as long  *)
(* as the pin has no number that parseVer drops.                           *)

LEMMA LineIsPrefix ==
  ASSUME NEW t \in Tags, NEW cur \in Tags, NEW k \in 1..3
  PROVE  /\ Above(LineOf(t, k), LineOf(cur, k), k) <=> Above(P(t), P(cur), k)
         /\ Above(P(t), P(cur), k) => LineOf(t, k) # LineOf(cur, k)
<1>1. \A i \in 1..k : LineOf(t, k)[i] = P(t)[i] /\ LineOf(cur, k)[i] = P(cur)[i]
  BY DEF LineOf, P, Padded
<1>2. Above(LineOf(t, k), LineOf(cur, k), k) <=> Above(P(t), P(cur), k)
  BY <1>1 DEF Above
<1>3. P(t) \in Numbers /\ P(cur) \in Numbers
  BY PaddedNumbers
<1>4. Above(P(t), P(cur), k) => \E i \in 1..k : P(t)[i] # P(cur)[i]
  BY <1>3 DEF Above, Numbers
<1>. QED BY <1>1, <1>2, <1>4

LEMMA TargetsAreBehind ==
  ASSUME DecisionTyped, HasVersion(running.tag), Len(running.tag.nums) <= 3
  PROVE  Targets(Filtered) = BehindOf(running.tag, Filtered)
<1> DEFINE cur == running.tag
<1>1. cur \in Tags /\ Filtered \subseteq Tags
  BY FilteredTags DEF DecisionTyped
<1>2. PICK k \in 1..3 : k = Len(cur.nums)
  <2>1. PICK n \in Nat : n = Len(cur.nums)
    BY <1>1, NumsOf
  <2>2. n # 0 /\ n <= 3
    BY <1>1, <2>1, Pin
  <2>3. n \in 1..3
    BY <2>2
  <2>. QED BY <2>1, <2>3
<1>3. Precision(cur) = k
  <2>1. Precision(cur) = IF k \in 1..2 THEN k ELSE 3
    BY <1>2 DEF Precision
  <2>2. k \notin 1..2 => k = 3
    OBVIOUS
  <2>. QED BY <2>1, <2>2
<1> SUFFICES ASSUME NEW t \in Filtered, HasVersion(t)
             PROVE  Parse(t).suffix = Parse(cur).suffix /\ IsUpdateTarget(Parse(cur), k, Parse(t)) <=>
                    /\ t.suffix = cur.suffix
                    /\ LineOf(t, k) # LineOf(cur, k)
                    /\ Above(LineOf(t, k), LineOf(cur, k), k)
  BY <1>2, <1>3 DEF Targets, BehindOf
<1>4. Parse(t) = [nums |-> P(t), suffix |-> t.suffix] /\ Parse(cur) = [nums |-> P(cur), suffix |-> cur.suffix]
  BY <1>1, Pin
<1>5. t.suffix = cur.suffix => (IsUpdateTarget(Parse(cur), k, Parse(t)) <=> Above(P(t), P(cur), k))
  <2>1. CASE k \in 1..2
    BY <1>4, <2>1 DEF IsUpdateTarget
  <2>2. CASE k = 3
    BY <1>4, <2>2 DEF IsUpdateTarget, Greater
  <2>. QED BY <2>1, <2>2
<1>. QED BY <1>1, <1>4, <1>5, LineIsPrefix

\* For any tags there are: a check that gets its answers offers a pin of up to three
\* numbers (updater.go:147-183) the newest release it is behind of, of its variant
\* and as far as it spells a version out, and counts them all.
THEOREM OffersNewest == Spec => OffersTheNewest
<1> DEFINE behind == BehindOf(running.tag, Filtered)
           Newer(o) == /\ o.target \in behind
                       /\ \A t \in behind : ~Greater(Parse(t), Parse(o.target))
                       /\ o.behind = Cardinality(behind)
<1>1. DecisionInv /\ [Next]_vars =>
        [(IsPin /\ Len(running.tag.nums) <= 3 /\ offer'.kind = "release" /\ running' = running)
           => offer' = offer \/ Newer(offer')]_vars
  <2> SUFFICES ASSUME DecisionInv, Next, IsPin, Len(running.tag.nums) <= 3,
                      offer'.kind = "release", offer' # offer
               PROVE  Newer(offer')
    BY DEF vars
  <2>0. subject = "container" /\ HasVersion(running.tag)
    BY DEF IsPin
  <2>1. PICK noList, noManifest \in BOOLEAN : Check(noList, noManifest)
    <3>1. ~Accept
      BY DEF Accept, NoOffer
    <3>2. \A t \in Tags : ~(Publish(t) \/ Push(t) \/ Rebuild(t))
      BY DEF Publish, Push, Rebuild
    <3>. QED BY <3>1, <3>2 DEF Next
  <2>2. offer' \in ComputeUpdate(noList, noManifest) /\ offer' # RegistryFallback(noManifest)
    BY <2>0, <2>1, FallbackKeeps DEF Check
  <2>3. offer' \in ForVersion(Filtered, noManifest)
    BY <2>0, <2>2 DEF ComputeUpdate
  <2>4. Targets(Filtered) = behind
    BY <2>0, TargetsAreBehind DEF DecisionInv
  <2>5. PICK t \in Newest(behind) :
          offer' = [kind |-> "release", target |-> t, behind |-> Cardinality(behind)]
    BY <2>2, <2>3, <2>4 DEF ForVersion
  <2>. QED BY <2>5 DEF Newest
<1>2. DecisionInv /\ [Next]_vars => DecisionInv'
  BY DecisionStep
<1>. QED BY <1>1, <1>2, DecisionStarts, PTL DEF Spec, OffersTheNewest
=============================================================================
