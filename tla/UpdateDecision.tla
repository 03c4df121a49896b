---------------------------- MODULE UpdateDecision ----------------------------
(***************************************************************************)
(* What counts as an update: internal/updater/updater.go (computeUpdate    *)
(* and the version arithmetic under it) for a container, and               *)
(* internal/selfupdate/selfupdate.go (Checker.Check) for WhatsNewDock's    *)
(* own image.  Upstream publishes releases and pushes images; a check      *)
(* makes an offer; the operator accepts it; the next check starts from     *)
(* what then runs.                                                         *)
(*                                                                         *)
(* A tag is a record: `lead', what stands before its first digit ("" and   *)
(* "v" for nothing or a v, "sep" for a word and a separator as in          *)
(* release-1.2.3, "word" for a word as in b10549); `nums', its numbers     *)
(* (none for latest); and `suffix', what follows them (0 for nothing,      *)
(* 1 for a variant such as -alpine, 2 and more for -rc.2, ...), numbered   *)
(* in semver's order.                                                      *)
(*                                                                         *)
(* The image's content is counted in builds; content[b] is the version     *)
(* compiled into build b.  Build 0 is one that no registry knows, of a     *)
(* branch or a developer's, whose version has no order.                    *)
(***************************************************************************)
EXTENDS Integers, Sequences, FiniteSets

CONSTANTS Tags,        \* the tags upstream may use
          Firsts,      \* the ones that may be released at the start
          Rebuilt,     \* the tags upstream pushes again
          Subjects,    \* subset of {"container", "self"}
          Sources,     \* subset of {"vcs", "registry"}
          Hiddens,     \* may the registry deny that the manifest exists?
          Namings,     \* how upstream names what it releases
          Text,        \* suffix -> its place in the order of the texts
          MaxReleases, MaxBuilds, MaxErrors   \* bounds

TagRecords == [lead : {"", "v", "sep", "word"}, nums : Seq(Nat), suffix : Nat]

ASSUME TagAssumption == Tags \subseteq TagRecords /\ Firsts \subseteq Tags /\ Rebuilt \subseteq Tags
ASSUME ChoiceAssumption == /\ Subjects \subseteq {"container", "self"}
                           /\ Sources \subseteq {"vcs", "registry"}
                           /\ Hiddens \subseteq BOOLEAN
                           /\ Namings \subseteq [tags : SUBSET Tags, bare : BOOLEAN]
Suffixes == {t.suffix : t \in Tags}
ASSUME TextAssumption == /\ Text \in [Suffixes -> Nat]
                         /\ \A r, s \in Suffixes : Text[r] = Text[s] => r = s
                         /\ \A s \in Suffixes : Text[s] = 0 <=> s = 0
ASSUME BoundAssumption == MaxReleases \in Nat /\ MaxBuilds \in Nat /\ MaxErrors \in Nat

VARIABLES subject, source, hidden, preReleases,
          naming,     \* [tags, bare]: do images lack the v of their release's tag?
          releases,   \* the release list, newest first
          registry,   \* tag -> the build it names, 0 for none
          content,    \* build -> [tag, ahead]: the version in it, commits past it or not
          running,    \* [tag, build]: the image reference and what it resolved to
          offer, errors

setup == <<subject, source, hidden, preReleases, naming>>
upstream == <<releases, registry, content>>
vars == <<setup, upstream, running, offer, errors>>

----------------------------------------------------------------------------
(* Versions.                                                               *)

NoVersion == [nums |-> <<>>, suffix |-> 0]

(* The first three numbers, missing ones being zero. *)
Padded(nums) == [i \in 1..3 |-> IF i <= Len(nums) THEN nums[i] ELSE 0]

(* x is above y in its first k numbers. *)
Above(x, y, k) == \E i \in 1..k : x[i] > y[i] /\ \A j \in 1..(i - 1) : x[j] = y[j]

(* parseVer: a version is the whole tag or follows a separator; a lone number *)
(* that had to be extracted is none, and a fourth number is dropped.       *)
Parse(t) ==
    IF t.nums = <<>> \/ t.lead = "word" \/ (t.lead = "sep" /\ Len(t.nums) < 2) THEN NoVersion
    ELSE [nums |-> Padded(t.nums), suffix |-> t.suffix]

HasVersion(t) == Parse(t) # NoVersion

(* versionPrecision *)
Precision(t) == IF Len(t.nums) \in 1..2 THEN Len(t.nums) ELSE 3

(* semver's GreaterThan: a version without a suffix is above one with.     *)
Greater(v, w) ==
    \/ Above(v.nums, w.nums, 3)
    \/ v.nums = w.nums /\ v.suffix # w.suffix
       /\ (v.suffix = 0 \/ (w.suffix # 0 /\ v.suffix > w.suffix))

(* isUpdateTarget *)
IsUpdateTarget(cur, precision, v) ==
    IF precision \in 1..2 THEN Above(v.nums, cur.nums, precision) ELSE Greater(v, cur)

(* The tags among ts that no other is greater than; which of them the sort *)
(* of versionedReleases puts first is not defined.                         *)
Newest(ts) == {t \in ts : \A u \in ts : ~Greater(Parse(u), Parse(t))}

(* selfupdate.parseVersion of the version in a build: the describe suffix of *)
(* a build that is past its tag is dropped.  Suffixes count as texts here, *)
(* where rc.10 is below rc.9.                                              *)
BuildVersion_Describe(b) ==
    LET c == content[b] IN
    IF c.tag.nums = <<>> \/ c.tag.lead \notin {"", "v"} THEN NoVersion
    ELSE [nums |-> Padded(c.tag.nums), suffix |-> 2 * Text[c.tag.suffix] + (IF c.ahead THEN 1 ELSE 0)]
BuildVersion(b) ==
    LET c == content[b] IN
    IF c.tag.nums = <<>> \/ c.tag.lead \notin {"", "v"} THEN NoVersion
    ELSE [nums |-> Padded(c.tag.nums),
          suffix |-> IF c.tag.suffix = 0 THEN 0 ELSE 2 * Text[c.tag.suffix] + (IF c.ahead THEN 1 ELSE 0)]
ReleaseVersion(t) ==
    IF t.nums = <<>> \/ t.lead \notin {"", "v"} THEN NoVersion
    ELSE [nums |-> Padded(t.nums), suffix |-> 2 * Text[t.suffix]]

(* selfupdate.IsNewer: versions that cannot be ordered are never newer.    *)
IsNewer(v, w) == v # NoVersion /\ w # NoVersion /\ Greater(v, w)

----------------------------------------------------------------------------
(* What a check reads.                                                     *)

IsPreRelease(t) == t.suffix >= 2

(* The release list: from a forge with the flag of each release, from a    *)
(* registry every tag it has, without one.                                 *)
Listed == IF source = "vcs" THEN {releases[i] : i \in 1..Len(releases)}
          ELSE {t \in Tags : registry[t] # 0 /\ ~hidden}
Filtered == {t \in Listed : source = "vcs" /\ IsPreRelease(t) => preReleases}

(* ManifestUpToDate: a manifest that is not there is answered like one that *)
(* is different.                                                           *)
ManifestUpToDate(t, b) == b = IF hidden THEN 0 ELSE registry[t]

NoOffer == [kind |-> "none", target |-> running.tag, behind |-> 0]
Build == [kind |-> "build", target |-> running.tag, behind |-> 1]

(* registryFallback *)
RegistryFallback(noManifest) ==
    IF running.build = 0 \/ noManifest \/ ManifestUpToDate(running.tag, running.build)
    THEN NoOffer ELSE Build

----------------------------------------------------------------------------
(* computeUpdate for a tag that is a version, complete or partial.         *)
Targets_AnyVariant(ts) ==
    {t \in ts : HasVersion(t) /\ IsUpdateTarget(Parse(running.tag), Precision(running.tag), Parse(t))}
Targets(ts) ==
    {t \in ts : /\ HasVersion(t)
                /\ Parse(t).suffix = Parse(running.tag).suffix
                /\ IsUpdateTarget(Parse(running.tag), Precision(running.tag), Parse(t))}

ForVersion_NoDigest(ts, noManifest) ==
    IF Targets(ts) = {} THEN {NoOffer}
    ELSE {[kind |-> "release", target |-> t, behind |-> Cardinality(Targets(ts))] :
              t \in Newest(Targets(ts))}
ForVersion(ts, noManifest) ==
    IF Targets(ts) = {} THEN {RegistryFallback(noManifest)}
    ELSE {[kind |-> "release", target |-> t, behind |-> Cardinality(Targets(ts))] :
              t \in Newest(Targets(ts))}

(* computeUpdate for any other tag: by its position in the list of a forge, *)
(* else by its digest, labelled with the newest release.                   *)
PlacesOf(ts) == {i \in 1..Len(releases) : releases[i] \in ts}
First(S) == CHOOSE i \in S : \A k \in S : i <= k
Positions == {i \in PlacesOf(Filtered) : releases[i] = running.tag}
ForName(ts, noManifest) ==
    IF source = "vcs" /\ Positions # {}
    THEN LET above == {i \in PlacesOf(Filtered) : i < First(Positions)}
         IN IF above = {} THEN {NoOffer}
            ELSE {[kind |-> "release", target |-> releases[First(above)], behind |-> Cardinality(above)]}
    ELSE LET versions == {t \in ts : HasVersion(t)}
             found == RegistryFallback(noManifest)
         IN IF found = NoOffer \/ versions = {} THEN {found}
            ELSE {[found EXCEPT !.target = t] : t \in Newest(versions)}

ComputeUpdate(noList, noManifest) ==
    LET ts == IF noList THEN {} ELSE Filtered IN
    IF ts = {} THEN {RegistryFallback(noManifest)}
    ELSE IF HasVersion(running.tag) THEN ForVersion(ts, noManifest)
    ELSE ForName(ts, noManifest)

(* changelog.LatestRelease: the first in the list that is no prerelease, or *)
(* the first one.                                                          *)
LatestRelease ==
    LET final == PlacesOf({t \in Tags : ~IsPreRelease(t)}) IN
    IF final # {} THEN releases[First(final)] ELSE releases[1]

(* Checker.Check: a newer release; without one, a tag that was built again. *)
(* The version of build 0 is one that IsNewer cannot order.                *)
CheckSelf(noList, noManifest) ==
    LET newer == /\ ~noList
                 /\ releases # <<>>
                 /\ running.build # 0
                 /\ IsNewer(ReleaseVersion(LatestRelease), BuildVersion(running.build))
    IN IF newer THEN [kind |-> "release", target |-> LatestRelease, behind |-> 1]
       ELSE RegistryFallback(noManifest)

----------------------------------------------------------------------------
(* Upstream.  The image of a release has its tag, or its tag without the v.  *)
(* A push moves the tags that follow the release: latest, and a partial    *)
(* version whose line it is in, unless they are past it.                   *)

ImageOf(t) == IF naming.bare /\ t.lead = "v" THEN [t EXCEPT !.lead = ""] ELSE t

Follows(m, t) ==
    /\ m # t /\ m.lead = t.lead /\ m.suffix = t.suffix /\ ~IsPreRelease(t)
    /\ Len(m.nums) < Len(t.nums)
    /\ \A i \in 1..Len(m.nums) : m.nums[i] = t.nums[i]
Moved(t) ==
    {m \in Tags : Follows(m, t) /\ (registry[m] = 0 \/ ~IsNewer(BuildVersion(registry[m]), ReleaseVersion(t)))}

Publish(t) ==
    /\ t \in naming.tags /\ source = "vcs" /\ Len(releases) < MaxReleases
    /\ \A i \in 1..Len(releases) : ImageOf(releases[i]) # ImageOf(t)
    /\ Len(t.nums) >= 2 \/ t.lead = "word"
    /\ releases' = <<t>> \o releases
    /\ UNCHANGED <<setup, registry, content, running, offer, errors>>

(* A published release is pushed; without a release list, any is.          *)
Push(t) ==
    LET image == ImageOf(t) IN
    /\ t \in naming.tags /\ image \in Tags /\ registry[image] = 0
    /\ IF source = "vcs" THEN \E i \in 1..Len(releases) : releases[i] = t
       ELSE Len(content) < MaxReleases /\ Len(t.nums) >= 3
    /\ content' = Append(content, [tag |-> image, ahead |-> FALSE])
    /\ registry' = [m \in Tags |-> IF m = image \/ m \in Moved(image) THEN Len(content') ELSE registry[m]]
    /\ UNCHANGED <<setup, releases, running, offer, errors>>

Rebuild(t) ==
    /\ t \in Rebuilt /\ registry[t] # 0 /\ Len(content) < MaxBuilds
    /\ content' = Append(content, [content[registry[t]] EXCEPT !.ahead = TRUE])
    /\ registry' = [registry EXCEPT ![t] = Len(content')]
    /\ UNCHANGED <<setup, releases, running, offer, errors>>

----------------------------------------------------------------------------
(* A check with its two answers, which may be errors, and the operator.    *)

Check(noList, noManifest) ==
    /\ errors' = IF noList \/ noManifest THEN errors + 1 ELSE errors
    /\ errors' <= MaxErrors
    /\ \/ subject = "container" /\ offer' \in ComputeUpdate(noList, noManifest)
       \/ subject = "self" /\ offer' = CheckSelf(noList, noManifest)
    /\ UNCHANGED <<setup, upstream, running>>

(* handleRequestUpdate and handleApplySelfUpdate: the target is the offer's *)
(* tag; a pull of a tag that is not there changes nothing.                 *)
Accept ==
    /\ offer.kind # "none" /\ registry[offer.target] # 0
    /\ running' = [tag |-> offer.target, build |-> registry[offer.target]]
    /\ offer' = NoOffer'
    /\ UNCHANGED <<setup, upstream, errors>>

Init ==
    /\ subject \in Subjects /\ source \in Sources /\ hidden \in Hiddens
    /\ naming \in Namings /\ (naming.bare => source = "vcs")
    /\ preReleases \in IF subject = "container" /\ source = "vcs" THEN BOOLEAN ELSE {FALSE}  \* read nowhere else
    /\ \E f \in Firsts \cap naming.tags :
          /\ ImageOf(f) \in Tags
          /\ releases = IF source = "vcs" THEN <<f>> ELSE <<>>
          /\ content = <<[tag |-> ImageOf(f), ahead |-> FALSE]>>
          /\ registry = [m \in Tags |-> IF m = ImageOf(f) \/ Follows(m, ImageOf(f)) THEN 1 ELSE 0]
    /\ subject = "self" => source = "vcs"
    /\ running \in [tag : {t \in Tags : registry[t] = 1}, build : 0..1]
    /\ offer = NoOffer
    /\ errors = 0

Next ==
    \/ \E t \in Tags : Publish(t) \/ Push(t) \/ Rebuild(t)
    \/ \E noList, noManifest \in BOOLEAN : Check(noList, noManifest)
    \/ Accept

(* Checks go on at their interval, an operator accepts what is offered, and *)
(* a release that is published gets its image, whatever its tag is.        *)
Fairness ==
    /\ WF_vars(Check(FALSE, FALSE))
    /\ WF_vars(Accept)
    /\ \A t \in Tags : WF_vars(Push(t) /\ source = "vcs")

Spec == Init /\ [][Next]_vars /\ Fairness

----------------------------------------------------------------------------
(* Properties.                                                             *)

Offers == [kind : {"none", "build", "release"}, target : Tags, behind : 0..Cardinality(Tags)]

(* The types, and that an offer is for one step or more exactly if it is one. *)
TypeOK ==
    /\ subject \in Subjects /\ source \in Sources /\ hidden \in Hiddens /\ preReleases \in BOOLEAN
    /\ naming \in Namings
    /\ \A i \in 1..Len(releases) : releases[i] \in Tags
    /\ registry \in [Tags -> 0..Len(content)]
    /\ running \in [tag : Tags, build : 0..Len(content)]
    /\ offer \in Offers /\ (offer.kind = "none" <=> offer.behind = 0)
    /\ errors \in 0..MaxErrors

(* No update takes a version pin, or WhatsNewDock itself, to a build with an *)
(* older version in it (README.md:200, README.md:209-211): not a release    *)
(* that a build from the main branch already contains, nor a backport.  By *)
(* older the order of selfupdate.CompareVersions is meant; upstream pushes *)
(* a tag again only to build what it names once more.                      *)
Older(b, c) ==
    /\ b # 0 /\ c # 0
    /\ LET v == ReleaseVersion(content[b].tag)
           w == ReleaseVersion(content[c].tag)
       IN \/ IsNewer(w, v)
          \/ content[b].tag = content[c].tag /\ content[c].ahead /\ ~content[b].ahead
NeverBackwards ==
    [][(running' # running /\ (subject = "self" \/ HasVersion(running.tag)))
          => ~Older(running'.build, running.build)]_vars

(* The releases a pin is behind of, by the words of updater.go:150-154: the *)
(* same variant, and a newer version as far as the pin spells one out.     *)
LineOf(t, k) == [i \in 1..k |-> IF i <= Len(t.nums) THEN t.nums[i] ELSE 0]
BehindOf(cur, ts) ==
    LET k == Len(cur.nums) IN
    {t \in ts : /\ HasVersion(t) /\ t.suffix = cur.suffix
                /\ LineOf(t, k) # LineOf(cur, k)
                /\ Above(LineOf(t, k), LineOf(cur, k), k)}

(* A check that gets its answers offers a pin of up to three numbers the    *)
(* newest release it is behind of, and counts them all.                    *)
IsPin == subject = "container" /\ HasVersion(running.tag)
OffersTheNewest ==
    [][(IsPin /\ Len(running.tag.nums) <= 3 /\ offer'.kind = "release" /\ running' = running)
          => offer' = offer \/
             /\ offer'.target \in BehindOf(running.tag, Filtered)
             /\ \A t \in BehindOf(running.tag, Filtered) : ~Greater(Parse(t), Parse(offer'.target))
             /\ offer'.behind = Cardinality(BehindOf(running.tag, Filtered))]_vars

(* Somebody who accepts what is offered ends up with it: the tag's current *)
(* build, and for a pin no release left that it is behind of.              *)
UpToDate ==
    /\ running.build = registry[running.tag]
    /\ HasVersion(running.tag) => BehindOf(running.tag, Filtered) = {}
CaughtUpAlways ==
    (subject = "container" /\ running.build # 0) ~> [](UpToDate /\ offer.kind = "none")

(* That goes for the tags of every kind but for three cases: releases that *)
(* differ in their fourth number only; a tag that is no version and in the *)
(* forge's list, which is compared by its place alone; and a release whose *)
(* image does not have its tag, when it is offered time and again.         *)
NearlyUpToDate ==
    /\ running.build = registry[running.tag] \/ (~HasVersion(running.tag) /\ Positions # {})
    /\ HasVersion(running.tag) =>
         \A t \in BehindOf(running.tag, Filtered) : Padded(t.nums) = Padded(running.tag.nums)
NoImage == offer.kind # "none" /\ registry[offer.target] = 0
CaughtUp ==
    <>(subject = "container" /\ running.build # 0)
        => []<>NoImage \/ <>[](NearlyUpToDate /\ offer.kind = "none")

(* A tag is reported as moved only when it has moved (README.md:396-398).  *)
OnlyWhenMoved ==
    [][(offer' # offer /\ offer'.kind = "build") => registry[running.tag] # running.build]_vars

(* An update leaves a container that follows a moving tag on that tag      *)
(* (updater.go:221-223: the release only labels the update).               *)
FollowerStays ==
    [][(running' # running /\ subject = "container" /\ running.tag.nums = <<>>)
          => running'.tag = running.tag]_vars

(* Pre-releases are offered when they are asked for (README.md:344).       *)
PreReleasesOffered ==
    [](subject = "container" /\ preReleases /\ running.build # 0 /\ HasVersion(running.tag)
          => <>(\A t \in Listed : IsPreRelease(t) => ~Greater(Parse(t), Parse(running.tag))))

(* WhatsNewDock ends up with the newest final release, its list being read *)
(* from the newest one on (changelog/github.go:95-99).                     *)
SelfUpToDate ==
    running.build # 0 =>
       \A t \in Listed : ~IsPreRelease(t) => ~IsNewer(ReleaseVersion(t), BuildVersion(running.build))
SelfCaughtUp == subject = "self" ~> SelfUpToDate
=============================================================================
