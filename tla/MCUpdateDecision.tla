--------------------------- MODULE MCUpdateDecision ---------------------------
(* Small instances of UpdateDecision.                                      *)
EXTENDS UpdateDecision

Tag(lead, nums, suffix) == [lead |-> lead, nums |-> nums, suffix |-> suffix]

Latest == Tag("", <<>>, 0)
Major1 == Tag("", <<1>>, 0)
Line10 == Tag("", <<1, 0>>, 0)
V100 == Tag("", <<1, 0, 0>>, 0)
V101 == Tag("", <<1, 0, 1>>, 0)
V110 == Tag("", <<1, 1, 0>>, 0)
V200 == Tag("", <<2, 0, 0>>, 0)
A100 == Tag("", <<1, 0, 0>>, 1)
A110 == Tag("", <<1, 1, 0>>, 1)
RC200 == Tag("", <<2, 0, 0>>, 2)
B1 == Tag("word", <<1>>, 0)
B2 == Tag("word", <<2>>, 0)
Old4 == Tag("", <<1, 0, 0, 1>>, 0)
New4 == Tag("", <<1, 0, 0, 2>>, 0)
R100 == Tag("v", <<1, 0, 0>>, 0)
R110 == Tag("v", <<1, 1, 0>>, 0)

MCText == [s \in Suffixes |-> s]
None == {}

(* Versions with variants, builds by number, four numbers, and releases with a *)
(* v of images with or without it.                                         *)
Named(tags) == [tags |-> tags, bare |-> FALSE]
MCTags == {Latest, Major1, Line10, V100, V110, V200, A100, A110, RC200, B1, B2, Old4, New4, R100, R110}
Versions == Named({Line10, V100, V110, V200, A100, A110, RC200})
Numbered == Named({B1, B2, V110})
FourNumbers == Named({Old4, New4, V110})
WithV == Named({R100, R110})
BareImages == [tags |-> {R100, R110, V200}, bare |-> TRUE]
MCNamings == {Versions, Numbered, FourNumbers, WithV, BareImages}
MCFirsts == {V100, A100, B1, Old4, R100}
MCRebuilt == {Latest, B1}

PinTags == {V100, V110, RC200}
PinNamings == {Named(PinTags)}
PinFirsts == {V100}
FourTags == {Old4, New4}
FourNamings == {Named(FourTags)}
FourFirsts == {Old4}
RollTags == {B1, B2}
RollNamings == {Named(RollTags)}
RollFirsts == {B1}
BareTags == {V100, V110, V200, R100, R110}
BareNamings == {BareImages}
BareFirsts == {R100}
SelfTags == {Latest, V100, V101, V110, V200}
SelfNamings == {Named(SelfTags)}
=============================================================================
