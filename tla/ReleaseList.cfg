SPECIFICATION ListSpec
CONSTANTS
  r1 = r1
  r2 = r2
  r3 = r3
  r4 = r4
  Releases <- FourReleases
  Kind = "forge"
  Size = 2
  Pages = 2
  MaxChanges = 5
SYMMETRY Symmetry
INVARIANT CountedOnce
