\* every kind of tag, both subjects, both kinds of release list
SPECIFICATION Spec
CONSTANTS
    Tags <- MCTags
    Firsts <- MCFirsts
    Rebuilt <- MCRebuilt
    Subjects = {"container", "self"}
    Sources = {"vcs", "registry"}
    Hiddens = {FALSE}
    Namings <- MCNamings
    Text <- MCText
    MaxReleases = 3
    MaxBuilds = 4
    MaxErrors = 1
PROPERTIES NeverBackwards OffersTheNewest CaughtUp
