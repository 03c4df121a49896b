\* a registry that denies that a private image's manifest exists
SPECIFICATION Spec
CONSTANTS
    Tags <- PinTags
    Firsts <- PinFirsts
    Rebuilt <- None
    Subjects = {"container"}
    Sources = {"vcs", "registry"}
    Hiddens = {TRUE}
    Namings <- PinNamings
    Text <- MCText
    MaxReleases = 2
    MaxBuilds = 2
    MaxErrors = 1
PROPERTY OnlyWhenMoved
