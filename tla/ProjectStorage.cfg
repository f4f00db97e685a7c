SPECIFICATION Spec
CONSTANTS
    a = a
    ab = ab
    Paths <- PathsMC
    Above <- AboveMC
    Bytes = {x, y}
    NoFile = NoFile
    Clients = {client}
    MaxRevision = 4
    MaxStaged = 3
SYMMETRY ContentsSymmetry
INVARIANTS
    TreesWellFormed
    CurrentIsBuild
    PreviewIsPublished
    RevisionIdentifiesTree
PROPERTIES
    UnsavedTextNotLost
