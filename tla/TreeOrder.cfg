SPECIFICATION Spec
CONSTANTS
    Names = {1, 2}
    Depth = 3
    Paths <- PathsMC
    Above <- AboveMC
    Bytes = {x}
    NoFile = NoFile
    MaxEntries = 2
    MaxOverlay = 2
INVARIANTS
    FoldIsBuild
    NextKeyFindsDescendants
CHECK_DEADLOCK FALSE
