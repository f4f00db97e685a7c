SPECIFICATION Spec
CONSTANTS
    a = a
    ab = ab
    c = c
    Paths <- PathsMC
    Above <- AboveMC
    Bytes = {x, y}
    NoFile = NoFile
    MaxBatch = 3
    MaxEdits = 1
    MaxFaults = 1
SYMMETRY ContentsSymmetry
INVARIANTS
    AllOrNothing
    CheckedStaleNeverWritten
    LostOnlyInRace
    OriginalsRecoverable
CHECK_DEADLOCK FALSE
