SPECIFICATION Spec
CONSTANTS
    main = main
    other = other
    Docs = {main, other}
    Dir <- DirMC
    Under = {main, other}
    Layouts <- LayoutsMC
    Scripts = {None, other}
    MaxInputs = 4
    MaxRequests = 3
    MaxAssembled = 2
    None = None
INVARIANTS RequestSeesItsText ShownIsCurrent DeltaFitsBaseline
CHECK_DEADLOCK FALSE
