SPECIFICATION Spec
CONSTANTS
    Roots = {1}
    Selections = {s0, s1}
    DefaultSelection = s0
    MaxInputs = 3
    MaxFailures = 2
    None = None
INVARIANTS OneAssemblyPerProject SettledIsCurrent
PROPERTIES LastGoodKept ComesToRest
CHECK_DEADLOCK FALSE
