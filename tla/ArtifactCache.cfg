SPECIFICATION CacheSpec
CONSTANTS
    b1 = b1
    b2 = b2
    Procs = {p1, p2}
    Provs = {v1}
    Bytes = {b1, b2}
    Size <- MCSize
    Limits = {1}
    MaxTamper = 2
    None = None
    Garbage = Garbage
SYMMETRY ProcSymmetry
INVARIANTS NeverWrongBytes StoredAreVerified IndexBacked
