SPECIFICATION Spec
CONSTANTS
    Procs = {p1, p2}
    Lowerings = {l1}
    Members = {m1, m2}
    Texts = {x, y}
    Provs <- MCProvs
    Bytes <- MCBytes
    Size <- MCSize
    Limits = {}
    MaxTamper = 1
    MaxTrees = 2
    None = None
    Garbage = Garbage
SYMMETRY Symmetry
INVARIANTS ManifestCertifies CachedTreeWasEmitted
PROPERTY RacesNeverFail
