SPECIFICATION Spec
CONSTANTS
    Requests = {r1, r2, r3, r4}
    Keys = {k1, k2}
    Codes = {c1, c2, c3}
    Local = Local
    MaxTitles = 2
    MaxBodies = 3
    MaxStreams = 2
INVARIANTS
    TypeOK
    BodiesExact
    TitlesExact
    CapsHold
PROPERTY RefusedOnlyAtCap
SYMMETRY MCSymmetry
