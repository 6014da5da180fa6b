CONSTANTS
    Boxes = {b1, b2, b3}
    Bases = {k1, k2}
    Names = {n1, n2}
    NoPath = NoPath
    NoName = NoName
    MaxDepth = 8
    MaxCalls = 2
    Loads <- MCLoads
    Faults = {"crash", "crash_remove", "db"}

SPECIFICATION Spec
INVARIANTS
    TypeOK
    FilesWhole
    BasesCollected
PROPERTIES
    NeverUnderfoot
SYMMETRY Symmetry
\* The last box may be removed.
CHECK_DEADLOCK FALSE
