CONSTANTS
    Boxes = {b1, b2, b3}
    Bases = {k1, k2}
    Names = {n1, n2}
    NoPath = NoPath
    NoName = NoName
    MaxDepth = 8
    MaxCalls = 2
    Loads <- SnapshotLoads
    Faults = {"child"}

SPECIFICATION Spec
INVARIANT DiskAtHand
CHECK_DEADLOCK FALSE
