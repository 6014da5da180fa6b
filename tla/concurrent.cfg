CONSTANTS
    Handles = {h1, h2}
    Shims = {p1, p2}
    NoHandle = NoHandle
    NoShim = NoShim
    Absent = Absent
    Calls = {"start", "stop", "get", "exit", "drop", "shutdown"}
    Faults = {"crash"}
    HasMain = FALSE
    RemoveOnStop = FALSE
    Detach = TRUE

SPECIFICATION Spec
INVARIANTS
    TypeOK
    PidIffActive
    OnlySpawnerStarts
PROPERTIES
    NeverKilled
SYMMETRY Symmetry
\* The box may be removed, or idle with no client left to call.
CHECK_DEADLOCK FALSE
