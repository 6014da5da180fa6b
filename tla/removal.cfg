CONSTANTS
    Handles = {h1, h2}
    Shims = {p1, p2}
    NoHandle = NoHandle
    NoShim = NoShim
    Absent = Absent
    Calls = {"provision", "start", "get", "remove", "force_remove", "exit", "quiesce"}
    Faults = {"boot", "shim", "rpc", "cancel"}
    HasMain = TRUE
    RemoveOnStop = FALSE
    Detach = FALSE

SPECIFICATION Spec
INVARIANTS
    Attended
PROPERTIES
    RemovedForever
SYMMETRY Symmetry
\* The box may be removed, or idle with no client left to call.
CHECK_DEADLOCK FALSE
