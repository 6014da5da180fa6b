CONSTANTS
    Handles = {h1, h2}
    Shims = {p1, p2}
    NoHandle = NoHandle
    NoShim = NoShim
    Absent = Absent
    Calls = {"start", "exec", "get", "exit"}
    Faults = {"crash"}
    HasMain = TRUE
    RemoveOnStop = FALSE
    Detach = FALSE

SPECIFICATION Spec
PROPERTIES
    ExecNeverBootsMain
SYMMETRY Symmetry
\* The box may be removed, or idle with no client left to call.
CHECK_DEADLOCK FALSE
