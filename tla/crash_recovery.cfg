CONSTANTS
    Handles = {h1, h2}
    Shims = {p1, p2}
    NoHandle = NoHandle
    NoShim = NoShim
    Absent = Absent
    Calls = {"provision", "start", "existing", "get", "exit"}
    Faults = {"boot", "shim", "crash", "reboot"}
    HasMain = FALSE
    RemoveOnStop = FALSE
    Detach = FALSE

SPECIFICATION Spec
INVARIANTS
    RowOfOneRun
PROPERTIES
    RecoveredTruth
    KeepsContract
SYMMETRY Symmetry
\* The box may be removed, or idle with no client left to call.
CHECK_DEADLOCK FALSE
