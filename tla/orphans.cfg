CONSTANTS
    Handles = {h1}
    Shims = {p1, p2}
    NoHandle = NoHandle
    NoShim = NoShim
    Absent = Absent
    Calls = {"start", "stop", "exec", "existing", "drop", "shutdown", "exit"}
    Faults = {"boot", "cancel", "crash", "shim"}
    HasMain = FALSE
    RemoveOnStop = TRUE
    Detach = FALSE

SPECIFICATION FairSpec
PROPERTIES
    NothingStays
    CallsReturn
\* The box may be removed, or idle with no client left to call.
CHECK_DEADLOCK FALSE
