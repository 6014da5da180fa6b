CONSTANTS
    Handles = {h1}
    Shims = {p1, p2}
    NoHandle = NoHandle
    NoShim = NoShim
    Absent = Absent
    Calls = {"start", "exec", "attach", "existing", "exit", "quiesce", "drop"}
    Faults = {"boot", "rpc", "shim"}
    HasMain = FALSE
    RemoveOnStop = FALSE
    Detach = FALSE

SPECIFICATION FairSpec
INVARIANTS
    Started
PROPERTIES
    SpentForever
    ExitKept
    Resumed
    HonoursContract
\* The box may be removed, or idle with no client left to call.
CHECK_DEADLOCK FALSE
