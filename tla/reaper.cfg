CONSTANTS
    Procs = {a, b}
    Pids = {i, j}
    NoProc = NoProc
    NoPid = NoPid
    NoSlot = NoSlot

SPECIFICATION FairSpec
INVARIANTS
    TypeOK
    OwnStatus
    NoneStranded
    ActionKept
    NeverRobbed
PROPERTIES
    ExitHeard
CHECK_DEADLOCK FALSE
