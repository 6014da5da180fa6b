CONSTANTS
    t1 = t1
    t2 = t2
    timed = timed
    ssh = ssh
    init = init
    c = c
    d = d
    k = k
    l = l
    Tenants = {t1, t2, timed}
    SshExecs = {ssh}
    Inits = {init}
    Timed = {timed}
    Clients = {c, d}
    Closers = {k, l}
    Loads <- MCLoads
    MaxRetained = 1
    MaxTombstones = 1
    NoClient = NoClient

SPECIFICATION FairSpec
INVARIANTS
    TypeOK
    NoneSurvives
    WaitsTold
    ReleasedHoldsNothing
PROPERTIES
    RetainedBounded
    CallsAnswered
    GivenBack
\* The guest may have nothing left to do.
CHECK_DEADLOCK FALSE
