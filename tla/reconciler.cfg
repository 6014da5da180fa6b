CONSTANTS
    Workers = {w1, w2}
    NoOne = NoOne
    Loads <- MCLoads

SPECIFICATION Spec
CHECK_DEADLOCK FALSE

INVARIANTS
    TypeOK
    RowIsTrue
    OneAtATime
    ErrorHasCause

PROPERTIES
    DestroyStands
    OnlyAsAsked
    RequestsEnd
