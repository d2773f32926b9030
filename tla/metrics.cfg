SPECIFICATION Spec
CHECK_DEADLOCK FALSE
CONSTANTS
    Tasks = {t1, t2}
    Clients = {c1, c2}
INVARIANTS
    TypeOK
    LiveSubscribed
    NobodySkipped
PROPERTIES
    CountArrives
    FailedRemoved
