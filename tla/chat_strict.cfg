SPECIFICATION Safety
CHECK_DEADLOCK FALSE
SYMMETRY Symmetry
CONSTRAINT LongTTL
CONSTANTS
    bare = bare
    personal = personal
    person1 = person1
    None = None
    Blocked = Blocked
    Requests = {r1, r2, r3}
    Prompts = {bare}
    Slots = {person1}
    SlotsOf <- MCSlotsOf
    Levels = {0, 1}
    Score <- MCScore
    Threshold = 97
    MaxRetries = 0
    MaxCrashes = 0
INVARIANTS
    LevelRespected
    ServedJudgedCompliant
