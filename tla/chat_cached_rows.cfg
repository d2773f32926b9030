SPECIFICATION Safety
CHECK_DEADLOCK FALSE
SYMMETRY Symmetry
CONSTANTS
    bare = bare
    personal = personal
    person1 = person1
    None = None
    Blocked = Blocked
    Requests = {r1, r2}
    Prompts = {bare, personal}
    Slots = {person1}
    SlotsOf <- MCSlotsOf
    Levels = {0}
    Score <- MCScore
    Threshold = 97
    MaxRetries = 1
    MaxCrashes = 0
INVARIANTS
    CachedRowsAreHits
