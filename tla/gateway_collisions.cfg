SPECIFICATION Safety
CHECK_DEADLOCK FALSE
CONSTANTS
    s1 = s1
    s2 = s2
    s3 = s3
    Sessions = {s1}
    Bodies <- MCBodies
    Accepts <- MCAccepts
    ReplySizes <- MCReplySizes
    Pairs = {1, 2, 3}
    MaxEntries = 1
    MaxRewrites = 2
    MaxRestarts = 0
INVARIANTS
    OriginalsRestored
