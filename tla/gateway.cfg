SPECIFICATION Safety
CHECK_DEADLOCK FALSE
SYMMETRY Symmetry
CONSTANTS
    s1 = s1
    s2 = s2
    s3 = s3
    Sessions = {s1, s2, s3}
    Bodies <- MCBodies
    Accepts <- MCAccepts
    ReplySizes <- MCReplySizes
    Pairs = {1, 2, 3}
    MaxEntries = 2
    MaxRewrites = 2
    MaxRestarts = 1
INVARIANTS
    TypeOK
    AnsweredIsAudited
    ViolationsRecorded
    NewestKept
    RedisAgrees
    KeptSpans
    OwnOriginalsRestored
    ScoreInRange
    MarkDetected

