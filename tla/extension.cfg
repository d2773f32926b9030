SPECIFICATION Spec
CHECK_DEADLOCK FALSE
CONSTANTS
    Keys = {"k1"}
    MaxChanges = 1
    Counts = {2}
    OverlayTime = 1
    SubmitTime = 2
    MaxPresses = 2
    MaxReports = 3
INVARIANTS
    TypeOK
    OnePressOneSubmission
    CountsEvents
PROPERTIES
    TabProtected
