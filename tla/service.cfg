SPECIFICATION Spec
CHECK_DEADLOCK FALSE
CONSTANTS
    Addresses = {ip1, ip2}
    MaxPerMin = 2
    Window = 2
    Orgs = {"", "admin", "acme"}
    NoFile = NoFile
    HandWritten <- ByHand
    MaxNow = 3
    MaxBoots = 2
SYMMETRY Symmetry
INVARIANTS
    TypeOK
    CloudOnlyWhenNamed
    LocalSetupKept
    AtMostPerWindow
    LimitExact
