SPECIFICATION Spec
CHECK_DEADLOCK FALSE
CONSTANTS
    Addresses = {ip1}
    MaxPerMin = 1
    Window = 1
    Orgs = {"", "admin", "acme"}
    NoFile = NoFile
    HandWritten <- ByHand
    MaxNow = 1
    MaxBoots = 1
INVARIANTS
    AdminRoutedAsSet
