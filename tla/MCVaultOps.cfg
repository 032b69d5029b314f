SPECIFICATION Spec
CONSTANTS
    c1 = c1
    c2 = c2
    Clients = {c1, c2}
    Ops = {"init", "unseal"}
    NumKeys = 2
    Threshold = 2
    Seals <- AsksForShamir
    PreInit = TRUE
    MaxFaults = 1
    Weathers = {"foul"}
SYMMETRY ClientSymmetry
INVARIANTS
    UnsealIsFresh
PROPERTIES
    InitIsOnce
CHECK_DEADLOCK FALSE
