SPECIFICATION Spec
CONSTANTS
    c1 = c1
    c2 = c2
    Clients = {c1, c2}
    Ops = {"init", "unseal"}
    NumKeys = 2
    Threshold = 2
    Seals <- Shamir
    PreInit = TRUE
    MaxFaults = 0
    Weathers = {"fair", "foul"}
PROPERTIES
    Terminates
    UnsealConverges
CHECK_DEADLOCK FALSE
