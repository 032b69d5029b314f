SPECIFICATION Spec
CONSTANTS
    Null = Null
    Nothing = Nothing
    Kinds = {"vault_start"}
    Movable = {}
    Mains = {"m1", "m2"}
    Rests = {"r1", "r2"}
    Hosts = {"h1", "h2"}
    MaxEdits = 1
    MaxFaults = 0
INVARIANTS
    UpdatesTakeEffect
CHECK_DEADLOCK FALSE
