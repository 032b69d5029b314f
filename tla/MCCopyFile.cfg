SPECIFICATION Spec
CONSTANTS
    NoValue = "none"
    Modes = {"none", "0755"}
    Owners = {"none", "vault"}
    ViaFileResource = FALSE
    MaxRetries = 3
    ScpFaults = 2
    CmdFaults = 3
    Cuts = 1
INVARIANTS
    WholeUnlessScpFails
    MovedWithAttributes
PROPERTIES
    Returns
    ReliableCopySucceeds
CHECK_DEADLOCK FALSE
