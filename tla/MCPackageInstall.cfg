SPECIFICATION Spec
CONSTANTS
    Installs = {"first", "second"}
    Configs <- MCConfigs
    Files = {"vault", "license"}
    Supported = {TRUE, FALSE}
    MaxFaults = 3
INVARIANTS
    InstalledIsVerified
    FailsForCause
PROPERTIES
    InstallReturns
CHECK_DEADLOCK FALSE
