SPECIFICATION StartSpec
CONSTANTS
    Services = {"vault", "consul", "boundary"}
    UnitNames = {"default", "custom"}
    Usernames = {"default", "custom"}
    Options = {"license", "managed"}
    Found <- InstalledOrRunning
    MaxApplies = 3
    MaxFaults = 2
INVARIANTS
    RunsWhatWasWritten
PROPERTIES
    RetriedStartSucceeds
    StartReturns
CHECK_DEADLOCK FALSE
