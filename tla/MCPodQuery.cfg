SPECIFICATION Spec
CONSTANTS
    Pods = {"server", "agent"}
    Containers <- MCContainers
    Phases = {"Running", "Pending"}
    Timeouts <- MCTimeouts
    Counts <- MCCounts
    ListTimes <- MCListTimes
    MaxChanges = 2
    AttemptBound = 3
INVARIANTS
    OneSnapshot
    OverrunIsBounded
PROPERTIES
    ReadReturns
CHECK_DEADLOCK FALSE
