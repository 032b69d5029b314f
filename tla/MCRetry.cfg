SPECIFICATION Spec
CONSTANTS
    Limits <- MCLimits
    Errs = {"transient", "fatal"}
    Calls = 3
    AttemptBound = 4
INVARIANTS
    TypeOK
    AttemptsBounded
    AttemptsAgree
    CloneHasFullBudget
    CancelIsPrompt
PROPERTIES
    CancelReturns
CHECK_DEADLOCK FALSE
