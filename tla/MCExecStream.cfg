SPECIFICATION Spec
CONSTANTS
    Kinds = {"kubernetes", "nomad"}
    Ops = {"run", "copy"}
    Chunks = 2
    Codes <- MCCodes
INVARIANTS
    ResultIsTrue
PROPERTIES
    EverythingEnds
CHECK_DEADLOCK FALSE
