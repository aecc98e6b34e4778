SPECIFICATION FairSpec
CONSTANTS
    ReadWait = 2
    WriteWait = 2
    Capacity = 2
INVARIANTS
    TerminalInv
    OverstayIsBounded
PROPERTIES
    NothingAfterClose
    EndsWithoutPongs
CHECK_DEADLOCK FALSE
