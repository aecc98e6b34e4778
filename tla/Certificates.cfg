SPECIFICATION Spec
CONSTANTS
    i1 = i1  c1 = c1  c2 = c2  k1 = k1  k2 = k2
    NULL = NULL
    Keys = {k1, k2}
    Instances = {i1}
    Callers = {c1, c2}
    Home <- OneHome
    Requested <- Durations
    Minute = 1
    DefaultMinutes = 1
    LongestMinutes = 2
    Width = 2
    MaxTime = 2
    MaxCerts = 2
    MaxFaults = 1
SYMMETRY Alike
INVARIANTS
    CAInv
    GoodForTheTimeAsked
    ReplyPromisesNoLess
    SerialsTellSecondsApart
    SignedByTheKeyOfTheStart
CHECK_DEADLOCK FALSE
