SPECIFICATION Spec
CONSTANTS
    s1 = s1  s2 = s2
    a = a  b = b  c = c
    p = p  q = q
    NULL = NULL
    Sessions = {s1}
    Callers = {a, b, c}
    Instances = {p, q}
    Home <- CloserApart
    Texts <- MCTexts
    Workload <- RaceWorkload
    LateWrites = TRUE
    MaxTime = 2
    MaxFaults = 1
INVARIANTS
    SessionInv
    ActiveWasAuthorized
    CleanupReasonSound
    TimesFollowCreation
PROPERTIES
    OnlyStaleChecksBreakOrder
    SettledRowsAreFinal
