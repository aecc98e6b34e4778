SPECIFICATION Spec
CONSTANTS
    s1 = s1  s2 = s2
    a = a  b = b  c = c
    p = p  q = q
    NULL = NULL
    Sessions = {s1}
    Callers = {a, b}
    Instances = {p, q}
    Home <- OneProcess
    Texts <- MCTexts
    Workload <- ClosingWorkload
    LateWrites = FALSE
    MaxTime = 1
    MaxFaults = 0
PROPERTIES
    DisconnectedIsFinal
