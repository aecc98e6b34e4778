SPECIFICATION Spec
CONSTANTS
    s1 = s1  s2 = s2
    a = a  b = b  c = c
    p = p  q = q
    NULL = NULL
    Sessions = {s1, s2}
    Callers = {a, b, c}
    Instances = {p, q}
    Home <- TwoProcesses
    Texts <- MCTexts
    Workload <- IndependentWorkload
    LateWrites = FALSE
    MaxTime = 1
    MaxFaults = 1
PROPERTIES
    LifecycleSpec
