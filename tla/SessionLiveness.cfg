SPECIFICATION FairSpec
CONSTANTS
    s1 = s1  s2 = s2
    a = a  b = b  c = c
    p = p  q = q
    NULL = NULL
    Sessions = {s1}
    Callers = {a, b, c}
    Instances = {p, q}
    Home <- OneProcess
    Texts <- MCTexts
    Workload <- ServedWorkload
    LateWrites = FALSE
    MaxTime = 1
    MaxFaults = 1
PROPERTIES
    EveryCallReturns
    CleanupsCloseExpired
INVARIANTS
    NobodyIsStuck
