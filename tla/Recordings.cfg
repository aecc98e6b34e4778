SPECIFICATION Spec
CONSTANTS
    r1 = r1
    a = a  b = b  c = c
    p = p  q = q
    NULL = NULL
    Recordings = {r1}
    Callers = {a, b, c}
    Instances = {p, q}
    Home <- MCHome
    MaxFaults = 2
INVARIANTS
    RecordingInv
    NoRowLosesItsFile
    OrphansAreExplained
PROPERTIES
    LifecycleSpec
