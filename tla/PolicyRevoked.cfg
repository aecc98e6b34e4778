SPECIFICATION FairSpec
CONSTANTS
    i1 = i1  c1 = c1  c2 = c2  k1 = k1
    NULL = NULL
    Instances = {i1}
    Callers = {c1}
    Home <- OneCaller
    Keys = {k1}
    Slots <- OneDevice
    Permissions <- GUI
    Batches <- MCBatches
    MaxEdits = 2
    MaxFaults = 0
PROPERTIES
    RevokedIsForgotten
