SPECIFICATION FairSpec
CONSTANTS
    i1 = i1  i2 = i2  i3 = i3  i4 = i4  i5 = i5   h1 = h1  h2 = h2
    NULL = NULL
    Instances = {i1, i2, i3, i4, i5}
    Host <- TwoHosts
    Env <- MCEnv
    Count = 2
    Valid = {1, 2}
    MaxFaults = 2
INVARIANTS
    StartInv
    ServesACompleteSystem
    AppliedOnceInOrder
    DirtyIsExplained
PROPERTIES
    ServesUnlessDirty
    DaemonServerComesBack
CHECK_DEADLOCK FALSE
