SPECIFICATION Spec
CONSTANTS
    s1 = s1  s2 = s2
    NULL = NULL
    Sessions = {s1}
    Protocols <- MCProtocols
    Ports = {0, 1}
    MaxTime = 1
    MaxReports = 3
    MaxFaults = 1
INVARIANTS
    DaemonInv
    StatusIsOneReport
    GUITimesMatch
    NewestReportShows
