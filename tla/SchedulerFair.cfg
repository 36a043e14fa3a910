\* Three tasks of one priority, some endless; the user may stop and resume them.
SPECIFICATION FairSpec
CONSTANTS
    Users <- MCWaits
    MaxPid = 3
    MaxQueuing = 0
    Msec <- MCMsec
    NCreate = 0
PROPERTIES
    ReadyRuns
    WaitingWakes
    SimulationEnds
