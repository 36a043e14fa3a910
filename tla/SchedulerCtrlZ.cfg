\* Ctrl-Z while the idle loop runs.
SPECIFICATION Spec
CONSTANTS
    Users <- MCStops
    MaxPid = 2
    MaxQueuing = 0
    Msec <- MCMsec
    NCreate = 1
INVARIANTS
    SchedulerContext
