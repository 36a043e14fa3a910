\* Every kind of task, two added by the user and up to two created by them.
\* Most users also do what breaks the scheduler.
SPECIFICATION Spec
CONSTANTS
    Users <- MCUsers
    MaxPid = 2
    MaxQueuing = 20
    Msec <- MCMsec
    NCreate = 1
INVARIANTS
    TypeOK
    OneNodePerTask
    TaskContexts
    IdleContext
    ContextSaved
    WorkConserving
PROPERTIES
    HighFirst
    LifecycleSpec
CHECK_DEADLOCK FALSE
