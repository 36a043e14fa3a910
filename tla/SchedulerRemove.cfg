\* A task in the middle of the queue is removed.
SPECIFICATION Spec
CONSTANTS
    Users <- MCRemoves
    MaxPid = 3
    MaxQueuing = 0
    Msec <- MCMsec
    NCreate = 1
INVARIANTS
    NoFreedNodeQueued
