CONSTANTS
    Words <- MCWords
    FileSystems <- MCNested
    Environments <- MCCalm
    MaxQuery = 4
    Users = {1}
    Queries <- MCTop
    Concurrent = FALSE
    MaxPath = 5
SPECIFICATION Spec
INVARIANT DownloadsAll
CHECK_DEADLOCK FALSE
