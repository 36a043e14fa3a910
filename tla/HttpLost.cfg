CONSTANTS
    Words <- MCWords
    FileSystems <- MCFlat
    Environments <- MCRacing
    MaxQuery = 4
    Users = {1}
    Queries <- MCTop
    Concurrent = FALSE
    MaxPath = 5
SPECIFICATION FairSpec
PROPERTY EveryRequestAnswered
CHECK_DEADLOCK FALSE
