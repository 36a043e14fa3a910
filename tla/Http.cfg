CONSTANTS
    Words <- MCWords
    FileSystems <- MCTrees
    Environments <- MCEnvironments
    MaxQuery = 4
    Users = {1, 2}
    Queries <- MCQueries
    Concurrent = FALSE
    MaxPath = 5
SPECIFICATION FairSpec
INVARIANTS
    TypeOK
    QueueSound
    ShutAnswered
    SavedIsServed
    TopLevelSaved
    Bounded
    DescriptorsLost
PROPERTIES
    ServiceSpec
    Answered
    Finishes
CHECK_DEADLOCK FALSE
