CONSTANTS
    Words <- MCWords
    FileSystems <- MCFlat
    Environments <- MCCalm
    MaxQuery = 4
    Users = {1, 2}
    Queries <- MCFiles
    Concurrent = TRUE
    MaxPath = 5
SPECIFICATION Spec
INVARIANT AnswersOwn
CHECK_DEADLOCK FALSE
