CONSTANTS
    Parent0 <- MCParent
    Kids0 <- MCKids
    Tools = {4, 5, 6}
    Environments <- MCEnvironments
    MaxText = 10
    MaxDepth = 3
SPECIFICATION FairSpec
INVARIANTS
    TypeOK
    AnswerRight
    FaultExplained
    OnlyShortened
PROPERTIES
    AnswerComes
CHECK_DEADLOCK FALSE
