SPECIFICATION FairSpec
CONSTANTS
    Tool = {"a", "b", "c"}
    Var = {"x", "y"}
    Chains <- TheChains
    Width = 2
    MaxRetries <- Retries
    Given = {"y"}
    Missing = Missing
    MaxChanges = 1
INVARIANTS TypeOK ChainSound
PROPERTIES AnsweredOnce RunEnds
CHECK_DEADLOCK FALSE
