SPECIFICATION FairSpec
CONSTANTS
    Workers = {w1, w2}
    Source <- Replayed
    GroupSize = 2
    QueueSize = 4
    MaxSize = 2
    FirstMinimum = 1
    Minimum = 2
    Multiple = 1
    MaxSteps = 2
    MaxTurns = 2
    MaxRetries = 2
    MaxErrors = 2
    ValCount = 2
INVARIANTS
    ItemsConserved
    WholeGroups
    BufferBounded
PROPERTIES
    BatchArrives
CHECK_DEADLOCK FALSE
