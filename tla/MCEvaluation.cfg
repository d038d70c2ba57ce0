SPECIFICATION FairSpec
CONSTANTS
    w1 = w1
    w2 = w2
    None = None
    Specs <- MCSpecs
    Workers = {w1, w2}
    Configs <- MCConfigs
    MaxAttempts = 2
INVARIANTS
    SessionsClosed
    CompletedNotRerun
    ResultsSaved
PROPERTIES
    
    RunEnds
CHECK_DEADLOCK FALSE
