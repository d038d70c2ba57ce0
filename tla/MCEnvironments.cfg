SPECIFICATION FairSpec
CONSTANTS
    w1 = w1
    w2 = w2
    NoOne = NoOne
    NoData = NoData
    Workers = {w1, w2}
    Sessions = {1, 2, 3}
    Containers = {1, 2, 3}
    Configs <- MCConfigs
INVARIANTS
    UseIsRecorded
PROPERTIES
    PoolSpec
    UsefulKept
    
    
CHECK_DEADLOCK FALSE
