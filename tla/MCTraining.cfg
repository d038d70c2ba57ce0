SPECIFICATION FairSpec
CONSTANTS
    Readers = {r1, r2}
    Writers <- Transfers
    WritersCancelled = FALSE
    Rounds = 4
    Size <- Sizes
    BucketSize = 3
    Ranks = {1, 2}
    MaxSteps = 4
    SaveInterval = 1
    MaxKeep = 2
    MaxLives = 2
    NoFile = NoFile
INVARIANTS
    Exclusion
    NoStrandedWaiter
    NoTornGeneration
    BucketsApplied
    StepsKept
    CheckpointKept

    
CHECK_DEADLOCK FALSE
