SPECIFICATION Spec
CONSTANTS
    Responses <- MCResponses
    Outputs <- MCOutputs
    ClientSets <- MCClientSets
    CallIds = {"c1", "c2"}
    MaxImages = 1
    MaxTurns = 2
    MaxSamples = 2
INVARIANTS
    RequestFaithful
    NewestImagesKept
    CallsReachEnvironment
    
CHECK_DEADLOCK FALSE
