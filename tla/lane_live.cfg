SPECIFICATION FairTurnsSpec
CONSTANTS
    Job = {j1}
    Run = {r1, r2}
    Worker <- MCWorkers3
    Data = data
    Model = model
    Provider <- MCProvider
    ProviderOf <- MCProviderOf
    None = none
    MaxAttempts = 2
    Capacity = 2
    MaxTurns = 1
    MaxVersion = 2
    MaxSupCrashes = 0
    MaxWorkerCrashes = 0
    MaxLostCallbacks = 0
    MaxLostReplies = 0
    MaxBacklog = 0
PROPERTIES
    LaneFreed
    JobServed
    ChildReplaced
    
CHECK_DEADLOCK FALSE
