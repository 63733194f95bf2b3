SPECIFICATION FairSpec
CONSTANTS
    Job = {j1}
    Run = {}
    Worker <- MCWorker
    Data = data
    Model = model
    Provider <- MCProvider
    ProviderOf <- MCProviderOf
    None = none
    MaxAttempts = 2
    Capacity = 2
    MaxTurns = 1
    MaxVersion = 2
    MaxSupCrashes = 0
    MaxWorkerCrashes = 0
    MaxLostCallbacks = 1
    MaxLostReplies = 0
    MaxBacklog = 0
PROPERTY LaneFreed
CHECK_DEADLOCK FALSE
