SPECIFICATION FairSpec
CONSTANTS
    Job = {j1}
    Run = {}
    Worker <- MCWorker
    Data = data
    Model = model
    Provider <- MCProvider
    ProviderOf <- MCProviderOf
    None = none
    MaxAttempts = 2
    Capacity = 2
    MaxTurns = 1
    MaxVersion = 2
    MaxSupCrashes = 0
    MaxWorkerCrashes = 1
    MaxLostCallbacks = 0
    MaxLostReplies = 0
    MaxBacklog = 1
PROPERTY ChildReplaced
CHECK_DEADLOCK FALSE
