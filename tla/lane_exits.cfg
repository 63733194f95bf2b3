SPECIFICATION Spec
CONSTANTS
    Job = {j1}
    Run = {}
    Worker <- MCWorkers3
    Data = data
    Model = model
    Provider <- MCProvider
    ProviderOf <- MCProviderOf
    None = none
    MaxAttempts = 2
    Capacity = 2
    MaxTurns = 1
    MaxVersion = 2
    MaxSupCrashes = 1
    MaxWorkerCrashes = 1
    MaxLostCallbacks = 0
    MaxLostReplies = 1
    MaxBacklog = 1
INVARIANTS
    OneChild
    ExitsAreReal
    HandoffKept
    SettledOwner
CHECK_DEADLOCK FALSE
