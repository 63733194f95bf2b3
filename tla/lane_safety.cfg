SPECIFICATION Spec
CONSTANTS
    Job = {j1}
    Run = {r1}
    Worker <- MCWorker
    Data = data
    Model = model
    Provider <- MCProvider
    ProviderOf <- MCProviderOf
    None = none
    MaxAttempts = 2
    Capacity = 1
    MaxTurns = 2
    MaxVersion = 2
    MaxSupCrashes = 0
    MaxWorkerCrashes = 1
    MaxLostCallbacks = 1
    MaxLostReplies = 0
    MaxBacklog = 0
INVARIANTS
    TypeOK
    OneLane
    NoOverlap
    PermitHeld
    FreshAttempt
PROPERTIES
    TerminalStable
    NoEarlyRetry
    PermitReturned
    KeepsPromise
CHECK_DEADLOCK FALSE
