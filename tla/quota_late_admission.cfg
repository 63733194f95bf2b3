SPECIFICATION QuotaSpec
CONSTANTS
    b = b
    w1 = w1
    b1 = b1
    d1 = d1
    d2 = d2
    account = account
    key = key
    None = none
    Bot = {b}
    Web = {w1}
    Attempt = {b1, d1, d2}
    Scope = {account, key}
    OwnerOf <- MCOwnerOf
    ScopesOf <- MCScopesOf
    Allocation <- MCAllocation
    MaxConcurrency <- MCMaxConcurrency
    Window = 2
    RetryAfter = 1
    Batch = 1
    MaxTime = 1
    MaxLost = 0
    MaxRestarts = 0
INVARIANT
    SettledHoldsNothing
CHECK_DEADLOCK FALSE
