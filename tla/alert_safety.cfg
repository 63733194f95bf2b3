SPECIFICATION DeliverySpec
CONSTANTS
    early = early
    late = late
    None = none
    Intent = {early, late}
    Expires <- MCExpires
    Invalid = {}
    MaxTime = 2
    MaxCrashes = 2
    MaxFailures = 1
INVARIANTS
    PostedOnce
    FinalIsTrue
PROPERTIES
    RecoveredIsClosed
CHECK_DEADLOCK FALSE
