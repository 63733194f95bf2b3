SPECIFICATION DeliverySpec
CONSTANTS
    early = early
    late = late
    None = none
    Intent = {early, late}
    Expires <- MCExpires
    Invalid = {late}
    MaxTime = 1
    MaxCrashes = 1
    MaxFailures = 0
INVARIANT
    InvalidNeverSent
CHECK_DEADLOCK FALSE
