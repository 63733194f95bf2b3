SPECIFICATION TransitionSpec
CONSTANTS
    now1 = now1
    other1 = other1
    now2 = now2
    x = x
    y = y
    None = none
    Owner = {o1, o2}
    Scope = {now1, other1, now2}
    StreamOf <- MCStreamOf
    SessionOf <- MCSessionOf
    Initial <- MCInitial
    Allowed <- MCAllowed
    Transition <- MCTransition
    Id = {i1, i2, i3}
    State = {x, y}
    MaxCrashes = 1
    MaxFailures = 1
SYMMETRY Symmetry
INVARIANTS
    TransitionTypeOK
    OwnerFollowsTable
    AlwaysRestorable
PROPERTIES
    KeepsLog
CHECK_DEADLOCK FALSE
