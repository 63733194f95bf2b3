SPECIFICATION AccountSpec
CONSTANTS
    None = none
    Member = {a1, a2}
    Admin = {a1, a2}
    MaxDenials = 2
    MaxFaults = 2
    MaxChanges = 1
SYMMETRY Symmetry
INVARIANTS
    AccountTypeOK
    AdminRemains
    SessionsCurrent
    DeniedSessionsEnd
PROPERTIES
    CommitsAreCurrent
CHECK_DEADLOCK FALSE
