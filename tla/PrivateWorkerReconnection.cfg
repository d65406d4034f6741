\* A job whose executor died is held for good.
SPECIFICATION Spec
CONSTANTS
    j1 = j1
    p1 = p1
    p2 = p2
    p3 = p3
    Job = {j1}
    Process = {p1, p2, p3}
    Supported <- PartlySupported
    MaxAttempts = 2
    BackoffMs = 1
    LeaseMs = 1
    DeadlineMs = 3
    MaxTime = 4
    MaxCrashes = 1
SYMMETRY Symmetry
INVARIANTS
    ReconnectionPermitsLease
CHECK_DEADLOCK FALSE
