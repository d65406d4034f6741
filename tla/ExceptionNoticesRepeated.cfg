\* A final failure that was none is followed by a second notice.
SPECIFICATION Spec
CONSTANTS
    s1 = s1
    o1 = o1
    o2 = o2
    r1 = r1
    c1 = c1
    c2 = c2
    Signature = {s1}
    Key = {o1, o2, r1}
    SigOf <- OneIncident
    NoSignature = NoSignature
    Caller = {c1}
    OwnsTelegram = TRUE
    MaxAttempts = 2
    ReleaseBatch = 1
    MaxArrivals = 2
    MaxCrashes = 0
SYMMETRY Symmetry
INVARIANTS
    OneNoticePerIncident
CHECK_DEADLOCK FALSE
