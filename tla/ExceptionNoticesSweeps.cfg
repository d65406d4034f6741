\* One incident and one report or recovery notice, both sweeps, a crash.
SPECIFICATION FairSpec
CONSTANTS
    s1 = s1
    o1 = o1
    o2 = o2
    r1 = r1
    c1 = c1
    c2 = c2
    Signature = {s1}
    Key = {o1, r1}
    SigOf <- OneIncident
    NoSignature = NoSignature
    Caller = {c1}
    OwnsTelegram = TRUE
    MaxAttempts = 2
    ReleaseBatch = 1
    MaxArrivals = 2
    MaxCrashes = 1
PROPERTIES
    DueIsTakenUp
    RetriesEnd
CHECK_DEADLOCK FALSE
