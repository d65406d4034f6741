\* The control plane does not own the Telegram consumer: one delivery that a
\* crash left unresolved stops the schedule.
SPECIFICATION FairSpec
CONSTANTS
    s1 = s1
    o1 = o1
    o2 = o2
    r1 = r1
    c1 = c1
    c2 = c2
    Signature = {s1}
    Key = {o1, r1}
    SigOf <- OneIncident
    NoSignature = NoSignature
    Caller = {c1}
    OwnsTelegram = FALSE
    MaxAttempts = 2
    ReleaseBatch = 2
    MaxArrivals = 2
    MaxCrashes = 1
PROPERTIES
    TelegramSparesTheSchedule
CHECK_DEADLOCK FALSE
