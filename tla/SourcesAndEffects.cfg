\* Exception notices (two occurrences of one incident, two requests, both sweeps, a
\* crash) and the other components that reach sources and effects outside.
SPECIFICATION EffectsSpec
CONSTANTS
    s1 = s1
    o1 = o1
    o2 = o2
    r1 = r1
    c1 = c1
    c2 = c2
    Signature = {s1}
    Key = {o1, o2}
    SigOf <- OneIncident
    NoSignature = NoSignature
    Caller = {c1, c2}
    OwnsTelegram = TRUE
    MaxAttempts = 2
    ReleaseBatch = 1
    MaxArrivals = 2
    MaxCrashes = 1
    Ingest = {1, 2}
    Sensitive = {2}
    Retention = 1
    OrphanDays = 2
    MaxVersion = 3
    MaxDays = 4
    MaxContextFaults = 2
    Calendar = {"primary", "family"}
    DefaultCalendar = "primary"
    Event = {1, 2, 3}
    PageSize = 1
    PageLimit = 2
    Limit = {1, 3}
    DefaultLimit = 1
    MessageLimit = 2
    MaxMessages = 4
    MaxEdits = 2
    Call = {1, 2}
    WriteKey = {"k"}
    Content = {"a", "b"}
    MaxEffects = 2
    MaxWriteFaults = 1
    Source = {"s1", "s2"}
    Planned = {"s1"}
    MaxCutoverFaults = 2
    Promoter = {1, 2}
    Scopes = {"code", "schema"}
    MaxPromotionFaults = 2
    Failure = {"unavailable"}
    Observer = {1, 2}
    MaxTime = 3
    MaxObservationFaults = 1
    StartTime = {1, 2}
    Reader = {1}
    Change = {1, 2}
    MaxApprovals = 2
    MaxMoves = 2
    MaxCalendarFaults = 1
INVARIANTS
    OpenIncidentIsAnnounced
    PayloadsFollowTheirRows
    AgendaIsWhole
    AnswersAreTrue
    VerifiedIsLive
    HealthyClosesAll
PROPERTIES
    ImplementsDurableDelivery
    HeldIsNeverDropped
    NothingIsRetiredTwice
    CeoDateIsKept
SYMMETRY Symmetry
CHECK_DEADLOCK FALSE
