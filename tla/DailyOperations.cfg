\* The private worker (one job, three processes, one of them without the
\* capability) and the components around the Work Item.
SPECIFICATION DailySpec
CONSTANTS
    j1 = j1
    p1 = p1
    p2 = p2
    p3 = p3
    Job = {j1}
    Process = {p1, p2, p3}
    Supported <- PartlySupported
    MaxAttempts = 2
    BackoffMs = 1
    LeaseMs = 1
    DeadlineMs = 3
    MaxTime = 4
    MaxCrashes = 1
    MaxDays = 3
    Call = {1, 2}
    RunAttempts = 2
    MaxRunFaults = 2
    Projection = {"p", "q", "e"}
    Edit = "e"
    Sync = {1, 2}
    MaxMinute = 3
    MaxPageChanges = 4
    MaxChanges = 3
    MaxTaskFaults = 1
    Ticket = {1, 2, 3}
    Text = {"a", "b"}
    Revises <- OneRevision
    Uncited = {}
    MaxGenerations = 3
    MaxVaultFaults = 1
INVARIANTS
    SingleExecutor
    RunnerIsAlone
    UndefinedMeansUnreachable
    AdvancesAreLegal
    OnlyHumansAreAwaited
PROPERTIES
    ImplementsControlledWorker
    RunningJobsSettle
    LaterEditsAreSeen
    PurgesAreEvidenced
CHECK_DEADLOCK FALSE
