\* Executions of two items by two callers, with failures, rework and a crash.
SPECIFICATION FairSpec
CONSTANTS
    i1 = i1
    i2 = i2
    c1 = c1
    c2 = c2
    t1 = t1
    t2 = t2
    v1 = v1
    v2 = v2
    Item = {i1, i2}
    Caller = {c1, c2}
    Target = {t1}
    Version = {v1}
    Contributions = 2
    MaxRevisions = 2
    MaxApprovals = 0
    MaxTime = 0
    MaxCrashes = 1
INVARIANTS
    TypeOK
    SingleExecution
    RevisionsMatchEffects
    ReportsRestOnEffects
    RetriesReuseEffectKeys
    ReviewRestsOnReport
PROPERTIES
    ImplementsReviewedWork
    ExecutionsSettle
CHECK_DEADLOCK FALSE
