\* A rework that fails leaves the item beyond resumption.
SPECIFICATION Spec
CONSTANTS
    i1 = i1
    i2 = i2
    c1 = c1
    c2 = c2
    t1 = t1
    t2 = t2
    v1 = v1
    v2 = v2
    Item = {i1}
    Caller = {c1}
    Target = {t1, t2}
    Version = {v1, v2}
    Contributions = 0
    MaxRevisions = 2
    MaxApprovals = 3
    MaxTime = 1
    MaxCrashes = 0
SYMMETRY Symmetry
INVARIANTS
    BlockedWorkIsResumable
CHECK_DEADLOCK FALSE
