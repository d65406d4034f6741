\* Two runs, one forget, one fault or one backup with its restore.
SPECIFICATION Spec
CONSTANTS
    a = a
    b = b
    d1 = d1
    f1 = f1
    f2 = f2
    Cand = {a, b}
    Domain = {d1}
    DomainOf <- OneDomain
    Forgetter = {f1}
    MaxRuns = 2
    MaxTombs = 1
    MaxRetries = 1
    MaxRetained = 1
    MaxFaults = 1
INVARIANTS
    PublishedIsKept
    RestoreSafeIsInHead
    OnePointer
PROPERTIES
    ServedIsNotForgotten
CONSTRAINT OneCandidateIsBackedUp
SYMMETRY Symmetry
CHECK_DEADLOCK FALSE
