\* Two updates of every kind, two reports, two sets of controls, one fault.
SPECIFICATION Spec
CONSTANTS
    Kinds = {"stranger", "unsupported", "approval", "order", "talk"}
    Decisions = {"approve", "request-changes"}
    MaxUpdates = 2
    MaxReports = 2
    MaxSets = 2
    MaxFaults = 1
INVARIANTS
    PassedIsRecorded
    PressDecidesItsReport
    ToldIsConsistent
PROPERTIES
    ImplementsReviewDialogue
    UpdatesAreHandled
ACTION_CONSTRAINT WorldMovesBetween
CHECK_DEADLOCK FALSE
