\* One fault of any kind and one user write, with every early return of Reconcile
\* but the missing Job (see BuildJobLate).
SPECIFICATION FairSpec
CONSTANTS
    Ids = {1, 2, 3}
    Existing = {}
    Specs <- SpecsGuards
    Comments = {"c1"}
    Outcomes = {"succeeded"}
    RetrySteps = 5
    JobAtStart = {TRUE}
    InformerLag = FALSE
    MaxEdits = 1
    FaultKinds = {"crash", "atcError", "atcLost", "apiError", "apiLost", "vanish", "chain"}
    MaxFaults = 1
INVARIANTS
    TypeOK
    WakeupArmed
PROPERTIES
    EventuallyComplete
    CancelStops
CHECK_DEADLOCK FALSE
