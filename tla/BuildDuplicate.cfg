\* One status write that fails right after the trigger.
SPECIFICATION Spec
CONSTANTS
    Ids = {1, 2}
    Existing = {}
    Specs <- SpecsPlain
    Comments = {}
    Outcomes = {"succeeded"}
    RetrySteps = 5
    JobAtStart = {TRUE}
    InformerLag = FALSE
    MaxEdits = 0
    FaultKinds = {"apiError"}
    MaxFaults = 1
INVARIANTS
    TriggeredOnce
CHECK_DEADLOCK FALSE
