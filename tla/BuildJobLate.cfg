\* The Build is created before the Job it references.
SPECIFICATION Spec
CONSTANTS
    Ids = {1}
    Existing = {}
    Specs <- SpecsPlain
    Comments = {}
    Outcomes = {"succeeded"}
    RetrySteps = 5
    JobAtStart = {FALSE}
    InformerLag = FALSE
    MaxEdits = 0
    FaultKinds = {}
    MaxFaults = 0
INVARIANTS
    WakeupArmed
CHECK_DEADLOCK FALSE
