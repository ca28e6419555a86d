\* Reconciles that read old versions from the informer cache, with two
\* edits (cancelled and not, or deleted) and vanishing builds.
SPECIFICATION Spec
CONSTANTS
    Ids = {1, 2}
    Existing = {}
    Specs <- SpecsCancel
    Comments = {}
    Outcomes = {"succeeded"}
    RetrySteps = 5
    JobAtStart = {TRUE}
    InformerLag = TRUE
    MaxEdits = 2
    FaultKinds = {"vanish"}
    MaxFaults = 1
INVARIANTS
    OutcomeTruthful
PROPERTIES
    OutcomeFinal
    TrackingKept
    ImplementsContract
CHECK_DEADLOCK FALSE
