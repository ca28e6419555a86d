\* Conflicting user writes, refused ATC requests, vanishing builds, a broken chain
\* and a late Job, but no failed write of the build id (see BuildDuplicate).
SPECIFICATION Spec
CONSTANTS
    Ids = {1, 2, 3}
    Existing = {1}
    Specs <- SpecsOnce
    Comments = {"c1"}
    Outcomes = {"succeeded"}
    RetrySteps = 5
    JobAtStart = {TRUE, FALSE}
    InformerLag = FALSE
    MaxEdits = 1
    FaultKinds = {"atcError", "vanish", "chain"}
    MaxFaults = 1
INVARIANTS
    TriggeredOnce
CHECK_DEADLOCK FALSE
