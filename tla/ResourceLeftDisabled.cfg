\* Known limit: one edit during a pass that disables, and no fault.
SPECIFICATION Spec
CONSTANTS
    MaxVersion = 2
    Comments = {"c"}
    Specs <- SpecsResource
    MaxEdits = 1
    InformerLag = FALSE
    FaultKinds = {}
    MaxFaults = 0
INVARIANTS
    DisabledExactly
CHECK_DEADLOCK FALSE
