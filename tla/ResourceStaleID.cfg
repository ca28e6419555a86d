\* Known limit: the pin took effect and its answer was lost.
SPECIFICATION Spec
CONSTANTS
    MaxVersion = 2
    Comments = {"c"}
    Specs <- SpecsResource
    MaxEdits = 1
    InformerLag = FALSE
    FaultKinds = {"atcLost", "apiError"}
    MaxFaults = 1
INVARIANTS
    PinnedIDCurrent
CHECK_DEADLOCK FALSE
