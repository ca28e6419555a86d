\* Known limit: a Build that was pruned is still listed, and the one it was pruned
\* for is past its TTL.
SPECIFICATION Spec
CONSTANTS
    NumBuilds = 3
    Born <- Distinct
    WithTTL = {3}
    Foreign = {}
    Specs <- SpecsPlain
    MaxLag = 1
    MaxEdits = 0
    InformerLag = FALSE
    FaultKinds = {}
    MaxFaults = 0
PROPERTIES
    PrunesAboveLimit
CHECK_DEADLOCK FALSE
