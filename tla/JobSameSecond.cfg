\* Known limit: two Builds created in the same second and a list that is behind.
SPECIFICATION Spec
CONSTANTS
    NumBuilds = 2
    Born <- Together
    WithTTL = {}
    Foreign = {}
    Specs <- SpecsPlain
    MaxLag = 1
    MaxEdits = 0
    InformerLag = FALSE
    FaultKinds = {}
    MaxFaults = 0
PROPERTIES
    PrunesOnlyHistory
CHECK_DEADLOCK FALSE
