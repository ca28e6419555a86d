\* One user write and any one fault, on a resource with two versions of which the
\* second is found later and the first may be pinned or disabled by others.
SPECIFICATION FairSpec
CONSTANTS
    MaxVersion = 2
    Comments = {"c"}
    Specs <- SpecsResource
    MaxEdits = 1
    InformerLag = FALSE
    FaultKinds = {"crash", "atcError", "atcLost", "apiError", "apiLost", "pipeline", "gone", "resource", "others"}
    MaxFaults = 1
INVARIANTS
    TypeOK
    DisabledAsListed
PROPERTIES
    OnlyOwnEnabled
    PinConverges
    ListedDisabled
    DroppedEnabled
CHECK_DEADLOCK FALSE
