\* Two user writes (an edit and a deletion among them), any one fault, the
\* garbage collector after the Instance is gone, and both answers an ATC may give
\* for a team it does not have.
SPECIFICATION FairSpec
CONSTANTS
    Names = {"default", "main"}
    Principals = {"u", "g"}
    Specs <- SpecsTeam
    AbsentFails = {TRUE, FALSE}
    MaxEdits = 2
    InformerLag = FALSE
    FaultKinds = {"crash", "atcError", "atcLost", "apiError", "apiLost", "instance", "others"}
    MaxFaults = 1
INVARIANTS
    TypeOK
PROPERTIES
    NothingLeftBehind
    DestroyedOnRequest
    RolesConverge
    DeletionCompletes
CHECK_DEADLOCK FALSE
