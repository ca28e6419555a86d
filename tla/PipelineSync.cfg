\* One user write (or a deletion and a new Pipeline of the same name), any two
\* faults, and every early return of Reconcile.
SPECIFICATION FairSpec
CONSTANTS
    Configs = {"c1", "c2"}
    Names = {"default"}
    Specs <- SpecsSync
    Contents = {"", "c2"}
    MaxEdits = 1
    InformerLag = FALSE
    FaultKinds = {"crash", "atcError", "atcLost", "apiError", "apiLost", "team", "race"}
    MaxFaults = 2
INVARIANTS
    TypeOK
    ReadyInSync
PROPERTIES
    ConfigConverges
    DeletionCompletes
CHECK_DEADLOCK FALSE
