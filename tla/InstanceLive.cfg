\* One user write, one rotation of the credential with overlap, one fault of any
\* kind, and every early return of Reconcile.
SPECIFICATION FairSpec
CONSTANTS
    Consumers = {}
    Specs <- SpecsGuards
    Urls = {"u1"}
    Walls = {"m1", "m2"}
    MaxCred = 2
    RevokeFirst = FALSE
    MaxEdits = 1
    None = None
    InformerLag = FALSE
    FaultKinds = {"crash", "atcError", "atcLost", "apiError", "apiLost", "secret"}
    MaxFaults = 1
INVARIANTS
    TypeOK
    WakeupArmed
PROPERTIES
    DeletionCompletes
    CredentialsRecover
    WallConverges
CHECK_DEADLOCK FALSE
