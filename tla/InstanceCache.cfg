\* A consumer and the reconciler share the cache while the URL and the credential
\* change and the Instance is deleted and created again or its Secret goes missing.
SPECIFICATION Spec
CONSTANTS
    Consumers = {team}
    Specs <- SpecsMoved
    Urls = {u1, u2}
    Walls = {}
    MaxCred = 2
    RevokeFirst = FALSE
    MaxEdits = 2
    None = None
    InformerLag = FALSE
    FaultKinds = {"secret"}
    MaxFaults = 1
SYMMETRY Symmetry
INVARIANTS
    ClientMatches
    ClientNotOlder
CHECK_DEADLOCK FALSE
