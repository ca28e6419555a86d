\* The wall is removed from the spec while the status write that records it conflicts.
SPECIFICATION FairSpec
CONSTANTS
    Consumers = {}
    Specs <- SpecsClear
    Urls = {"u1"}
    Walls = {"m1"}
    MaxCred = 1
    RevokeFirst = FALSE
    MaxEdits = 1
    None = None
    InformerLag = FALSE
    FaultKinds = {}
    MaxFaults = 0
PROPERTIES
    WallConverges
CHECK_DEADLOCK FALSE
