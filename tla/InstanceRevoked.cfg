\* The ATC drops the credential before the Secret has the new one.
SPECIFICATION FairSpec
CONSTANTS
    Consumers = {}
    Specs <- SpecsPlain
    Urls = {"u1"}
    Walls = {}
    MaxCred = 2
    RevokeFirst = TRUE
    MaxEdits = 0
    None = None
    InformerLag = FALSE
    FaultKinds = {}
    MaxFaults = 0
PROPERTIES
    CredentialsRecover
CHECK_DEADLOCK FALSE
