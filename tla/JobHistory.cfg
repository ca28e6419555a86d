\* Two Builds of the Job, one with a TTL, and one of another, against a list that
\* may be behind, with any one fault, an edit or a deletion; limits of 0 and 1.
SPECIFICATION FairSpec
CONSTANTS
    NumBuilds = 3
    Born <- Distinct
    WithTTL = {2}
    Foreign = {1}
    Specs <- SpecsJob
    MaxLag = 1
    MaxEdits = 1
    InformerLag = FALSE
    FaultKinds = {"crash", "atcError", "atcLost", "apiError", "apiLost", "chain", "job", "others"}
    MaxFaults = 1
INVARIANTS
    TypeOK
PROPERTIES
    PrunesOnlyHistory
    HistoryBounded
    PauseConverges
CHECK_DEADLOCK FALSE
