\* One refused comment request on a build that has just ended.
SPECIFICATION FairSpec
CONSTANTS
    Ids = {1}
    Existing = {}
    Specs <- SpecsNoted
    Comments = {"c1"}
    Outcomes = {"succeeded"}
    RetrySteps = 5
    JobAtStart = {TRUE}
    InformerLag = FALSE
    MaxEdits = 0
    FaultKinds = {"atcError"}
    MaxFaults = 1
PROPERTIES
    CommentRetried
CHECK_DEADLOCK FALSE
