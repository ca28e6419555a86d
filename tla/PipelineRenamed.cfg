\* A pipelineName is set on a Pipeline that had none.
SPECIFICATION Spec
CONSTANTS
    Configs = {"c1"}
    Names = {"default", "other"}
    Specs <- SpecsRename
    Contents = {""}
    MaxEdits = 1
    InformerLag = FALSE
    FaultKinds = {}
    MaxFaults = 0
INVARIANTS
    ReadyInSync
CHECK_DEADLOCK FALSE
