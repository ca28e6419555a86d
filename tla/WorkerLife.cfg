\* One user write and any two faults, among them a worker that registers again,
\* stalls or retires, with an ATC that refuses impossible requests or does not.
SPECIFICATION FairSpec
CONSTANTS
    Specs <- SpecsWorker
    StrictAtc = {TRUE, FALSE}
    MaxEdits = 1
    InformerLag = FALSE
    FaultKinds = {"crash", "atcError", "atcLost", "apiError", "apiLost", "instance", "gone", "worker"}
    MaxFaults = 2
INVARIANTS
    TypeOK
PROPERTIES
    LifecycleReached
    PhaseReported
CHECK_DEADLOCK FALSE
