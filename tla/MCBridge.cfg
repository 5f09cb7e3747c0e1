SPECIFICATION Spec
CONSTANTS
    Actors = {a1, a2}
    Tids = {t1, t2, t3}
    Ports = {p1, p2}
    Managed = FALSE
    Faults = {}
    None = none
SYMMETRY Symmetry
INVARIANTS
    SupervisorProfileFresh
    ProcessOnRecord
    OneProcess
    StoppedMeansStopped
    DeletedLeavesNoProcess
