SPECIFICATION Spec
CONSTANTS
    Actors = {a1, a2}
    Tids = {t1, t2}
    Ports = {p1, p2}
    Managed = FALSE
    Faults = {"crash", "disk", "wedge"}
    None = none
SYMMETRY Symmetry
INVARIANTS
    EvidenceFitsProfile
    BInv
PROPERTIES
    EvidenceOutlivesProcess
    OnlyStaleSessionsEnded
    DeleteConfirmsRelease
    ImplementsProfileFiles
