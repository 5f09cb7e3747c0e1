SPECIFICATION Spec
CONSTANTS
    Actors = {a1}
    Tids = {t1}
    Ports = {p1}
    Managed = FALSE
    Faults = {}
    None = none
PROPERTIES
    SessionEvidencePreserved
