SPECIFICATION FairSpec
CONSTANTS
    Actors = {a1, a2}
    Tids = {t1}
    Ports = {p1}
    Managed = FALSE
    Faults = {"crash", "wedge"}
    None = none
PROPERTIES
    StopEnds
