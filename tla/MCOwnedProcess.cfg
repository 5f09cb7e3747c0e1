SPECIFICATION Spec
CONSTANTS
    Pids = {p1, p2}
    MaxBirths = 5
    MaxBoots = 2
    None = none
SYMMETRY Symmetry
INVARIANTS
    OnlyOwnSignalled
    AnswerMeansOwn
    StoppedMeansReleased
    OInv
CHECK_DEADLOCK FALSE
