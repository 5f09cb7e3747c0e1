SPECIFICATION Spec
CONSTANTS
    Names = {p}
    Callers = {c1, c2}
    Main = main
    Workers = {w1, w2, w3}
    None = none
    Other = other
SYMMETRY Symmetry
INVARIANTS
    OneLiveWorker
    StopIsAlone
    StopMarkOwned
    ExitedMeansExited
    OwnLockNeverBlocks
    ShutdownAccountsForAll
    IInv
PROPERTIES
    ImplementsProfileFiles
