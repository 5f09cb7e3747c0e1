SPECIFICATION FairSpec
CONSTANTS
    Names = {p}
    Callers = {c1}
    Main = main
    Workers = {w1, w2}
    None = none
    Other = other
PROPERTIES
    StopIsObeyed
    StopMarkDropped
    ShutdownDrains
