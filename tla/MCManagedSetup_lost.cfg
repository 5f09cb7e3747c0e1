SPECIFICATION Spec
CONSTANTS
    Setups = {t1}
    Servers = {s1}
    HostKeys = {h1}
    Keys = {k1}
    Names = {}
    UserLine = user
    Faults = {"lost"}
    None = none
INVARIANTS
    QuietFailureLeavesNothing
