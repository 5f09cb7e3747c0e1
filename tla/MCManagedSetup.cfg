SPECIFICATION Spec
CONSTANTS
    Setups = {t1, t2}
    Servers = {s1}
    HostKeys = {h1}
    Keys = {k1, k2}
    Names = {}
    UserLine = user
    Faults = {"lost"}
    None = none
SYMMETRY Symmetry
VIEW UpToOutcome
INVARIANTS
    IssuedKeysKept
    UserLinesKept
    SetupInv
