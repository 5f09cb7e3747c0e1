SPECIFICATION Spec
CONSTANTS
    Setups = {t1}
    Servers = {s1}
    HostKeys = {h1, h2}
    Keys = {k1, k2, k3}
    Names = {n1, n2}
    UserLine = user
    Faults = {"crash"}
    None = none
SYMMETRY Symmetry
INVARIANTS
    ProfileUsable
    QuietFailureLeavesNothing
    PasswordAfterConfirmation
