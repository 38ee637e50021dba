CONSTANTS
    Ranks <- MCRanks
    Root = 0
    Positions = {p1, p2}
    Energies = {e1, e2}
    MaxCalls = 2
    EarlyFailures = TRUE
    None = None
SPECIFICATION Spec
INVARIANTS
    SameBranch
CHECK_DEADLOCK FALSE
