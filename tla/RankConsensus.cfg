CONSTANTS
    Ranks <- MCRanks
    Root = 0
    Positions = {p1, p2}
    Energies = {e1, e2}
    MaxCalls = 2
    EarlyFailures = FALSE
    None = None
SPECIFICATION Spec
INVARIANTS
    TypeOK
    OneAnswerPerCall
    SnapshotsAreOfTheAnswer
    StoreIsOfTheAnswer
PROPERTIES
    EveryCallReturns
CHECK_DEADLOCK FALSE
