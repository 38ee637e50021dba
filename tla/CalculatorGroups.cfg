CONSTANTS
    N = 4
    Comms <- MCComms
    PerCalc = {0, 2}
    MaxLive = 1
SPECIFICATION Spec
INVARIANTS
    TypeOK
    NumberedBlocks
PROPERTIES
    StoresOnWholeIdleGroup
CHECK_DEADLOCK FALSE
