CONSTANTS
    Sections <- MCSections
    MaxSet <- MCMaxSet
SPECIFICATION Spec
INVARIANTS
    NothingLostSilently
    OnlyListedRepeats
CHECK_DEADLOCK FALSE
