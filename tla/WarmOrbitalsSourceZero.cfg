CONSTANTS
    k1 = k1
    k2 = k2
    None = None
    Keys = {k1, k2}
    Geometries <- MCNearGeometries
    Distance <- MCDistance
    Limits <- MCLimits
    Extrapolate = TRUE
    RingSize = 2
    MaxCalls = 5
SYMMETRY Symmetry
SPECIFICATION Spec
INVARIANTS
    SourceZeroIsTheKeysOwn
