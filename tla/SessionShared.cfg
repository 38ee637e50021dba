CONSTANTS
    s1 = s1
    s2 = s2
    p1 = p1
    p2 = p2
    ov = ov
    h1 = h1
    ox = ox
    xx = xx
    c1 = c1
    None = None
    Unsettled = Unsettled
    NoCell = NoCell
    Plain = Plain
    Sessions = {s1, s2}
    Params = {p1, p2}
    Overlays = {}
    Cells = {c1}
    Periodic = {c1}
    Atoms <- MCAtoms
    element <- MCelement
    Elements <- MCElements
    SessionMethods <- PlainOnly
    PlainMethods <- NoMethods
    OnceMethods <- NoMethods
    Arrays <- MCArraysTwo
    Refused <- NoMethods
    WireRefused <- NoMethods
SYMMETRY Symmetry
SPECIFICATION Spec
INVARIANTS
    TypeOK
    AnswersTheCall
    LatchMatchesSetup
    ActiveSessionIsConfigured
    CacheMatchesImage
PROPERTIES
    FailureKeepsWarmBasis
