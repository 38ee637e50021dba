CONSTANTS
    s1 = s1
    s2 = s2
    p1 = p1
    p2 = p2
    ov = ov
    h1 = h1
    ox = ox
    xx = xx
    c1 = c1
    None = None
    Unsettled = Unsettled
    NoCell = NoCell
    Plain = Plain
    Sessions = {s1}
    Params = {p1, p2}
    Overlays = {ov}
    Cells = {}
    Periodic = {}
    Atoms <- MCAtoms
    element <- MCelement
    Elements <- MCElements
    SessionMethods <- AllMethods
    PlainMethods <- OneOfEach
    OnceMethods <- OneOfEach
    Arrays <- MCArraysOther
    Refused <- MCRefused
    WireRefused <- MCWireRefused
SPECIFICATION Spec
INVARIANTS
    AnswersTheCall
    ActiveSessionIsConfigured
PROPERTIES
    ImplementsPromise
    TopologyFreezesSession
