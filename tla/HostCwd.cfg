CONSTANTS
    h1 = h1
    h2 = h2
    o1 = o1
    o2 = o2
    abs = abs
    rel = rel
    Library = Library
    None = None
    Dirs <- MCDirs
    HostDirs = {h1, h2}
    Outputs = {abs}
    Names = {rel}
    child <- MCchild
    States <- MCStates
SPECIFICATION Spec
INVARIANTS
    TypeOK
    LibraryStaysClean
    ScfInOutputDirectory
    ReturnsHome
