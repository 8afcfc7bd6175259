SPECIFICATION Spec
CONSTANTS
    r1 = r1  r2 = r2  r3 = r3
    None = None
    Requests = {r1, r2}
    MaxConn = 2
    MaxLost = 1
    Window = 1
    MaxChunks = 1
    SidLimit = 2
SYMMETRY Symmetric
INVARIANTS OwnFramesFromTheHead NoWrongCancel NothingLeftBehind
PROPERTIES CarriesExchange
