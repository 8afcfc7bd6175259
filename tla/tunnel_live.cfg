SPECIFICATION FairSpec
CONSTANTS
    r1 = r1  r2 = r2  r3 = r3
    None = None
    Requests = {r1}
    MaxConn = 2
    MaxLost = 1
    Window = 2
    MaxChunks = 1
    SidLimit = 2
PROPERTIES EveryCallEnds
