SPECIFICATION Spec
CONSTANTS
    r1 = r1  r2 = r2  r3 = r3  n1 = n1  n2 = n2  a = a  b = b
    None = None
    Requests = {r1, r2, r3}
    Nodes = {n1}
    Models = {a, b}
    Managed = {r3}
    Tiers <- TiersOfThree
    Class <- OneClass
    MaxInflight <- Caps
    ThrottledMax = 1
    MaxParallel <- OnlyOneOfA
    MaxQueue = 2
    MaxWait <- ShortWaits
    AgingS = 1
    Failures = 1
    WindowS = 1
    OpenS = 1
    Offered <- AllOrB
    MaxTime = 2
    MaxReports = 1
SYMMETRY Ordinary
INVARIANTS Bookkeeping OrdinaryWithinLimits OneOrdinaryProbe
