SPECIFICATION FairSpec
CONSTANTS
    r1 = r1  r2 = r2  r3 = r3  n1 = n1  n2 = n2  a = a  b = b
    None = None
    Requests = {r1, r2}
    Nodes = {n1}
    Models = {a, b}
    Managed = {}
    Tiers <- SameTiers
    Class <- OneClass
    MaxInflight <- CapOne
    ThrottledMax = 1
    MaxParallel <- NoParallelLimit
    MaxQueue = 1
    MaxWait <- ShortWaits
    AgingS = 1
    Failures = 1
    WindowS = 1
    OpenS = 1
    Offered <- AnyModels
    MaxTime = 2
    MaxReports = 2
PROPERTIES EveryRequestAnswered
