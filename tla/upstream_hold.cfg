SPECIFICATION HoldFairSpec
CONSTANTS
    strata = strata  ollama = ollama
    Children = {strata, ollama}
    Upstream = strata
    Standby = ollama
    MaxOrders = 3
INVARIANTS OneMayRun WhoServes BlockedKeepsServing
PROPERTIES EveryOrderEnds ReleasedIsStarted
