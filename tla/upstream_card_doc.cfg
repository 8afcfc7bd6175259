SPECIFICATION HoldSpec
CONSTANTS
    strata = strata  ollama = ollama
    Children = {strata, ollama}
    Upstream = strata
    Standby = ollama
    MaxOrders = 2
INVARIANTS NeverShareTheCard
