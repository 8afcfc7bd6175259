SPECIFICATION Spec
CONSTANTS
    MaxVersion = 2
    MaxFaults = 2
    Null = Null
    Problem = Problem
    Bases <- TwoFiles
    Changes <- SomeChanges
INVARIANTS OnlyApprovedServe NewestServes OrdersClose
PROPERTIES CanaryFirst ComesBack
