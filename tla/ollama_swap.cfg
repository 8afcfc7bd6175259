SPECIFICATION Spec
CONSTANTS
    MaxVersion = 1
    MaxFaults = 1
INVARIANTS InstallationIsWhole
PROPERTIES SwapSparesRequests ReadyIsAnswered
