SPECIFICATION Spec
CONSTANTS
    r1 = r1  r2 = r2  r3 = r3  e1 = e1  e2 = e2  e3 = e3
    None = None
    Requests = {r1, r2, r3}
    Events = {e1, e2, e3}
    InputRows = 3
    ResultRows = 1
    ReduceResults = TRUE
    TailRows = 2
    AutoCheckpoints = FALSE
    MaxCheckpoints = 1
SYMMETRY Symmetric
INVARIANTS AnswerFollowsInput SuccessIsStored UnresolvedIsKept
PROPERTIES CommitsOnTheWhole
