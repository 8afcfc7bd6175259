SPECIFICATION Spec
CONSTANTS
    r1 = r1  r2 = r2  r3 = r3  r4 = r4
    None = None
    Requests = {r1, r2, r3, r4}
    Kind <- FourKinds
    MaxInflight <- Slots
    Budget = 1
    DefaultClass = 2
    MaxClass = 1
    MaxEvents = 1
    Tokens = {"word", "xml", "json", "lt", "rest", "wrap"}
    MaxBuffer = 4
    Nothing = Nothing
    Ids = {a, b}
    ToolNames = {"light"}
    Nobody = Nobody
    Window = 1
    AuditEvery = 2
    OkFor = 2
    FailFor = 2
    FailMax = 2
    SessionFor = 1
    MaxSessions = 2
INVARIANTS OneVoice ReservationHasOwner OneRunUnlessSpoiled OverspendIsBounded PersonalStaysHome
