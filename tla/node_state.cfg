SPECIFICATION FairSpec
CONSTANTS
    Games <- AllGames
    Quiet <- Nothing
    Size = 2
    Total = 3
    ForeignMin = 2
    UtilNeeds = 1
    Sustain = 2
    ForeignSustain = 2
    GameSustain = 2
    BusyExit = 1
    GameExit = 2
    Settle = 2
    Stale = 2
    Rest = 1
    Tasks = {1}
    MaxEvents = 2
    Catalog <- SomeCatalog
    Digest <- SomeDigests
    FileSize <- Sizes
    Lacking <- NotAble
    Overhead = 2
    Reserve <- Reserves
    Weight <- DefaultWeights
    DefaultCap = 2
    ThrottledCap = 1
    FreshGuard = TRUE
    Cards <- AllCards
    Worn <- Rubbed
    Worlds <- SomeWorlds
    TierLists <- SomeTierLists
    Asked <- SomeRequests
    AnyRequest <- Plainly
INVARIANTS ClaimsEnd
PROPERTIES OwnLoadIsNotForeign CardIsGivenUp PrewarmIsCaughtUp RankOneReturns
