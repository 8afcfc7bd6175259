SPECIFICATION FairSpec
CONSTANTS
    w1 = w1  w2 = w2  alice = alice  bob = bob  home = home  house = house
    None = None
    Workers = {w1, w2}
    MaxSends = 2
    MaxResubmits = 1
    MaxRounds = 1
    MaxFaults = 1
    Nothing = Nothing
    Clients = {alice, bob}
    Projects = {home}
    Shared = {house}
    Highest = 2
    Absent = Absent
    MaxScore = 1
    MaxSize = 1
    MaxResults = 3
    MaxContent = 2
INVARIANTS DeletedIsGone CompletedIsStored OneExtraction
PROPERTIES EveryJobSettles
