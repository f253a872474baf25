SPECIFICATION EachSpec
CONSTANTS
    r1 = r1
    r2 = r2
    Replicas = {r1, r2}
    Offset <- OneAhead
    Spread = 1
    Periods = {1, 3}
    Shortest = 1
    Hash <- Spreading
    Margin = 3
    Skew = 1
    MaxStall = 2
    MaxChanges = 1
    LastTick = 3
    MaxTime = 10
    Last = 3
    Done = {1, 2}
    MaxAttempts = 2
    Chunks = 2
    MaxListCollections = 2
    MaxMishaps = 1
INVARIANT TypeOK OncePerSlot
INVARIANT CommittedIsKept ExpiredHasNoObject LatestIsNewest NoSpoiltRead
PROPERTY SweptInTheEnd
CHECK_DEADLOCK FALSE
