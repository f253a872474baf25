SPECIFICATION FairSpec
CONSTANTS
    i1 = i1
    i2 = i2
    s1 = s1
    s2 = s2
    NoId = NoId
    Other = Other
    Ids = {i1, i2}
    Services = {s1, s2}
    ServiceOf <- TwoServices
    Contended = {s1}
    Scheduled = {i2}
    MaxLive = 1
    MaxLate = 1
    MaxOutages = 1
INVARIANT CeilingHolds
PROPERTY ReservationReturned
CHECK_DEADLOCK FALSE
