SPECIFICATION FairSpec
CONSTANTS
    r1 = r1
    r2 = r2
    Replicas = {r1}
    Offset <- OnTime
    Mortal = {r1}
    Accepts = {r1}
    TTL = 3
    Skew = 1
    CallTimeout = 1
    Slack = 0
    ClaimBy = 0
    Length = 4
    MaxAttempts = 2
    MaxActive = 2
    MaxLate = 1
    MaxTime = 7
INVARIANT SlotAccounting DrainedIsSilent
PROPERTY WorkEnds
CHECK_DEADLOCK FALSE
