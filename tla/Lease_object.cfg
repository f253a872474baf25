SPECIFICATION Spec
CONSTANTS
    r1 = r1
    r2 = r2
    Replicas = {r1}
    Offset <- OnTime
    Mortal = {}
    Accepts = {r1}
    TTL = 4
    Skew = 1
    CallTimeout = 1
    Slack = 1
    ClaimBy = 0
    Length = 6
    MaxAttempts = 1
    MaxActive = 1
    MaxLate = 1
    MaxTime = 6
INVARIANT CompletedHasObject
CHECK_DEADLOCK FALSE
