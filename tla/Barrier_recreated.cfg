SPECIFICATION Spec
CONSTANTS
    KindCount = 2
    Keys = {"x"}
    Requests = {}
    Wanted = "x"
    Buffer = 1
    MaxWrites = 1
    MaxDrops = 0
    MaxLosses = 1
    MaxFails = 1
    Reruns = TRUE
INVARIANT GuardedReadIsAPoint
CHECK_DEADLOCK FALSE
