SPECIFICATION Scenarios
CONSTANTS
    KindCount = 2
    Keys = {"x"}
    Requests = {"q"}
    Wanted = "x"
    Buffer = 1
    MaxWrites = 2
    MaxDrops = 1
    MaxLosses = 1
    MaxFails = 1
    Reruns = TRUE
INVARIANT GuardedReadIsAPoint
PROPERTY NeverLeftAsleep BarrierReopens
CHECK_DEADLOCK FALSE
