SPECIFICATION EachSpec
SYMMETRY SwapGateways
CONSTANTS
    r1 = r1
    r2 = r2
    Replicas = {r1, r2}
    Offset <- OneAhead
    Mortal = {}
    Accepts = {r1, r2}
    TTL = 4
    Skew = 1
    CallTimeout = 1
    Slack = 1
    ClaimBy = 1
    Length = 6
    MaxAttempts = 2
    MaxActive = 1
    MaxLate = 1
    MaxTime = 6
    Fleet = 3
    SampleRounds = 2
    Wanted = 2
    MaxParallel = 2
    Pins = {0, 1}
    MaxRolls = 1
    PodNames = {"p", "q"}
    PodObjects <- SomePods
    SliceLists <- SomeSlices
    Asks <- SomeAsks
    Selectors = {"app"}
    MaxEvents = 1
    Gateways = {g1, g2}
    Browsers = {b1}
    SessionTTL = 1
    TransactionTTL = 2
    MaxSpan = 2
    MaxLogins = 2
    MaxBadWrites = 1
    Serving = {g1, g2}
    Records = {1, 2, 3}
    CreatedAt <- Instants
    Origin <- Origins
    Filters <- SomeFilters
    Limits = {1, 2}
    MaxStoreWrites = 3
INVARIANT OneSampler ArtifactIsItsManifest RoundIsBounded AnswerFollowsTheRules EveryReplicaOpens WalkIsWhole
CHECK_DEADLOCK FALSE
