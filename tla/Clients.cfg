SPECIFICATION EachSpec
SYMMETRY Interchangeable
CONSTANTS
    Verifications = {x1, x2}
    Published <- KeySets
    RefreshEvery = 5
    RefreshMin = 3
    MaxStale = 5
    FetchTime = 1
    MaxNow = 7
    MaxFailures = 1
    Procs = {x1, x2}
    Contexts = {a, b}
    AdHoc = adhoc
    Known = {a}
    Issuers = {i1}
    MaxGrants = 3
    MaxMishaps = 1
    PollDeadline = 2
    Editors = {x1, x2}
    Bodies <- SomeBodies
    Defaults <- TheDefaults
    Ceilings <- TwoCeilings
    MinRetention = 1
    MaxRevisions = 3
    MaxUnanswered = 1
    Ids = {x1, x2}
    Services = {s1}
    Keys = {k1}
    NoId = NoId
    NoKey = NoKey
    ServiceOf <- OneService
    KeyOf <- SharedKey
    HashOf <- SameHash
    Agents = {}
    MaxLate = 1
    MaxRev = 3
    MaxAttempts = 2
INVARIANT WithdrawnIsRefused SpentOnlyWhenLost CollectsOnce
PROPERTY CopyFollowsTheIssuer CacheFollowsTheUser NoEditIsLost
CHECK_DEADLOCK FALSE
