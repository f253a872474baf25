SPECIFICATION EachSpec
CONSTANTS
    r1 = r1
    r2 = r2
    Requests = {r1, r2}
    OIDC = TRUE
    PGO = TRUE
    MaxConcurrentProfiles = 1
    CPUSeconds = 1
    TraceSeconds = 2
    Durations = {0, 2}
    ConfirmCallTimeout = 1
    HeaderDeadlineGrace = 1
    DefaultHeaderDeadline = 2
    BudgetGrace = 2
    DrainSlack = 2
    DrainDelay = 1
    Certs = {1, 2, 3}
    PrivateKeys = {1, 2}
    SignedFor <- Renewed
    UserFiles <- SomeUserFiles
    Inline <- InlineUsers
    Realms = {"x"}
    FirstCert = 1
    FirstUsers <- NoFileUsers
    MaxEdits = 4
INVARIANT NoSilentAnswer DrainCoversAdmitted DiscoveryOutlivesWork
PROPERTY BlameIsRight NothingHangs LastGoodIsServed
CHECK_DEADLOCK FALSE
