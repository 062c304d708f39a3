CONSTANTS
    Bundled = {"g1", "g2"}
    ChannelCalls = {"q1", "q2"}
    MaxIssued = 2
    MaxChanges = 3
    MaxDay = 2
    Apps = {"a1", "a2"}
    TokenReqs = {t1, t2}
    MaxCodes = 1
    MaxTokens = 3
    DcrCap = 2
    MaxHalfHours = 7
    Sessions = {"s1", "s2", "s3"}
    Keys = {"k1"}
    GateReqs = {"q1", "q2"}
    AuthReqs = {"r1"}
    MemoTTL = 2
    MaxTime = 4
    MaxGen = 1
    Execs = {1, 2, 3}
    TraceIds = {1, 2}
    ChildTables <- KidTables
    DefaultPage = 1
    MaxPage = 2
    ProbeFactor = 2
    Window = 2
    MinSamples = 2
    Retention = 2
    BatchRows = 1
    MaxBatches = 2
    MaxNow = 4
    MaxRestarts = 1
    MaxTag = 2
    MaxCuts = 2
    MaxRuns = 2
SPECIFICATION ControlSpec
INVARIANTS ControlTypeOK ChannelSafe OAuthSafe AccessSafe  UpgradeSafe
PROPERTIES GrantSurvives
\* Requests that are answered and clocks that reach their bound leave nothing to do.
CHECK_DEADLOCK FALSE
