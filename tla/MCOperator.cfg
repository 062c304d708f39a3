CONSTANTS
    RuleIds = {1, 2, 3}
    FwWorkers = {u1}
    GensKept = 2
    MaxEdits = 2
    MaxFwFaults = 1
    ChatReqs = {"q1", "q2"}
    Batches <- ToolBatches
    Policies = {"all_writes", "auto"}
    MaxIterations = 2
    MaxRepeats = 2
    MaxSaves = 1
    Fns = {"f1", "f2"}
    Codes = {"c1", "c2"}
    MaxGen = 3
    MaxFaults = 2
    MaxWork = 3
    BuildFns = {"f1", "f2"}
    BuildWorkers = {"w1", "w2"}
    Uploads <- SomeUploads
    Entries <- SomeEntries
    DiskSize = 8
    DiskFloor = 5
    CacheCap = 3
    MaxCache = 2
    MaxBuilds = 2
    MaxTicks = 1
    MaxEvents = 1
SPECIFICATION OperatorSpec
INVARIANTS OperatorTypeOK  ChatSafe CodeSurvives 
 
\* Calls that are answered and bounds that are reached leave nothing to do.
CHECK_DEADLOCK FALSE
