CONSTANTS
    CriticalWrites = {c1, c2, c3}
    ActivityWrites = {a1}
    TelemetryWrites = {t1}
    SlotCap = 2
    LaneCap = 1
    MaxBytes = 2
    BatchMax = 2
    MaxJobAttempts = 2
    MaxWriteFaults = 2
    OuterRequests = {r1, r2}
    InnerRequests = {n1}
    Workers = {w1, w2}
    MaxCallDepth = 1
    IngressLimit = 1
    MaxChunks = 1
    MaxSpawn = 1
    KVKeys = {1, 2}
    KVCallers = {k1}
    HalfRange = 2
    PageLimit = 1
    MaxKVNow = 3
SPECIFICATION DataSpec
INVARIANTS DataTypeOK WriterSafe 
PROPERTIES KVIsExpiringMap PagesComplete AcceptedEnds
\* A writer that stopped and requests that ended leave nothing to do.
CHECK_DEADLOCK FALSE
