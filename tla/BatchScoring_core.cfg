\* One job, synchronous rescores and scorer outages, one retry.
SPECIFICATION Spec
CONSTANTS
    j1 = j1
    j2 = j2
    t1 = t1
    t2 = t2
    t3 = t3
    r1 = r1
    r2 = r2
    Absent = Absent
    NoJob = NoJob
    Jobs = {j1}
    Txns = {t1, t2, t3}
    Retriers = {r1}
    ChunkSize = 2
    MaxAttempts = 2
    MaxStalled = 1
    Concurrency = 2
    Unscorable = {}
    Refused = {}
    Events = {"ml", "rescore"}
    MaxRetries = 1
    MaxCrashes = 0
SYMMETRY SymThree
\* requests, retries and restarts are bounded: the instance stops
CHECK_DEADLOCK FALSE
INVARIANTS
    TypeOK
    Accounted
    NoStuckJob
    FinalAfterLastChunk
PROPERTIES
    FinalRowIsFrozen
