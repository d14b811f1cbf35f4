\* A stop drops the listener that records a failed chunk.
SPECIFICATION Spec
CONSTANTS
    j1 = j1
    j2 = j2
    t1 = t1
    t2 = t2
    t3 = t3
    r1 = r1
    r2 = r2
    Absent = Absent
    NoJob = NoJob
    Jobs = {j1}
    Txns = {t1, t2}
    Retriers = {}
    ChunkSize = 2
    MaxAttempts = 2
    MaxStalled = 1
    Concurrency = 2
    Unscorable = {}
    Refused = {}
    Events = {"ml", "stop"}
    MaxRetries = 1
    MaxCrashes = 1
\* requests, retries and restarts are bounded: the instance stops
CHECK_DEADLOCK FALSE
INVARIANTS
    NoStuckJob
