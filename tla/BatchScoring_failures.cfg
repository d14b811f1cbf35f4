\* Scorer, database, both enqueues and worker all fail, the worker twice, under one
\* retry; chunks run one at a time and one row has no balances.
SPECIFICATION FairSpec
CONSTANTS
    j1 = j1
    j2 = j2
    t1 = t1
    t2 = t2
    t3 = t3
    r1 = r1
    r2 = r2
    Absent = Absent
    NoJob = NoJob
    Jobs = {j1}
    Txns = {t1, t2}
    Retriers = {r1}
    ChunkSize = 1
    MaxAttempts = 2
    MaxStalled = 1
    Concurrency = 1
    Unscorable = {t2}
    Refused = {}
    Events = {"ml", "db", "crash", "stop", "enqueue"}
    MaxRetries = 1
    MaxCrashes = 2
\* requests, retries and restarts are bounded: the instance stops
CHECK_DEADLOCK FALSE
PROPERTIES
    EndsOrShowsWhy
