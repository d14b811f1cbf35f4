\* One job, and the socket drops.
SPECIFICATION FairSpec
CONSTANTS
    None = None
    Jobs = {1, 2}
    Concurrency = 1
    Worlds <- JustDropped
    Reconnections = 1
    MaxRetries = 0
    MaxOutbox = 1
    MaxInbox = 1
\* the user may stop using the page and the jobs end
CHECK_DEADLOCK FALSE
PROPERTIES
    BoardCatchesUp
