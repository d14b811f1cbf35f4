\* Two jobs and one, two concurrent handlers, a retry, drops and expiry.
SPECIFICATION FairSpec
CONSTANTS
    None = None
    Jobs = {1, 2}
    Concurrency = 2
    Worlds <- TheWorlds
    Reconnections = 1
    MaxRetries = 1
    MaxOutbox = 1
    MaxInbox = 1
\* the user may stop using the page and the jobs end
CHECK_DEADLOCK FALSE
INVARIANTS
    RoomMatchesPage
    OneToastPerRun
    ShownFinalWasReached
PROPERTIES
    FrozenOnlyIfMissed
    BarFills
