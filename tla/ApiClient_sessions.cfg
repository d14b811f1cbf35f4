\* Two overlapping calls while tokens expire; logouts, reloads and failures.
SPECIFICATION Spec
CONSTANTS
    None = None
    Calls = {1, 2}
    AccessTTL = 1
    RefreshTTL = 2
    MaxTokens = 4
    MaxNow = 9
    MaxReloads = 1
    Attempts = {1, 2}
    MaxHits = 1
    Window = 1
    Worlds <- TheWorlds
\* the clock and the tokens are bounded: the instance stops
CHECK_DEADLOCK FALSE
INVARIANTS
    RevokedIsRefused
    SessionSurvives
    ColdOnlyInFlight
    RetryAfterIsHonest
    DemotionTakesEffect
