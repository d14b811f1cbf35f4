\* One board over one or two cases, with other analysts, backfills, a drawer.
SPECIFICATION Spec
CONSTANTS
    t1 = t1
    t2 = t2
    u1 = u1
    u2 = u2
    u3 = u3
    Txns = {t1, t2}
    Users = {u1, u2, u3}
    Viewers = {u3}
    Nobody = Nobody
    Unset = Unset
    None = None
    NoData = NoData
    BackfillIds = {1, 2}
    RequestIds = {1, 2}
    BackfillLimit = 1
    Me = u1
    PerColumn = 1
    Worlds <- TheWorlds
\* a user may stop
CHECK_DEADLOCK FALSE
INVARIANTS
    PageSettles
    ResolvedMatchesStatus
    DecisionsAreOwned
    OneCasePerTransaction
