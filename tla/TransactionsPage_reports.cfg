\* All small networks, the pages of a list, the radar, and a write at any moment.
SPECIFICATION Spec
CONSTANTS
    t1 = t1
    t2 = t2
    t3 = t3
    None = None
    Ids <- TheIds
    Accounts = {1, 2, 3}
    Times = {0, 1, 2, 3}
    HoursPerDay = 2
    CountryOf <- TheCountries
    Arrivals <- TheArrivals
    Picked = {t1}
    PageSize = 1
    MaxPage = 3
    MaxPoints = 1
    MaxWrites = 1
    IdOf <- TheIdOf
    ExportBatch = 2
    Worlds <- TheWorlds
\* every query is answered, and writes and pages are bounded
CHECK_DEADLOCK FALSE
INVARIANTS
    ReportsDriftByWrites
    NetworkIsConsistent
    PagesCover
    EmptyMeansNoMatch
    SampleIsMarked
    ExportIsWhole
