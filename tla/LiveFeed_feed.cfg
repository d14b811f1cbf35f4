\* Two starts, one of them this page's, that may overlap.
SPECIFICATION FairSpec
CONSTANTS
    r1 = r1
    r2 = r2
    RunIds = {r1, r2}
    Mine = {r1}
    MAX_COUNT = 2
    None = None
    MaxStops = 1
    MaxVisits = 1
\* runs and visits are bounded: the instance stops
CHECK_DEADLOCK FALSE
INVARIANTS
    TypeOK
    RunAccounts
    OneRunAtATime
PROPERTIES
    FinishedStaysFinished
    EveryRunEnds
    PageSeesTheEnd
