\* Every kind of file, next to another client.
SPECIFICATION Spec
CONSTANTS
    t1 = t1
    t2 = t2
    a = a
    b = b
    c = c
    None = None
    Bad = Bad
    Broken = Broken
    TooBig = TooBig
    Requests = {a, b, c}
    Ids <- TheIds
    FileNames <- TheFiles
    Contents <- TheContents
    BatchSize = 2
    MaxPicks = 2
    MaxOthers = 1
    Worlds <- TheWorlds
SYMMETRY Slots
\* picks and requests are bounded: the instance stops
CHECK_DEADLOCK FALSE
INVARIANTS
    SuccessIsComplete
    NoFileLeaks
    ReportIsOfTheFile
