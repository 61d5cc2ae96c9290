SPECIFICATION FairClientSpec
CONSTANTS
    c1 = c1
    c2 = c2
    None = None
    Clients = {c1, c2}
    PartBytes = 2
    Library <- Library_
    Scenarios <- Scenarios_
    MaxEntries = 4
    MaxDepth = 2
    MaxFiles = 2
    MaxFileBytes = 3
    MaxTotalBytes = 5
CHECK_DEADLOCK FALSE
INVARIANTS
    ExitIsTrue
PROPERTY
    UploadFinishes
