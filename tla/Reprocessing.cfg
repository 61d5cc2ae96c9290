SPECIFICATION FairSpec
CONSTANTS
    NumEvents = 2
    Requests = {r1, r2}
    Automatic = {r1}
    Scope <- WholeProject
    Limit = 1
    MaxActive = 1
    Settings <- RetriesOrDeletion
    Workers = {w1}
    None = None
CHECK_DEADLOCK FALSE
INVARIANTS
    NoLostGeneration
    SelectionExact
    CompletedIsTrue
PROPERTY
    RequestsFinish
