CONSTANTS
    None = None
    NumEvents = 2
    Sampled = {1, 2}
    Reservoir = {}
    KeepRecent = 1
    Schedulers = {"legacy", "v2"}
    Modes = {TRUE, FALSE}
    Runs = {r1, r2}
SPECIFICATION FairSpec
CHECK_DEADLOCK FALSE
INVARIANTS
    CounterExact
    ConfirmedDeletion
PROPERTIES
    NewestKept
    DueIsDeleted
