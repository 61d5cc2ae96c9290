SPECIFICATION FairSpec
CONSTANTS
    Jobs = {j1}
    Projects = {p1}
    p1 = p1
    ProjectOf <- OneProject
    Workers = {w1, w2}
    Tokens = {t1, t2, t3}
    None = None
    MaxAttempt = 2
    WorkerConcurrency = 1
    ProjectConcurrency = 1
    MaxFaults = 2
    MaxRequests = 1
CHECK_DEADLOCK FALSE
INVARIANTS
    LeaseCopyCurrent
    BudgetRespected
PROPERTY
    ImplementsLeaseQueue
    
