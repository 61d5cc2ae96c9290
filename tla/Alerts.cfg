SPECIFICATION FairSpec
CONSTANTS
    r1 = r1
    r2 = r2
    e1 = e1
    e2 = e2
    w1 = w1
    w2 = w2
    Rules = {r1, r2}
    IssueRules = {r2}
    NumScopes = 2
    Schedulers = {e1, e2}
    Workers = {w1, w2}
    RulePage = 1
    IssuePage = 1
    MaxAttempt = 2
    MaxGeneration = 6
    Budgets <- SmallBudgets
    None = None
CHECK_DEADLOCK FALSE
INVARIANTS
    StateIsNotified
    SuppressedInPairs
PROPERTIES
    DeliveryIsFinal
    AlertsComeToRest
