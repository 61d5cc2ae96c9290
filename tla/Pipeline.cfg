SPECIFICATION FairSpec
CONSTANTS
    e1 = e1
    e2 = e2
    m1 = m1
    m2 = m2
    Events = {e1, e2}
    Modules = {m1, m2}
    MaxHistory = 2
    Budgets <- SmallBudgets
CHECK_DEADLOCK FALSE
INVARIANTS
    QuietIsCurrent
PROPERTIES
    ReadableKept
    Settles
