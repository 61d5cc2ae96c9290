SPECIFICATION IssuesSpec
CONSTANTS
    r1 = r1
    r2 = r2
    v1 = v1
    v2 = v2
    Events = {1, 2, 3}
    Issues = {1, 2}
    Variants = {v1, v2}
    Releases = {r1, r2}
    Stamps = {1, 2}
    Arrival <- Arrivals
    PageSize = 1
    Budgets <- SmallBudgets
    NoValue = NoValue
CHECK_DEADLOCK FALSE
INVARIANTS
    DeltasAreRecounts
PROPERTIES
    StateFollowsReleases
    ListedOnce
