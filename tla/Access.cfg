SPECIFICATION Spec
CONSTANTS
    l1 = l1
    l2 = l2
    Users = {a, b}
    Subjects = {g1}
    Logins = {l1, l2}
    Sessions = {s1, s2}
    Invitations = {i1, i2}
    IngestKeys = {k1, k2}
    UploadTokens = {t1}
    Handlers = {h1, h2}
    MaxEmailAttempts = 1
    Budgets <- SmallBudgets
    None = None
SYMMETRY Symmetry
CHECK_DEADLOCK FALSE
INVARIANTS
    TokenSpentOnce
    LastOwnerKept
PROPERTY
    ChangesAuthorized
