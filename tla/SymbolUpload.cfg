SPECIFICATION Spec
CONSTANTS
    Rows = {r1}
    a = a
    b = b
    x = x
    Artifacts = {a, b}
    Files = {a, b}
    Checksum <- Declared
    Sessions = {s1, s2}
    Handlers = {h1, h2}
    None = None
SYMMETRY Symmetry
CHECK_DEADLOCK FALSE
INVARIANTS
    CanonicalIsVerified
    RowIsTruthful
PROPERTY
    PublishedKept
