CONSTANTS
    guid = guid
    NoValue = NoValue
    Uploads = {u1, u2}
    Guids = {guid}
    GuidOf <- Repeated
    Sweepers = {s1, s2}
    Batch = 1
    Stuck = {u2}
SPECIFICATION FairIngestSpec
CHECK_DEADLOCK FALSE
INVARIANTS
    AcceptedIsDurable
    OneEventPerGuid
PROPERTY
    ObjectsSettle
