SPECIFICATION Spec
CONSTANTS
    q1 = q1
    q2 = q2
    q3 = q3
    q4 = q4
    d1 = d1
    d2 = d2
    d3 = d3
    x = x
    proxy = proxy
    a = a
    b = b
    g = g
    Requests = {q1, q2, q3, q4, d1, d2, d3}
    Demo = {d1, d2, d3}
    Arrivals <- SmallArrivals
    Chain <- SmallChain
    Peer <- SmallPeer
    MaxHops = 3
    Trusted = {proxy}
    Allowed = {a, b}
    Malformed = {q3, d3}
    Failing = {q1}
    Ip <- SmallIp
    Guid <- SmallGuid
    ProjectLimit = 2
    IpLimit = 1
    DemoLimit = 1
    EventLimit = 1
    CourtesyPercent = 20
    BlockCents = 2
    BlockEvents = 1
    Settings <- SmallSettings
    MonthMinutes = 2
    LastMinute = 3
    MaxUpdates = 1
    None = None
CHECK_DEADLOCK FALSE
INVARIANTS
    RateHeld
    AnswersAgree
    MonthsNumbered
