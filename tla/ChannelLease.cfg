\* Two calls create, retry and submit two Requests; two calls provision a
\* channel.
SPECIFICATION PoolSpec
CONSTANTS
    j1 = j1 j2 = j2 r1 = r1 r2 = r2
    None = None
    Null = Null
    Jobs = {j1, j2}
    Requests = {r1, r2}
    Baseline = 1
    MaxIndex = 1
    Offset <- SameOrder
    Lifetime = 1
    Grace = 1
    MaxStarts = 2
    MaxUnread = 1
    MaxClock = 2
    p1 = p1 p2 = p2 a1 = a1
    Provisions = {p1, p2}
    Accounts = {a1}
    Cost = 2
    Low = 3
    Recovery = 4
    Funding = 3
    Amounts = {1, 3}
    Retries = 2
    MaxTopUps = 1
    MaxCalls = 3
    MaxMishaps = 2
    MaxInstant = 2
\* The clock and the calls end at their bounds.
CHECK_DEADLOCK FALSE
SYMMETRY InterchangeableCalls
INVARIANTS CollisionsHaveACause ActiveRequestKeepsItsLease AlertsAreAccounted
PROPERTY LeasesEndInTurn
