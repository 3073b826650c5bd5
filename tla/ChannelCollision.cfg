\* One Request is created by two calls while no time passes and every read
\* succeeds.
SPECIFICATION Spec
CONSTANTS
    j1 = j1 j2 = j2 r1 = r1 r2 = r2
    None = None
    Jobs = {j1, j2}
    Requests = {r1, r2}
    Baseline = 2
    MaxIndex = 2
    Offset <- SameOrder
    Lifetime = 1
    Grace = 1
    MaxStarts = 2
    MaxUnread = 0
    MaxClock = 0
\* The calls end at their bounds.
CHECK_DEADLOCK FALSE
SYMMETRY Interchangeable
INVARIANT OneActiveRequestPerChannel
