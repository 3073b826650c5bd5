\* Two agent calls use two credentials, one of which may be too many; one
\* browser call at a time while the Intent moves; two visits to unlock one
\* wallet; two calls on one Integration record, and two on one Treasury.
SPECIFICATION AccessSpec
CONSTANTS
    c1 = c1 c2 = c2 w1 = w1 k1 = k1 k2 = k2 p = p q = q s1 = s1 s2 = s2 b1 = b1
    Calls = {c1, c2}
    Credentials = {k1, k2}
    Payloads = {p, q}
    MaxActive = 1
    StorageModes = {"vercel", "filesystem"}
    MaxIds = 3
    MaxFailures = 1
    Handlers = {w1}
    Signers = {s1, s2}
    Capabilities = {b1}
    Quorum = 2
    Lifetime = 1
    MaxPlans = 2
    MaxClock = 2
    Visits = {c1, c2}
    ChallengeTtl = 1
    UnlockTtls = {1, 2}
    MaxKeys = 2
    MaxChallenges = 1
    MaxTokens = 2
    MaxTime = 2
    AdminCalls = {c1, c2}
    MaxDrawn = 3
    MaxGeneration = 2
    Administrators = {c1, c2}
    Names = {p, q}
    AuditKeys = {k1, k2}
    KeyLimit = 1
    MaxChanges = 5
\* What the bounds count runs out, and the Intent may be cancelled.
CHECK_DEADLOCK FALSE
SYMMETRY Interchangeable
INVARIANTS OneRequestPerKey AnswersNameTheResource LimitNeedsAnOverlap ContributionsKeepTheirPlan RefusalsHaveACause RedeemedOnce SignedIsAccepted ChoicesStand HistoryTellsTheState
