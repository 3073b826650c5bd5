\* Agent calls alone, for the promise the documentation makes.
SPECIFICATION AccessSpec
CONSTANTS
    c1 = c1 c2 = c2 w1 = w1 k1 = k1 k2 = k2 p = p q = q s1 = s1 s2 = s2 b1 = b1
    Calls = {c1, c2}
    Credentials = {k1, k2}
    Payloads = {p, q}
    MaxActive = 1
    StorageModes = {"vercel"}
    MaxIds = 3
    MaxFailures = 1
    Handlers = {w1}
    Signers = {s1, s2}
    Capabilities = {}
    Quorum = 2
    Lifetime = 1
    MaxPlans = 1
    MaxClock = 0
    Visits = {}
    ChallengeTtl = 1
    UnlockTtls = {}
    MaxKeys = 1
    MaxChallenges = 1
    MaxTokens = 1
    MaxTime = 0
    AdminCalls = {}
    MaxDrawn = 1
    MaxGeneration = 1
    Administrators = {}
    Names = {}
    AuditKeys = {}
    KeyLimit = 1
    MaxChanges = 0
\* Identifiers run out, and the Intent may be cancelled.
CHECK_DEADLOCK FALSE
SYMMETRY Interchangeable
INVARIANT ExactlyOneRequest
