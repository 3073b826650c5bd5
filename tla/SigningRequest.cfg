SPECIFICATION Spec
CONSTANTS
    c1 = c1 c2 = c2 a = a b = b
    Calls = {c1, c2}
    Operations = {"contribute", "read", "submit", "decline"}
    Signers = {a, b}
    Managed = {TRUE}
    Policies <- FullOrReduced
    Bases <- Empty
    Uploads <- Singles
    Transactions <- UntilTwoOnly
    RequestTtl = 2
    MaxSignatures = 2
    MaxClock = 2
    MaxSequence = 1
    MaxArrivals = 2
    MaxPolicyChanges = 1
    MaxPosts = 1
SYMMETRY AnyCall
INVARIANTS BlockedNeedsAnOverlap RecordedMeansConfirmed VerdictsAreFinal ReadsSeeTheLedger
PROPERTY ApprovalsEndDeclines
CHECK_DEADLOCK FALSE
