\* A submit call races the ledger.
SPECIFICATION Spec
CONSTANTS
    c1 = c1 c2 = c2 a = a b = b
    Calls = {c1}
    Operations = {"contribute", "submit"}
    Signers = {a, b}
    Managed = {FALSE}
    Policies <- OnlyFull
    Bases <- Empty
    Uploads <- Singles
    Transactions <- UntilTwoOnly
    RequestTtl = 2
    MaxSignatures = 2
    MaxClock = 2
    MaxSequence = 1
    MaxArrivals = 1
    MaxPolicyChanges = 0
    MaxPosts = 1
INVARIANT SubmitVerdictsAreFinal
CHECK_DEADLOCK FALSE
