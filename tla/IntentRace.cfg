\* Two requests that both may replan race for an Intent of one signer, or need
\* two of three signers.
SPECIFICATION RaceSpec
CONSTANTS
    h1 = h1 h2 = h2 s1 = s1 s2 = s2 s3 = s3 x1 = x1 x2 = x2 calm = calm moved = moved
    None = None
    Handlers = {h1, h2}
    Replanners = {h1, h2}
    Operations = {"contribute", "replan", "rotate", "prepare"}
    Signers = {s1, s2, s3}
    Entries = {1}
    Quorums <- TwoOfThree
    Structures = {calm, moved}
    Executors = {x1}
    IntegrationOwned = FALSE
    AuthWindow = 1
    MaxLedger = 1
    MaxPlans = 4
    MaxSequence = 1
SYMMETRY InterchangeableRequests
INVARIANT PreparedAuthIsComplete
PROPERTY RevisionsAreContiguous
