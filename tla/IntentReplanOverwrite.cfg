\* Two requests replan the same revision of an Integration-owned Intent.
SPECIFICATION Spec
CONSTANTS
    h1 = h1 h2 = h2 s1 = s1 s2 = s2 s3 = s3 x1 = x1 x2 = x2 calm = calm moved = moved
    None = None
    Handlers = {h1, h2}
    Replanners = {h1, h2}
    Operations = {"replan"}
    Signers = {s1}
    Entries = {1}
    Quorums = {{s1}}
    Structures = {calm, moved}
    Executors = {x1}
    IntegrationOwned = TRUE
    AuthWindow = 1
    MaxLedger = 1
    MaxPlans = 3
    MaxSequence = 1
SYMMETRY Interchangeable

INVARIANT PlanUpdatesAreReported
