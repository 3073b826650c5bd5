\* An Integration-owned Intent up to the observed execution of its package,
\* while a signer may be removed: in PostgreSQL, where one request at a time
\* replans; in blobs, where two calls work on it while the operator moves it.
SPECIFICATION StoresSpec
CONSTANTS
    h1 = h1 h2 = h2 s1 = s1 s2 = s2 s3 = s3 x1 = x1 x2 = x2 calm = calm moved = moved
    c1 = c1 c2 = c2 o = o
    None = None
    Handlers = {h1, h2}
    Replanners = {h1}
    Operations = {"contribute", "replan", "prepare", "cancel", "reconcile", "rotate"}
    Signers = {s1}
    Entries = {1}
    Quorums = {{s1}}
    Structures = {calm}
    Executors = {x1, x2}
    IntegrationOwned = TRUE
    AuthWindow = 1
    MaxLedger = 1
    MaxPlans = 2
    MaxSequence = 1
    Absent = Absent
    ApiCalls = {c1, c2}
    Purposes = {"contribute", "replan", "prepare", "cancel", "reconcile"}
    Contributors = {s1}
    Sources = {x1, x2}
    Origin = o
SYMMETRY InterchangeableRequests
INVARIANTS MigrationTypeOK AnswersAreDurable FactsNameTheirPlan OneExecutor OutboxMatchesFacts ObservationsAreTrue CutoverKeepsFacts FailedPassesHaveACause AnsweredPlansAreKept
PROPERTY ImplementsLifecycle
