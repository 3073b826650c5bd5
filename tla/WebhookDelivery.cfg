\* Two dispatchers, one event, one redelivery; two faults of any kind.
SPECIFICATION Spec
CONSTANTS
    d1 = d1
    d2 = d2
    Dispatchers = {d1, d2}
    RetryBudget = 1
    MaxChanges = 1
    MaxFaults = 2
    MaxRedeliveries = 1
INVARIANTS ClaimsAreExclusive DeliveredMeansAccepted ClosedWithEvidence AttemptsAreBounded
PROPERTY EveryEventIsClosed
