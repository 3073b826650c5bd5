\* A call asks or reminds one signer, two signers may ask, two dispatchers
\* send; one fault.
SPECIFICATION Spec
CONSTANTS
    c1 = c1 p = p q = q r = r d1 = d1 d2 = d2
    Callers = {c1}
    Askers = {p, q}
    Recipients = {r}
    Dispatchers = {d1, d2}
    RetryBudget = 2
    MaxReminders = 1
    MaxMails = 1
    MaxReports = 2
    MaxFaults = 1
\* The Request closes and its e-mails are settled.
CHECK_DEADLOCK FALSE
INVARIANTS ProviderStateIsNewest FailedMailNeedsACause
PROPERTIES MailAsksTheMissing ImplementsLifecycle EveryNotificationIsClosed
