----------------------------- MODULE TreasuryBox -----------------------------
(***************************************************************************)
(* The settings of one Treasury that its signers share: its name, its      *)
(* Audit credentials, and the history of what was done to them             *)
(* (boxService.ts, blobBoxStore.ts).  A change is two puts: the object,    *)
(* then an event of its own in the history, dated when the call began.     *)
(*                                                                         *)
(* Who may call, labels, last uses and views are left out.                 *)
(***************************************************************************)
EXTENDS Naturals, FiniteSets

CONSTANTS
    Administrators,    \* calls at a time
    Names, AuditKeys,
    KeyLimit,          \* MAX_ACTIVE_TREASURY_AUDIT_KEYS
    MaxChanges         \* bound: calls made

ASSUME TreasuryAssumption == KeyLimit \in Nat /\ MaxChanges \in Nat /\ "name" \notin AuditKeys

VARIABLES
    name,          \* boxes/treasury/<box>/metadata.json
    auditKey,      \* treasury-audit-keys/
    history,       \* boxes/treasury/<box>/audit/
    change,        \* what each call remembers
    begun,         \* calls made so far, the instant of the next one
    parallel,      \* two calls that rename were under way at once
    cut            \* what was changed by a call that left no event of it

treasuryVars == <<name, auditKey, history, change, begun, parallel, cut>>

Unnamed == "unnamed"
KeyState == {"absent", "active", "revoked"}
Subjects == {"name"} \cup AuditKeys
NoTask == [step |-> "idle", at |-> 0, subject |-> "name", value |-> Unnamed]
Task == {NoTask}
    \cup [step : {"read", "put", "record"}, at : 1 .. MaxChanges,
          subject : {"name"}, value : Names]
    \cup [step : {"read", "put", "record"}, at : 1 .. MaxChanges,
          subject : AuditKeys, value : {"active", "revoked"}]
Event == [at : 1 .. MaxChanges, subject : {"name"}, value : Names]
    \cup [at : 1 .. MaxChanges, subject : AuditKeys, value : {"active", "revoked"}]

TreasuryInit ==
    /\ name = Unnamed /\ auditKey = [k \in AuditKeys |-> "absent"]
    /\ history = {} /\ change = [a \in Administrators |-> NoTask]
    /\ begun = 0 /\ parallel = FALSE /\ cut = {}

Renames(a) == change[a].step # "idle" /\ change[a].subject = "name"
ActiveKeys == {k \in AuditKeys : auditKey[k] = "active"}
StateOf(subject) == IF subject = "name" THEN name ELSE auditKey[subject]
Done(a) == change' = [change EXCEPT ![a] = NoTask]

\* Fault: time is counted in whole seconds.
WholeSeconds(n) == n \div 2 + 1

Instant(n) == n

\* A call takes its time before it reads anything.
BeginChange(a, subject, value) ==
    /\ change[a].step = "idle" /\ begun < MaxChanges
    /\ begun' = begun + 1
    /\ change' = [change EXCEPT ![a] = [step |-> "read", at |-> Instant(begun'),
                                        subject |-> subject, value |-> value]]
    /\ parallel' = (parallel \/ (subject = "name" /\ \E other \in Administrators : Renames(other)))
    /\ UNCHANGED <<name, auditKey, history, cut>>

Rename(a, n) == BeginChange(a, "name", n)

\* The key's identifier is drawn by the call that creates it.
CreateAuditKey(a, k) ==
    /\ auditKey[k] = "absent"
    /\ \A other \in Administrators : change[other].step # "idle" => change[other].subject # k
    /\ BeginChange(a, k, "active")

RevokeAuditKey(a, k) == auditKey[k] # "absent" /\ BeginChange(a, k, "revoked")

\* What ends a call before its first put: the name it asks for is there, the
\* key is revoked already, the limit is reached.
NothingToDo(j) ==
    \/ j.subject = "name" /\ name = j.value
    \/ j.value = "revoked" /\ auditKey[j.subject] = "revoked"
    \/ j.value = "active" /\ Cardinality(ActiveKeys) >= KeyLimit

ReadSettings(a) ==
    /\ change[a].step = "read"
    /\ IF NothingToDo(change[a]) THEN Done(a)
       ELSE change' = [change EXCEPT ![a].step = "put"]
    /\ UNCHANGED <<name, auditKey, history, begun, parallel, cut>>

\* putMetadata, putAuditKey: both overwrite.
PutSettings(a) ==
    LET j == change[a] IN
    /\ j.step = "put"
    /\ IF j.subject = "name" THEN name' = j.value /\ UNCHANGED auditKey
       ELSE auditKey' = [auditKey EXCEPT ![j.subject] = j.value] /\ UNCHANGED name
    /\ change' = [change EXCEPT ![a].step = "record"]
    /\ UNCHANGED <<history, begun, parallel, cut>>

\* recordBoxAudit, putAuditEvent: an object of its own.
RecordChange(a) ==
    LET j == change[a] IN
    /\ j.step = "record"
    /\ history' = history \cup {[at |-> j.at, subject |-> j.subject, value |-> j.value]}
    /\ Done(a)
    /\ UNCHANGED <<name, auditKey, begun, parallel, cut>>

\* An await fails (also the rate limit's, before the first put), or the process
\* stops.  A retry of a renaming or a revocation after the first put finds
\* nothing to do.
GiveUp(a) ==
    /\ change[a].step # "idle"
    /\ cut' = IF change[a].step = "record" THEN cut \cup {change[a].subject} ELSE cut
    /\ Done(a)
    /\ UNCHANGED <<name, auditKey, history, begun, parallel>>

TreasuryNext ==
    \E a \in Administrators :
        \/ \E n \in Names : Rename(a, n)
        \/ \E k \in AuditKeys : CreateAuditKey(a, k) \/ RevokeAuditKey(a, k)
        \/ ReadSettings(a) \/ PutSettings(a) \/ RecordChange(a) \/ GiveUp(a)

TreasurySpec == TreasuryInit /\ [][TreasuryNext]_treasuryVars
-----------------------------------------------------------------------------
(* Properties.                                                             *)

\* Every variable keeps its type.
TreasuryTypeOK ==
    /\ name \in Names \cup {Unnamed} /\ auditKey \in [AuditKeys -> KeyState]
    /\ history \subseteq Event /\ change \in [Administrators -> Task]
    /\ begun \in 0 .. MaxChanges /\ parallel \in BOOLEAN /\ cut \subseteq Subjects

\* What listAuditEvents sorts last.
Latest(subject) ==
    {e \in history : e.subject = subject /\
        \A other \in history : other.subject = subject => other.at <= e.at}

Recording(subject) ==
    \E a \in Administrators : change[a].step = "record" /\ change[a].subject = subject

\* ux-language-and-discovery.md: editing the shared name remains audited.  The
\* newest event of the name, or of an Audit credential, says what it is now,
\* unless its event is still to be written, or never was because the call was
\* cut between its two puts; renamings that ran at the same time may be
\* dated the other way round (boxService.ts 204-293).
HistoryTellsTheState ==
    \A subject \in Subjects \ cut :
        Recording(subject) \/ (subject = "name" /\ parallel) \/
        IF Latest(subject) = {} THEN StateOf(subject) \in {Unnamed, "absent"}
        ELSE \A e \in Latest(subject) : e.value = StateOf(subject)
=============================================================================
