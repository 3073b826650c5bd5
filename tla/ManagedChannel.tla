--------------------------- MODULE ManagedChannel ---------------------------
(***************************************************************************)
(* MultiSigTools-managed execution of Classic payments: the pool of        *)
(* channel accounts that lend a transaction source, and a sequence number, *)
(* to one Request at a time.  A lease is a row of PostgreSQL; a Request    *)
(* becomes durable only after its channel was leased, loaded from Horizon  *)
(* and used to build and sign the transaction.                             *)
(*                                                                         *)
(* A job is a call of createIntegrationPaymentSigningRequest, a step is    *)
(* what it does between two awaits.  A Request's id is derived from its    *)
(* idempotency key, so calls with the same key work on the same Request,   *)
(* with the same payment.  One network; every lease records its index.     *)
(***************************************************************************)
EXTENDS Integers, FiniteSets

CONSTANTS
    Jobs,          \* calls that can be in progress at the same time
    Requests,      \* Request ids
    None,
    Baseline,      \* configured pool size
    MaxIndex,      \* bound: last channel index that is derived
    Offset,        \* where a Request starts in the baseline pool
    Lifetime,      \* lifetime of the transaction
    Grace,         \* the 60 s a lease outlives it
    MaxStarts,     \* bound: calls per Request
    MaxUnread,     \* bound: Requests that a catch block could not read
    MaxClock       \* bound: instants

ASSUME ChannelAssumption ==
    /\ Baseline \in Nat \ {0} /\ MaxIndex \in Nat /\ MaxIndex >= Baseline
    /\ Offset \in [Requests -> 0 .. Baseline - 1]
    /\ {Lifetime, Grace, MaxStarts, MaxUnread, MaxClock} \subseteq Nat

VARIABLES
    clock,
    lease,      \* mst_stellar.classic_managed_channel_leases, by channel
    stored,     \* mst_stellar.classic_requests, with their submission
    sequence,   \* sequence number of each channel account on the ledger
    onLedger,   \* Requests whose transaction is on the ledger
    job,        \* what each call remembers
    starts,     \* calls made so far for each Request
    unread      \* stored Requests that a catch block took for missing

vars == <<clock, lease, stored, sequence, onLedger, job, starts, unread>>
store == <<lease, stored, sequence, onLedger>>

Channels == 0 .. MaxIndex

Lease == [request : Requests, expires : Nat]
StoredRequest == [channel : Channels, sequence : Nat, createdAt : Nat,
                  validUntil : Nat, submitted : BOOLEAN]
Job == [at : {"idle", "list", "find", "claim", "load", "build", "write",
              "failed", "drop"},
        request : Requests \cup {None}, now : Nat,
        candidates : SUBSET Channels, tried : Channels, channel : Channels,
        reused : BOOLEAN, sequence : Nat, validUntil : Nat]
Idle == [at |-> "idle", request |-> None, now |-> 0, candidates |-> {},
         tried |-> 0, channel |-> 0, reused |-> FALSE, sequence |-> 0,
         validUntil |-> 0]

ASSUME NoneAssumption ==
    None \notin Requests /\ None \notin Lease /\ None \notin StoredRequest

Leased == {c \in Channels : lease[c] # None}
HeldBy(r) == {c \in Leased : lease[c].request = r}

Init ==
    /\ clock = 0
    /\ lease = [c \in Channels |-> None]
    /\ stored = [r \in Requests |-> None]
    /\ sequence = [c \in Channels |-> 0]
    /\ onLedger = {}
    /\ job = [j \in Jobs |-> Idle]
    /\ starts = [r \in Requests |-> 0] /\ unread = {}

-----------------------------------------------------------------------------
(* The pool and its table.                                                 *)

\* Positions of the candidates: the baseline pool and the expansion, which
\* reaches beyond every leased channel.
Reach == {k \in Channels : \/ k <= Baseline + Cardinality(Leased)
                           \/ \E c \in Leased : k <= c + 1}

\* The k-th candidate of Request r: the baseline pool from the Request's own
\* offset round, then the expansion channels in order.
Candidate(r, k) ==
    IF k < Baseline THEN (Offset[r] + k) % Baseline ELSE k

\* Fault: the lease is as long as the transaction is to live.
NoGrace(now) == now + Lifetime

\* leaseExpiresAt, counted from the call.
LeaseExpiry(now) == now + Lifetime + Grace

\* Fault: no constraint on request_id.
NotUnique(c, r) == TRUE

\* UNIQUE constraint on request_id.
Unique(c, r) == HeldBy(r) \subseteq {c}

\* Fault: the row is compared with the new expiry.
NewerWins(c, r, leasedAt) ==
    lease[c] # None => \/ lease[c].request = r
                       \/ lease[c].expires <= LeaseExpiry(leasedAt)

\* WHERE of the upsert: the row is the Request's own, or expired.
Claimable(c, r, leasedAt) ==
    lease[c] # None => \/ lease[c].request = r
                       \/ lease[c].expires <= leasedAt

Released(r) == [c \in Channels |-> IF c \in HeldBy(r) THEN None ELSE lease[c]]

-----------------------------------------------------------------------------
(* createIntegrationPaymentSigningRequest.                                 *)

End(j) == job' = [job EXCEPT ![j] = Idle]
Goto(j, label) == job' = [job EXCEPT ![j].at = label]

\* No durable Request has this id; otherwise the call answers with it.
Begin(j, r) ==
    /\ job[j].at = "idle" /\ stored[r] = None /\ starts[r] < MaxStarts
    /\ starts' = [starts EXCEPT ![r] = @ + 1]
    /\ job' = [job EXCEPT ![j] = [Idle EXCEPT !.at = "list", !.request = r,
                                               !.now = clock]]
    /\ UNCHANGED <<clock, store, unread>>

ListLeases(j) ==
    /\ job[j].at = "list"
    /\ job' = [job EXCEPT ![j].at = "find", ![j].candidates = Reach]
    /\ UNCHANGED <<clock, store, starts, unread>>

\* A lease the Request already has is used as it is, expired or not.
FindLease(j) ==
    /\ job[j].at = "find"
    /\ IF HeldBy(job[j].request) # {}
       THEN \E c \in HeldBy(job[j].request) :
                job' = [job EXCEPT ![j].at = "load", ![j].channel = c,
                                   ![j].reused = TRUE]
       ELSE Goto(j, "claim")
    /\ UNCHANGED <<clock, store, starts, unread>>

\* One upsert.  The row of another channel makes it fail; the error, like an
\* exhausted pool, leaves the call before its try block.
Claim(j) ==
    LET r == job[j].request
        c == Candidate(r, job[j].tried)
    IN  /\ job[j].at = "claim"
        /\ \/ /\ ~Claimable(c, r, job[j].now)
              /\ IF job[j].tried + 1 \in job[j].candidates
                 THEN job' = [job EXCEPT ![j].tried = @ + 1]
                 ELSE End(j)
              /\ UNCHANGED lease
           \/ /\ Claimable(c, r, job[j].now) /\ Unique(c, r)
              /\ lease' = [lease EXCEPT ![c] =
                     [request |-> r, expires |-> LeaseExpiry(job[j].now)]]
              /\ job' = [job EXCEPT ![j].at = "load", ![j].channel = c]
           \/ /\ Claimable(c, r, job[j].now) /\ ~Unique(c, r)
              /\ End(j)
              /\ UNCHANGED lease
        /\ UNCHANGED <<clock, stored, sequence, onLedger, starts, unread>>

\* Horizon's account of the channel; its sequence number is used next.
LoadAccount(j) ==
    /\ job[j].at = "load"
    /\ job' = [job EXCEPT ![j].at = "build",
                       ![j].sequence = sequence[job[j].channel]]
    /\ UNCHANGED <<clock, store, starts, unread>>

\* Only a lease that this call claimed is given back, whoever uses it now.
LoadFails(j) ==
    /\ job[j].at = "load"
    /\ lease' = IF job[j].reused THEN lease ELSE Released(job[j].request)
    /\ End(j)
    /\ UNCHANGED <<clock, stored, sequence, onLedger, starts, unread>>

\* prepareClassicPayment sets the time bounds, the channel signs.
Build(j) ==
    /\ job[j].at = "build"
    /\ job' = [job EXCEPT ![j].at = "write",
                       ![j].validUntil = clock + Lifetime]
    /\ UNCHANGED <<clock, store, starts, unread>>

\* createIntegrationSigningRequest inserts the Request, or finds that another
\* call with the same key did; reading it back may fail.
Write(j) ==
    LET r == job[j].request
    IN  /\ job[j].at = "write"
        /\ stored' = [stored EXCEPT ![r] =
               IF @ # None THEN @
               ELSE [channel |-> job[j].channel,
                     sequence |-> job[j].sequence,
                     createdAt |-> job[j].now,
                     validUntil |-> job[j].validUntil,
                     submitted |-> FALSE]]
        /\ End(j) \/ Goto(j, "failed")
        /\ UNCHANGED <<clock, lease, sequence, onLedger, starts, unread>>

\* Inside the try block: network parameters, inspection, quota, the INSERT.
CreationFails(j) ==
    /\ job[j].at \in {"build", "write"}
    /\ Goto(j, "failed")
    /\ UNCHANGED <<clock, store, starts, unread>>

\* Fault: a failed call always gives the lease back.
AlwaysDrop(j) ==
    /\ job[j].at = "failed"
    /\ Goto(j, "drop")
    /\ UNCHANGED <<clock, store, starts, unread>>

\* catch: is the Request durable?  A read that fails counts as no.
ReadDurable(j) ==
    LET r == job[j].request
    IN  /\ job[j].at = "failed"
        /\ \/ /\ IF stored[r] = None THEN Goto(j, "drop") ELSE End(j)
              /\ UNCHANGED unread
           \/ /\ stored[r] # None /\ Cardinality(unread \cup {r}) <= MaxUnread
              /\ unread' = unread \cup {r}
              /\ Goto(j, "drop")
        /\ UNCHANGED <<clock, store, starts>>

\* catch: it was not, or could not be read.
Drop(j) ==
    /\ job[j].at = "drop"
    /\ lease' = Released(job[j].request)
    /\ End(j)
    /\ UNCHANGED <<clock, stored, sequence, onLedger, starts, unread>>

\* The process stops, or the call is cut off.
Stop(j) ==
    /\ job[j].at # "idle"
    /\ End(j)
    /\ UNCHANGED <<clock, store, starts, unread>>

-----------------------------------------------------------------------------
(* Submission, once the signers have signed.                               *)

\* Not confirmed and not expired.
Active(r) == stored[r] # None
             /\ ~stored[r].submitted /\ clock < stored[r].validUntil

\* The ledger takes a transaction that has the channel's next number.
Submit(r) ==
    /\ Active(r) /\ r \notin onLedger
    /\ sequence[stored[r].channel] = stored[r].sequence
    /\ sequence' = [sequence EXCEPT ![stored[r].channel] = @ + 1]
    /\ onLedger' = onLedger \cup {r}
    /\ UNCHANGED <<clock, lease, stored, job, starts, unread>>

\* After the answer, or when a later call looks the transaction up.
PersistSubmission(r) ==
    /\ r \in onLedger /\ ~stored[r].submitted
    /\ stored' = [stored EXCEPT ![r].submitted = TRUE]
    /\ UNCHANGED <<clock, lease, sequence, onLedger, job, starts, unread>>

\* Best effort, after every submission that finds the Request confirmed.
ReleaseLease(r) ==
    /\ stored[r] # None /\ stored[r].submitted /\ HeldBy(r) # {}
    /\ lease' = Released(r)
    /\ UNCHANGED <<clock, stored, sequence, onLedger, job, starts, unread>>

Tick ==
    /\ clock < MaxClock
    /\ clock' = clock + 1
    /\ UNCHANGED <<store, job, starts, unread>>

Next ==
    \/ \E j \in Jobs :
           \/ \E r \in Requests : Begin(j, r)
           \/ ListLeases(j) \/ FindLease(j) \/ Claim(j)
           \/ LoadAccount(j) \/ LoadFails(j)
           \/ Build(j) \/ Write(j) \/ CreationFails(j)
           \/ ReadDurable(j) \/ Drop(j) \/ Stop(j)
    \/ \E r \in Requests : Submit(r) \/ PersistSubmission(r) \/ ReleaseLease(r)
    \/ Tick

Spec == Init /\ [][Next]_vars

-----------------------------------------------------------------------------
(* Properties.                                                             *)

\* Every variable keeps its type; no Request has two leases, and what is on
\* the ledger was stored.
TypeOK ==
    /\ clock \in 0 .. MaxClock
    /\ lease \in [Channels -> Lease \cup {None}]
    /\ \A c, d \in Leased : lease[c].request = lease[d].request => c = d
    /\ stored \in [Requests -> StoredRequest \cup {None}]
    /\ sequence \in [Channels -> Nat]
    /\ onLedger \subseteq {r \in Requests : stored[r] # None}
    /\ job \in [Jobs -> Job]
    /\ starts \in [Requests -> 0 .. MaxStarts]
    /\ unread \subseteq Requests

SameChannel(r, q) == r # q /\ Active(r) /\ Active(q)
                     /\ stored[r].channel = stored[q].channel

\* "One channel carries at most one active Request at a time."
OneActiveRequestPerChannel ==
    \A r, q \in Requests : ~SameChannel(r, q)

\* The lease that a Request's call claimed is meant to last until here, and
\* its transaction was built too late to expire before.  Nothing in the code
\* limits the time from the call to the build.
LeaseEnd(r) == stored[r].createdAt + Lifetime + Grace
BuiltLate(r) == stored[r].validUntil > LeaseEnd(r)

\* Two active Requests meet on a channel only if one of them was created by
\* more than one call (a retry, or two calls with one key), was given up
\* because it could not be read, or was built after the grace.  Expiry,
\* reclaimed rows, pool growth, other failures and stops cannot bring it about.
CollisionsHaveACause ==
    \A r, q \in Requests :
        SameChannel(r, q) =>
            \E s \in {r, q} : starts[s] > 1 \/ s \in unread \/ BuiltLate(s)

\* An active Request created by a single call has its channel's lease until
\* the grace is over, unless a catch block could not read the Request: every
\* other failure leaves the lease of what was stored alone.  A transaction
\* that is not built late expires before that.
ActiveRequestKeepsItsLease ==
    \A r \in Requests :
        Active(r) /\ starts[r] = 1 /\ r \notin unread /\ clock < LeaseEnd(r) =>
            lease[stored[r].channel] = [request |-> r, expires |-> LeaseEnd(r)]

\* A lease that has not expired ends only when its Request is confirmed or a
\* call for the same Request gives up; another Request never takes it over.
EndsInTurn(c) ==
    /\ lease[c].expires > clock
    /\ lease'[c] = None \/ lease'[c].request # lease[c].request
    => /\ lease'[c] = None
       /\ \/ /\ stored[lease[c].request] # None
             /\ stored[lease[c].request].submitted
          \/ \E j \in Jobs : /\ job[j].request = lease[c].request
                             /\ job[j].at \in {"load", "drop"}
                             /\ job'[j] = Idle

LeasesEndInTurn == [][\A c \in Leased : EndsInTurn(c)]_vars
=============================================================================
