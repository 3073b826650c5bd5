--------------------------- MODULE SigningRequest ---------------------------
(***************************************************************************)
(* One classic signing Request: a frozen transaction, the signed envelopes *)
(* contributed to it, declines, its submission, and the ledger.            *)
(*                                                                         *)
(* A call is a handler of routes/request.ts; its steps are what it does    *)
(* between two awaits.  What a call has read stays with it, however the    *)
(* store, the signer policy and the ledger move.  No step locks the        *)
(* Request across an await; the store only ever adds rows.                 *)
(*                                                                         *)
(* A contribution is named by the envelope it uploads (its digest) and     *)
(* carries the instant its call started, receivedAt: contributions are     *)
(* replayed in that order, not in the order they were stored.  Starts are  *)
(* numbered, so two of them are never simultaneous.                        *)
(***************************************************************************)
EXTENDS TransactionPreconditions, CoreAuthorization, FiniteSets

CONSTANTS
    Calls,             \* handlers running at once
    Operations,        \* what they may be: subset of the four below
    Signers,
    Policies,          \* signer policies the account may have
    Bases,             \* signatures the envelope was created with
    Uploads,           \* signed envelopes of the transaction
    Managed,           \* submitted by the service itself, or not: BOOLEANs
    Transactions,      \* preconditions the transaction may carry
    RequestTtl,        \* REQUEST_TTL_MS
    MaxClock,          \* bound: instants
    MaxSequence,       \* bound: the account's other transactions
    MaxArrivals,       \* bound: contributions and declines started
    MaxPolicyChanges,  \* bound
    MaxPosts           \* bound: transactions posted to Horizon

ASSUME SigningAssumption ==
    /\ Operations \subseteq {"contribute", "read", "submit", "decline"}
    /\ Policies \subseteq [weight : [Signers -> Nat], low : Nat, operation : Nat]
    /\ Bases \subseteq Seq(Signers) /\ Uploads \subseteq Seq(Signers)
    /\ Managed \subseteq BOOLEAN /\ Transactions \subseteq Transaction
    /\ RequestTtl \in Nat /\ MaxSignatures \in Nat
    /\ MaxClock \in Nat /\ MaxSequence \in Nat /\ MaxArrivals \in Nat
    /\ MaxPolicyChanges \in Nat /\ MaxPosts \in Nat

VARIABLES
    request,       \* the row createSigningRequest wrote
    received,      \* contributions: receivedAt of each upload, 0 if not stored
    declined,      \* signers with an approval_declined event
    submission,    \* a confirmed submission is recorded
    job,           \* what each call remembers
    policy, account,          \* the source account on the ledger
    clock, ledger,            \* now; the latest closed ledger
    result,                   \* the transaction's fate on the ledger
    arrivals, policyChanges, posts,    \* bounds
    overlapped,    \* a contribution was stored by a call that overlapped another's
    ruledOut       \* a caller was told the transaction can no longer happen,
                   \* its ledger lookup made before or after that was decided

store == <<received, declined, submission>>
chain == <<policy, account, ledger, result>>
bounds == <<arrivals, policyChanges, posts>>
vars == <<request, store, job, chain, clock, bounds, overlapped, ruledOut>>

Statuses == {"none", "unreadable", "submitted", "request_expired", "unrecognized",
             "bad_auth_extra", "stale", "transaction_expired", "awaiting_signatures",
             "waiting_preconditions", "ready", "failed", "outcome_unknown"}
\* The statuses getSigningRequest checks against the ledger before it answers.
Doubtful == {"request_expired", "unrecognized", "bad_auth_extra", "stale",
             "transaction_expired"}

\* "repeat" is a contribution that turned out to add nothing.
Job == [op : {"none", "contribute", "repeat", "read", "submit", "decline"},
        step : {"idle", "list", "validate", "put", "facts", "preflight", "policy",
                "context", "lookup", "post", "waiting", "recheck", "persist",
                "decline", "answered"},
        at : Nat,                           \* receivedAt
        expired : BOOLEAN,                  \* requestExpired at its now
        upload : Uploads \cup {<<>>}, signer : Signers \cup {"none"},
        before : [Uploads -> Nat],          \* contributions when it started
        seen : [Uploads -> Nat],            \* contributions it read
        outcome : {"none", "unrecognized", "bad_auth_extra", "missing", "authorized"},
        account : Account,
        status : Statuses,
        landed : BOOLEAN,                   \* had succeeded when it started
        informed : BOOLEAN]                 \* every lookup it made was answered

Nothing == [u \in Uploads |-> 0]
NoAccount == [sequence |-> 0, ledger |-> 0, time |-> 0]
Idle == [op |-> "none", step |-> "idle", at |-> 0, expired |-> FALSE, upload |-> <<>>,
         signer |-> "none", before |-> Nothing, seen |-> Nothing, outcome |-> "none",
         account |-> NoAccount, status |-> "none", landed |-> FALSE, informed |-> TRUE]

\* The latest closed ledger: a ledger closes every instant, observed later.
LedgerAt(n) == [number |-> n, time |-> n]

expiryForInspection(tx, now) ==
    IF tx.maxTime # 0 /\ tx.maxTime < now + RequestTtl THEN tx.maxTime
    ELSE now + RequestTtl

requestExpired == request.expiresAt <= clock

\* createSigningRequest refuses an envelope validateStoredEnvelope refuses.
Init ==
    /\ policy \in Policies
    /\ \E base \in Bases, tx \in Transactions, managed \in Managed :
           /\ Analysis(base, policy) \in {"missing", "authorized"}
           /\ request = [base |-> base, tx |-> tx, managed |-> managed,
                         expiresAt |-> expiryForInspection(tx, 0)]
    /\ received = Nothing /\ declined = {} /\ submission = FALSE
    /\ job = [c \in Calls |-> Idle]
    /\ account = NoAccount /\ clock = 0 /\ ledger = 0
    /\ result = "none"
    /\ arrivals = 0 /\ policyChanges = 0 /\ posts = 0
    /\ overlapped = FALSE /\ ruledOut = {}

-----------------------------------------------------------------------------
(* What a call computes from what it has read.                             *)

\* mergeContributions: the merged envelope after each receivedAt.
Replay(contributions) ==
    LET m[n \in 0 .. arrivals] ==
            IF n = 0 THEN request.base
            ELSE IF \E u \in Uploads : contributions[u] = n
                 THEN Merged(m[n - 1], CHOOSE u \in Uploads : contributions[u] = n)
                 ELSE m[n - 1]
    IN m

mergedXdr(contributions) == Replay(contributions)[arrivals]

\* A stored envelope that no longer merges makes mergeContributions throw.
Readable(contributions) ==
    \A u \in Uploads :
        contributions[u] # 0 =>
            Mergeable(Replay(contributions)[contributions[u] - 1], u)

\* Approvals the store attributes to a signer (acceptedSignatures).
SignedIn(contributions, signer) ==
    \E u \in Uploads : contributions[u] # 0 /\ signer \in KeysOf(u) \ KeysOf(request.base)

\* buildSnapshot, before it reads the policy.
FirstStatus(j) ==
    CASE ~Readable(received) -> "unreadable"
      [] Readable(received) /\ submission -> "submitted"
      [] Readable(received) /\ ~submission /\ j.expired -> "request_expired"
      [] OTHER -> "none"

\* transactionLifecycle and the end of buildSnapshot.
LastStatus(j, known) ==
    LET assessment ==
            IF NeedsLedgerContext(request.tx) /\ ~known THEN "unknown"
            ELSE assessTransactionPreconditions(request.tx, j.account, LedgerAt(ledger))
    IN CASE assessment = "stale" -> "stale"
         [] assessment = "expired" -> "transaction_expired"
         [] assessment \in {"not_yet_valid", "unknown"} ->
                IF j.outcome = "authorized" THEN "waiting_preconditions"
                                            ELSE "awaiting_signatures"
         [] assessment = "ready" ->
                IF j.outcome = "authorized" THEN "ready" ELSE "awaiting_signatures"

\* Where a call goes with a snapshot's status.
\* (An answer keeps nothing of what the call read.)
Answered(j, status) ==
    [Idle EXCEPT !.op = j.op, !.step = "answered", !.status = status,
                 !.landed = j.landed, !.informed = j.informed]
\* Asking the ledger, which is all that is left to do.
Asking(j, step, status) == [Answered(j, status) EXCEPT !.step = step]
Unanswered(j) == [Answered(j, j.status) EXCEPT !.informed = FALSE]

\* Fault: a signer who signed may decline all the same.
DeclineRegardless(j, status) ==
    CASE status \in Doubtful /\ j.op \notin {"submit", "repeat"} -> Asking(j, "lookup", status)
      [] j.op = "submit" /\ status = "ready" -> [j EXCEPT !.step = "post", !.status = status]
      [] j.op = "decline" /\ status = "awaiting_signatures" ->
             [j EXCEPT !.step = "decline", !.status = status]
      [] OTHER -> Answered(j, status)

\* Fault: a stale Request is answered without a look at the ledger.
UncheckedStale(j, status) ==
    CASE status \in Doubtful \ {"stale"} /\ j.op \notin {"submit", "repeat"} ->
             Asking(j, "lookup", status)
      [] j.op = "submit" /\ status = "ready" -> [j EXCEPT !.step = "post", !.status = status]
      [] /\ j.op = "decline" /\ status = "awaiting_signatures"
         /\ j.signer \notin KeysOf(mergedXdr(j.seen)) ->
             [j EXCEPT !.step = "decline", !.status = status]
      [] OTHER -> Answered(j, status)

Concluded(j, status) ==
    CASE status \in Doubtful /\ j.op \notin {"submit", "repeat"} -> Asking(j, "lookup", status)
      [] j.op = "submit" /\ status = "ready" -> [j EXCEPT !.step = "post", !.status = status]
      [] /\ j.op = "decline" /\ status = "awaiting_signatures"
         /\ j.signer \notin KeysOf(mergedXdr(j.seen)) ->
             [j EXCEPT !.step = "decline", !.status = status]
      [] OTHER -> Answered(j, status)

-----------------------------------------------------------------------------
(* Steps of the calls.                                                     *)

Begin(c, op) ==
    /\ op \in Operations /\ job[c].step = "idle"

Started(op, step) ==
    [Idle EXCEPT !.op = op, !.step = step, !.expired = requestExpired,
                 !.before = IF op \in {"contribute", "decline"} THEN received ELSE Nothing,
                 !.landed = (op = "read" /\ result = "success")]

Quiet == UNCHANGED <<request, chain, clock, policyChanges, posts>>

\* GET: authorizeRequest, then getSigningRequest.
StartRead(c) ==
    /\ Begin(c, "read")
    /\ job' = [job EXCEPT ![c] = Started("read", "facts")]
    /\ UNCHANGED <<store, arrivals, overlapped, ruledOut>> /\ Quiet

\* PUT: submitSigningRequest.
StartSubmit(c) ==
    /\ Begin(c, "submit")
    /\ job' = [job EXCEPT ![c] = Started("submit", "facts")]
    /\ UNCHANGED <<store, arrivals, overlapped, ruledOut>> /\ Quiet

\* PATCH with a decision: recordDecline, by a current signer.
StartDecline(c, signer) ==
    /\ Begin(c, "decline")
    /\ arrivals < MaxArrivals /\ arrivals' = arrivals + 1
    /\ Recognized(policy, signer)
    /\ job' = [job EXCEPT ![c] = [Started("decline", "facts") EXCEPT !.signer = signer]]
    /\ UNCHANGED <<store, overlapped, ruledOut>> /\ Quiet

\* PATCH with a signed envelope: contributeSigningRequest takes its instant
\* before it reads submission and contributions.
StartContribute(c, upload) ==
    /\ Begin(c, "contribute")
    /\ arrivals < MaxArrivals /\ arrivals' = arrivals + 1
    /\ ~requestExpired
    /\ job' = [job EXCEPT ![c] = [Started("contribute", "list")
                                  EXCEPT !.upload = upload, !.at = arrivals + 1]]
    /\ UNCHANGED <<store, overlapped, ruledOut>> /\ Quiet

\* A submitted Request refuses; an envelope that adds nothing is answered
\* with a snapshot of the contributions read here.
List(c) ==
    LET current == mergedXdr(received) IN
    /\ job[c].step = "list"
    /\ job' = [job EXCEPT ![c] =
           IF submission \/ ~Readable(received) \/ ~Mergeable(current, job[c].upload)
           THEN Answered(@, "none")
           ELSE IF Additions(current, job[c].upload) = <<>>
           THEN [Idle EXCEPT !.op = "repeat", !.step = "policy", !.seen = received]
           ELSE [@ EXCEPT !.step = "validate", !.seen = received]]
    /\ UNCHANGED <<store, arrivals, overlapped, ruledOut>> /\ Quiet

\* Fault: an envelope with superfluous signatures is stored.
AcceptsExtra(j) ==
    Analysis(Merged(mergedXdr(j.seen), j.upload), policy) # "unrecognized"

validateStoredEnvelope(j) ==
    Analysis(Merged(mergedXdr(j.seen), j.upload), policy)
        \notin {"unrecognized", "bad_auth_extra"}

Validate(c) ==
    /\ job[c].step = "validate"
    /\ job' = [job EXCEPT ![c] = IF validateStoredEnvelope(@)
                                 THEN [@ EXCEPT !.step = "put"]
                                 ELSE Answered(@, "none")]
    /\ UNCHANGED <<store, arrivals, overlapped, ruledOut>> /\ Quiet

\* One row per digest; the answer is a fresh snapshot, at the same instant.
Put(c) ==
    LET j == job[c] IN
    /\ j.step = "put"
    /\ received' = IF received[j.upload] = 0 THEN [received EXCEPT ![j.upload] = j.at]
                   ELSE received
    /\ overlapped' = (overlapped \/ received # j.before)
    /\ job' = [job EXCEPT ![c] = [Idle EXCEPT !.op = "contribute", !.step = "facts"]]
    /\ UNCHANGED <<declined, submission, arrivals, ruledOut>> /\ Quiet

\* loadSigningRequestReadFacts.
Facts(c) ==
    LET status == FirstStatus(job[c]) IN
    /\ job[c].step = "facts"
    /\ job' = [job EXCEPT ![c] =
           CASE @.op = "submit" /\ ~submission ->
                    [@ EXCEPT !.seen = received, !.step = "preflight"]
             [] ~(@.op = "submit" /\ ~submission) /\ status = "none" ->
                    [@ EXCEPT !.seen = received, !.step = "policy"]
             [] OTHER -> Concluded([@ EXCEPT !.seen = received], status)]
    /\ UNCHANGED <<store, arrivals, overlapped, ruledOut>> /\ Quiet

\* The source account, as Horizon has it: signers and sequence together.
ReadPolicy(c) ==
    LET outcome == Analysis(mergedXdr(job[c].seen), policy)
        j == [job[c] EXCEPT !.outcome = outcome, !.account = account] IN
    /\ job[c].step = "policy"
    /\ job' = [job EXCEPT ![c] =
           CASE outcome \in {"unrecognized", "bad_auth_extra"} -> Concluded(j, outcome)
             [] outcome \in {"missing", "authorized"} /\ NeedsLedgerContext(request.tx) ->
                    [j EXCEPT !.step = "context"]
             [] OTHER -> Concluded(j, LastStatus(j, TRUE))]
    /\ UNCHANGED <<store, arrivals, overlapped, ruledOut>> /\ Quiet

\* loadLedgerContext; a failure leaves the context unknown.
ReadLedger(c) ==
    /\ job[c].step = "context"
    /\ \E known \in BOOLEAN :
           job' = [job EXCEPT ![c] =
                       Concluded([@ EXCEPT !.informed = job[c].informed /\ known],
                                 LastStatus(@, known))]
    /\ UNCHANGED <<store, arrivals, overlapped, ruledOut>> /\ Quiet

\* Fault: a transaction that is in a ledger counts as confirmed, applied or not.
AnyResult == result # "none"

\* lookupConfirmedTransaction, answered.
Confirmed == result = "success"

\* getSigningRequest asks the ledger before it gives a transaction up.
Lookup(c) ==
    /\ job[c].step = "lookup"
    /\ \/ /\ Confirmed
          /\ job' = [job EXCEPT ![c] = Asking(@, "persist", "none")]
       \/ /\ ~Confirmed
          /\ job' = [job EXCEPT ![c] = Answered(@, @.status)]
       \/ job' = [job EXCEPT ![c] = Unanswered(@)]
    /\ UNCHANGED <<store, arrivals, overlapped, ruledOut>> /\ Quiet

\* submitSigningRequest asks it before anything else.
Preflight(c) ==
    /\ job[c].step = "preflight"
    /\ \/ /\ Confirmed
          /\ job' = [job EXCEPT ![c] = Asking(@, "persist", "none")]
       \/ /\ ~Confirmed
          /\ job' = [job EXCEPT ![c] =
                 IF @.expired THEN Answered(@, "request_expired")
                 ELSE IF ~Readable(@.seen) THEN Answered(@, "unreadable")
                 ELSE [@ EXCEPT !.step = "policy"]]
       \/ job' = [job EXCEPT ![c] = Unanswered(@)]
    /\ UNCHANGED <<store, arrivals, overlapped, ruledOut>> /\ Quiet

\* The POST to Horizon: taken by the network, refused, or nobody knows.
Post(c) ==
    LET valid == /\ Analysis(mergedXdr(job[c].seen), policy) = "authorized"
                 /\ Accepts(request.tx, account, LedgerAt(ledger + 1)) IN
    /\ job[c].step = "post"
    /\ posts < MaxPosts /\ posts' = posts + 1
    /\ \/ /\ valid \/ result # "none"
          /\ job' = [job EXCEPT ![c] = Asking(@, "waiting", @.status)]
       \/ /\ ~valid
          /\ job' = [job EXCEPT ![c] =
                 IF SequenceCheck(request.tx, account) # "pass"    \* tx_bad_seq
                 THEN Asking(@, "recheck", "failed")
                 ELSE Answered(@, "failed")]
       \/ /\ job' = [job EXCEPT ![c] = Asking(@, "recheck", "outcome_unknown")]
    /\ UNCHANGED <<request, store, chain, clock, arrivals, policyChanges, overlapped,
                   ruledOut>>

\* Horizon answers once a ledger has the transaction, or times out.
Wait(c) ==
    /\ job[c].step = "waiting"
    /\ job' = [job EXCEPT ![c] =
           CASE result = "success" -> Asking(@, "persist", "none")
             [] result = "failed" -> Answered(@, "failed")
             [] result = "none" -> Asking(@, "recheck", "outcome_unknown")]
    /\ UNCHANGED <<store, arrivals, overlapped, ruledOut>> /\ Quiet

\* After an unknown outcome or tx_bad_seq.
Recheck(c) ==
    /\ job[c].step = "recheck"
    /\ \/ /\ Confirmed
          /\ job' = [job EXCEPT ![c] = Asking(@, "persist", "none")]
       \/ /\ ~Confirmed
          /\ job' = [job EXCEPT ![c] = Answered(@, @.status)]
       \/ job' = [job EXCEPT ![c] = Unanswered(@)]
    /\ UNCHANGED <<store, arrivals, overlapped, ruledOut>> /\ Quiet

persistConfirmedSubmission(c) ==
    /\ job[c].step = "persist"
    /\ submission' = TRUE
    /\ job' = [job EXCEPT ![c] = Answered(@, "submitted")]
    /\ UNCHANGED <<received, declined, arrivals, overlapped, ruledOut>> /\ Quiet

\* The event id is the signer's: a second decline changes nothing.
RecordDecline(c) ==
    /\ job[c].step = "decline"
    /\ declined' = declined \cup {job[c].signer}
    /\ job' = [job EXCEPT ![c] = Answered(@, @.status)]
    /\ UNCHANGED <<received, submission, arrivals, overlapped, ruledOut>> /\ Quiet

\* An Integration's Request is submitted as soon as a contribution completes
\* it (autoSubmitManagedIntegrationRequest); any other answer goes out.
Return(c) ==
    LET j == job[c] IN
    /\ j.step = "answered"
    /\ IF j.op \in {"contribute", "repeat"} /\ j.status = "ready" /\ request.managed
       THEN job' = [job EXCEPT ![c] = Started("submit", "facts")]
       ELSE job' = [job EXCEPT ![c] = Idle]
    /\ ruledOut' = IF j.status \in {"stale", "transaction_expired"} /\ j.informed
                   THEN ruledOut \cup {IF j.op \in {"submit", "repeat"} THEN "before" ELSE "after"}
                   ELSE ruledOut
    /\ UNCHANGED <<store, arrivals, overlapped>> /\ Quiet

\* An await fails or the function stops: the caller gets an error.
Stop(c) ==
    /\ job[c].step # "idle"
    /\ job' = [job EXCEPT ![c] = Idle]
    /\ UNCHANGED <<store, arrivals, overlapped, ruledOut>> /\ Quiet

-----------------------------------------------------------------------------
(* The network.                                                            *)

Tick ==
    /\ clock < MaxClock /\ clock' = clock + 1
    /\ UNCHANGED <<request, store, job, chain, bounds, overlapped, ruledOut>>

\* A ledger closes, at most one transaction of the account before ours.  Ours
\* may be in any ledger that accepts it: signers can sign and broadcast it
\* outside this service, and a POST that was taken says nothing of when.
CloseLedger(other, included) ==
    LET next == LedgerAt(ledger + 1)
        moved == IF other THEN [sequence |-> account.sequence + 1, ledger |-> next.number,
                                time |-> next.time]
                 ELSE account IN
    /\ ledger < clock
    /\ other => account.sequence < MaxSequence
    /\ ledger' = next.number
    /\ IF included
       THEN /\ result = "none" /\ Accepts(request.tx, moved, next)
            /\ result' \in {"success", "failed"}
            /\ account' = [sequence |-> request.tx.seq, ledger |-> next.number,
                           time |-> next.time]
       ELSE account' = moved /\ UNCHANGED result
    /\ UNCHANGED <<request, store, job, policy, clock, bounds, overlapped, ruledOut>>

ChangePolicy ==
    /\ policyChanges < MaxPolicyChanges /\ policyChanges' = policyChanges + 1
    /\ policy' \in Policies \ {policy}
    /\ UNCHANGED <<request, store, job, account, ledger, result, clock, arrivals,
                   posts, overlapped, ruledOut>>

Step(c) ==
    \/ List(c) \/ Validate(c) \/ Put(c) \/ Facts(c) \/ ReadPolicy(c) \/ ReadLedger(c)
    \/ Lookup(c) \/ Preflight(c) \/ Post(c) \/ Wait(c) \/ Recheck(c)
    \/ persistConfirmedSubmission(c) \/ RecordDecline(c) \/ Return(c)

Next ==
    \/ \E c \in Calls :
           \/ StartRead(c) \/ StartSubmit(c)
           \/ \E signer \in Signers : StartDecline(c, signer)
           \/ \E upload \in Uploads : StartContribute(c, upload)
           \/ Step(c) \/ Stop(c)
    \/ \E other, included \in BOOLEAN : CloseLedger(other, included)
    \/ Tick \/ ChangePolicy

Spec == Init /\ [][Next]_vars
-----------------------------------------------------------------------------
(* Properties.                                                             *)

\* Every variable keeps its type.
TypeOK ==
    /\ request \in [base : Bases, tx : Transactions, managed : BOOLEAN, expiresAt : Nat]
    /\ received \in [Uploads -> Nat] /\ declined \subseteq Signers
    /\ submission \in BOOLEAN
    /\ job \in [Calls -> Job]
    /\ policy \in Policies /\ account \in Account
    /\ clock \in 0 .. MaxClock /\ ledger \in 0 .. MaxClock
    /\ result \in {"none", "success", "failed"}
    /\ arrivals \in 0 .. MaxArrivals /\ policyChanges \in 0 .. MaxPolicyChanges
    /\ posts \in 0 .. MaxPosts
    /\ overlapped \in BOOLEAN
    /\ ruledOut \subseteq {"before", "after"}

\* Each contribution is validated against the envelope it would produce.  So
\* while the policy stands, the stored contributions merge, hold signatures
\* of signers only, and none that Core would refuse as extra (a Request
\* blocked for good, its signatures cannot be taken back) unless two
\* contributions overlapped (requestService.ts 980-1069).
BlockedNeedsAnOverlap ==
    (policyChanges = 0 /\ ~overlapped) =>
        /\ Readable(received)
        /\ Analysis(mergedXdr(received), policy) \in {"missing", "authorized"}

\* A recorded submission is a transaction the ledger applied: not one that is
\* pending, consumed its sequence number and failed, or whose outcome was
\* unknown (1071-1103, 1223-1252).
RecordedMeansConfirmed == submission => result = "success"

\* A snapshot that says stale or transaction_expired, the ledger having
\* answered, tells the caller to "create a fresh transaction": this one never
\* succeeds, then or later (923-967).
VerdictsAreFinal ==
    "after" \in ruledOut => result # "success"

\* submitSigningRequest asks the ledger first and reads the sequence number
\* afterwards; its transaction_stale should mean the same (1141-1189).
SubmitVerdictsAreFinal == "before" \in ruledOut => result # "success"

\* However the transaction got to the ledger (by this service, by a call that
\* was told its outcome is unknown, or from outside), a read that begins after
\* it succeeded and gets its answers reports it (945-966).
ReadsSeeTheLedger ==
    \A c \in Calls :
        (job[c].step = "answered" /\ job[c].op = "read" /\ job[c].landed /\ job[c].informed)
            => job[c].status \in {"submitted", "unreadable"}

\* A signer whose approval was stored before the call began does not decline
\* any more (routes/request.ts 589-613).
ApprovalsEndDeclines ==
    [][\A c \in Calls :
          (job[c].step = "decline" /\ declined' # declined)
              => ~SignedIn(job[c].before, job[c].signer)]_vars
=============================================================================
