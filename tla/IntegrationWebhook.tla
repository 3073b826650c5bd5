------------------------- MODULE IntegrationWebhook -------------------------
(***************************************************************************)
(* The webhook side of the integration outbox: the rows that coordination  *)
(* changes leave behind, the dispatchers that lease one row at a time and  *)
(* POST the current projection of the work, the delivery history, and      *)
(* manual redelivery.  The rows are those of one resource of one Service.  *)
(*                                                                         *)
(* A dispatcher is a call of dispatchIntegrationWebhookEvent, started by   *)
(* the worker's sweep or by a queue message; a step is what it does        *)
(* between two awaits.  Instants are kept as what the queries compare:     *)
(* available_at <= now is "due", lease_until <= now is "overdue".  A lease *)
(* token is a random UUID taken together with the next attempt number, so  *)
(* the attempt number stands for it.                                       *)
(***************************************************************************)
EXTENDS Naturals

CONSTANTS
    Dispatchers,
    RetryBudget,       \* length of RETRY_SECONDS
    MaxChanges,        \* bound: committed changes of the resource
    MaxFaults,         \* bound: stops, database errors, outlived leases
    MaxRedeliveries    \* bound: redeliveries by the operator

ASSUME WebhookAssumption ==
    /\ RetryBudget \in Nat
    /\ MaxChanges \in Nat
    /\ MaxFaults \in Nat
    /\ MaxRedeliveries \in Nat

VARIABLES
    changes,        \* committed changes; change e left outbox row e
    row,            \* mst_stellar.integration_outbox
    history,        \* mst_stellar.integration_webhook_deliveries: outcomes
    enabled,        \* the Service and its webhook are enabled
    job,            \* what each dispatcher remembers
    wire,           \* requests sent and not yet answered by the endpoint
    received,       \* requests the endpoint accepted with a 2xx
    faults, redeliveries

vars == <<changes, row, history, enabled, job, wire, received, faults,
          redeliveries>>

Events == 1 .. MaxChanges
Outcomes == {"succeeded", "retry", "permanent_failure"}

Row == [published : BOOLEAN, due : BOOLEAN, overdue : BOOLEAN,
        token : Nat, attempts : Nat]
Absent == [published |-> FALSE, due |-> FALSE, overdue |-> FALSE,
           token |-> 0, attempts |-> 0]

Request == [event : Events, attempt : Nat \ {0}, version : Nat]

Job == [at : {"idle", "credential", "start", "build", "waiting",
              "record", "settle"},
        event : Nat, attempt : Nat, version : Nat,
        verdict : Outcomes \cup {"skipped", "none"},
        guarded : BOOLEAN]    \* inside the try block around the POST
Idle == [at |-> "idle", event |-> 0, attempt |-> 0, version |-> 0,
         verdict |-> "none", guarded |-> FALSE]

Delivery(d) == <<job[d].event, job[d].attempt>>
Sent(d) == [event |-> job[d].event, attempt |-> job[d].attempt,
            version |-> job[d].version]

Working(d, e) == job[d].at # "idle" /\ job[d].event = e
\* The lease of row e belongs to a call that is still running.
Held(e) == \E d \in Dispatchers :
               Working(d, e) /\ job[d].attempt = row[e].token

Init ==
    /\ changes = 0
    /\ row = [e \in Events |-> Absent]
    /\ history = [k \in {} |-> "started"]
    /\ enabled \in BOOLEAN
    /\ job = [d \in Dispatchers |-> Idle]
    /\ wire = {} /\ received = {}
    /\ faults = 0 /\ redeliveries = 0

-----------------------------------------------------------------------------
(* Delivery policy.                                                        *)

\* Fault: an off-by-one in the budget.
OneRetryMore(a) == IF a <= RetryBudget + 1 THEN "retry" ELSE "permanent_failure"

TransportFailure(a) == IF a <= RetryBudget THEN "retry" ELSE "permanent_failure"

\* Fault: the last attempt's answer closes the event whatever it is.
AnswerIsSuccess(status, a) ==
    IF status = "ok" \/ a > RetryBudget THEN "succeeded" ELSE "retry"

HttpStatus(status, a) ==
    CASE status = "ok"      -> "succeeded"
      [] status = "busy"    -> TransportFailure(a)
      [] status = "refused" -> "permanent_failure"

-----------------------------------------------------------------------------
(* The outbox row.                                                         *)

\* A fact and its outbox row are one transaction.
Change ==
    /\ changes < MaxChanges
    /\ changes' = changes + 1
    /\ row' = [row EXCEPT ![changes + 1].due = TRUE]
    /\ UNCHANGED <<history, enabled, job, wire, received, faults,
                   redeliveries>>

BecomesDue(e) ==
    /\ e <= changes /\ ~row[e].due
    /\ row' = [row EXCEPT ![e].due = TRUE]
    /\ UNCHANGED <<changes, history, enabled, job, wire, received, faults,
                   redeliveries>>

\* The lease of a running call is longer than its timeouts: outliving it is
\* a fault.
LeaseRunsOut(e) ==
    /\ row[e].token # 0 /\ ~row[e].overdue
    /\ IF Held(e) THEN faults < MaxFaults /\ faults' = faults + 1
                  ELSE UNCHANGED faults
    /\ row' = [row EXCEPT ![e].overdue = TRUE]
    /\ UNCHANGED <<changes, history, enabled, job, wire, received, redeliveries>>

\* Fault: an expired lease is not reclaimed.
UnleasedOnly(r) == ~r.published /\ r.due /\ r.token = 0

Claimable(r) ==
    /\ ~r.published
    /\ r.due
    /\ r.token = 0 \/ r.overdue

\* Fault: the attempt is counted when it is released, not when it is claimed.
Uncounted(r) == [r EXCEPT !.token = r.attempts + 1, !.overdue = FALSE]

Claimed(r) == [r EXCEPT !.token = r.attempts + 1, !.attempts = @ + 1,
                        !.overdue = FALSE]

Holds(r, j) == ~r.published /\ r.token = j.attempt

Closed(r) == [r EXCEPT !.published = TRUE, !.token = 0, !.overdue = FALSE]
Released(r) == [r EXCEPT !.due = FALSE, !.token = 0, !.overdue = FALSE]

\* markIntegrationOutboxPublished or releaseIntegrationOutboxEvent; both
\* change nothing once the lease is lost.
Settled(r, j) ==
    IF ~Holds(r, j) THEN r
    ELSE IF j.verdict = "retry" THEN Released(r) ELSE Closed(r)

Requeued(r) == [r EXCEPT !.published = FALSE, !.due = TRUE, !.token = 0,
                         !.overdue = FALSE]

-----------------------------------------------------------------------------
(* A dispatcher.                                                           *)

Goto(d, at) == job' = [job EXCEPT ![d].at = at]
Decide(d, at, verdict) ==
    job' = [job EXCEPT ![d].at = at, ![d].verdict = verdict,
                       ![d].guarded = FALSE]

Claim(d, e) ==
    /\ job[d].at = "idle"
    /\ Claimable(row[e])
    /\ row' = [row EXCEPT ![e] = Claimed(@)]
    /\ job' = [job EXCEPT ![d] = [Idle EXCEPT !.at = "credential",
                                     !.event = e, !.attempt = row'[e].attempts]]
    /\ UNCHANGED <<changes, history, enabled, wire, received, faults,
                   redeliveries>>

\* Fault: a skipped event leaves a delivery record.
SkipIsRecorded(d) ==
    /\ job[d].at = "credential"
    /\ \/ Decide(d, "settle", TransportFailure(job[d].attempt))
       \/ enabled /\ Goto(d, "start")
       \/ ~enabled /\ Decide(d, "record", "skipped")
    /\ UNCHANGED <<changes, row, history, enabled, wire, received, faults,
                   redeliveries>>

\* Without a usable credential the row is settled without a delivery record.
LoadCredential(d) ==
    /\ job[d].at = "credential"
    /\ \/ Decide(d, "settle", TransportFailure(job[d].attempt))
       \/ enabled /\ Goto(d, "start")
       \/ ~enabled /\ Decide(d, "settle", "skipped")
    /\ UNCHANGED <<changes, row, history, enabled, wire, received, faults,
                   redeliveries>>

Recorded(k, outcome) ==
    [x \in DOMAIN history \cup {k} |-> IF x = k THEN outcome ELSE history[x]]

StartDelivery(d) ==
    /\ job[d].at = "start"
    /\ history' = IF Delivery(d) \in DOMAIN history THEN history
                  ELSE Recorded(Delivery(d), "started")
    /\ Goto(d, "build")
    /\ UNCHANGED <<changes, row, enabled, wire, received, faults,
                   redeliveries>>

\* The projection is rebuilt from the facts of the moment, signed and sent.
\* Building or signing it may fail.
BuildAndPost(d) ==
    /\ job[d].at = "build"
    /\ \/ /\ job' = [job EXCEPT ![d].at = "waiting", ![d].version = changes,
                                ![d].guarded = TRUE]
          /\ wire' = wire \cup {[Sent(d) EXCEPT !.version = changes]}
       \/ /\ Decide(d, "record", TransportFailure(job[d].attempt))
          /\ UNCHANGED wire
    /\ UNCHANGED <<changes, row, history, enabled, received, faults,
                   redeliveries>>

Accept(m) == received' = received \cup {m}

Answer(d, status) ==
    /\ job[d].at = "waiting" /\ Sent(d) \in wire
    /\ wire' = wire \ {Sent(d)}
    /\ IF status = "ok" THEN Accept(Sent(d)) ELSE UNCHANGED received
    /\ job' = [job EXCEPT ![d].at = "record",
                   ![d].verdict = HttpStatus(status, job[d].attempt)]
    /\ UNCHANGED <<changes, row, history, enabled, faults, redeliveries>>

\* The request times out or the connection breaks; the endpoint may still
\* get it, and answers nobody.
GiveUp(d) ==
    /\ job[d].at = "waiting"
    /\ Decide(d, "record", TransportFailure(job[d].attempt))
    /\ UNCHANGED <<changes, row, history, enabled, wire, received, faults,
                   redeliveries>>

ArriveLate(m) ==
    /\ m \in wire
    /\ \A d \in Dispatchers : job[d].at = "waiting" => Sent(d) # m
    /\ wire' = wire \ {m}
    /\ Accept(m)
    /\ UNCHANGED <<changes, row, history, enabled, job, faults, redeliveries>>

\* Fault: recording is best effort.
RecordIfPossible(d) ==
    /\ job[d].at = "record"
    /\ \/ history' = Recorded(Delivery(d), job[d].verdict)
       \/ UNCHANGED history
    /\ Goto(d, "settle")
    /\ UNCHANGED <<changes, row, enabled, wire, received, faults,
                   redeliveries>>

RecordDelivery(d) ==
    /\ job[d].at = "record"
    /\ history' = Recorded(Delivery(d), job[d].verdict)
    /\ Goto(d, "settle")
    /\ UNCHANGED <<changes, row, enabled, wire, received, faults,
                   redeliveries>>

Settle(d) ==
    /\ job[d].at = "settle"
    /\ row' = [row EXCEPT ![job[d].event] = Settled(@, job[d])]
    /\ job' = [job EXCEPT ![d] = Idle]
    /\ UNCHANGED <<changes, history, enabled, wire, received, faults,
                   redeliveries>>

\* A database error after the POST, while recording or settling, is caught
\* with the transport's errors; the statement that failed may have committed.
DatabaseError(d) ==
    /\ job[d].at \in {"record", "settle"} /\ job[d].guarded
    /\ faults < MaxFaults
    /\ faults' = faults + 1
    /\ \/ UNCHANGED row
       \/ /\ job[d].at = "settle"
          /\ row' = [row EXCEPT ![job[d].event] = Settled(@, job[d])]
    /\ Decide(d, "record", TransportFailure(job[d].attempt))
    /\ UNCHANGED <<changes, history, enabled, wire, received, redeliveries>>

\* The process stops, or an uncaught error leaves the dispatcher.
Stop(d) ==
    /\ job[d].at # "idle"
    /\ faults < MaxFaults
    /\ faults' = faults + 1
    /\ job' = [job EXCEPT ![d] = Idle]
    /\ UNCHANGED <<changes, row, history, enabled, wire, received, redeliveries>>

-----------------------------------------------------------------------------
(* The operator.                                                           *)

\* The request saw the webhook enabled before it updates the row; by then
\* the switch may have been turned.
Redeliver(e) ==
    /\ row[e].published
    /\ redeliveries < MaxRedeliveries
    /\ redeliveries' = redeliveries + 1
    /\ row' = [row EXCEPT ![e] = Requeued(@)]
    /\ UNCHANGED <<changes, history, enabled, job, wire, received, faults>>

SetEnabled ==
    /\ enabled' = ~enabled
    /\ UNCHANGED <<changes, row, history, job, wire, received, faults,
                   redeliveries>>

-----------------------------------------------------------------------------
Statuses == {"ok", "busy", "refused"}

Step(d) ==
    \/ LoadCredential(d) \/ StartDelivery(d) \/ BuildAndPost(d)
    \/ \E status \in Statuses : Answer(d, status)
    \/ GiveUp(d) \/ RecordDelivery(d) \/ Settle(d)

Next ==
    \/ Change
    \/ \E e \in Events : BecomesDue(e) \/ LeaseRunsOut(e) \/ Redeliver(e)
    \/ \E d \in Dispatchers :
          \/ \E e \in Events : Claim(d, e)
          \/ Step(d)
          \/ DatabaseError(d)
          \/ Stop(d)
    \/ \E m \in wire : ArriveLate(m)
    \/ SetEnabled

\* Time passes, the sweep finds every due row again, and a running dispatcher
\* answers each await: the POST has a timeout.
Fairness ==
    /\ \A e \in Events :
          /\ WF_vars(BecomesDue(e))
          /\ WF_vars(~Held(e) /\ LeaseRunsOut(e))
          /\ WF_vars(\E d \in Dispatchers : Claim(d, e))
    /\ \A d \in Dispatchers : WF_vars(Step(d))

Spec == Init /\ [][Next]_vars /\ Fairness

-----------------------------------------------------------------------------
(* Properties.                                                             *)

TypeOK ==
    /\ changes \in 0 .. MaxChanges
    /\ row \in [Events -> Row]
    /\ DOMAIN history \subseteq Events \X (Nat \ {0})
    /\ \A k \in DOMAIN history : history[k] \in Outcomes \cup {"started"}
    /\ enabled \in BOOLEAN
    /\ job \in [Dispatchers -> Job]
    /\ \A d \in Dispatchers :
          job[d].at # "idle" => job[d].event \in Events /\ job[d].attempt # 0
    /\ wire \subseteq Request /\ received \subseteq Request
    /\ faults \in 0 .. MaxFaults /\ redeliveries \in 0 .. MaxRedeliveries

\* webhook-delivery-model.md, success criteria: concurrent dispatcher claims
\* are exclusive.  However leases run out and rows are requeued, no two
\* running calls ever work on the same attempt of an event, so no delivery
\* record has two authors.
ClaimsAreExclusive ==
    \A d1, d2 \in Dispatchers :
        /\ job[d1].at # "idle" /\ job[d2].at # "idle"
        /\ Delivery(d1) = Delivery(d2)
        => d1 = d2

\* The console's "Delivered means the configured receiver returned HTTP 2xx":
\* a delivery recorded as succeeded was accepted, with a projection that
\* includes the change the event was written for.
DeliveredMeansAccepted ==
    \A k \in DOMAIN history : history[k] = "succeeded" =>
        \E m \in received : /\ m.event = k[1] /\ m.attempt = k[2]
                            /\ m.version >= m.event

\* webhook-delivery-model.md, section 3: evidence is recorded before the event
\* is marked published.  Whichever dispatchers stopped, lost their lease or
\* met an error on the way, a closed row whose last attempt began a delivery
\* has the outcome of that delivery on record.
ClosedWithEvidence ==
    \A e \in Events : LET k == <<e, row[e].attempts>> IN
        row[e].published /\ k \in DOMAIN history => history[k] \in Outcomes

\* webhook-delivery-model.md: the retry budget is bounded, and an exhausted
\* event gets one attempt per redelivery; an attempt beyond these is the
\* replacement of one that a fault cut short.
AttemptsAreBounded ==
    \A e \in Events :
        row[e].attempts <= RetryBudget + 1 + faults + redeliveries

\* Losing a wake-up, a dispatcher or a lease loses no event: every outbox row
\* is closed in the end.
EveryEventIsClosed ==
    \A e \in Events : e <= changes ~> row[e].published
=============================================================================
