------------------------- MODULE HumanNotification -------------------------
(***************************************************************************)
(* Asks and reminders to sign one classic Request, and their e-mails: the  *)
(* assignments, the outbox of Human notifications, the dispatchers that    *)
(* lease a row and send its e-mail through the provider, the delivery      *)
(* history, and the provider's webhook about what became of each e-mail.   *)
(*                                                                         *)
(* A caller is a PATCH of routes/request.ts (assignSigner, remindSigner),  *)
(* a dispatcher a call of dispatchHumanNotificationEvent; a step is what   *)
(* it does between two awaits.  As in IntegrationWebhook, instants are     *)
(* kept as what the queries compare, and the attempt number stands for     *)
(* the lease token taken with it.                                          *)
(*                                                                         *)
(* The provider is external: it takes an e-mail once per idempotency key   *)
(* (the event's id), refuses the key with another body or while it is in   *)
(* use, and reports deliveries at least once, in any order.                *)
(***************************************************************************)
EXTENDS Naturals, Sequences, FiniteSets

CONSTANTS
    Callers, Askers, Recipients,    \* handlers; signers who ask, who are asked
    Dispatchers,
    RetryBudget,       \* length of RETRY_SECONDS
    MaxReminders,      \* bound: reminders per signer
    MaxMails,          \* bound: no PATCH starts once so many e-mails are queued
    MaxReports,        \* bound: provider events per e-mail
    MaxFaults          \* bound: stops, timeouts, database errors, outlived
                       \* leases, renames

Nobody == "nobody"

ASSUME NotificationAssumption ==
    /\ RetryBudget \in Nat /\ MaxReminders \in Nat /\ MaxMails \in Nat /\ MaxReports \in Nat
    /\ MaxFaults \in Nat
    /\ Nobody \notin Askers

VARIABLES
    assigned,    \* classic_request_assignments: who asked each signer
    signed, open,    \* the Request: who has signed, whether it still waits
    call,        \* what each caller remembers
    row,         \* mst_stellar.human_notification_outbox
    history,     \* mst_stellar.human_notification_deliveries: outcomes
    job,         \* what each dispatcher remembers
    wire,        \* sends not yet answered by the provider
    accepted, body,    \* the provider: keys taken, and with which body
    label,       \* the template's name, which is in the e-mail's subject
    reports,     \* provider events about each e-mail, in the order they happened
    acknowledged,    \* those the webhook answered 200
    faults

requestVars == <<assigned, signed, open, call>>
providerVars == <<accepted, body, reports, acknowledged>>
vars == <<requestVars, row, history, job, wire, providerVars, label, faults>>

\* Event <<s, 0>> is the Ask of signer s, <<s, n>> the n-th reminder.
Events == Recipients \X (0 .. MaxReminders)
States == {"absent", "queued", "sent", "permanent_failure"}
Outcomes == {"succeeded", "retry", "permanent_failure"}
Feedback == {"delivered", "bounced"}

Row == [state : States, actor : Askers \cup {Nobody}, due : BOOLEAN,
        overdue : BOOLEAN, token : Nat, attempts : Nat,
        provider : Feedback \cup {"none"}, providerAt : Nat, providerId : Nat]
Absent == [state |-> "absent", actor |-> Nobody, due |-> FALSE, overdue |-> FALSE,
           token |-> 0, attempts |-> 0, provider |-> "none", providerAt |-> 0,
           providerId |-> 0]
Queued(actor) == [Absent EXCEPT !.state = "queued", !.actor = actor, !.due = TRUE]

Report == [at : Nat \ {0}, state : Feedback]

Call == [at : {"idle", "snapshot", "assign", "enqueue"}, kind : {"ask", "remind"},
         actor : Askers \cup {Nobody}, signer : Recipients \cup {Nobody},
         owing : BOOLEAN]    \* the signer had not signed when it started
NoCall == [at |-> "idle", kind |-> "ask", actor |-> Nobody, signer |-> Nobody,
           owing |-> FALSE]

Job == [at : {"idle", "lookup", "start", "send", "waiting", "record", "settle"},
        event : Events \cup {Nobody}, attempt : Nat,
        verdict : Outcomes \cup {"none"},
        guarded : BOOLEAN]    \* inside the try block around the send
Idle == [at |-> "idle", event |-> Nobody, attempt |-> 0, verdict |-> "none",
         guarded |-> FALSE]

Send == [event : Events, attempt : Nat, label : Nat]
Delivery(d) == <<job[d].event, job[d].attempt>>
Working(d, e) == job[d].at # "idle" /\ job[d].event = e
\* The lease of row e belongs to a call that is still running.
Held(e) == \E d \in Dispatchers : Working(d, e) /\ job[d].attempt = row[e].token

Init ==
    /\ assigned = [s \in Recipients |-> Nobody]
    /\ signed = {} /\ open = TRUE
    /\ call = [c \in Callers |-> NoCall]
    /\ row = [e \in Events |-> Absent]
    /\ history = [k \in {} |-> "started"]
    /\ job = [d \in Dispatchers |-> Idle]
    /\ wire = {} /\ accepted = {} /\ body = [e \in Events |-> 0]
    /\ label = 0
    /\ reports = [e \in Events |-> <<>>] /\ acknowledged = [e \in Events |-> {}]
    /\ faults = 0

-----------------------------------------------------------------------------
(* Asks and reminders.                                                     *)

Unsent == UNCHANGED <<row, history, job, wire, providerVars, label, faults>>

QueuedMails == {e \in Events : row[e].state # "absent"}

\* assignSigningRequest, for two signers of the accounts' current policies;
\* with anybody else the call ends here.
StartAsk(c, actor, signer) ==
    /\ call[c].at = "idle" /\ Cardinality(QueuedMails) < MaxMails
    /\ actor # signer
    /\ call' = [call EXCEPT ![c] = [at |-> "snapshot", kind |-> "ask", actor |-> actor,
                                    signer |-> signer, owing |-> signer \notin signed]]
    /\ UNCHANGED <<assigned, signed, open>> /\ Unsent

\* Fault: anybody may remind, over the asker's private contact.
AnybodyReminds(actor, signer) == assigned[signer] # Nobody

mayRemind(actor, signer) == assigned[signer] = actor

\* requireSigningRequestReminder: only who asked, and as above both signers.
StartReminder(c, actor, signer) ==
    /\ call[c].at = "idle" /\ Cardinality(QueuedMails) < MaxMails
    /\ mayRemind(actor, signer)
    /\ call' = [call EXCEPT ![c] = [at |-> "snapshot", kind |-> "remind", actor |-> actor,
                                    signer |-> signer, owing |-> signer \notin signed]]
    /\ UNCHANGED <<assigned, signed, open>> /\ Unsent

\* The Request's snapshot: it still waits, and for this signer.
Snapshot(c) ==
    /\ call[c].at = "snapshot"
    /\ call' = [call EXCEPT ![c] =
           IF open /\ @.signer \notin signed
           THEN [@ EXCEPT !.at = IF call[c].kind = "ask" THEN "assign" ELSE "enqueue"]
           ELSE NoCall]
    /\ UNCHANGED <<assigned, signed, open>> /\ Unsent

\* One assignment per signer: a second Ask keeps the first asker, whose
\* contact it goes on to use.
putRequestAssignment(c) ==
    /\ call[c].at = "assign"
    /\ assigned' = [assigned EXCEPT ![call[c].signer] = IF @ = Nobody THEN call[c].actor ELSE @]
    /\ call' = [call EXCEPT ![c].at = "enqueue", ![c].actor = assigned'[call[c].signer]]
    /\ UNCHANGED <<signed, open>> /\ Unsent

\* Without an e-mail in the asker's contacts nothing is queued; an Ask's event
\* exists once, a reminder's is new.
Enqueue(c) ==
    LET s == call[c].signer
        fresh(e) == e[1] = s /\ row[e].state = "absent"
                    /\ IF call[c].kind = "ask" THEN e[2] = 0
                       ELSE e[2] # 0 /\ (e[2] > 1 => row[<<s, e[2] - 1>>].state # "absent") IN
    /\ call[c].at = "enqueue"
    /\ \/ \E e \in Events : fresh(e) /\ row' = [row EXCEPT ![e] = Queued(call[c].actor)]
       \/ UNCHANGED row
    /\ call' = [call EXCEPT ![c] = NoCall]
    /\ UNCHANGED <<assigned, signed, open, history, job, wire, providerVars,
                   label, faults>>

\* An await of the handler fails.
StopCall(c) ==
    /\ call[c].at # "idle"
    /\ call' = [call EXCEPT ![c] = NoCall]
    /\ UNCHANGED <<assigned, signed, open>> /\ Unsent

\* Meanwhile: an approval, and the Request no longer waiting.
Sign(s) ==
    /\ open /\ s \notin signed
    /\ signed' = signed \cup {s}
    /\ UNCHANGED <<assigned, open, call>> /\ Unsent

Close ==
    /\ open /\ open' = FALSE
    /\ UNCHANGED <<assigned, signed, call>> /\ Unsent

-----------------------------------------------------------------------------
(* The outbox row.                                                         *)

Asks == UNCHANGED <<requestVars, label>>

BecomesDue(e) ==
    /\ row[e].state # "absent" /\ ~row[e].due
    /\ row' = [row EXCEPT ![e].due = TRUE]
    /\ UNCHANGED <<history, job, wire, providerVars, faults>> /\ Asks

\* The lease (two minutes) is longer than the provider's timeout: outliving
\* it is a fault.
LeaseRunsOut(e) ==
    /\ row[e].token # 0 /\ ~row[e].overdue
    /\ IF Held(e) THEN faults < MaxFaults /\ faults' = faults + 1
                  ELSE UNCHANGED faults
    /\ row' = [row EXCEPT ![e].overdue = TRUE]
    /\ UNCHANGED <<history, job, wire, providerVars>> /\ Asks

\* Fault: a lease is never taken over.
FreeOnly(r) == r.state = "queued" /\ r.due /\ r.token = 0

Claimable(r) ==
    /\ r.state = "queued" /\ r.due
    /\ r.token = 0 \/ r.overdue

Claimed(r) == [r EXCEPT !.token = r.attempts + 1, !.attempts = @ + 1,
                        !.overdue = FALSE]

Holds(r, j) == r.state = "queued" /\ r.token = j.attempt

Completed(r, state) == [r EXCEPT !.state = state, !.token = 0, !.overdue = FALSE]
Released(r) == [r EXCEPT !.due = FALSE, !.token = 0, !.overdue = FALSE]

\* Fault: a call that lost its lease completes the row all the same.
SettledAnyway(r, j) ==
    CASE j.verdict = "retry" -> Released(r)
      [] j.verdict = "succeeded" -> Completed(r, "sent")
      [] j.verdict = "permanent_failure" -> Completed(r, "permanent_failure")

\* Fault: the outcome of the delivery is stored as the row's.
SameWord(r, j) ==
    CASE ~Holds(r, j) -> r
      [] Holds(r, j) /\ j.verdict = "retry" -> Released(r)
      [] Holds(r, j) /\ j.verdict # "retry" -> Completed(r, j.verdict)

\* completeHumanNotificationEvent or releaseHumanNotificationEvent; both
\* change nothing once the lease is lost.
Settled(r, j) ==
    CASE ~Holds(r, j) -> r
      [] Holds(r, j) /\ j.verdict = "retry" -> Released(r)
      [] Holds(r, j) /\ j.verdict = "succeeded" -> Completed(r, "sent")
      [] Holds(r, j) /\ j.verdict = "permanent_failure" -> Completed(r, "permanent_failure")

-----------------------------------------------------------------------------
(* Delivery policy.                                                        *)

\* Fault: a transport failure is final.
FinalFailure(a) == "permanent_failure"

classifyHumanNotificationTransportFailure(a) ==
    IF a <= RetryBudget THEN "retry" ELSE "permanent_failure"

\* 2xx; 408, 425, 429 and 5xx; any other status, 409 among them.
classifyHumanNotificationHttpStatus(status, a) ==
    CASE status = "ok"      -> "succeeded"
      [] status = "busy"    -> classifyHumanNotificationTransportFailure(a)
      [] status = "refused" -> "permanent_failure"

-----------------------------------------------------------------------------
(* A dispatcher.                                                           *)

Goto(d, at) == job' = [job EXCEPT ![d].at = at]
Decide(d, at, verdict) ==
    job' = [job EXCEPT ![d].at = at, ![d].verdict = verdict, ![d].guarded = FALSE]

Claim(d, e) ==
    /\ job[d].at = "idle"
    /\ Claimable(row[e])
    /\ row' = [row EXCEPT ![e] = Claimed(@)]
    /\ job' = [job EXCEPT ![d] = [Idle EXCEPT !.at = "lookup", !.event = e,
                                              !.attempt = row'[e].attempts]]
    /\ UNCHANGED <<history, wire, providerVars, faults>> /\ Asks

findSucceeded(e) == \E k \in DOMAIN history : k[1] = e /\ history[k] = "succeeded"

\* An earlier attempt that succeeded and was not settled completes the row.
LookUp(d) ==
    /\ job[d].at = "lookup"
    /\ IF findSucceeded(job[d].event) THEN Decide(d, "settle", "succeeded")
       ELSE Goto(d, "start")
    /\ UNCHANGED <<row, history, wire, providerVars, faults>> /\ Asks

Recorded(k, outcome) ==
    [x \in DOMAIN history \cup {k} |-> IF x = k THEN outcome ELSE history[x]]

\* Sender and origin may not be configured.
StartDelivery(d) ==
    /\ job[d].at = "start"
    /\ history' = IF Delivery(d) \in DOMAIN history THEN history
                  ELSE Recorded(Delivery(d), "started")
    /\ \/ Goto(d, "send")
       \/ Decide(d, "record", classifyHumanNotificationTransportFailure(job[d].attempt))
    /\ UNCHANGED <<row, wire, providerVars, faults>> /\ Asks

\* The e-mail is built from the Request and its template as they are now.
SendEmail(d) ==
    /\ job[d].at = "send"
    /\ wire' = wire \cup {[event |-> job[d].event, attempt |-> job[d].attempt,
                           label |-> label]}
    /\ job' = [job EXCEPT ![d].at = "waiting", ![d].guarded = TRUE]
    /\ UNCHANGED <<row, history, providerVars, faults>> /\ Asks

Mine(d, m) == m.event = job[d].event /\ m.attempt = job[d].attempt

\* The provider takes the e-mail, or finds the key taken with this very body.
Takes(m) ==
    /\ m.event \notin accepted \/ body[m.event] = m.label
    /\ accepted' = accepted \cup {m.event}
    /\ body' = [body EXCEPT ![m.event] = m.label]

Conflicts(m) ==
    \/ m.event \in accepted /\ body[m.event] # m.label
    \/ \E other \in wire : other # m /\ other.event = m.event

\* A 5xx may hide an e-mail that was taken.  An e-mail the provider refuses
\* for another reason than its key (an address it does not take, say) it
\* refuses every time: no earlier one was accepted.
Answer(d, m, status) ==
    /\ job[d].at = "waiting" /\ m \in wire /\ Mine(d, m)
    /\ wire' = wire \ {m}
    /\ CASE status = "ok" -> Takes(m)
         [] status = "busy" -> Takes(m) \/ UNCHANGED <<accepted, body>>
         [] status = "refused" -> /\ Conflicts(m) \/ m.event \notin accepted
                                  /\ UNCHANGED <<accepted, body>>
    /\ job' = [job EXCEPT ![d].at = "record",
                   ![d].verdict = classifyHumanNotificationHttpStatus(status, job[d].attempt)]
    /\ UNCHANGED <<row, history, reports, acknowledged, faults>> /\ Asks

\* The request times out, the connection breaks, or a 2xx comes without an
\* id; the provider may still take the e-mail.
GiveUp(d) ==
    /\ job[d].at = "waiting"
    /\ faults < MaxFaults /\ faults' = faults + 1
    /\ Decide(d, "record", classifyHumanNotificationTransportFailure(job[d].attempt))
    /\ UNCHANGED <<row, history, wire, providerVars>> /\ Asks

ArriveLate(m) ==
    /\ m \in wire
    /\ \A d \in Dispatchers : job[d].at = "waiting" => ~Mine(d, m)
    /\ wire' = wire \ {m}
    /\ Takes(m)
    /\ UNCHANGED <<row, history, job, reports, acknowledged, faults>> /\ Asks

RecordDelivery(d) ==
    /\ job[d].at = "record"
    /\ history' = Recorded(Delivery(d), job[d].verdict)
    /\ Goto(d, "settle")
    /\ UNCHANGED <<row, wire, providerVars, faults>> /\ Asks

Settle(d) ==
    /\ job[d].at = "settle"
    /\ row' = [row EXCEPT ![job[d].event] = Settled(@, job[d])]
    /\ job' = [job EXCEPT ![d] = Idle]
    /\ UNCHANGED <<history, wire, providerVars, faults>> /\ Asks

\* A database error after the send is caught with the transport's errors; the
\* statement that failed may have committed.
DatabaseError(d) ==
    /\ job[d].at \in {"record", "settle"} /\ job[d].guarded
    /\ faults < MaxFaults /\ faults' = faults + 1
    /\ \/ UNCHANGED row
       \/ /\ job[d].at = "settle"
          /\ row' = [row EXCEPT ![job[d].event] = Settled(@, job[d])]
    /\ Decide(d, "record", classifyHumanNotificationTransportFailure(job[d].attempt))
    /\ UNCHANGED <<history, wire, providerVars>> /\ Asks

\* The process stops, or an uncaught error leaves the dispatcher.
Stop(d) ==
    /\ job[d].at # "idle"
    /\ faults < MaxFaults /\ faults' = faults + 1
    /\ job' = [job EXCEPT ![d] = Idle]
    /\ UNCHANGED <<row, history, wire, providerVars>> /\ Asks

\* The template's owner renames it between two attempts.
Rename ==
    /\ faults < MaxFaults /\ faults' = faults + 1
    /\ label' = label + 1
    /\ UNCHANGED <<requestVars, row, history, job, wire, providerVars>>

-----------------------------------------------------------------------------
(* The provider's webhook.                                                 *)

LastInstant(e) == IF reports[e] = <<>> THEN 1 ELSE reports[e][Len(reports[e])].at

\* Something becomes of an accepted e-mail; instants may coincide.
Happens(e, state) ==
    /\ e \in accepted /\ Len(reports[e]) < MaxReports
    /\ \E at \in {LastInstant(e), LastInstant(e) + 1} :
           reports' = [reports EXCEPT ![e] = Append(@, [at |-> at, state |-> state])]
    /\ UNCHANGED <<row, history, job, wire, accepted, body, acknowledged, faults>> /\ Asks

\* Fault: whatever arrives last is kept.
LastArrivalWins(r, e, i) == r.state = "sent"

\* The row that is sent keeps the newest event, the first of equal instants.
Supersedes(r, e, i) ==
    /\ r.state = "sent"
    /\ \/ r.providerAt < reports[e][i].at
       \/ r.providerAt = reports[e][i].at /\ r.providerId = i

\* recordHumanNotificationProviderEvent, for event i; the webhook delivers it
\* until it is answered 200, possibly again afterwards, and in any order.  An
\* e-mail not yet known as sent is answered 503.
Notify(e, i) ==
    /\ i \in DOMAIN reports[e]
    /\ row[e].state = "sent"
    /\ row' = IF Supersedes(row[e], e, i)
              THEN [row EXCEPT ![e].provider = reports[e][i].state,
                               ![e].providerAt = reports[e][i].at, ![e].providerId = i]
              ELSE row
    /\ acknowledged' = [acknowledged EXCEPT ![e] = @ \cup {i}]
    /\ UNCHANGED <<history, job, wire, accepted, body, reports, faults>> /\ Asks

-----------------------------------------------------------------------------
Step(d) ==
    \/ LookUp(d) \/ StartDelivery(d) \/ SendEmail(d)
    \/ \E m \in wire, status \in {"ok", "busy", "refused"} : Answer(d, m, status)
    \/ GiveUp(d) \/ RecordDelivery(d) \/ Settle(d)

Next ==
    \/ \E c \in Callers :
          \/ \E actor \in Askers, signer \in Recipients :
                StartAsk(c, actor, signer) \/ StartReminder(c, actor, signer)
          \/ Snapshot(c) \/ putRequestAssignment(c) \/ Enqueue(c) \/ StopCall(c)
    \/ \E s \in Recipients : Sign(s)
    \/ Close \/ Rename
    \/ \E e \in Events :
          \/ BecomesDue(e) \/ LeaseRunsOut(e)
          \/ \E state \in Feedback : Happens(e, state)
          \/ \E i \in 1 .. MaxReports : Notify(e, i)
    \/ \E d \in Dispatchers :
          \/ \E e \in Events : Claim(d, e)
          \/ Step(d) \/ DatabaseError(d) \/ Stop(d)
    \/ \E m \in wire : ArriveLate(m)

\* Time passes, the sweep finds every due row again, and a running dispatcher
\* answers each await.
Fairness ==
    /\ \A e \in Events :
          /\ WF_vars(BecomesDue(e))
          /\ WF_vars(~Held(e) /\ LeaseRunsOut(e))
          /\ WF_vars(\E d \in Dispatchers : Claim(d, e))
    /\ \A d \in Dispatchers : WF_vars(Step(d))

Spec == Init /\ [][Next]_vars /\ Fairness
-----------------------------------------------------------------------------
(* Properties.                                                             *)

\* Every variable keeps its type.
TypeOK ==
    /\ assigned \in [Recipients -> Askers \cup {Nobody}]
    /\ signed \subseteq Recipients /\ open \in BOOLEAN
    /\ call \in [Callers -> Call]
    /\ row \in [Events -> Row]
    /\ DOMAIN history \subseteq Events \X Nat
    /\ \A k \in DOMAIN history : history[k] \in Outcomes \cup {"started"}
    /\ job \in [Dispatchers -> Job]
    /\ wire \subseteq Send
    /\ accepted \subseteq Events /\ body \in [Events -> Nat] /\ label \in Nat
    /\ reports \in [Events -> Seq(Report)]
    /\ acknowledged \in [Events -> SUBSET (Nat \ {0})]
    /\ faults \in Nat

\* The delivery the Proposal shows is the newest the provider reported and
\* the webhook answered, whatever the order they came in.
ProviderStateIsNewest ==
    \A e \in Events : \A i \in acknowledged[e] :
        /\ reports[e][i].at <= row[e].providerAt
        /\ row[e].provider = reports[e][row[e].providerId].state

\* "Email could not be sent" is shown of an e-mail the provider took only when
\* a stop, a timeout, a database error or a new name came between, or every
\* attempt was used: a 5xx alone does not lose it, for its key is kept.
FailedMailNeedsACause ==
    \A e \in Events :
        row[e].state = "permanent_failure" /\ e \in accepted =>
            faults > 0 \/ row[e].attempts > RetryBudget

\* An e-mail is queued on behalf of the one signer who asked, for a signer
\* who had not signed when the call that queues it began.
MailAsksTheMissing ==
    [][\A e \in Events :
          row[e].state = "absent" /\ row'[e].state # "absent" =>
              /\ row'[e].actor = assigned[e[1]]
              /\ \E c \in Callers : call[c].signer = e[1] /\ call[c].owing]_vars

\* What the Proposal shows of an e-mail (listLatestHumanNotificationSummaries).
Shown(e) ==
    CASE row[e].provider # "none"               -> row[e].provider
      [] row[e].provider = "none" /\ row[e].state = "sent" -> "provider_accepted"
      [] row[e].state = "permanent_failure"     -> "failed"
      [] row[e].state = "queued"                -> "queued"
      [] row[e].state = "absent"                -> "none"

Lifecycle == INSTANCE NotificationLifecycle
                 WITH shown <- [e \in Events |-> Shown(e)], accepted <- accepted

\* What is shown of an e-mail moves as promised: accepted is shown only of
\* what the provider took, its reports only after that, and nothing goes back.
ImplementsLifecycle == Lifecycle!Spec

\* Every queued e-mail is sent or given up.
EveryNotificationIsClosed ==
    \A e \in Events : row[e].state = "queued" ~> row[e].state # "queued"
=============================================================================
