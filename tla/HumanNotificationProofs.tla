----------------------- MODULE HumanNotificationProofs -----------------------
(***************************************************************************)
(* What the asks, reminders and their e-mails promise whatever the number  *)
(* of signers, dispatchers, retries and provider events.                   *)
(*                                                                         *)
(* The invariant has two halves.  Sound holds however leases are lost and  *)
(* answers delayed: what is settled, recorded or being sent is of a queued *)
(* e-mail, a success is of one the provider took, the provider's newest    *)
(* report is the row's.  Undisturbed holds until the first fault: every    *)
(* dispatcher still has its lease, alone, and the provider sees one body.  *)
(***************************************************************************)
EXTENDS HumanNotification, TLAPS

RowSound(e) ==
    LET r == row[e] IN
    /\ r.state # "sent" => acknowledged[e] = {}
    /\ acknowledged[e] \subseteq DOMAIN reports[e]
    /\ acknowledged[e] = {} => r.provider = "none" /\ r.providerAt = 0
    /\ acknowledged[e] # {} =>
           /\ r.providerId \in DOMAIN reports[e]
           /\ r.providerAt = reports[e][r.providerId].at
           /\ r.provider = reports[e][r.providerId].state
    /\ \A i \in acknowledged[e] : reports[e][i].at <= r.providerAt
    /\ r.state = "sent" => e \in accepted
    /\ e \in accepted => r.state # "absent"

JobSound(j) ==
    j.at # "idle" =>
        /\ j.event \in Events /\ row[j.event].state # "absent"
        /\ j.at \in {"record", "settle"} => j.verdict \in Outcomes
        /\ j.verdict = "succeeded" => j.event \in accepted

\* What the call that remembers k knows.
CallKnows(k) ==
    k.at # "idle" =>
        /\ k.signer \in Recipients /\ k.actor \in Askers
        /\ k.kind = "remind" \/ k.at = "enqueue" => assigned[k.signer] = k.actor
        /\ k.at = "snapshot" /\ ~k.owing => k.signer \in signed
        /\ k.at \in {"assign", "enqueue"} => k.owing

Sound ==
    /\ \A e \in Events : RowSound(e)
    /\ \A d \in Dispatchers : JobSound(job[d])
    /\ \A c \in Callers : CallKnows(call[c])
    /\ \A m \in wire : row[m.event].state # "absent"
    /\ \A k \in DOMAIN history : history[k] = "succeeded" => k[1] \in accepted

-----------------------------------------------------------------------------
(* The operators.                                                          *)

LEMMA RowUpdates ==
    ASSUME NEW r \in Row
    PROVE  /\ Claimed(r) \in Row /\ Claimed(r).state = r.state
           /\ Claimed(r).provider = r.provider /\ Claimed(r).providerAt = r.providerAt
           /\ Claimed(r).providerId = r.providerId
           /\ Claimed(r).token = r.attempts + 1 /\ Claimed(r).attempts = r.attempts + 1
           /\ Claimed(r).overdue = FALSE
<1>1. r.attempts \in Nat
  BY DEF Row
<1>2. Claimed(r) = [r EXCEPT !.token = r.attempts + 1, !.attempts = r.attempts + 1,
                            !.overdue = FALSE]
  BY DEF Claimed, Row
<1> DEFINE n == r.attempts + 1
<1>3. n \in Nat /\ Claimed(r) = [r EXCEPT !.token = n, !.attempts = n, !.overdue = FALSE]
  BY <1>1, <1>2
<1> HIDE DEF n
<1>4. Claimed(r) \in Row
  BY <1>3 DEF Row
<1>5. /\ Claimed(r).state = r.state
      /\ Claimed(r).provider = r.provider /\ Claimed(r).providerAt = r.providerAt
      /\ Claimed(r).providerId = r.providerId
  BY <1>3 DEF Row
<1>6. Claimed(r).token = n /\ Claimed(r).attempts = n /\ Claimed(r).overdue = FALSE
  BY <1>3 DEF Row
<1> QED BY <1>4, <1>5, <1>6 DEF n

LEMMA CompletedFields ==
    ASSUME NEW r \in Row, NEW state \in States
    PROVE  /\ Completed(r, state) \in Row /\ Completed(r, state).state = state
           /\ Completed(r, state).provider = r.provider
           /\ Completed(r, state).providerAt = r.providerAt
           /\ Completed(r, state).providerId = r.providerId
           /\ Completed(r, state).attempts = r.attempts
BY DEF Completed, Row

LEMMA ReleasedFields ==
    ASSUME NEW r \in Row
    PROVE  /\ Released(r) \in Row /\ Released(r).state = r.state
           /\ Released(r).provider = r.provider
           /\ Released(r).providerAt = r.providerAt
           /\ Released(r).providerId = r.providerId
           /\ Released(r).attempts = r.attempts
BY DEF Released, Row

LEMMA QueuedFields ==
    ASSUME NEW actor \in Askers
    PROVE  /\ Queued(actor) \in Row /\ Queued(actor).state = "queued"
           /\ Queued(actor).actor = actor /\ Queued(actor).attempts = 0
           /\ Queued(actor).provider = "none" /\ Queued(actor).providerAt = 0
BY DEF Queued, Absent, Row, States

\* Settling keeps what the provider reported, and moves only a queued row.
LEMMA SettledFields ==
    ASSUME NEW r \in Row, NEW j \in Job, j.verdict \in Outcomes
    PROVE  LET s == Settled(r, j) IN
           /\ s \in Row /\ s.attempts = r.attempts
           /\ s.provider = r.provider /\ s.providerAt = r.providerAt
           /\ s.providerId = r.providerId
           /\ \/ s = r
              \/ /\ Holds(r, j) /\ r.state = "queued"
                 /\ \/ s.state = "queued"
                    \/ s.state = "sent" /\ j.verdict = "succeeded"
                    \/ s.state = "permanent_failure" /\ j.verdict = "permanent_failure"
<1> DEFINE s == Settled(r, j)
<1>1. CASE ~Holds(r, j)
  BY <1>1 DEF Settled
<1>2. CASE Holds(r, j) /\ j.verdict = "retry"
  <2>1. s = Released(r)
    BY <1>2 DEF Settled
  <2> HIDE DEF s
  <2>2. r.state = "queued"
    BY <1>2 DEF Holds
  <2> QED BY <1>2, <2>1, <2>2, ReleasedFields DEF s
<1>3. CASE Holds(r, j) /\ j.verdict = "succeeded"
  <2>1. s = Completed(r, "sent")
    BY <1>3 DEF Settled
  <2> HIDE DEF s
  <2>2. r.state = "queued"
    BY <1>3 DEF Holds
  <2> QED BY <1>3, <2>1, <2>2, CompletedFields DEF s, States
<1>4. CASE Holds(r, j) /\ j.verdict = "permanent_failure"
  <2>1. s = Completed(r, "permanent_failure")
    BY <1>4 DEF Settled
  <2> HIDE DEF s
  <2>2. r.state = "queued"
    BY <1>4 DEF Holds
  <2> QED BY <1>4, <2>1, <2>2, CompletedFields DEF s, States
<1> QED BY <1>1, <1>2, <1>3, <1>4 DEF Outcomes

LEMMA VerdictTypes ==
    /\ \A a : classifyHumanNotificationTransportFailure(a) \in {"retry", "permanent_failure"}
    /\ \A a : \A status \in {"ok", "busy", "refused"} :
           /\ classifyHumanNotificationHttpStatus(status, a) \in Outcomes
           /\ classifyHumanNotificationHttpStatus(status, a) = "succeeded" => status = "ok"
BY DEF classifyHumanNotificationTransportFailure, classifyHumanNotificationHttpStatus, Outcomes

-----------------------------------------------------------------------------
(* How each step changes the rows, the provider and the jobs.              *)

RowMove(e) ==
    LET r == row[e]
        n == row'[e] IN
    /\ n \in Row
    /\ \/ n = r
       \/ r.state = "absent" /\ n.state = "queued" /\ n.provider = "none" /\ n.providerAt = 0
       \/ /\ n.provider = r.provider /\ n.providerAt = r.providerAt
          /\ n.providerId = r.providerId
          /\ \/ n.state = r.state
             \/ /\ r.state = "queued"
                /\ n.state \in {"queued", "sent", "permanent_failure"}
                /\ n.state = "sent" => e \in accepted

RowsMove == row' \in [Events -> Row] /\ \A e \in Events : RowMove(e)

Notifies == \E e \in Events : \E i \in 1 .. MaxReports : Notify(e, i)

LEMMA OneRowMoves ==
    ASSUME TypeOK, NEW e \in Events, NEW n, row' = [row EXCEPT ![e] = n],
           n \in Row,
           \/ n = row[e]
           \/ row[e].state = "absent" /\ n.state = "queued" /\ n.provider = "none" /\ n.providerAt = 0
           \/ /\ n.provider = row[e].provider /\ n.providerAt = row[e].providerAt
              /\ n.providerId = row[e].providerId
              /\ \/ n.state = row[e].state
                 \/ /\ row[e].state = "queued"
                    /\ n.state \in {"queued", "sent", "permanent_failure"}
                    /\ n.state = "sent" => e \in accepted
    PROVE  RowsMove
<1>1. row \in [Events -> Row]
  BY DEF TypeOK
<1>2. row' \in [Events -> Row] /\ row'[e] = n
  BY <1>1
<1>3. RowMove(e)
  BY <1>2 DEF RowMove
<1>4. ASSUME NEW f \in Events, f # e PROVE RowMove(f)
  <2>1. row'[f] = row[f] /\ row[f] \in Row
    BY <1>1, <1>4
  <2> QED BY <2>1 DEF RowMove
<1> QED BY <1>2, <1>3, <1>4 DEF RowsMove

LEMMA RowsStay == ASSUME TypeOK, UNCHANGED row PROVE RowsMove
BY DEF TypeOK, RowsMove, RowMove

LEMMA EnqueueMoves ==
    ASSUME TypeOK, Sound, NEW c \in Callers, Enqueue(c)
    PROVE  RowsMove
<1>1. CASE UNCHANGED row
  BY <1>1, RowsStay
<1>2. ASSUME NEW e \in Events, row[e].state = "absent",
             row' = [row EXCEPT ![e] = Queued(call[c].actor)]
      PROVE  RowsMove
  <2>1. call[c].actor \in Askers
    BY DEF Sound, CallKnows, Enqueue
  <2> DEFINE n == Queued(call[c].actor)
  <2>2. n \in Row /\ n.state = "queued" /\ n.provider = "none" /\ n.providerAt = 0
    BY <2>1, QueuedFields
  <2> HIDE DEF n
  <2>3. row' = [row EXCEPT ![e] = n]
    BY <1>2 DEF n
  <2> QED BY <1>2, <2>2, <2>3, OneRowMoves
<1> QED BY <1>1, <1>2 DEF Enqueue

LEMMA SettleMoves ==
    ASSUME TypeOK, Sound, NEW d \in Dispatchers, job[d].at = "settle",
           row' = [row EXCEPT ![job[d].event] = Settled(row[job[d].event], job[d])]
    PROVE  RowsMove
<1> DEFINE e == job[d].event
           n == Settled(row[e], job[d])
<1>1. /\ e \in Events /\ row[e].state # "absent" /\ job[d].verdict \in Outcomes
      /\ job[d].verdict = "succeeded" => e \in accepted
  BY DEF Sound, JobSound
<1>2. row[e] \in Row /\ job[d] \in Job
  BY <1>1 DEF TypeOK
<1>3. /\ n \in Row /\ n.provider = row[e].provider /\ n.providerAt = row[e].providerAt
      /\ n.providerId = row[e].providerId
      /\ \/ n = row[e]
         \/ /\ row[e].state = "queued"
            /\ \/ n.state = "queued"
               \/ n.state = "sent" /\ job[d].verdict = "succeeded"
               \/ n.state = "permanent_failure" /\ job[d].verdict = "permanent_failure"
  BY <1>1, <1>2, SettledFields
<1>4. row' = [row EXCEPT ![e] = n]
  OBVIOUS
<1> HIDE DEF e, n
<1> QED BY <1>1, <1>3, <1>4, OneRowMoves

LEMMA OutboxMoves ==
    ASSUME TypeOK, NEW e \in Events,
           BecomesDue(e) \/ LeaseRunsOut(e) \/ \E d \in Dispatchers : Claim(d, e)
    PROVE  RowsMove
<1>1. row[e] \in Row
  BY DEF TypeOK
<1>2. CASE BecomesDue(e)
  <2> DEFINE n == [row[e] EXCEPT !.due = TRUE]
  <2>1. /\ n \in Row /\ n.state = row[e].state /\ n.provider = row[e].provider
        /\ n.providerAt = row[e].providerAt /\ n.providerId = row[e].providerId
    BY <1>1 DEF Row
  <2>2. row' = [row EXCEPT ![e] = n] /\ row[e].state # "absent"
    BY <1>2 DEF BecomesDue, TypeOK
  <2> HIDE DEF n
  <2> QED BY <2>1, <2>2, OneRowMoves
<1>3. CASE LeaseRunsOut(e)
  <2> DEFINE n == [row[e] EXCEPT !.overdue = TRUE]
  <2>1. /\ n \in Row /\ n.state = row[e].state /\ n.provider = row[e].provider
        /\ n.providerAt = row[e].providerAt /\ n.providerId = row[e].providerId
    BY <1>1 DEF Row
  <2>2. row' = [row EXCEPT ![e] = n]
    BY <1>3 DEF LeaseRunsOut, TypeOK
  <2> HIDE DEF n
  <2> QED BY <2>1, <2>2, OneRowMoves
<1>4. ASSUME NEW d \in Dispatchers, Claim(d, e) PROVE RowsMove
  <2> DEFINE n == Claimed(row[e])
  <2>1. /\ n \in Row /\ n.state = row[e].state /\ n.provider = row[e].provider
        /\ n.providerAt = row[e].providerAt /\ n.providerId = row[e].providerId
    BY <1>1, RowUpdates
  <2>2. row' = [row EXCEPT ![e] = n] /\ row[e].state = "queued"
    BY <1>4 DEF Claim, Claimable
  <2> HIDE DEF n
  <2> QED BY <2>1, <2>2, OneRowMoves
<1> QED BY <1>2, <1>3, <1>4

\* Only the provider's webhook touches what it reported.
LEMMA Rows ==
    ASSUME TypeOK, Sound, [Next]_vars
    PROVE  \/ Notifies
           \/ RowsMove /\ UNCHANGED acknowledged
<1>1. \/ Notifies
      \/ UNCHANGED acknowledged
  BY DEF Next, Notifies, Step, vars, requestVars, providerVars, Unsent, Asks, StartAsk,
         StartReminder, Snapshot, putRequestAssignment, Enqueue, StopCall, Sign, Close, Rename,
         BecomesDue, LeaseRunsOut, Happens, Claim, LookUp, StartDelivery, SendEmail, Answer,
         GiveUp, ArriveLate, RecordDelivery, Settle, DatabaseError, Stop
<1>2. \/ Notifies
      \/ \E c \in Callers : Enqueue(c)
      \/ \E e \in Events : BecomesDue(e) \/ LeaseRunsOut(e) \/ \E d \in Dispatchers : Claim(d, e)
      \/ \E d \in Dispatchers : Settle(d) \/ DatabaseError(d)
      \/ UNCHANGED row
  BY DEF Next, Notifies, Step, vars, requestVars, providerVars, Unsent, Asks, StartAsk,
         StartReminder, Snapshot, putRequestAssignment, StopCall, Sign, Close, Rename,
         Happens, LookUp, StartDelivery, SendEmail, Answer, GiveUp, ArriveLate, RecordDelivery,
         Stop
<1>3. ASSUME NEW d \in Dispatchers, Settle(d) \/ DatabaseError(d) PROVE RowsMove
  BY <1>3, SettleMoves, RowsStay DEF Settle, DatabaseError
<1> QED BY <1>1, <1>2, <1>3, EnqueueMoves, OutboxMoves, RowsStay

\* The provider takes what a dispatcher sent, and forgets nothing.
LEMMA Provider ==
    ASSUME TypeOK, Sound, [Next]_vars
    PROVE  /\ accepted \subseteq accepted' /\ accepted' \subseteq Events
           /\ body' \in [Events -> Nat] /\ label' \in Nat
           /\ \A e \in accepted' \ accepted : row[e].state # "absent" /\ UNCHANGED row
           /\ \/ UNCHANGED <<accepted, body>>
              \/ \E m \in wire : Takes(m) /\ wire' = wire \ {m}
<1>1. ASSUME NEW m \in wire, Takes(m)
      PROVE  /\ accepted \subseteq accepted' /\ accepted' \subseteq Events
             /\ body' \in [Events -> Nat]
             /\ \A e \in accepted' \ accepted : row[e].state # "absent"
  <2>1. m.event \in Events /\ m.label \in Nat /\ row[m.event].state # "absent"
    BY DEF TypeOK, Send, Sound
  <2> QED BY <1>1, <2>1 DEF Takes, TypeOK
<1>2. ASSUME NEW d \in Dispatchers, NEW m \in wire, NEW status \in {"ok", "busy", "refused"},
             Answer(d, m, status)
      PROVE  /\ UNCHANGED <<accepted, body>> \/ Takes(m)
             /\ wire' = wire \ {m} /\ UNCHANGED row
  <2>1. CASE status = "ok"
    BY <1>2, <2>1 DEF Answer
  <2>2. CASE status = "busy"
    BY <1>2, <2>2 DEF Answer
  <2>3. CASE status = "refused"
    BY <1>2, <2>3 DEF Answer
  <2> QED BY <2>1, <2>2, <2>3
<1>3. \/ UNCHANGED <<accepted, body>>
      \/ \E d \in Dispatchers : \E m \in wire, status \in {"ok", "busy", "refused"} :
             Answer(d, m, status)
      \/ \E m \in wire : ArriveLate(m)
  BY DEF Next, Step, vars, requestVars, providerVars, Unsent, Asks, StartAsk,
         StartReminder, Snapshot, putRequestAssignment, Enqueue, StopCall, Sign, Close, Rename,
         BecomesDue, LeaseRunsOut, Happens, Notify, Claim, LookUp, StartDelivery, SendEmail,
         GiveUp, RecordDelivery, Settle, DatabaseError, Stop
<1>4. \/ UNCHANGED <<accepted, body>>
      \/ \E m \in wire : Takes(m) /\ wire' = wire \ {m} /\ UNCHANGED row
  BY <1>2, <1>3 DEF ArriveLate
<1>5. Rename \/ UNCHANGED label
  BY DEF Next, Step, vars, requestVars, providerVars, Unsent, Asks, StartAsk,
         StartReminder, Snapshot, putRequestAssignment, Enqueue, StopCall, Sign, Close,
         BecomesDue, LeaseRunsOut, Happens, Notify, Claim, LookUp, StartDelivery, SendEmail,
         Answer, GiveUp, ArriveLate, RecordDelivery, Settle, DatabaseError, Stop
<1>6. label' \in Nat
  BY <1>5 DEF Rename, TypeOK
<1> QED BY <1>1, <1>4, <1>6 DEF TypeOK

\* An e-mail once queued stays in the outbox.
LEMMA Present ==
    ASSUME TypeOK, Sound, [Next]_vars, NEW e \in Events, row[e].state # "absent"
    PROVE  row'[e].state # "absent"
<1>1. CASE RowsMove
  BY <1>1 DEF RowsMove, RowMove
<1>2. CASE Notifies
  <2>1. PICK f \in Events, i \in 1 .. MaxReports : Notify(f, i)
    BY <1>2 DEF Notifies
  <2>2. row \in [Events -> Row]
    BY DEF TypeOK
  <2>3. row'[e].state = row[e].state
    BY <2>1, <2>2 DEF Notify, Row
  <2> QED BY <2>3
<1> QED BY <1>1, <1>2, Rows

LEMMA JobKeeps ==
    ASSUME TypeOK, Sound, [Next]_vars, NEW j \in Job, JobSound(j)
    PROVE  JobSound(j)'
BY Present, Provider DEF JobSound

JobMove(d) ==
    \E k \in Job : job' = [job EXCEPT ![d] = k] /\ JobSound(k)'

LEMMA ToIdle ==
    ASSUME NEW d \in Dispatchers, job' = [job EXCEPT ![d] = Idle]
    PROVE  JobMove(d)
<1>1. Idle \in Job /\ Idle.at = "idle"
  BY DEF Idle, Job
<1>2. JobSound(Idle)'
  BY <1>1 DEF JobSound
<1> QED BY <1>1, <1>2 DEF JobMove

\* A job that goes on, or decides.
LEMMA Goes ==
    ASSUME TypeOK, Sound, [Next]_vars, NEW d \in Dispatchers, job[d].at # "idle",
           NEW at \in {"lookup", "start", "send", "waiting"}, Goto(d, at)
    PROVE  JobMove(d)
<1>1. PICK j \in Job : j = job[d] /\ JobSound(j)
  BY DEF TypeOK, Sound
<1> DEFINE k == [j EXCEPT !.at = at]
<1>2. job' = [job EXCEPT ![d] = k]
  BY <1>1 DEF Goto, TypeOK
<1>3. JobSound(j)'
  BY <1>1, JobKeeps
<1>4. k \in Job /\ k.at = at /\ k.event = j.event /\ k.verdict = j.verdict
  BY <1>1 DEF Job
<1> HIDE DEF k
<1>5. JobSound(k)'
  BY <1>1, <1>3, <1>4 DEF JobSound
<1> QED BY <1>2, <1>4, <1>5 DEF JobMove

LEMMA Decides ==
    ASSUME TypeOK, Sound, [Next]_vars, NEW d \in Dispatchers, job[d].at # "idle",
           NEW at \in {"record", "settle"}, NEW verdict \in Outcomes,
           verdict = "succeeded" => job[d].event \in accepted',
           \/ Decide(d, at, verdict)
           \/ job' = [job EXCEPT ![d].at = at, ![d].verdict = verdict]
    PROVE  JobMove(d)
<1>1. PICK j \in Job : j = job[d] /\ JobSound(j)
  BY DEF TypeOK, Sound
<1> DEFINE k == [j EXCEPT !.at = at, !.verdict = verdict, !.guarded = FALSE]
           l == [j EXCEPT !.at = at, !.verdict = verdict]
<1>2. job' = [job EXCEPT ![d] = k] \/ job' = [job EXCEPT ![d] = l]
  BY <1>1 DEF Decide, TypeOK
<1>3. JobSound(j)'
  BY <1>1, JobKeeps
<1>4. k \in Job /\ k.at = at /\ k.event = j.event /\ k.verdict = verdict
  BY <1>1 DEF Job
<1>5. l \in Job /\ l.at = at /\ l.event = j.event /\ l.verdict = verdict
  BY <1>1 DEF Job
<1> HIDE DEF k, l
<1>6. JobSound(k)' /\ JobSound(l)'
  BY <1>1, <1>3, <1>4, <1>5 DEF JobSound
<1> QED BY <1>2, <1>4, <1>5, <1>6 DEF JobMove

LEMMA ClaimMove ==
    ASSUME TypeOK, Sound, [Next]_vars, NEW d \in Dispatchers, NEW e \in Events, Claim(d, e)
    PROVE  JobMove(d)
<1> DEFINE n == row[e].attempts + 1
<1>1. /\ n \in Nat /\ row[e].state = "queued" /\ row'[e].attempts = n
  <2>1. row[e] \in Row /\ row \in [Events -> Row]
    BY DEF TypeOK
  <2>2. row' = [row EXCEPT ![e] = Claimed(row[e])] /\ row[e].state = "queued"
    BY DEF Claim, Claimable
  <2>3. Claimed(row[e]).attempts = n
    BY <2>1, RowUpdates
  <2> QED BY <2>1, <2>2, <2>3 DEF Row
<1>2. PICK a \in Nat : a = n
  BY <1>1
<1> DEFINE k == [Idle EXCEPT !.at = "lookup", !.event = e, !.attempt = a]
<1>3. job' = [job EXCEPT ![d] = k]
  BY <1>1, <1>2 DEF Claim
<1>4. k \in Job /\ k.at = "lookup" /\ k.event = e /\ k.verdict = "none"
  BY DEF Idle, Job
<1> HIDE DEF k
<1>5. row'[e].state # "absent"
  BY <1>1, Present
<1>6. JobSound(k)'
  BY <1>4, <1>5 DEF JobSound
<1> QED BY <1>3, <1>4, <1>6 DEF JobMove

LEMMA AnswerMove ==
    ASSUME TypeOK, Sound, [Next]_vars, NEW d \in Dispatchers, NEW m \in wire,
           NEW status \in {"ok", "busy", "refused"}, Answer(d, m, status)
    PROVE  JobMove(d)
<1> DEFINE verdict == classifyHumanNotificationHttpStatus(status, job[d].attempt)
<1>1. verdict \in Outcomes /\ (verdict = "succeeded" => status = "ok")
  BY VerdictTypes
<1>2. job[d].at = "waiting" /\ m.event = job[d].event
  BY DEF Answer, Mine
<1>3. status = "ok" => job[d].event \in accepted'
  BY <1>2 DEF Answer, Takes
<1>4. job' = [job EXCEPT ![d].at = "record", ![d].verdict = verdict]
  BY DEF Answer
<1> HIDE DEF verdict
<1>5. PICK v \in Outcomes : v = verdict
  BY <1>1
<1> QED BY <1>1, <1>2, <1>3, <1>4, <1>5, Decides

LEMMA StepMove ==
    ASSUME TypeOK, Sound, [Next]_vars, NEW d \in Dispatchers,
           Step(d) \/ DatabaseError(d) \/ Stop(d)
    PROVE  JobMove(d)
<1>1. ASSUME NEW v \in {"retry", "permanent_failure"},
             v = classifyHumanNotificationTransportFailure(job[d].attempt),
             Decide(d, "record", v), job[d].at # "idle"
      PROVE  JobMove(d)
  BY <1>1, Decides DEF Outcomes
<1>2. classifyHumanNotificationTransportFailure(job[d].attempt) \in {"retry", "permanent_failure"}
  BY VerdictTypes
<1>3. CASE LookUp(d)
  <2>1. CASE findSucceeded(job[d].event)
    <3>1. PICK x \in DOMAIN history : x[1] = job[d].event /\ history[x] = "succeeded"
      BY <2>1 DEF findSucceeded
    <3>2. job[d].event \in accepted'
      BY <3>1, Provider DEF Sound
    <3> QED BY <1>3, <2>1, <3>2, Decides DEF LookUp, Outcomes
  <2>2. CASE ~findSucceeded(job[d].event)
    BY <1>3, <2>2, Goes DEF LookUp
  <2> QED BY <2>1, <2>2
<1>4. CASE StartDelivery(d)
  <2>1. CASE Goto(d, "send")
    BY <1>4, <2>1, Goes DEF StartDelivery
  <2>2. CASE Decide(d, "record", classifyHumanNotificationTransportFailure(job[d].attempt))
    BY <1>1, <1>2, <1>4, <2>2 DEF StartDelivery
  <2> QED BY <1>4, <2>1, <2>2 DEF StartDelivery
<1>5. CASE SendEmail(d)
  <2>1. PICK j \in Job : j = job[d] /\ JobSound(j)
    BY DEF TypeOK, Sound
  <2> DEFINE k == [j EXCEPT !.at = "waiting", !.guarded = TRUE]
  <2>2. job' = [job EXCEPT ![d] = k] /\ j.at # "idle"
    BY <1>5, <2>1 DEF SendEmail, TypeOK
  <2>3. JobSound(j)'
    BY <2>1, JobKeeps
  <2>4. k \in Job /\ k.at = "waiting" /\ k.event = j.event /\ k.verdict = j.verdict
    BY <2>1 DEF Job
  <2> HIDE DEF k
  <2>5. JobSound(k)'
    BY <2>2, <2>3, <2>4 DEF JobSound
  <2> QED BY <2>2, <2>4, <2>5 DEF JobMove
<1>6. CASE GiveUp(d)
  BY <1>1, <1>2, <1>6 DEF GiveUp
<1>7. CASE RecordDelivery(d)
  <2>1. PICK j \in Job : j = job[d] /\ JobSound(j)
    BY DEF TypeOK, Sound
  <2> DEFINE k == [j EXCEPT !.at = "settle"]
  <2>2. job' = [job EXCEPT ![d] = k] /\ j.at = "record"
    BY <1>7, <2>1 DEF RecordDelivery, Goto, TypeOK
  <2>3. JobSound(j)'
    BY <2>1, JobKeeps
  <2>4. k \in Job /\ k.at = "settle" /\ k.event = j.event /\ k.verdict = j.verdict
    BY <2>1 DEF Job
  <2> HIDE DEF k
  <2>5. JobSound(k)'
    BY <2>2, <2>3, <2>4 DEF JobSound
  <2> QED BY <2>2, <2>4, <2>5 DEF JobMove
<1>8. CASE Settle(d)
  BY <1>8, ToIdle DEF Settle
<1>9. CASE DatabaseError(d)
  BY <1>1, <1>2, <1>9 DEF DatabaseError
<1>10. CASE Stop(d)
  BY <1>10, ToIdle DEF Stop
<1> QED BY <1>3, <1>4, <1>5, <1>6, <1>7, <1>8, <1>9, <1>10, AnswerMove DEF Step

LEMMA Jobs ==
    ASSUME TypeOK, Sound, [Next]_vars
    PROVE  /\ job' \in [Dispatchers -> Job]
           /\ \A d \in Dispatchers : JobSound(job[d])'
<1>1. job \in [Dispatchers -> Job] /\ \A d \in Dispatchers : JobSound(job[d])
  BY DEF TypeOK, Sound
<1>2. \/ \E d \in Dispatchers : Step(d) \/ DatabaseError(d) \/ Stop(d)
      \/ \E d \in Dispatchers, e \in Events : Claim(d, e)
      \/ UNCHANGED job
  BY DEF Next, vars, requestVars, providerVars, Unsent, Asks, StartAsk,
         StartReminder, Snapshot, putRequestAssignment, Enqueue, StopCall, Sign, Close, Rename,
         BecomesDue, LeaseRunsOut, Happens, Notify, ArriveLate
<1>3. (\E d \in Dispatchers : JobMove(d)) \/ UNCHANGED job
  BY <1>2, StepMove, ClaimMove
<1>4. ASSUME NEW d \in Dispatchers PROVE job'[d] \in Job /\ JobSound(job[d])'
  <2>1. PICK j \in Job : j = job[d] /\ JobSound(j)
    BY <1>1
  <2>2. JobSound(j)'
    BY <2>1, JobKeeps
  <2>3. CASE UNCHANGED job
    BY <2>1, <2>2, <2>3
  <2>4. ASSUME NEW c \in Dispatchers, JobMove(c) PROVE job'[d] \in Job /\ JobSound(job[d])'
    <3>1. PICK k \in Job : job' = [job EXCEPT ![c] = k] /\ JobSound(k)'
      BY <2>4 DEF JobMove
    <3>2. CASE c = d
      <4>1. job'[d] = k
        BY <1>1, <3>1, <3>2
      <4> QED BY <3>1, <4>1
    <3>3. CASE c # d
      <4>1. job'[d] = j
        BY <1>1, <2>1, <3>1, <3>3
      <4> QED BY <2>2, <4>1
    <3> QED BY <3>2, <3>3
  <2> QED BY <1>3, <2>3, <2>4
<1>5. job' \in [Dispatchers -> Job]
  BY <1>1, <1>3, <1>4 DEF JobMove
<1> QED BY <1>4, <1>5

-----------------------------------------------------------------------------
(* Types and soundness are preserved.                                      *)

\* A report is added behind those that happened before.
LEMMA Reports ==
    ASSUME TypeOK, [Next]_vars
    PROVE  /\ reports' \in [Events -> Seq(Report)]
           /\ \A e \in Events :
                  /\ DOMAIN reports[e] \subseteq DOMAIN reports'[e]
                  /\ \A i \in DOMAIN reports[e] : reports'[e][i] = reports[e][i]
<1>1. reports \in [Events -> Seq(Report)]
  BY DEF TypeOK
<1>2. ASSUME NEW e \in Events, NEW state \in Feedback, Happens(e, state)
      PROVE  \E x \in Report : reports' = [reports EXCEPT ![e] = Append(reports[e], x)]
  <2>1. PICK at \in {LastInstant(e), LastInstant(e) + 1} :
            reports' = [reports EXCEPT ![e] = Append(reports[e], [at |-> at, state |-> state])]
    BY <1>2 DEF Happens
  <2>2. LastInstant(e) \in Nat \ {0}
    <3>1. CASE reports[e] = <<>>
      BY <3>1 DEF LastInstant
    <3>2. CASE reports[e] # <<>>
      <4>1. reports[e] \in Seq(Report) /\ Len(reports[e]) \in DOMAIN reports[e]
        BY <1>1, <3>2
      <4>2. reports[e][Len(reports[e])] \in Report
        BY <4>1
      <4> QED BY <3>2, <4>2 DEF LastInstant, Report
    <3> QED BY <3>1, <3>2
  <2>3. [at |-> at, state |-> state] \in Report
    BY <2>1, <2>2 DEF Report
  <2> QED BY <2>1, <2>3
<1>3. (\E e \in Events, state \in Feedback : Happens(e, state)) \/ UNCHANGED reports
  BY DEF Next, Step, vars, requestVars, providerVars, Unsent, Asks, StartAsk, StartReminder,
         Snapshot, putRequestAssignment, Enqueue, StopCall, Sign, Close, Rename, BecomesDue,
         LeaseRunsOut, Notify, Claim, LookUp, StartDelivery, SendEmail, Answer, GiveUp,
         ArriveLate, RecordDelivery, Settle, DatabaseError, Stop
<1>4. ASSUME NEW f \in Events, NEW x \in Report,
             reports' = [reports EXCEPT ![f] = Append(reports[f], x)]
      PROVE  /\ reports' \in [Events -> Seq(Report)]
             /\ \A e \in Events :
                    /\ DOMAIN reports[e] \subseteq DOMAIN reports'[e]
                    /\ \A i \in DOMAIN reports[e] : reports'[e][i] = reports[e][i]
  <2>1. reports[f] \in Seq(Report)
    BY <1>1
  <2>2. /\ Append(reports[f], x) \in Seq(Report)
        /\ DOMAIN reports[f] \subseteq DOMAIN Append(reports[f], x)
        /\ \A i \in DOMAIN reports[f] : Append(reports[f], x)[i] = reports[f][i]
    BY <2>1
  <2> QED BY <1>1, <1>4, <2>2
<1> QED BY <1>1, <1>2, <1>3, <1>4

LEMMA Rest ==
    ASSUME TypeOK, Sound, [Next]_vars
    PROVE  /\ open' \in BOOLEAN /\ faults' \in Nat
           /\ acknowledged' \in [Events -> SUBSET (Nat \ {0})]
           /\ wire' \subseteq Send /\ \A m \in wire' : row[m.event].state # "absent"
<1>1. open' \in BOOLEAN
  BY DEF TypeOK, Next, Step, vars, requestVars, providerVars, Unsent, Asks, StartAsk,
         StartReminder, Snapshot, putRequestAssignment, Enqueue, StopCall, Sign, Close, Rename,
         BecomesDue, LeaseRunsOut, Happens, Notify, Claim, LookUp, StartDelivery, SendEmail,
         Answer, GiveUp, ArriveLate, RecordDelivery, Settle, DatabaseError, Stop
<1>2. faults' = faults + 1 \/ UNCHANGED faults
  BY DEF Next, Step, vars, requestVars, providerVars, Unsent, Asks, StartAsk,
         StartReminder, Snapshot, putRequestAssignment, Enqueue, StopCall, Sign, Close, Rename,
         BecomesDue, LeaseRunsOut, Happens, Notify, Claim, LookUp, StartDelivery, SendEmail,
         Answer, GiveUp, ArriveLate, RecordDelivery, Settle, DatabaseError, Stop
<1>3. acknowledged' \in [Events -> SUBSET (Nat \ {0})]
  <2>1. ASSUME NEW e \in Events, NEW i \in 1 .. MaxReports, Notify(e, i)
        PROVE  acknowledged' \in [Events -> SUBSET (Nat \ {0})]
    <3>1. i \in Nat \ {0}
      OBVIOUS
    <3> QED BY <2>1, <3>1 DEF Notify, TypeOK
  <2>2. Notifies \/ UNCHANGED acknowledged
    BY Rows
  <2> QED BY <2>1, <2>2 DEF Notifies, TypeOK
<1>4. wire' \subseteq Send /\ \A m \in wire' : row[m.event].state # "absent"
  <2>1. wire \subseteq Send /\ \A m \in wire : row[m.event].state # "absent"
    BY DEF TypeOK, Sound
  <2>2. ASSUME NEW d \in Dispatchers, SendEmail(d)
        PROVE  wire' \subseteq Send /\ \A m \in wire' : row[m.event].state # "absent"
    <3> DEFINE m == [event |-> job[d].event, attempt |-> job[d].attempt, label |-> label]
    <3>1. /\ job[d].event \in Events /\ row[job[d].event].state # "absent"
          /\ job[d].attempt \in Nat /\ label \in Nat
      BY <2>2 DEF SendEmail, TypeOK, Sound, JobSound, Job
    <3>2. m \in Send /\ row[m.event].state # "absent"
      BY <3>1 DEF Send
    <3>3. wire' = wire \cup {m}
      BY <2>2 DEF SendEmail
    <3> QED BY <2>1, <3>2, <3>3
  <2>3. (\E d \in Dispatchers : SendEmail(d)) \/ wire' \subseteq wire
    BY DEF Next, Step, vars, requestVars, providerVars, Unsent, Asks, StartAsk,
           StartReminder, Snapshot, putRequestAssignment, Enqueue, StopCall, Sign, Close,
           Rename, BecomesDue, LeaseRunsOut, Happens, Notify, Claim, LookUp, StartDelivery,
           Answer, GiveUp, ArriveLate, RecordDelivery, Settle, DatabaseError, Stop
  <2> QED BY <2>1, <2>2, <2>3
<1> QED BY <1>1, <1>2, <1>3, <1>4 DEF TypeOK

LEMMA Deliveries ==
    ASSUME TypeOK, Sound, [Next]_vars
    PROVE  /\ DOMAIN history' \subseteq Events \X Nat
           /\ \A k \in DOMAIN history' : history'[k] \in Outcomes \cup {"started"}
           /\ \A k \in DOMAIN history' : history'[k] = "succeeded" => k[1] \in accepted'
<1>1. /\ DOMAIN history \subseteq Events \X Nat
      /\ \A k \in DOMAIN history : history[k] \in Outcomes \cup {"started"}
      /\ \A k \in DOMAIN history : history[k] = "succeeded" => k[1] \in accepted'
  BY Provider DEF TypeOK, Sound
<1>2. ASSUME NEW e \in Events, NEW a \in Nat, NEW v \in Outcomes \cup {"started"},
             v = "succeeded" => e \in accepted, history' = Recorded(<<e, a>>, v)
      PROVE  /\ DOMAIN history' \subseteq Events \X Nat
             /\ \A k \in DOMAIN history' : history'[k] \in Outcomes \cup {"started"}
             /\ \A k \in DOMAIN history' : history'[k] = "succeeded" => k[1] \in accepted'
  <2>1. e \in accepted => e \in accepted'
    BY Provider
  <2> QED BY <1>1, <1>2, <2>1 DEF Recorded
<1>3. ASSUME NEW d \in Dispatchers, StartDelivery(d) \/ RecordDelivery(d)
      PROVE  \/ UNCHANGED history
             \/ \E e \in Events, a \in Nat, v \in Outcomes \cup {"started"} :
                    /\ v = "succeeded" => e \in accepted
                    /\ history' = Recorded(<<e, a>>, v)
  <2>1. /\ job[d].event \in Events /\ job[d].attempt \in Nat
        /\ job[d].at \in {"record", "settle"} => job[d].verdict \in Outcomes
        /\ job[d].verdict = "succeeded" => job[d].event \in accepted
    BY <1>3 DEF StartDelivery, RecordDelivery, TypeOK, Sound, JobSound, Job
  <2>2. CASE StartDelivery(d)
    <3>1. history' = Recorded(<<job[d].event, job[d].attempt>>, "started") \/ UNCHANGED history
      BY <2>2 DEF StartDelivery, Delivery
    <3> QED BY <2>1, <3>1
  <2>3. CASE RecordDelivery(d)
    <3>1. /\ history' = Recorded(<<job[d].event, job[d].attempt>>, job[d].verdict)
          /\ job[d].verdict \in Outcomes
      BY <2>1, <2>3 DEF RecordDelivery, Delivery
    <3> QED BY <2>1, <3>1
  <2> QED BY <1>3, <2>2, <2>3
<1>4. (\E d \in Dispatchers : StartDelivery(d) \/ RecordDelivery(d)) \/ UNCHANGED history
  BY DEF Next, Step, vars, requestVars, providerVars, Unsent, Asks, StartAsk, StartReminder,
         Snapshot, putRequestAssignment, Enqueue, StopCall, Sign, Close, Rename, BecomesDue,
         LeaseRunsOut, Happens, Notify, Claim, LookUp, SendEmail, Answer, GiveUp, ArriveLate,
         Settle, DatabaseError, Stop
<1> QED BY <1>1, <1>2, <1>3, <1>4

\* Once asked for, a signer keeps the first asker; approvals stay.
LEMMA Assignments ==
    ASSUME TypeOK, Sound, [Next]_vars
    PROVE  /\ assigned' \in [Recipients -> Askers \cup {Nobody}]
           /\ signed' \subseteq Recipients /\ signed \subseteq signed'
           /\ \A s \in Recipients : assigned[s] # Nobody => assigned'[s] = assigned[s]
<1>1. assigned \in [Recipients -> Askers \cup {Nobody}] /\ signed \subseteq Recipients
  BY DEF TypeOK
<1>2. (\E c \in Callers : putRequestAssignment(c)) \/ UNCHANGED assigned
  BY DEF Next, Step, vars, requestVars, providerVars, Unsent, Asks, StartAsk, StartReminder,
         Snapshot, Enqueue, StopCall, Sign, Close, Rename, BecomesDue,
         LeaseRunsOut, Happens, Notify, Claim, LookUp, StartDelivery, SendEmail, Answer, GiveUp,
         ArriveLate, RecordDelivery, Settle, DatabaseError, Stop
<1>3. (\E s \in Recipients : Sign(s)) \/ UNCHANGED signed
  BY DEF Next, Step, vars, requestVars, providerVars, Unsent, Asks, StartAsk, StartReminder,
         Snapshot, putRequestAssignment, Enqueue, StopCall, Close, Rename, BecomesDue,
         LeaseRunsOut, Happens, Notify, Claim, LookUp, StartDelivery, SendEmail, Answer, GiveUp,
         ArriveLate, RecordDelivery, Settle, DatabaseError, Stop
<1>4. ASSUME NEW c \in Callers, putRequestAssignment(c)
      PROVE  /\ assigned' \in [Recipients -> Askers \cup {Nobody}]
             /\ \A s \in Recipients : assigned[s] # Nobody => assigned'[s] = assigned[s]
  <2>1. call[c].signer \in Recipients /\ call[c].actor \in Askers
    BY <1>4 DEF putRequestAssignment, Sound, CallKnows
  <2>2. assigned' = [assigned EXCEPT ![call[c].signer] =
                         IF assigned[call[c].signer] = Nobody THEN call[c].actor
                         ELSE assigned[call[c].signer]]
    BY <1>4 DEF putRequestAssignment
  <2> QED BY <1>1, <2>1, <2>2
<1>5. signed' \subseteq Recipients /\ signed \subseteq signed'
  BY <1>1, <1>3 DEF Sign
<1> QED BY <1>1, <1>2, <1>4, <1>5

LEMMA CallKeeps ==
    ASSUME TypeOK, Sound, [Next]_vars, NEW k \in Call, CallKnows(k)
    PROVE  CallKnows(k)'
<1>1. k.at # "idle" /\ (k.kind = "remind" \/ k.at = "enqueue") => assigned'[k.signer] = k.actor
  BY Assignments, NotificationAssumption DEF CallKnows
<1> QED BY <1>1, Assignments DEF CallKnows

CallGoes(c) == \E k \in Call : call' = [call EXCEPT ![c] = k] /\ CallKnows(k)'

LEMMA CallMoves ==
    ASSUME TypeOK, Sound, [Next]_vars, NEW c \in Callers,
           \/ \E actor \in Askers, signer \in Recipients :
                 StartAsk(c, actor, signer) \/ StartReminder(c, actor, signer)
           \/ Snapshot(c) \/ putRequestAssignment(c) \/ Enqueue(c) \/ StopCall(c)
    PROVE  CallGoes(c)
<1>0. PICK j \in Call : j = call[c] /\ CallKnows(j) /\ CallKnows(j)'
  <2>1. PICK j \in Call : j = call[c]
    BY DEF TypeOK
  <2>2. CallKnows(j)
    BY <2>1 DEF Sound
  <2> QED BY <2>1, <2>2, CallKeeps
<1>1. ASSUME call' = [call EXCEPT ![c] = NoCall] PROVE CallGoes(c)
  <2>1. NoCall \in Call /\ CallKnows(NoCall)'
    BY DEF NoCall, Call, CallKnows
  <2> QED BY <1>1, <2>1 DEF CallGoes
<1>2. ASSUME NEW actor \in Askers, NEW signer \in Recipients, NEW kind \in {"ask", "remind"},
             NEW owing \in BOOLEAN, owing = (signer \notin signed),
             kind = "remind" => assigned[signer] = actor,
             UNCHANGED <<assigned, signed>>,
             call' = [call EXCEPT ![c] = [at |-> "snapshot", kind |-> kind, actor |-> actor,
                                          signer |-> signer, owing |-> owing]]
      PROVE  CallGoes(c)
  <2> DEFINE k == [at |-> "snapshot", kind |-> kind, actor |-> actor,
                   signer |-> signer, owing |-> owing]
  <2>1. k \in Call
    BY DEF Call
  <2>2. CallKnows(k)'
    BY <1>2 DEF CallKnows
  <2> QED BY <1>2, <2>1, <2>2 DEF CallGoes
<1>3. ASSUME NEW actor \in Askers, NEW signer \in Recipients,
             StartAsk(c, actor, signer) \/ StartReminder(c, actor, signer)
      PROVE  CallGoes(c)
  <2>1. PICK owing \in BOOLEAN : owing = (signer \notin signed)
    OBVIOUS
  <2> QED BY <1>2, <1>3, <2>1 DEF StartAsk, StartReminder, mayRemind
<1>4. CASE Snapshot(c)
  <2>1. \/ call' = [call EXCEPT ![c] = NoCall]
        \/ /\ j.signer \notin signed /\ j.at = "snapshot"
           /\ \/ call' = [call EXCEPT ![c] = [j EXCEPT !.at = "assign"]] /\ j.kind = "ask"
              \/ call' = [call EXCEPT ![c] = [j EXCEPT !.at = "enqueue"]] /\ j.kind = "remind"
    BY <1>0, <1>4 DEF Snapshot, Call
  <2>2. ASSUME NEW at \in {"assign", "enqueue"}, j.signer \notin signed, j.at = "snapshot",
               at = "enqueue" => j.kind = "remind",
               call' = [call EXCEPT ![c] = [j EXCEPT !.at = at]]
        PROVE  CallGoes(c)
    <3> DEFINE k == [j EXCEPT !.at = at]
    <3>1. /\ k \in Call /\ k.at = at /\ k.signer = j.signer /\ k.actor = j.actor
          /\ k.kind = j.kind /\ k.owing = j.owing
      BY <1>0 DEF Call
    <3>2. call' = [call EXCEPT ![c] = k]
      BY <2>2
    <3> HIDE DEF k
    <3>3. j.owing
      BY <1>0, <2>2 DEF CallKnows
    <3>4. CallKnows(k)'
      BY <1>0, <2>2, <3>1, <3>3 DEF CallKnows
    <3> QED BY <3>1, <3>2, <3>4 DEF CallGoes
  <2> QED BY <1>1, <2>1, <2>2
<1>5. CASE putRequestAssignment(c)
  <2>1. j.at = "assign" /\ j.signer \in Recipients /\ j.actor \in Askers /\ j.owing
    BY <1>0, <1>5 DEF putRequestAssignment, CallKnows
  <2>2. /\ assigned' = [assigned EXCEPT ![j.signer] =
                            IF assigned[j.signer] = Nobody THEN j.actor ELSE assigned[j.signer]]
        /\ assigned \in [Recipients -> Askers \cup {Nobody}]
    BY <1>0, <1>5 DEF putRequestAssignment, TypeOK
  <2>3. assigned'[j.signer] \in Askers
    BY <2>1, <2>2
  <2>4. PICK actor \in Askers : actor = assigned'[j.signer]
    BY <2>3
  <2> DEFINE k == [j EXCEPT !.at = "enqueue", !.actor = actor]
  <2>5. call' = [call EXCEPT ![c] = k]
    <3>1. call' = [call EXCEPT ![c].at = "enqueue", ![c].actor = actor]
      BY <1>0, <1>5, <2>4 DEF putRequestAssignment
    <3>2. call \in [Callers -> Call]
      BY DEF TypeOK
    <3> QED BY <1>0, <3>1, <3>2
  <2>6. /\ k \in Call /\ k.at = "enqueue" /\ k.signer = j.signer /\ k.actor = actor
        /\ k.owing = j.owing
    BY <1>0 DEF Call
  <2> HIDE DEF k
  <2>7. CallKnows(k)'
    BY <2>1, <2>4, <2>6 DEF CallKnows
  <2> QED BY <2>5, <2>6, <2>7 DEF CallGoes
<1>6. CASE Enqueue(c) \/ StopCall(c)
  BY <1>1, <1>6 DEF Enqueue, StopCall
<1> QED BY <1>3, <1>4, <1>5, <1>6

LEMMA CallsStep ==
    ASSUME TypeOK, Sound, [Next]_vars
    PROVE  call' \in [Callers -> Call] /\ \A c \in Callers : CallKnows(call[c])'
<1>1. call \in [Callers -> Call] /\ \A c \in Callers : CallKnows(call[c])
  BY DEF TypeOK, Sound
<1>2. (\E c \in Callers : CallGoes(c)) \/ UNCHANGED call
  <2>1. \/ UNCHANGED call
        \/ \E c \in Callers :
              \/ \E actor \in Askers, signer \in Recipients :
                    StartAsk(c, actor, signer) \/ StartReminder(c, actor, signer)
              \/ Snapshot(c) \/ putRequestAssignment(c) \/ Enqueue(c) \/ StopCall(c)
    BY DEF Next, Step, vars, requestVars, providerVars, Unsent, Asks, Sign, Close, Rename,
           BecomesDue, LeaseRunsOut, Happens, Notify, Claim, LookUp, StartDelivery, SendEmail,
           Answer, GiveUp, ArriveLate, RecordDelivery, Settle, DatabaseError, Stop
  <2> QED BY <2>1, CallMoves
<1>3. ASSUME NEW c \in Callers PROVE call'[c] \in Call /\ CallKnows(call[c])'
  <2>1. PICK j \in Call : j = call[c] /\ CallKnows(j)
    BY <1>1
  <2>2. CallKnows(j)'
    BY <2>1, CallKeeps
  <2>3. CASE UNCHANGED call
    BY <2>1, <2>2, <2>3
  <2>4. ASSUME NEW b \in Callers, CallGoes(b) PROVE call'[c] \in Call /\ CallKnows(call[c])'
    <3>1. PICK k \in Call : call' = [call EXCEPT ![b] = k] /\ CallKnows(k)'
      BY <2>4 DEF CallGoes
    <3>2. CASE b = c
      <4>1. call'[c] = k
        BY <1>1, <3>1, <3>2
      <4> QED BY <3>1, <4>1
    <3>3. CASE b # c
      <4>1. call'[c] = j
        BY <1>1, <2>1, <3>1, <3>3
      <4> QED BY <2>2, <4>1
    <3> QED BY <3>2, <3>3
  <2> QED BY <1>2, <2>3, <2>4
<1>4. call' \in [Callers -> Call]
  BY <1>1, <1>2, <1>3 DEF CallGoes
<1> QED BY <1>3, <1>4

\* The provider's report of event e, the newest so far, is the row's.
LEMMA RowsStep ==
    ASSUME TypeOK, Sound, [Next]_vars
    PROVE  row' \in [Events -> Row] /\ \A e \in Events : RowSound(e)'
<1>1. /\ row \in [Events -> Row] /\ acknowledged \in [Events -> SUBSET (Nat \ {0})]
      /\ reports \in [Events -> Seq(Report)]
      /\ \A e \in Events : RowSound(e)
  BY DEF TypeOK, Sound
<1>2. ASSUME NEW e \in Events, UNCHANGED acknowledged, RowsMove PROVE RowSound(e)'
  <2>1. /\ RowMove(e)
        /\ DOMAIN reports[e] \subseteq DOMAIN reports'[e]
        /\ \A i \in DOMAIN reports[e] : reports'[e][i] = reports[e][i]
        /\ acknowledged'[e] = acknowledged[e]
    BY <1>2, Reports DEF RowsMove
  <2>2. /\ accepted \subseteq accepted'
        /\ e \in accepted' \ accepted => row[e].state # "absent" /\ row' = row
    BY Provider
  <2>3. /\ row'[e].state # "sent" => row[e].state # "sent"
        /\ row'[e].state = "sent" => e \in accepted
        /\ row[e].state # "absent" => row'[e].state # "absent"
    BY <1>1, <2>1 DEF RowMove, RowSound
  <2>4. \/ /\ row'[e].provider = row[e].provider /\ row'[e].providerAt = row[e].providerAt
           /\ row'[e].providerId = row[e].providerId
        \/ /\ row[e].state = "absent" /\ row'[e].provider = "none" /\ row'[e].providerAt = 0
    BY <2>1 DEF RowMove
  <2>5. RowSound(e)
    BY <1>1
  <2>6. row[e].state = "absent" => acknowledged[e] = {}
    BY <2>5 DEF RowSound
  <2>7. e \in accepted' => row'[e].state # "absent"
    BY <2>2, <2>3, <2>5 DEF RowSound
  <2> QED BY <2>1, <2>2, <2>3, <2>4, <2>5, <2>6, <2>7 DEF RowSound
<1>3. ASSUME NEW f \in Events, NEW i \in 1 .. MaxReports, Notify(f, i)
      PROVE  row' \in [Events -> Row] /\ \A e \in Events : RowSound(e)'
  <2>1. /\ i \in DOMAIN reports[f] /\ row[f].state = "sent"
        /\ acknowledged' = [acknowledged EXCEPT ![f] = acknowledged[f] \cup {i}]
        /\ UNCHANGED <<reports, accepted>>
    BY <1>3 DEF Notify
  <2>2. /\ reports[f][i] \in Report /\ reports[f][i].at \in Nat /\ reports[f][i].at > 0
        /\ reports[f][i].state \in Feedback /\ i \in Nat
    <3>1. reports[f] \in Seq(Report)
      BY <1>1
    <3>2. reports[f][i] \in Report
      BY <2>1, <3>1
    <3> QED BY <3>2 DEF Report
  <2>3. row[f] \in Row /\ row[f].providerAt \in Nat
    BY <1>1 DEF Row
  <2>4. CASE Supersedes(row[f], f, i)
    <3> DEFINE n == [row[f] EXCEPT !.provider = reports[f][i].state,
                                   !.providerAt = reports[f][i].at, !.providerId = i]
    <3>1. row' = [row EXCEPT ![f] = n]
      BY <1>1, <1>3, <2>4 DEF Notify
    <3>2. /\ n \in Row /\ n.state = row[f].state /\ n.provider = reports[f][i].state
          /\ n.providerAt = reports[f][i].at /\ n.providerId = i
      BY <2>2, <2>3 DEF Row
    <3> HIDE DEF n
    <3>3. row' \in [Events -> Row] /\ row'[f] = n
      BY <1>1, <3>1, <3>2
    <3>4. RowSound(f)'
      <4>1. row[f].providerAt <= reports[f][i].at
        BY <2>2, <2>3, <2>4 DEF Supersedes
      <4>2. \A k \in acknowledged[f] : reports[f][k].at <= row[f].providerAt
        BY <1>1 DEF RowSound
      <4>3. \A k \in acknowledged[f] : reports[f][k].at \in Nat
        <5>1. acknowledged[f] \subseteq DOMAIN reports[f] /\ reports[f] \in Seq(Report)
          BY <1>1 DEF RowSound
        <5>2. \A k \in DOMAIN reports[f] : reports[f][k] \in Report
          BY <5>1
        <5>3. \A k \in DOMAIN reports[f] : reports[f][k].at \in Nat
          BY <5>2 DEF Report
        <5> QED BY <5>1, <5>3
      <4>4. \A k \in acknowledged'[f] : reports[f][k].at <= reports[f][i].at
        BY <1>1, <2>1, <2>2, <2>3, <4>1, <4>2, <4>3
      <4>5. f \in accepted /\ acknowledged[f] \subseteq DOMAIN reports[f]
        BY <1>1, <2>1 DEF RowSound
      <4>6. acknowledged'[f] = acknowledged[f] \cup {i}
        BY <1>1, <2>1
      <4> QED BY <2>1, <3>2, <3>3, <4>4, <4>5, <4>6 DEF RowSound
    <3>5. ASSUME NEW e \in Events, e # f PROVE RowSound(e)'
      <4>1. row'[e] = row[e] /\ acknowledged'[e] = acknowledged[e]
        BY <1>1, <2>1, <3>1, <3>5
      <4> QED BY <1>1, <2>1, <4>1 DEF RowSound
    <3> QED BY <3>3, <3>4, <3>5
  <2>5. CASE ~Supersedes(row[f], f, i)
    <3>1. row' = row
      BY <1>3, <2>5 DEF Notify
    <3>2. reports[f][i].at <= row[f].providerAt
      BY <2>1, <2>2, <2>3, <2>5 DEF Supersedes
    <3>3. acknowledged[f] # {}
      BY <1>1, <2>2, <3>2 DEF RowSound
    <3>4. acknowledged'[f] = acknowledged[f] \cup {i}
      BY <1>1, <2>1
    <3>5. RowSound(f)'
      <4>1. RowSound(f)
        BY <1>1
      <4> QED BY <2>1, <3>1, <3>2, <3>3, <3>4, <4>1 DEF RowSound
    <3>6. ASSUME NEW e \in Events, e # f PROVE RowSound(e)'
      <4>1. acknowledged'[e] = acknowledged[e]
        BY <1>1, <2>1, <3>6
      <4> QED BY <1>1, <2>1, <3>1, <4>1 DEF RowSound
    <3> QED BY <1>1, <3>1, <3>5, <3>6
  <2> QED BY <2>4, <2>5
<1> QED BY <1>2, <1>3, Rows DEF Notifies, RowsMove

-----------------------------------------------------------------------------
(* The invariant.                                                          *)

LEMMA InductiveInit == Init => TypeOK /\ Sound
<1> SUFFICES ASSUME Init PROVE TypeOK /\ Sound
  OBVIOUS
<1>1. Absent \in Row /\ Absent.state = "absent" /\ Absent.provider = "none" /\ Absent.providerAt = 0
  BY DEF Absent, Row, States
<1>2. NoCall \in Call /\ NoCall.at = "idle"
  BY DEF NoCall, Call
<1>3. Idle \in Job /\ Idle.at = "idle"
  BY DEF Idle, Job
<1>4. TypeOK
  <2>1. DOMAIN history = {} /\ reports \in [Events -> Seq(Report)]
    BY DEF Init
  <2> QED BY <1>1, <1>2, <1>3, <2>1 DEF Init, TypeOK
<1>5. ASSUME NEW e \in Events PROVE RowSound(e)
  BY <1>1 DEF Init, RowSound
<1>6. /\ \A d \in Dispatchers : JobSound(job[d])
      /\ \A c \in Callers : CallKnows(call[c])
      /\ wire = {} /\ DOMAIN history = {}
  BY <1>2, <1>3 DEF Init, JobSound, CallKnows
<1> QED BY <1>4, <1>5, <1>6 DEF Sound

LEMMA InductiveNext ==
    ASSUME TypeOK, Sound, [Next]_vars
    PROVE  TypeOK' /\ Sound'
<1>1. \A m \in wire' : row'[m.event].state # "absent"
  <2> SUFFICES ASSUME NEW m \in wire' PROVE row'[m.event].state # "absent"
    OBVIOUS
  <2>1. m \in Send /\ row[m.event].state # "absent"
    BY Rest
  <2>2. m.event \in Events
    BY <2>1 DEF Send
  <2> QED BY <2>1, <2>2, Present
<1>2. TypeOK'
  <2>1. assigned' \in [Recipients -> Askers \cup {Nobody}] /\ signed' \subseteq Recipients
    BY Assignments
  <2>2. call' \in [Callers -> Call] /\ row' \in [Events -> Row] /\ job' \in [Dispatchers -> Job]
    BY CallsStep, RowsStep, Jobs
  <2>3. accepted' \subseteq Events /\ body' \in [Events -> Nat] /\ label' \in Nat
    BY Provider
  <2>4. reports' \in [Events -> Seq(Report)]
    BY Reports
  <2> QED BY <2>1, <2>2, <2>3, <2>4, Rest, Deliveries DEF TypeOK
<1>3. Sound'
  <2>1. (\A e \in Events : RowSound(e))'
    BY RowsStep
  <2>2. (\A d \in Dispatchers : JobSound(job[d]))'
    BY Jobs
  <2>3. (\A c \in Callers : CallKnows(call[c]))'
    BY CallsStep
  <2>4. (\A k \in DOMAIN history : history[k] = "succeeded" => k[1] \in accepted)'
    BY Deliveries
  <2> QED BY <1>1, <2>1, <2>2, <2>3, <2>4 DEF Sound
<1> QED BY <1>2, <1>3

LEMMA Invariance == Spec => [](TypeOK /\ Sound)
<1>1. Init => TypeOK /\ Sound
  BY InductiveInit
<1>2. TypeOK /\ Sound /\ [Next]_vars => (TypeOK /\ Sound)'
  BY InductiveNext
<1> QED BY <1>1, <1>2, PTL DEF Spec

\* TypeOK: every variable keeps its type, whatever is lost or comes late.
THEOREM TypeCorrectness == Spec => []TypeOK
BY Invariance, PTL

\* ProviderStateIsNewest: the webhook's guarded update keeps the newest event
\* the provider reported, in whatever order and however often they arrive.
THEOREM NewestReportIsKept == Spec => []ProviderStateIsNewest
<1>1. Sound => ProviderStateIsNewest
  <2> SUFFICES ASSUME Sound, NEW e \in Events, NEW i \in acknowledged[e]
               PROVE  /\ reports[e][i].at <= row[e].providerAt
                      /\ row[e].provider = reports[e][row[e].providerId].state
    BY DEF ProviderStateIsNewest
  <2>1. RowSound(e) /\ acknowledged[e] # {}
    BY DEF Sound
  <2> QED BY <2>1 DEF RowSound
<1> QED BY <1>1, Invariance, PTL

\* MailAsksTheMissing: an e-mail is queued for the asker the signer is
\* assigned to, by a call that began before the signer had signed.
THEOREM MailIsForTheMissing == Spec => MailAsksTheMissing
<1>1. ASSUME TypeOK, Sound, [Next]_vars, NEW e \in Events,
             row[e].state = "absent", row'[e].state # "absent"
      PROVE  /\ row'[e].actor = assigned[e[1]]
             /\ \E c \in Callers : call[c].signer = e[1] /\ call[c].owing
  <2>1. row \in [Events -> Row]
    BY <1>1 DEF TypeOK
  <2>2. \E c \in Callers : Enqueue(c)
    <3>1. \/ \E c \in Callers : Enqueue(c)
          \/ Notifies
          \/ \E f \in Events : BecomesDue(f) \/ LeaseRunsOut(f) \/ \E d \in Dispatchers : Claim(d, f)
          \/ \E d \in Dispatchers : Settle(d) \/ DatabaseError(d)
          \/ UNCHANGED row
      BY <1>1 DEF Next, Notifies, Step, vars, requestVars, providerVars, Unsent, Asks, StartAsk,
             StartReminder, Snapshot, putRequestAssignment, StopCall, Sign, Close, Rename,
             Happens, LookUp, StartDelivery, SendEmail, Answer, GiveUp, ArriveLate,
             RecordDelivery, Stop
    <3>3. ASSUME NEW f \in Events, row[f].state # "absent",
                 \E n : row' = [row EXCEPT ![f] = n]
          PROVE  row'[e].state = row[e].state
      BY <1>1, <2>1, <3>3
    <3>4. CASE Notifies
      <4>1. PICK f \in Events, i \in 1 .. MaxReports : Notify(f, i)
        BY <3>4 DEF Notifies
      <4>2. row[f] \in Row
        BY <2>1
      <4>3. row'[e].state = row[e].state
        BY <2>1, <4>1, <4>2 DEF Notify, Row
      <4> QED BY <1>1, <4>3
    <3>5. ASSUME NEW f \in Events,
                 BecomesDue(f) \/ LeaseRunsOut(f) \/ \E d \in Dispatchers : Claim(d, f)
          PROVE  FALSE
      <4>1. row[f] \in Row
        BY <2>1
      <4>2. CASE \E d \in Dispatchers : Claim(d, f)
        <5>1. row' = [row EXCEPT ![f] = Claimed(row[f])] /\ row[f].state = "queued"
          BY <4>2 DEF Claim, Claimable
        <5> QED BY <1>1, <2>1, <3>3, <5>1
      <4>3. CASE BecomesDue(f)
        <5>1. row' = [row EXCEPT ![f] = [row[f] EXCEPT !.due = TRUE]] /\ row[f].state # "absent"
          BY <2>1, <4>3 DEF BecomesDue
        <5> QED BY <1>1, <2>1, <3>3, <5>1
      <4>4. CASE LeaseRunsOut(f)
        <5>1. row' = [row EXCEPT ![f] = [row[f] EXCEPT !.overdue = TRUE]]
          BY <2>1, <4>4 DEF LeaseRunsOut
        <5>2. row'[e].state = row[e].state
          BY <2>1, <4>1, <5>1 DEF Row
        <5> QED BY <1>1, <5>2
      <4> QED BY <3>5, <4>2, <4>3, <4>4
    <3>6. ASSUME NEW d \in Dispatchers, Settle(d) \/ DatabaseError(d) PROVE FALSE
      <4>1. row[job[d].event].state # "absent" /\ job[d].event \in Events
        BY <1>1, <3>6 DEF Sound, JobSound, Settle, DatabaseError
      <4>2. UNCHANGED row \/ \E n : row' = [row EXCEPT ![job[d].event] = n]
        BY <3>6 DEF Settle, DatabaseError
      <4> QED BY <1>1, <3>3, <4>1, <4>2
    <3> QED BY <1>1, <3>1, <3>4, <3>5, <3>6
  <2>3. PICK c \in Callers : Enqueue(c)
    BY <2>2
  <2>4. /\ call[c].at = "enqueue" /\ CallKnows(call[c])
    BY <1>1, <2>3 DEF Enqueue, Sound
  <2>5. PICK f \in Events : f[1] = call[c].signer /\ row' = [row EXCEPT ![f] = Queued(call[c].actor)]
    BY <1>1, <2>3 DEF Enqueue
  <2>6. f = e
    BY <1>1, <2>1, <2>5
  <2>7. row'[e] = Queued(call[c].actor)
    BY <2>1, <2>5, <2>6
  <2>8. call[c].actor \in Askers /\ assigned[call[c].signer] = call[c].actor /\ call[c].owing
    BY <2>4 DEF CallKnows
  <2>9. row'[e].actor = call[c].actor
    BY <2>7, <2>8, QueuedFields
  <2> QED BY <2>5, <2>6, <2>8, <2>9
<1>2. TypeOK /\ Sound /\ [Next]_vars =>
          [\A e \in Events :
              row[e].state = "absent" /\ row'[e].state # "absent" =>
                  /\ row'[e].actor = assigned[e[1]]
                  /\ \E c \in Callers : call[c].signer = e[1] /\ call[c].owing]_vars
  BY <1>1
<1> QED BY <1>2, Invariance, PTL DEF Spec, MailAsksTheMissing

-----------------------------------------------------------------------------
(* The refinement of NotificationLifecycle.                                *)

ShownFits(e) ==
    /\ row[e].state = "absent" => Shown(e) = "none"
    /\ row[e].state = "queued" => Shown(e) = "queued"
    /\ row[e].state = "permanent_failure" => Shown(e) = "failed"
    /\ row[e].state = "sent" /\ row[e].provider = "none" => Shown(e) = "provider_accepted"
    /\ row[e].provider # "none" => row[e].state = "sent" /\ Shown(e) = row[e].provider
    /\ row[e].state \in States /\ row[e].provider \in Feedback \cup {"none"}

AllShownFit == \A e \in Events : ShownFits(e)

\* What is shown follows from the row's state and the provider's report.
LEMMA ShownCases == TypeOK /\ Sound => AllShownFit
<1> SUFFICES ASSUME TypeOK, Sound, NEW e \in Events PROVE ShownFits(e)
  BY DEF AllShownFit
<1>1. row[e].state \in States /\ row[e].provider \in Feedback \cup {"none"}
  BY DEF TypeOK, Row
<1>2. row[e].state # "sent" => row[e].provider = "none"
  BY DEF Sound, RowSound
<1> QED BY <1>1, <1>2 DEF Shown, ShownFits

LEMMA OneRowAtATime ==
    ASSUME TypeOK, Sound, [Next]_vars
    PROVE  UNCHANGED row \/ \E e \in Events : \A f \in Events : f # e => row'[f] = row[f]
<1>1. \/ \E e \in Events : \E n : row' = [row EXCEPT ![e] = n]
      \/ UNCHANGED row
  <2>1. \/ UNCHANGED row
        \/ Notifies
        \/ \E c \in Callers : Enqueue(c)
        \/ \E e \in Events : BecomesDue(e) \/ LeaseRunsOut(e) \/ \E d \in Dispatchers : Claim(d, e)
        \/ \E d \in Dispatchers : Settle(d) \/ DatabaseError(d)
    BY DEF Next, Notifies, Step, vars, requestVars, providerVars, Unsent, Asks, StartAsk,
           StartReminder, Snapshot, putRequestAssignment, StopCall, Sign, Close, Rename,
           Happens, LookUp, StartDelivery, SendEmail, Answer, GiveUp, ArriveLate,
           RecordDelivery, Stop
  <2>2. ASSUME NEW f \in Events, NEW i \in 1 .. MaxReports, Notify(f, i)
        PROVE  UNCHANGED row \/ \E e \in Events : \E n : row' = [row EXCEPT ![e] = n]
    <3>1. row \in [Events -> Row]
      BY DEF TypeOK
    <3>2. \/ UNCHANGED row
          \/ row' = [row EXCEPT ![f] = [row[f] EXCEPT !.provider = reports[f][i].state,
                                            !.providerAt = reports[f][i].at, !.providerId = i]]
      BY <2>2, <3>1 DEF Notify
    <3> QED BY <3>2
  <2>3. ASSUME NEW c \in Callers, Enqueue(c)
        PROVE  UNCHANGED row \/ \E e \in Events : \E n : row' = [row EXCEPT ![e] = n]
    BY <2>3 DEF Enqueue
  <2>4. ASSUME NEW f \in Events,
               BecomesDue(f) \/ LeaseRunsOut(f) \/ \E d \in Dispatchers : Claim(d, f)
        PROVE  \E e \in Events : \E n : row' = [row EXCEPT ![e] = n]
    <3>1. row \in [Events -> Row]
      BY DEF TypeOK
    <3>2. \/ row' = [row EXCEPT ![f] = [row[f] EXCEPT !.due = TRUE]]
          \/ row' = [row EXCEPT ![f] = [row[f] EXCEPT !.overdue = TRUE]]
          \/ row' = [row EXCEPT ![f] = Claimed(row[f])]
      BY <2>4, <3>1 DEF BecomesDue, LeaseRunsOut, Claim
    <3> QED BY <3>2
  <2>5. ASSUME NEW d \in Dispatchers, Settle(d) \/ DatabaseError(d)
        PROVE  UNCHANGED row \/ \E e \in Events : \E n : row' = [row EXCEPT ![e] = n]
    <3>1. job[d].event \in Events
      BY <2>5 DEF Sound, JobSound, Settle, DatabaseError
    <3>2. \/ UNCHANGED row
          \/ row' = [row EXCEPT ![job[d].event] = Settled(row[job[d].event], job[d])]
      BY <2>5 DEF Settle, DatabaseError
    <3> QED BY <3>1, <3>2
  <2> QED BY <2>1, <2>2, <2>3, <2>4, <2>5 DEF Notifies
<1>2. row \in [Events -> Row]
  BY DEF TypeOK
<1> QED BY <1>1, <1>2

\* One row moves the way NotificationLifecycle lets what is shown of it move.
LEMMA ShownMoves ==
    ASSUME TypeOK, Sound, [Next]_vars, NEW e \in Events, UNCHANGED accepted
    PROVE  \/ Shown(e)' = Shown(e)
           \/ Shown(e) = "none" /\ Shown(e)' = "queued"
           \/ Shown(e) = "queued" /\ Shown(e)' = "provider_accepted" /\ e \in accepted
           \/ Shown(e) = "queued" /\ Shown(e)' = "failed"
           \/ /\ Shown(e) \in {"provider_accepted"} \cup Feedback
              /\ Shown(e)' \in Feedback /\ e \in accepted
<1>1. TypeOK' /\ Sound'
  BY InductiveNext
<1> DEFINE r == row[e]
           n == row'[e]
<1>2. /\ r.state = "absent" => Shown(e) = "none"
      /\ r.state = "queued" => Shown(e) = "queued"
      /\ r.state = "permanent_failure" => Shown(e) = "failed"
      /\ r.state = "sent" /\ r.provider = "none" => Shown(e) = "provider_accepted"
      /\ r.provider # "none" => r.state = "sent" /\ Shown(e) = r.provider
      /\ r.state \in States /\ r.provider \in Feedback \cup {"none"}
  BY ShownCases DEF AllShownFit, ShownFits
<1>3. AllShownFit'
  BY <1>1, ShownCases, PTL
<1>4. /\ n.state = "absent" => Shown(e)' = "none"
      /\ n.state = "queued" => Shown(e)' = "queued"
      /\ n.state = "permanent_failure" => Shown(e)' = "failed"
      /\ n.state = "sent" /\ n.provider = "none" => Shown(e)' = "provider_accepted"
      /\ n.provider # "none" => n.state = "sent" /\ Shown(e)' = n.provider
      /\ n.state \in States /\ n.provider \in Feedback \cup {"none"}
  BY <1>3 DEF AllShownFit, ShownFits
<1>5. CASE RowMove(e)
  <2>1. \/ n = r
        \/ r.state = "absent" /\ n.state = "queued"
        \/ n.provider = r.provider /\ n.state = r.state
        \/ /\ r.state = "queued" /\ n.provider = r.provider
           /\ n.state \in {"queued", "sent", "permanent_failure"}
           /\ n.state = "sent" => e \in accepted
    BY <1>5 DEF RowMove
  <2>2. n = r => Shown(e)' = Shown(e)
    BY DEF Shown
  <2> HIDE DEF r, n
  <2>3. n.provider = r.provider /\ n.state = r.state => Shown(e)' = Shown(e)
    BY <1>2, <1>4 DEF States
  <2>4. r.state = "queued" => r.provider = "none"
    BY <1>2
  <2> QED BY <1>2, <1>4, <2>1, <2>2, <2>3, <2>4
<1>6. CASE Notifies
  <2>1. PICK f \in Events, i \in 1 .. MaxReports : Notify(f, i)
    BY <1>6 DEF Notifies
  <2>2. row \in [Events -> Row] /\ i \in DOMAIN reports[f] /\ reports[f] \in Seq(Report)
    BY <2>1 DEF Notify, TypeOK
  <2>3. CASE f = e /\ Supersedes(row[f], f, i)
    <3>1. n.provider = reports[e][i].state /\ r.state = "sent"
      <4>1. row' = [row EXCEPT ![e] = [r EXCEPT !.provider = reports[e][i].state,
                        !.providerAt = reports[e][i].at, !.providerId = i]]
        BY <2>1, <2>2, <2>3 DEF Notify
      <4>2. r \in Row
        BY <2>2
      <4> QED BY <2>2, <2>3, <4>1, <4>2 DEF Supersedes, Row
    <3>2. reports[e][i] \in Report
      BY <2>2, <2>3
    <3>3. n.provider \in Feedback
      BY <3>1, <3>2 DEF Report
    <3>4. e \in accepted
      BY <3>1 DEF Sound, RowSound
    <3> HIDE DEF r, n
    <3> QED BY <1>2, <1>4, <3>1, <3>3, <3>4 DEF Feedback
  <2>4. CASE ~(f = e /\ Supersedes(row[f], f, i))
    <3>1. n = r
      BY <2>1, <2>2, <2>4 DEF Notify
    <3> QED BY <3>1 DEF Shown
  <2> QED BY <2>3, <2>4
<1> QED BY <1>5, <1>6, Rows DEF RowsMove

LEMMA StepRefines ==
    ASSUME TypeOK, Sound, [Next]_vars
    PROVE  [Lifecycle!Next]_(Lifecycle!vars)
<1> DEFINE shown == [e \in Events |-> Shown(e)]
<1>1. CASE ~UNCHANGED accepted
  <2>1. PICK m \in wire : accepted' = accepted \cup {m.event} /\ m.event \notin accepted
    BY <1>1, Provider DEF Takes
  <2>2. m.event \in Events /\ row[m.event].state # "absent" /\ UNCHANGED row
    BY <2>1, Provider DEF Sound, TypeOK, Send
  <2>3. Shown(m.event) # "none"
    BY <2>2, ShownCases DEF AllShownFit, ShownFits, States, Feedback
  <2>4. shown' = shown
    BY <2>2 DEF Shown
  <2>5. Lifecycle!Accept(m.event)
    BY <2>1, <2>2, <2>3, <2>4 DEF Lifecycle!Accept
  <2> QED BY <2>2, <2>5 DEF Lifecycle!Next
<1>2. CASE UNCHANGED accepted
  <2>1. CASE UNCHANGED row
    <3>1. shown' = shown
      BY <2>1 DEF Shown
    <3> QED BY <1>2, <3>1 DEF Lifecycle!vars
  <2>2. ASSUME NEW e \in Events, \A f \in Events : f # e => row'[f] = row[f]
        PROVE  [Lifecycle!Next]_(Lifecycle!vars)
    <3>1. \A f \in Events : f # e => Shown(f)' = Shown(f)
      BY <2>2 DEF Shown
    <3> HIDE DEF Lifecycle!Next
    <3>2. shown' = [shown EXCEPT ![e] = Shown(e)']
      BY <3>1
    <3>3. Shown(e)' = Shown(e) => shown' = shown
      BY <3>1
    <3>4. shown[e] = Shown(e)
      OBVIOUS
    <3>5. CASE Shown(e)' = Shown(e)
      BY <1>2, <3>3, <3>5 DEF Lifecycle!vars
    <3>6. CASE Shown(e) = "none" /\ Shown(e)' = "queued"
      <4>1. Lifecycle!Queue(e)
        BY <1>2, <3>2, <3>4, <3>6 DEF Lifecycle!Queue, Lifecycle!Becomes
      <4> QED BY <4>1 DEF Lifecycle!Next
    <3>7. CASE Shown(e) = "queued" /\ Shown(e)' = "provider_accepted" /\ e \in accepted
      <4>1. Lifecycle!Confirm(e)
        BY <1>2, <3>2, <3>4, <3>7 DEF Lifecycle!Confirm, Lifecycle!Becomes
      <4> QED BY <4>1 DEF Lifecycle!Next
    <3>8. CASE Shown(e) = "queued" /\ Shown(e)' = "failed"
      <4>1. Lifecycle!Fail(e)
        BY <1>2, <3>2, <3>4, <3>8 DEF Lifecycle!Fail, Lifecycle!Becomes
      <4> QED BY <4>1 DEF Lifecycle!Next
    <3>9. CASE /\ Shown(e) \in {"provider_accepted"} \cup Feedback
               /\ Shown(e)' \in Feedback /\ e \in accepted
      <4>1. Lifecycle!Report(e)
        BY <1>2, <3>2, <3>4, <3>9 DEF Lifecycle!Report, Lifecycle!Becomes, Lifecycle!Reported, Feedback
      <4> QED BY <4>1 DEF Lifecycle!Next
    <3> QED BY <1>2, <3>5, <3>6, <3>7, <3>8, <3>9, ShownMoves
  <2> QED BY <2>1, <2>2, OneRowAtATime
<1> QED BY <1>1, <1>2

\* ImplementsLifecycle: what the Proposal shows of an e-mail never claims
\* what the provider has not done and never goes back, whatever dispatchers
\* lose their leases and in whatever order the webhook is called.
THEOREM Refinement == Spec => ImplementsLifecycle
<1>1. Init => Lifecycle!Init
  <2>1. Init => accepted = {} /\ \A e \in Events : Shown(e) = "none"
    BY DEF Init, Absent, Shown
  <2> QED BY <2>1 DEF Lifecycle!Init
<1>2. TypeOK /\ Sound /\ [Next]_vars => [Lifecycle!Next]_(Lifecycle!vars)
  BY StepRefines
<1> QED BY <1>1, <1>2, Invariance, PTL DEF Spec, ImplementsLifecycle, Lifecycle!Spec

-----------------------------------------------------------------------------
(* Before the first fault.                                                 *)

\* A running dispatcher has its row's lease, and no other works on the row.
Alone(d) ==
    job[d].at # "idle" =>
        /\ row[job[d].event].state = "queued" /\ ~row[job[d].event].overdue
        /\ row[job[d].event].token = job[d].attempt
        /\ row[job[d].event].attempts = job[d].attempt
        /\ job[d].attempt # 0
        /\ \A b \in Dispatchers : Working(b, job[d].event) => b = d
        /\ job[d].at \in {"record", "settle"} /\ job[d].verdict = "permanent_failure" =>
               job[d].attempt > RetryBudget \/ job[d].event \notin accepted

\* The provider sees one body, from the call that waits for its answer.
Awaited(m) == m.label = 0 /\ \E d \in Dispatchers : job[d].at = "waiting" /\ Mine(d, m)

Caused(e) ==
    row[e].state = "permanent_failure" /\ e \in accepted => row[e].attempts > RetryBudget

Calm ==
    /\ label = 0 /\ \A e \in Events : body[e] = 0
    /\ \A d \in Dispatchers : Alone(d)
    /\ \A m \in wire : Awaited(m)
    /\ \A e \in Events : Caused(e)

Undisturbed == faults = 0 => Calm

\* Steps of everybody but the dispatchers.
LEMMA RowStepIsCalm ==
    ASSUME TypeOK, Calm, NEW e \in Events, NEW n, row' = [row EXCEPT ![e] = n],
           \/ \A d \in Dispatchers : ~Working(d, e)
           \/ /\ n.state = row[e].state /\ n.overdue = row[e].overdue
              /\ n.token = row[e].token,
           n.state = "permanent_failure" => row[e].state = "permanent_failure",
           row[e].state # "absent" => n.attempts = row[e].attempts,
           UNCHANGED <<job, wire, accepted, body, label>>
    PROVE  Calm'
<1>1. row \in [Events -> Row]
  BY DEF TypeOK
<1>2. row'[e] = n /\ \A f \in Events : f # e => row'[f] = row[f]
  BY <1>1
<1>3. ASSUME NEW d \in Dispatchers PROVE Alone(d)'
  <2>1. Alone(d)
    BY DEF Calm
  <2>2. CASE job[d].at = "idle"
    BY <2>2 DEF Alone
  <2>3. CASE job[d].at # "idle" /\ job[d].event # e
    <3>1. row'[job[d].event] = row[job[d].event]
      BY <2>3 DEF TypeOK
    <3> QED BY <2>1, <2>3, <3>1 DEF Alone, Working
  <2>4. CASE job[d].at # "idle" /\ job[d].event = e
    <3>1. /\ n.state = row[e].state /\ n.overdue = row[e].overdue /\ n.token = row[e].token
          /\ n.attempts = row[e].attempts
      BY <2>1, <2>4 DEF Working, Alone
    <3> QED BY <1>2, <2>1, <2>4, <3>1 DEF Alone, Working
  <2> QED BY <2>2, <2>3, <2>4
<1>4. ASSUME NEW f \in Events PROVE Caused(f)'
  <2>1. Caused(f)
    BY DEF Calm
  <2> QED BY <1>2, <2>1 DEF Caused
<1> QED BY <1>3, <1>4 DEF Calm, Awaited, Mine

LEMMA OthersAreCalm ==
    ASSUME TypeOK, Sound, Calm, faults' = faults, NEW e \in Events,
           \/ BecomesDue(e) \/ LeaseRunsOut(e)
           \/ \E i \in 1 .. MaxReports : Notify(e, i)
    PROVE  Calm'
<1>1. row \in [Events -> Row] /\ row[e] \in Row /\ faults \in Nat
  BY DEF TypeOK
<1>2. UNCHANGED <<job, wire, accepted, body, label>>
  BY DEF BecomesDue, LeaseRunsOut, Notify, Asks, providerVars
<1>3. CASE BecomesDue(e)
  <2> DEFINE n == [row[e] EXCEPT !.due = TRUE]
  <2>1. row' = [row EXCEPT ![e] = n]
    BY <1>1, <1>3 DEF BecomesDue
  <2>2. /\ n.state = row[e].state /\ n.overdue = row[e].overdue /\ n.token = row[e].token
        /\ n.attempts = row[e].attempts
    BY <1>1 DEF Row
  <2> HIDE DEF n
  <2> QED BY <1>2, <2>1, <2>2, RowStepIsCalm
<1>4. CASE LeaseRunsOut(e)
  <2> DEFINE n == [row[e] EXCEPT !.overdue = TRUE]
  <2>1. row' = [row EXCEPT ![e] = n]
    BY <1>1, <1>4 DEF LeaseRunsOut
  <2>2. /\ n.state = row[e].state /\ n.attempts = row[e].attempts
    BY <1>1 DEF Row
  <2>3. ~Held(e)
    BY <1>1, <1>4 DEF LeaseRunsOut
  <2>4. \A d \in Dispatchers : ~Working(d, e)
    BY <2>3 DEF Held, Calm, Alone, Working
  <2> HIDE DEF n
  <2> QED BY <1>2, <2>1, <2>2, <2>4, RowStepIsCalm
<1>5. ASSUME NEW i \in 1 .. MaxReports, Notify(e, i) PROVE Calm'
  <2>1. CASE Supersedes(row[e], e, i)
    <3> DEFINE n == [row[e] EXCEPT !.provider = reports[e][i].state,
                                   !.providerAt = reports[e][i].at, !.providerId = i]
    <3>1. row' = [row EXCEPT ![e] = n]
      BY <1>1, <1>5, <2>1 DEF Notify
    <3>2. /\ n.state = row[e].state /\ n.overdue = row[e].overdue /\ n.token = row[e].token
          /\ n.attempts = row[e].attempts
      BY <1>1 DEF Row
    <3> HIDE DEF n
    <3> QED BY <1>2, <3>1, <3>2, RowStepIsCalm
  <2>2. CASE ~Supersedes(row[e], e, i)
    <3>1. row' = row
      BY <1>5, <2>2 DEF Notify
    <3> QED BY <1>2, <3>1 DEF Calm, Alone, Awaited, Caused, Mine, Working
  <2> QED BY <2>1, <2>2
<1> QED BY <1>3, <1>4, <1>5

LEMMA EnqueueIsCalm ==
    ASSUME TypeOK, Sound, Calm, NEW c \in Callers, Enqueue(c)
    PROVE  Calm'
<1>1. UNCHANGED <<job, wire, accepted, body, label>>
  BY DEF Enqueue, providerVars
<1>2. CASE UNCHANGED row
  BY <1>1, <1>2 DEF Calm, Alone, Awaited, Caused, Mine, Working
<1>3. ASSUME NEW e \in Events, row[e].state = "absent",
             row' = [row EXCEPT ![e] = Queued(call[c].actor)]
      PROVE  Calm'
  <2>1. call[c].actor \in Askers
    BY DEF Sound, CallKnows, Enqueue
  <2>2. Queued(call[c].actor).state = "queued"
    BY <2>1, QueuedFields
  <2>3. \A d \in Dispatchers : ~Working(d, e)
    BY <1>3 DEF Calm, Alone, Working
  <2> QED BY <1>1, <1>3, <2>2, <2>3, RowStepIsCalm
<1> QED BY <1>2, <1>3 DEF Enqueue

\* A dispatcher's own steps between claim and settlement.
LEMMA JobStepIsCalm ==
    ASSUME TypeOK, Calm, NEW d \in Dispatchers, NEW k \in Job, job' = [job EXCEPT ![d] = k],
           job[d].at \notin {"idle", "waiting"}, k.at # "idle",
           k.event = job[d].event, k.attempt = job[d].attempt,
           k.at \in {"record", "settle"} /\ k.verdict = "permanent_failure" =>
               k.attempt > RetryBudget \/ k.event \notin accepted,
           \/ UNCHANGED wire
           \/ /\ k.at = "waiting"
              /\ wire' = wire \cup {[event |-> k.event, attempt |-> k.attempt, label |-> label]},
           UNCHANGED <<row, accepted, body, label>>
    PROVE  Calm'
<1>1. job \in [Dispatchers -> Job]
  BY DEF TypeOK
<1>2. job'[d] = k /\ \A b \in Dispatchers : b # d => job'[b] = job[b]
  BY <1>1
<1>3. \A b \in Dispatchers : \A e : Working(b, e)' <=> Working(b, e)
  BY <1>2 DEF Working
<1>4. ASSUME NEW b \in Dispatchers PROVE Alone(b)'
  <2>1. Alone(b)
    BY DEF Calm
  <2>2. CASE b # d
    <3>1. job'[b] = job[b]
      BY <1>2, <2>2
    <3> QED BY <1>3, <2>1, <3>1 DEF Alone
  <2>3. CASE b = d
    BY <1>2, <1>3, <2>1, <2>3 DEF Alone
  <2> QED BY <2>2, <2>3
<1>5. ASSUME NEW m \in wire' PROVE Awaited(m)'
  <2>1. CASE m \in wire
    <3>1. PICK b \in Dispatchers : job[b].at = "waiting" /\ Mine(b, m)
      BY <2>1 DEF Calm, Awaited
    <3>2. job'[b] = job[b]
      BY <1>2, <3>1
    <3>3. m.label = 0
      BY <2>1 DEF Calm, Awaited
    <3> QED BY <3>1, <3>2, <3>3 DEF Awaited, Mine
  <2>2. CASE m \notin wire
    <3>1. k.at = "waiting" /\ m.event = k.event /\ m.attempt = k.attempt /\ m.label = label
      BY <2>2
    <3>2. label = 0
      BY DEF Calm
    <3> QED BY <1>2, <3>1, <3>2 DEF Awaited, Mine
  <2> QED BY <2>1, <2>2
<1>6. \A e \in Events : Caused(e)'
  BY DEF Calm, Caused
<1> QED BY <1>4, <1>5, <1>6 DEF Calm

LEMMA OwnStepsAreCalm ==
    ASSUME TypeOK, Sound, Calm, NEW d \in Dispatchers,
           LookUp(d) \/ StartDelivery(d) \/ SendEmail(d) \/ RecordDelivery(d)
    PROVE  Calm'
<1>1. PICK j \in Job : j = job[d]
  BY DEF TypeOK
<1>2. job \in [Dispatchers -> Job]
  BY DEF TypeOK
<1>3. UNCHANGED <<row, accepted, body, label>>
  BY DEF LookUp, StartDelivery, SendEmail, RecordDelivery, Asks, providerVars
<1>4. ASSUME NEW at \in {"start", "send"}, Goto(d, at), j.at \in {"lookup", "start"}, UNCHANGED wire
      PROVE  Calm'
  <2> DEFINE k == [j EXCEPT !.at = at]
  <2>1. /\ k \in Job /\ k.at = at /\ k.event = j.event /\ k.attempt = j.attempt
    BY <1>1 DEF Job
  <2>2. job' = [job EXCEPT ![d] = k]
    BY <1>1, <1>2, <1>4 DEF Goto
  <2> HIDE DEF k
  <2> QED BY <1>1, <1>3, <1>4, <2>1, <2>2, JobStepIsCalm
<1>5. ASSUME NEW at \in {"record", "settle"}, NEW v \in Outcomes, Decide(d, at, v),
             j.at \in {"lookup", "start"}, UNCHANGED wire,
             v = "permanent_failure" => j.attempt > RetryBudget
      PROVE  Calm'
  <2> DEFINE k == [j EXCEPT !.at = at, !.verdict = v, !.guarded = FALSE]
  <2>1. /\ k \in Job /\ k.at = at /\ k.event = j.event /\ k.attempt = j.attempt
        /\ k.verdict = v
    BY <1>1 DEF Job
  <2>2. job' = [job EXCEPT ![d] = k]
    BY <1>1, <1>2, <1>5 DEF Decide
  <2> HIDE DEF k
  <2> QED BY <1>1, <1>3, <1>5, <2>1, <2>2, JobStepIsCalm
<1>6. CASE LookUp(d)
  BY <1>1, <1>4, <1>5, <1>6 DEF LookUp, Outcomes
<1>7. CASE StartDelivery(d)
  <2> DEFINE v == classifyHumanNotificationTransportFailure(job[d].attempt)
  <2>1. v \in Outcomes
    BY VerdictTypes DEF Outcomes
  <2>2. v = "permanent_failure" => job[d].attempt > RetryBudget
    <3>1. job[d].attempt \in Nat /\ RetryBudget \in Nat
      BY <1>1, NotificationAssumption DEF Job
    <3> QED BY <3>1 DEF classifyHumanNotificationTransportFailure
  <2>3. job[d].at = "start" /\ UNCHANGED wire /\ (Goto(d, "send") \/ Decide(d, "record", v))
    BY <1>7 DEF StartDelivery
  <2> HIDE DEF v
  <2>4. CASE Decide(d, "record", v)
    BY <1>1, <1>5, <2>1, <2>2, <2>3, <2>4
  <2> QED BY <1>1, <1>4, <2>3, <2>4
<1>8. CASE SendEmail(d)
  <2> DEFINE k == [j EXCEPT !.at = "waiting", !.guarded = TRUE]
  <2>1. /\ k \in Job /\ k.at = "waiting" /\ k.event = j.event /\ k.attempt = j.attempt
    BY <1>1 DEF Job
  <2>2. job' = [job EXCEPT ![d] = k] /\ j.at = "send"
    BY <1>1, <1>2, <1>8 DEF SendEmail
  <2> HIDE DEF k
  <2>3. wire' = wire \cup {[event |-> k.event, attempt |-> k.attempt, label |-> label]}
    BY <1>1, <1>8, <2>1 DEF SendEmail
  <2> QED BY <1>1, <1>3, <2>1, <2>2, <2>3, JobStepIsCalm
<1>9. CASE RecordDelivery(d)
  <2> DEFINE k == [j EXCEPT !.at = "settle"]
  <2>1. /\ k \in Job /\ k.at = "settle" /\ k.event = j.event /\ k.attempt = j.attempt
        /\ k.verdict = j.verdict
    BY <1>1 DEF Job
  <2>2. job' = [job EXCEPT ![d] = k] /\ j.at = "record" /\ UNCHANGED wire
    BY <1>1, <1>2, <1>9 DEF RecordDelivery, Goto
  <2> HIDE DEF k
  <2>3. Alone(d)
    BY DEF Calm
  <2>4. k.verdict = "permanent_failure" => k.attempt > RetryBudget \/ k.event \notin accepted
    BY <1>1, <2>1, <2>2, <2>3 DEF Alone
  <2> QED BY <1>1, <1>3, <2>1, <2>2, <2>4, JobStepIsCalm
<1> QED BY <1>6, <1>7, <1>8, <1>9

LEMMA ClaimIsCalm ==
    ASSUME TypeOK, Sound, Calm, NEW d \in Dispatchers, NEW e \in Events, Claim(d, e)
    PROVE  Calm'
<1>1. row \in [Events -> Row] /\ job \in [Dispatchers -> Job] /\ row[e] \in Row
  BY DEF TypeOK
<1>2. UNCHANGED <<wire, accepted, body, label>> /\ job[d].at = "idle"
  BY DEF Claim, Asks, providerVars
<1> DEFINE n == Claimed(row[e])
<1>3. /\ n.state = row[e].state /\ n.overdue = FALSE
      /\ n.token = row[e].attempts + 1 /\ n.attempts = row[e].attempts + 1
  BY <1>1, RowUpdates
<1>4. row' = [row EXCEPT ![e] = n] /\ row[e].state = "queued"
  BY DEF Claim, Claimable
<1>5. row'[e] = n /\ \A f \in Events : f # e => row'[f] = row[f]
  BY <1>1, <1>4
<1> HIDE DEF n
<1>6. row[e].attempts \in Nat
  BY <1>1 DEF Row
<1>7. PICK a \in Nat \ {0} : a = row[e].attempts + 1
  BY <1>6
<1> DEFINE k == [Idle EXCEPT !.at = "lookup", !.event = e, !.attempt = a]
<1>8. job' = [job EXCEPT ![d] = k]
  BY <1>3, <1>5, <1>7 DEF Claim
<1>9. k.at = "lookup" /\ k.event = e /\ k.attempt = a
  BY DEF Idle
<1> HIDE DEF k
<1>10. job'[d] = k /\ \A b \in Dispatchers : b # d => job'[b] = job[b]
  BY <1>1, <1>8
<1>11. \A b \in Dispatchers : ~Working(b, e)
  <2> SUFFICES ASSUME NEW b \in Dispatchers, Working(b, e) PROVE FALSE
    OBVIOUS
  <2>1. Alone(b) /\ job[b].at # "idle" /\ job[b].event = e
    BY DEF Calm, Working
  <2> QED BY <2>1 DEF Alone, Claim, Claimable
<1>12. ASSUME NEW b \in Dispatchers PROVE Alone(b)'
  <2>1. CASE b = d
    <3>1. \A c \in Dispatchers : Working(c, e)' => c = d
      BY <1>10, <1>11 DEF Working
    <3> QED BY <1>3, <1>4, <1>5, <1>7, <1>9, <1>10, <2>1, <3>1 DEF Alone
  <2>2. CASE b # d /\ job[b].at # "idle"
    <3>1. Alone(b) /\ job[b].event # e /\ job'[b] = job[b]
      BY <1>10, <1>11, <2>2 DEF Calm, Working
    <3>2. row'[job[b].event] = row[job[b].event]
      BY <1>4, <3>1 DEF TypeOK
    <3>3. \A c \in Dispatchers : Working(c, job[b].event)' => Working(c, job[b].event)
      BY <1>9, <1>10, <3>1 DEF Working
    <3> QED BY <1>2, <2>2, <3>1, <3>2, <3>3 DEF Alone
  <2>3. CASE b # d /\ job[b].at = "idle"
    BY <1>10, <2>3 DEF Alone
  <2> QED BY <2>1, <2>2, <2>3
<1>13. ASSUME NEW m \in wire PROVE Awaited(m)'
  <2>1. PICK b \in Dispatchers : job[b].at = "waiting" /\ Mine(b, m)
    BY <1>13 DEF Calm, Awaited
  <2>2. job'[b] = job[b] /\ m.label = 0
    BY <1>2, <1>10, <1>13, <2>1 DEF Calm, Awaited
  <2> QED BY <2>1, <2>2 DEF Awaited, Mine
<1>14. ASSUME NEW f \in Events PROVE Caused(f)'
  <2>1. Caused(f)
    BY DEF Calm
  <2> QED BY <1>2, <1>3, <1>4, <1>5, <2>1 DEF Caused
<1> QED BY <1>2, <1>12, <1>13, <1>14 DEF Calm

\* Before the first fault the provider refuses only what it never took.
LEMMA AnswerIsCalm ==
    ASSUME TypeOK, Sound, Calm, NEW d \in Dispatchers, NEW m \in wire,
           NEW status \in {"ok", "busy", "refused"}, Answer(d, m, status)
    PROVE  Calm'
<1>1. row \in [Events -> Row] /\ job \in [Dispatchers -> Job] /\ m \in Send
  BY DEF TypeOK
<1>2. /\ UNCHANGED <<row, label>> /\ job[d].at = "waiting" /\ Mine(d, m)
      /\ wire' = wire \ {m}
  BY DEF Answer, Asks
<1>3. PICK j \in Job : j = job[d]
  BY <1>1
<1>4. /\ Alone(d) /\ j.event \in Events /\ m.event = j.event /\ m.attempt = j.attempt
      /\ m.label = 0 /\ label = 0 /\ row[j.event].state = "queued"
  BY <1>2, <1>3 DEF Calm, Sound, JobSound, Mine, Awaited, Alone
<1>5. ASSUME NEW o \in wire, o.event = m.event PROVE o = m
  <2>1. PICK b \in Dispatchers : job[b].at = "waiting" /\ Mine(b, o)
    BY DEF Calm, Awaited
  <2>2. b = d
    BY <1>2, <1>3, <1>4, <1>5, <2>1 DEF Alone, Working, Mine
  <2>3. o.attempt = m.attempt /\ o.label = m.label
    BY <1>3, <1>4, <2>1, <2>2 DEF Mine, Calm, Awaited
  <2>4. o \in Send
    BY DEF TypeOK
  <2> QED BY <1>1, <1>5, <2>3, <2>4 DEF Send
<1>6. UNCHANGED <<accepted, body>> \/ Takes(m)
  <2>1. CASE status = "ok"
    BY <2>1 DEF Answer
  <2>2. CASE status = "busy"
    BY <2>2 DEF Answer
  <2>3. CASE status = "refused"
    BY <2>3 DEF Answer
  <2> QED BY <2>1, <2>2, <2>3
<1>7. /\ \A e \in Events : body'[e] = 0
      /\ \A e \in Events : e # j.event => (e \in accepted' <=> e \in accepted)
  BY <1>4, <1>6 DEF Takes, Calm, TypeOK
<1> DEFINE v == classifyHumanNotificationHttpStatus(status, job[d].attempt)
<1>8. v \in Outcomes
  BY VerdictTypes
<1>9. v = "permanent_failure" => j.attempt > RetryBudget \/ j.event \notin accepted'
  <2>1. CASE status = "ok"
    BY <2>1 DEF classifyHumanNotificationHttpStatus
  <2>2. CASE status = "busy"
    <3>1. j.attempt \in Nat /\ RetryBudget \in Nat
      BY NotificationAssumption DEF Job
    <3> QED BY <1>3, <2>2, <3>1
            DEF classifyHumanNotificationHttpStatus, classifyHumanNotificationTransportFailure
  <2>3. CASE status = "refused"
    <3>1. ~Conflicts(m)
      BY <1>4, <1>5 DEF Conflicts, Calm
    <3> QED BY <1>4, <2>3, <3>1 DEF Answer
  <2> QED BY <2>1, <2>2, <2>3
<1>10. job' = [job EXCEPT ![d].at = "record", ![d].verdict = v]
  BY DEF Answer
<1>11. PICK w \in Outcomes : w = v
  BY <1>8
<1> HIDE DEF v
<1> DEFINE k == [j EXCEPT !.at = "record", !.verdict = w]
<1>12. job' = [job EXCEPT ![d] = k]
  BY <1>1, <1>3, <1>10, <1>11
<1>13. k.at = "record" /\ k.event = j.event /\ k.attempt = j.attempt /\ k.verdict = w
  BY <1>3 DEF Job
<1> HIDE DEF k
<1>14. job'[d] = k /\ \A b \in Dispatchers : b # d => job'[b] = job[b]
  BY <1>1, <1>12
<1>15. \A b \in Dispatchers : \A e : Working(b, e)' <=> Working(b, e)
  BY <1>2, <1>3, <1>13, <1>14 DEF Working
<1>16. ASSUME NEW b \in Dispatchers PROVE Alone(b)'
  <2>1. CASE b = d
    BY <1>2, <1>3, <1>4, <1>9, <1>11, <1>13, <1>14, <1>15, <2>1 DEF Alone
  <2>2. CASE b # d /\ job[b].at # "idle"
    <3>1. Alone(b) /\ job'[b] = job[b] /\ job[b].event \in Events
      BY <1>14, <2>2 DEF Calm, Sound, JobSound
    <3>2. job[b].event # j.event
      BY <1>2, <1>3, <2>2, <3>1 DEF Alone, Working
    <3> QED BY <1>2, <1>7, <1>15, <2>2, <3>1, <3>2 DEF Alone
  <2>3. CASE b # d /\ job[b].at = "idle"
    BY <1>14, <2>3 DEF Alone
  <2> QED BY <2>1, <2>2, <2>3
<1>17. ASSUME NEW o \in wire' PROVE Awaited(o)'
  <2>1. o \in wire /\ o.event # j.event
    BY <1>2, <1>4, <1>5, <1>17
  <2>2. PICK b \in Dispatchers : job[b].at = "waiting" /\ Mine(b, o)
    BY <2>1 DEF Calm, Awaited
  <2>3. job'[b] = job[b] /\ o.label = 0
    BY <1>3, <1>14, <2>1, <2>2 DEF Mine, Calm, Awaited
  <2> QED BY <2>2, <2>3 DEF Awaited, Mine
<1>18. ASSUME NEW e \in Events PROVE Caused(e)'
  <2>1. Caused(e)
    BY DEF Calm
  <2> QED BY <1>2, <1>4, <1>7, <2>1 DEF Caused
<1> QED BY <1>2, <1>4, <1>7, <1>16, <1>17, <1>18 DEF Calm

LEMMA SettleIsCalm ==
    ASSUME TypeOK, Sound, Calm, NEW d \in Dispatchers, Settle(d)
    PROVE  Calm'
<1>1. row \in [Events -> Row] /\ job \in [Dispatchers -> Job]
  BY DEF TypeOK
<1>2. /\ UNCHANGED <<wire, accepted, body, label>> /\ job[d].at = "settle"
      /\ job' = [job EXCEPT ![d] = Idle]
  BY DEF Settle, Asks, providerVars
<1> DEFINE e == job[d].event
           n == Settled(row[e], job[d])
<1>3. Alone(d) /\ e \in Events /\ job[d].verdict \in Outcomes /\ row[e] \in Row /\ job[d] \in Job
  BY <1>1, <1>2 DEF Calm, Sound, JobSound
<1>4. /\ n.attempts = row[e].attempts
      /\ \/ n = row[e]
         \/ n.state \in {"queued", "sent"}
         \/ n.state = "permanent_failure" /\ job[d].verdict = "permanent_failure"
  BY <1>3, SettledFields
<1>5. row' = [row EXCEPT ![e] = n]
  BY DEF Settle
<1> HIDE DEF n
<1>6. row'[e] = n /\ \A f \in Events : f # e => row'[f] = row[f]
  BY <1>1, <1>3, <1>5
<1>7. Idle.at = "idle"
  BY DEF Idle
<1>8. job'[d].at = "idle" /\ \A b \in Dispatchers : b # d => job'[b] = job[b]
  BY <1>1, <1>2, <1>7
<1>9. ASSUME NEW b \in Dispatchers PROVE Alone(b)'
  <2>1. CASE b = d
    BY <1>8, <2>1 DEF Alone
  <2>2. CASE b # d /\ job[b].at # "idle"
    <3>1. Alone(b) /\ job'[b] = job[b] /\ job[b].event \in Events
      BY <1>8, <2>2 DEF Calm, Sound, JobSound
    <3>2. job[b].event # e
      BY <1>2, <1>3, <2>2 DEF Alone, Working
    <3>3. row'[job[b].event] = row[job[b].event]
      BY <1>6, <3>1, <3>2
    <3>4. \A c \in Dispatchers : Working(c, job[b].event)' => Working(c, job[b].event)
      BY <1>8, <3>1 DEF Working
    <3> QED BY <1>2, <2>2, <3>1, <3>3, <3>4 DEF Alone
  <2>3. CASE b # d /\ job[b].at = "idle"
    BY <1>8, <2>3 DEF Alone
  <2> QED BY <2>1, <2>2, <2>3
<1>10. ASSUME NEW m \in wire PROVE Awaited(m)'
  <2>1. PICK b \in Dispatchers : job[b].at = "waiting" /\ Mine(b, m)
    BY <1>10 DEF Calm, Awaited
  <2>2. job'[b] = job[b] /\ m.label = 0
    BY <1>2, <1>8, <1>10, <2>1 DEF Calm, Awaited
  <2> QED BY <2>1, <2>2 DEF Awaited, Mine
<1>11. ASSUME NEW f \in Events PROVE Caused(f)'
  <2>1. Caused(f)
    BY DEF Calm
  <2>2. CASE f # e
    BY <1>2, <1>6, <2>1, <2>2 DEF Caused
  <2>3. CASE f = e
    BY <1>2, <1>3, <1>4, <1>6, <2>1, <2>3 DEF Caused, Alone
  <2> QED BY <2>2, <2>3
<1> QED BY <1>2, <1>9, <1>10, <1>11 DEF Calm

LEMMA UndisturbedNext ==
    ASSUME TypeOK, Sound, Undisturbed, [Next]_vars
    PROVE  Undisturbed'
<1> SUFFICES ASSUME faults' = 0 PROVE Calm'
  BY DEF Undisturbed
<1>1. faults \in Nat /\ (faults' = faults + 1 \/ UNCHANGED faults)
  BY DEF TypeOK, Next, Step, vars, requestVars, providerVars, Unsent, Asks, StartAsk,
         StartReminder, Snapshot, putRequestAssignment, Enqueue, StopCall, Sign, Close, Rename,
         BecomesDue, LeaseRunsOut, Happens, Notify, Claim, LookUp, StartDelivery, SendEmail,
         Answer, GiveUp, ArriveLate, RecordDelivery, Settle, DatabaseError, Stop
<1>2. faults = 0 /\ faults' = faults /\ Calm
  BY <1>1 DEF Undisturbed
<1>3. \/ UNCHANGED <<row, job, wire, accepted, body, label>>
      \/ \E c \in Callers : Enqueue(c)
      \/ \E e \in Events : BecomesDue(e) \/ LeaseRunsOut(e) \/ \E i \in 1 .. MaxReports : Notify(e, i)
      \/ \E d \in Dispatchers, e \in Events : Claim(d, e)
      \/ \E d \in Dispatchers :
            \/ LookUp(d) \/ StartDelivery(d) \/ SendEmail(d) \/ RecordDelivery(d) \/ Settle(d)
            \/ \E m \in wire, status \in {"ok", "busy", "refused"} : Answer(d, m, status)
      \/ \E m \in wire : ArriveLate(m)
  <2>1. ~Rename /\ \A d \in Dispatchers : ~GiveUp(d) /\ ~DatabaseError(d) /\ ~Stop(d)
    BY <1>2 DEF Rename, GiveUp, DatabaseError, Stop
  <2>2. UNCHANGED vars \/ Next
    OBVIOUS
  <2>3. \/ \E c \in Callers :
              \/ \E actor \in Askers, signer \in Recipients :
                    StartAsk(c, actor, signer) \/ StartReminder(c, actor, signer)
              \/ Snapshot(c) \/ putRequestAssignment(c) \/ StopCall(c)
        \/ \E s \in Recipients : Sign(s)
        \/ Close
        \/ \E e \in Events, state \in Feedback : Happens(e, state)
        \/ UNCHANGED vars
        => UNCHANGED <<row, job, wire, accepted, body, label>>
    BY DEF vars, providerVars, Unsent, Asks, StartAsk, StartReminder, Snapshot,
           putRequestAssignment, StopCall, Sign, Close, Happens
  <2> QED BY <2>1, <2>2, <2>3 DEF Next, Step
<1>4. ASSUME UNCHANGED <<row, job, wire, accepted, body, label>> PROVE Calm'
  BY <1>2, <1>4 DEF Calm, Alone, Awaited, Caused, Mine, Working
<1>5. ASSUME NEW m \in wire, ArriveLate(m) PROVE FALSE
  BY <1>2, <1>5 DEF Calm, Awaited, ArriveLate
<1> QED BY <1>2, <1>3, <1>4, <1>5, EnqueueIsCalm, OthersAreCalm, ClaimIsCalm,
           OwnStepsAreCalm, SettleIsCalm, AnswerIsCalm

\* FailedMailNeedsACause: while nothing has gone wrong a permanent failure of
\* an accepted e-mail takes every attempt, for each retry carries its key.
THEOREM FailureHasACause == Spec => []FailedMailNeedsACause
<1>1. Init => Undisturbed
  BY DEF Init, Undisturbed, Calm, Alone, Awaited, Caused, Idle, Absent
<1>2. TypeOK /\ Sound /\ Undisturbed /\ [Next]_vars => Undisturbed'
  BY UndisturbedNext
<1>3. TypeOK /\ Undisturbed => FailedMailNeedsACause
  BY DEF TypeOK, Undisturbed, Calm, Caused, FailedMailNeedsACause
<1> QED BY <1>1, <1>2, <1>3, Invariance, PTL DEF Spec
==============================================================================
