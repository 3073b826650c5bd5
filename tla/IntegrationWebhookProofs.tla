---------------------- MODULE IntegrationWebhookProofs ----------------------
(***************************************************************************)
(* Safety of the webhook outbox for any number of dispatchers, changes,    *)
(* faults and redeliveries and any retry budget.                           *)
(***************************************************************************)
EXTENDS IntegrationWebhook, TLAPS

-----------------------------------------------------------------------------
(* The inductive invariant.                                                *)

\* The endpoint accepted the attempt k with a projection new enough.
Accepted(k) == \E m \in received : /\ m.event = k[1] /\ m.attempt = k[2]
                                   /\ m.version >= m.event

\* A row's lease carries its attempt number; only inserted rows are due.
RowSound(e) ==
    /\ row[e].due \/ row[e].published => e <= changes
    /\ row[e].token # 0 => row[e].token = row[e].attempts /\ ~row[e].published

\* What a running call knows of its event.
JobSound(d) ==
    /\ job[d].event <= changes
    /\ job[d].attempt <= row[job[d].event].attempts
    /\ job[d].verdict = "retry" => job[d].attempt <= RetryBudget
    /\ job[d].at = "waiting" => job[d].version >= job[d].event
    /\ job[d].at \in {"record", "settle"} /\ job[d].verdict = "succeeded"
          => Accepted(Delivery(d))
    /\ job[d].at = "record" => job[d].verdict \in Outcomes

\* How far a running call got, against its delivery record.
RecordSound(d) ==
    /\ job[d].at \in {"credential", "start"} => Delivery(d) \notin DOMAIN history
    /\ job[d].at \in {"build", "waiting", "record"} => Delivery(d) \in DOMAIN history
    /\ job[d].guarded => Delivery(d) \in DOMAIN history
    /\ job[d].at = "settle" /\ Delivery(d) \in DOMAIN history
          => history[Delivery(d)] \in Outcomes
    /\ (/\ row[job[d].event].published
        /\ job[d].attempt = row[job[d].event].attempts)
          => /\ job[d].at \in {"record", "settle"}
             /\ Delivery(d) \in DOMAIN history => history[Delivery(d)] \in Outcomes

JobsSound == \A d \in Dispatchers :
    job[d].at # "idle" => JobSound(d) /\ RecordSound(d)

MessagesSound == \A m \in wire \cup received : m.version >= m.event

HistorySound == \A k \in DOMAIN history : k[2] <= row[k[1]].attempts

\* A row that can be claimed again has an attempt left, or a fault or a
\* redelivery to account for the next one.
BudgetSound(e) ==
    /\ row[e].attempts <= RetryBudget + 1 + faults + redeliveries
    /\ ~row[e].published /\ (row[e].token = 0 \/ row[e].overdue \/ ~Held(e))
          => row[e].attempts <= RetryBudget + faults + redeliveries

IInv ==
    /\ TypeOK
    /\ \A e \in Events : RowSound(e)
    /\ JobsSound
    /\ MessagesSound
    /\ HistorySound
    /\ ClaimsAreExclusive
    /\ DeliveredMeansAccepted
    /\ ClosedWithEvidence
    /\ \A e \in Events : BudgetSound(e)

-----------------------------------------------------------------------------
(* Facts about the parts.                                                  *)

\* Every running call is still running, and on the same attempt.
KeepsWork == \A d \in Dispatchers :
    /\ job'[d].at = "idle" <=> job[d].at = "idle"
    /\ job'[d].event = job[d].event
    /\ job'[d].attempt = job[d].attempt

\* A step that moves a call along its attempt and leaves the rows alone keeps
\* claims exclusive and the budget sound.
LEMMA WorkKept ==
    ASSUME IInv, KeepsWork,
           UNCHANGED <<row, faults, redeliveries>>
    PROVE  ClaimsAreExclusive' /\ \A e \in Events : BudgetSound(e)'
PROOF
<1>1. ClaimsAreExclusive'
  BY DEF IInv, KeepsWork, ClaimsAreExclusive, Delivery
<1>2. ASSUME NEW e \in Events  PROVE Held(e)' = Held(e)
  BY DEF KeepsWork, Held, Working
<1>3. ASSUME NEW e \in Events  PROVE BudgetSound(e)'
  BY <1>2 DEF IInv, BudgetSound
<1>. QED  BY <1>1, <1>3

\* Settling a row touches nothing but a lease the call still holds: it closes
\* the row, or releases it for a retry.
LEMMA SettledRow ==
    ASSUME NEW r \in Row, NEW j \in Job
    PROVE  /\ Settled(r, j) \in Row
           /\ Settled(r, j).attempts = r.attempts
           /\ \/ Settled(r, j) = r
              \/ /\ ~r.published /\ r.token = j.attempt
                 /\ Settled(r, j).token = 0
                 /\ \/ Settled(r, j).published
                    \/ ~Settled(r, j).published /\ j.verdict = "retry"
                       /\ ~Settled(r, j).due
                 /\ Settled(r, j).due => r.due
PROOF
BY DEF Row, Settled, Holds, Closed, Released

LEMMA VerdictType ==
    ASSUME NEW a \in Nat
    PROVE  /\ TransportFailure(a) \in {"retry", "permanent_failure"}
           /\ RetryBudget \in Nat
           /\ TransportFailure(a) = "retry" => a <= RetryBudget
           /\ \A status \in Statuses :
                 /\ HttpStatus(status, a) \in Outcomes
                 /\ HttpStatus(status, a) = "retry" => a <= RetryBudget
                 /\ HttpStatus(status, a) = "succeeded" => status = "ok"
PROOF
BY WebhookAssumption DEF TransportFailure, HttpStatus, Statuses, Outcomes

-----------------------------------------------------------------------------
(* One lemma per action.                                                   *)

\* A committed change makes its row due.
LEMMA ChangeKeeps ==
    ASSUME IInv, TypeOK', Change
    PROVE  IInv'
PROOF
<1>1. \A e \in Events : RowSound(e)'
  BY DEF Change, Events, IInv, RowSound, TypeOK
<1>2. JobsSound'
  BY DEF Accepted, Change, Delivery, IInv, Job, JobSound, JobsSound,
    RecordSound, TypeOK
<1>3. MessagesSound'
  BY DEF Change, IInv, MessagesSound
<1>4. HistorySound'
  BY DEF Change, HistorySound, IInv
<1>5. ClaimsAreExclusive'
  BY DEF Change, ClaimsAreExclusive, Delivery, IInv
<1>6. DeliveredMeansAccepted'
  BY DEF Change, DeliveredMeansAccepted, IInv
<1>7. ClosedWithEvidence'
  BY DEF Change, ClosedWithEvidence, IInv
<1>8. \A e \in Events : BudgetSound(e)'
  BY DEF BudgetSound, Change, Held, IInv, Working
<1>. QED
  BY <1>1, <1>2, <1>3, <1>4, <1>5, <1>6, <1>7, <1>8 DEF IInv

\* A retry delay passes.
LEMMA BecomesDueKeeps ==
    ASSUME IInv, TypeOK', NEW e0 \in Events, BecomesDue(e0)
    PROVE  IInv'
PROOF
<1>1. \A e \in Events : RowSound(e)'
  BY DEF BecomesDue, IInv, RowSound
<1>2. JobsSound'
  BY DEF Accepted, BecomesDue, Delivery, IInv, JobSound, JobsSound,
    RecordSound
<1>3. MessagesSound'
  BY DEF BecomesDue, IInv, MessagesSound
<1>4. HistorySound'
  BY DEF BecomesDue, HistorySound, IInv
<1>5. ClaimsAreExclusive'
  BY DEF BecomesDue, ClaimsAreExclusive, Delivery, IInv
<1>6. DeliveredMeansAccepted'
  BY DEF BecomesDue, DeliveredMeansAccepted, IInv
<1>7. ClosedWithEvidence'
  BY DEF BecomesDue, ClosedWithEvidence, IInv
<1>8. \A e \in Events : BudgetSound(e)'
  BY DEF BecomesDue, BudgetSound, Held, IInv, Working
<1>. QED
  BY <1>1, <1>2, <1>3, <1>4, <1>5, <1>6, <1>7, <1>8 DEF IInv

\* A lease runs out under a stopped call, or under a running one as a fault.
LEMMA LeaseRunsOutKeeps ==
    ASSUME IInv, TypeOK', NEW e0 \in Events, LeaseRunsOut(e0)
    PROVE  IInv'
PROOF
<1>1. \A e \in Events : RowSound(e)'
  BY DEF IInv, LeaseRunsOut, RowSound
<1>2. JobsSound'
  BY DEF Accepted, Delivery, IInv, JobSound, JobsSound, LeaseRunsOut,
    RecordSound
<1>3. MessagesSound'
  BY DEF IInv, LeaseRunsOut, MessagesSound
<1>4. HistorySound'
  BY DEF HistorySound, IInv, LeaseRunsOut
<1>5. ClaimsAreExclusive'
  BY DEF ClaimsAreExclusive, Delivery, IInv, LeaseRunsOut
<1>6. DeliveredMeansAccepted'
  BY DEF DeliveredMeansAccepted, IInv, LeaseRunsOut
<1>7. ClosedWithEvidence'
  BY DEF ClosedWithEvidence, IInv, LeaseRunsOut
<1>8. \A e \in Events : BudgetSound(e)'
  BY WebhookAssumption DEF BudgetSound, Held, IInv, LeaseRunsOut, Row,
    TypeOK, Working
<1>. QED
  BY <1>1, <1>2, <1>3, <1>4, <1>5, <1>6, <1>7, <1>8 DEF IInv

\* A closed row is opened again; the redelivery accounts for the next attempt.
LEMMA RedeliverKeeps ==
    ASSUME IInv, TypeOK', NEW e0 \in Events, Redeliver(e0)
    PROVE  IInv'
PROOF
<1>1. \A e \in Events : RowSound(e)'
  BY DEF IInv, Redeliver, Requeued, RowSound
<1>2. JobsSound'
  BY DEF Accepted, Delivery, IInv, JobSound, JobsSound, RecordSound,
    Redeliver, Requeued
<1>3. MessagesSound'
  BY DEF IInv, MessagesSound, Redeliver
<1>4. HistorySound'
  BY DEF HistorySound, IInv, Redeliver, Requeued
<1>5. ClaimsAreExclusive'
  BY DEF ClaimsAreExclusive, Delivery, IInv, Redeliver
<1>6. DeliveredMeansAccepted'
  BY DEF DeliveredMeansAccepted, IInv, Redeliver
<1>7. ClosedWithEvidence'
  BY DEF ClosedWithEvidence, IInv, Redeliver, Requeued
<1>8. \A e \in Events : BudgetSound(e)'
  BY WebhookAssumption DEF BudgetSound, IInv, Redeliver, Requeued, Row,
    TypeOK
<1>. QED
  BY <1>1, <1>2, <1>3, <1>4, <1>5, <1>6, <1>7, <1>8 DEF IInv

\* A claim takes a fresh attempt number that no call and no record has.
LEMMA ClaimKeeps ==
    ASSUME IInv, TypeOK', NEW d0 \in Dispatchers, NEW e0 \in Events, Claim(d0, e0)
    PROVE  IInv'
PROOF
<1>1. \A e \in Events : RowSound(e)'
  BY DEF Claim, Claimable, Claimed, ClaimsAreExclusive, IInv, RowSound
<1>2. JobsSound'
  BY DEF Accepted, Claim, Claimable, Claimed, ClaimsAreExclusive, Delivery,
    HistorySound, IInv, Idle, Job, JobSound, JobsSound, RecordSound, Row,
    RowSound, TypeOK
<1>3. MessagesSound'
  BY DEF Claim, IInv, MessagesSound
<1>4. HistorySound'
  BY DEF Claim, Claimable, Claimed, ClaimsAreExclusive, Delivery,
    HistorySound, IInv, Row, TypeOK
<1>5. ClaimsAreExclusive'
  <2>1. ASSUME NEW d \in Dispatchers, d # d0, job[d].at # "idle"
        PROVE  /\ job'[d] = job[d]
               /\ Delivery(d) # Delivery(d0)'
    <3>1. job'[d] = job[d] /\ Delivery(d)' = Delivery(d)
      BY <2>1 DEF IInv, TypeOK, Claim, Delivery
    <3>2. job[d].attempt <= row[job[d].event].attempts /\ job[d].attempt \in Nat
      BY <2>1 DEF IInv, TypeOK, Job, JobsSound, JobSound
    <3>3. Delivery(d0)' = <<e0, row[e0].attempts + 1>> /\ row[e0].attempts \in Nat
      BY DEF IInv, TypeOK, Row, Claim, Claimed, Delivery
    <3>4. CASE job[d].event = e0
      BY <3>1, <3>2, <3>3, <3>4 DEF Delivery
    <3>5. CASE job[d].event # e0
      BY <3>1, <3>3, <3>5 DEF Delivery
    <3>. QED  BY <3>1, <3>4, <3>5
  <2>. QED  BY <2>1 DEF IInv, Claim, ClaimsAreExclusive, Delivery
<1>6. DeliveredMeansAccepted'
  BY DEF Claim, DeliveredMeansAccepted, IInv
<1>7. ClosedWithEvidence'
  BY DEF Claim, Claimable, Claimed, ClaimsAreExclusive, ClosedWithEvidence,
    Delivery, IInv
<1>8. \A e \in Events : BudgetSound(e)'
  <2>1. ASSUME NEW e \in Events, e # e0  PROVE BudgetSound(e)'
    <3>1. row'[e] = row[e] /\ UNCHANGED <<faults, redeliveries>>
      BY <2>1 DEF Claim
    <3>2. Held(e) => Held(e)'
      BY <2>1, <3>1 DEF Held, Working, Claim
    <3>. QED  BY <3>1, <3>2 DEF IInv, BudgetSound
  <2>2. row[e0].attempts <= RetryBudget + faults + redeliveries
    BY DEF IInv, BudgetSound, Claim, Claimable
  <2>3. /\ row'[e0].attempts = row[e0].attempts + 1
        /\ row'[e0].token = row'[e0].attempts /\ ~row'[e0].overdue
    BY DEF IInv, TypeOK, Row, Claim, Claimed
  <2>4. Held(e0)'
    BY <2>3 DEF TypeOK, Held, Working, Claim
  <2>5. BudgetSound(e0)'
    BY <2>2, <2>3, <2>4, WebhookAssumption DEF IInv, TypeOK, Row, BudgetSound, Claim
  <2>. QED  BY <2>1, <2>5
<1>. QED
  BY <1>1, <1>2, <1>3, <1>4, <1>5, <1>6, <1>7, <1>8 DEF IInv

\* A call decides at once or goes on to deliver.
LEMMA LoadCredentialKeeps ==
    ASSUME IInv, TypeOK', NEW d0 \in Dispatchers, LoadCredential(d0)
    PROVE  IInv'
PROOF
<1>1. \A e \in Events : RowSound(e)'
  BY DEF IInv, LoadCredential, RowSound
<1>2. JobsSound'
  <2>1. TransportFailure(job[d0].attempt) = "retry" => job[d0].attempt <= RetryBudget
    BY VerdictType DEF IInv, TypeOK, Job
  <2>2. ASSUME NEW d \in Dispatchers, job'[d].at # "idle"
        PROVE  JobSound(d)' /\ RecordSound(d)'
    BY <2>1, <2>2, VerdictType DEF IInv, TypeOK, Job, LoadCredential, Goto,
      Decide, JobsSound, JobSound, RecordSound, Accepted, Delivery
  <2>. QED  BY <2>2 DEF JobsSound
<1>3. MessagesSound'
  BY DEF IInv, LoadCredential, MessagesSound
<1>4. HistorySound'
  BY DEF HistorySound, IInv, LoadCredential
<1>6. DeliveredMeansAccepted'
  BY DEF DeliveredMeansAccepted, IInv, LoadCredential
<1>7. ClosedWithEvidence'
  BY DEF ClosedWithEvidence, IInv, LoadCredential
<1>5. KeepsWork
  <2>1. job \in [Dispatchers -> Job] /\ job[d0].at # "idle"
    BY DEF IInv, TypeOK, LoadCredential
  <2>2. /\ \A d \in Dispatchers : d # d0 => job'[d] = job[d]
        /\ job'[d0].at # "idle"
        /\ job'[d0].event = job[d0].event /\ job'[d0].attempt = job[d0].attempt
    BY <2>1 DEF LoadCredential, Goto, Decide, Job
  <2>. QED  BY <2>1, <2>2 DEF KeepsWork
<1>8. ClaimsAreExclusive' /\ \A e \in Events : BudgetSound(e)'
  BY <1>5, WorkKept DEF LoadCredential
<1>. QED
  BY <1>1, <1>2, <1>3, <1>4, <1>6, <1>7, <1>8 DEF IInv

\* The delivery record of a fresh attempt is new.
LEMMA StartDeliveryKeeps ==
    ASSUME IInv, TypeOK', NEW d0 \in Dispatchers, StartDelivery(d0)
    PROVE  IInv'
PROOF
<1>1. \A e \in Events : RowSound(e)'
  BY DEF IInv, RowSound, StartDelivery
<1>2. JobsSound'
  BY DEF Accepted, ClaimsAreExclusive, Delivery, Goto, IInv, JobSound,
    JobsSound, RecordSound, Recorded, StartDelivery, TypeOK
<1>3. MessagesSound'
  BY DEF IInv, MessagesSound, StartDelivery
<1>4. HistorySound'
  BY DEF ClaimsAreExclusive, Delivery, HistorySound, IInv, JobSound,
    JobsSound, RecordSound, Recorded, StartDelivery
<1>6. DeliveredMeansAccepted'
  BY DEF DeliveredMeansAccepted, IInv, Recorded, StartDelivery
<1>7. ClosedWithEvidence'
  BY DEF ClosedWithEvidence, Delivery, IInv, JobSound, JobsSound,
    RecordSound, Recorded, StartDelivery
<1>5. KeepsWork
  BY DEF KeepsWork, Goto, StartDelivery
<1>8. ClaimsAreExclusive' /\ \A e \in Events : BudgetSound(e)'
  BY <1>5, WorkKept DEF StartDelivery
<1>. QED
  BY <1>1, <1>2, <1>3, <1>4, <1>6, <1>7, <1>8 DEF IInv

\* The projection is at least as new as the event.
LEMMA BuildAndPostKeeps ==
    ASSUME IInv, TypeOK', NEW d0 \in Dispatchers, BuildAndPost(d0)
    PROVE  IInv'
PROOF
<1>1. \A e \in Events : RowSound(e)'
  BY DEF BuildAndPost, IInv, RowSound
<1>2. JobsSound'
  <2>1. changes >= job[d0].event
    BY DEF IInv, BuildAndPost, JobsSound, JobSound
  <2>2. ASSUME NEW d \in Dispatchers, job'[d].at # "idle"
        PROVE  JobSound(d)' /\ RecordSound(d)'
    BY <2>1, <2>2, VerdictType DEF IInv, TypeOK, Job, BuildAndPost, Decide,
      JobsSound, JobSound, RecordSound, Accepted, Delivery
  <2>. QED  BY <2>2 DEF JobsSound
<1>3. MessagesSound'
  <2>1. changes >= job[d0].event
    BY DEF IInv, BuildAndPost, JobsSound, JobSound
  <2>2. ASSUME NEW m \in wire'  PROVE m \in wire \/ m.version >= m.event
    BY <2>1, <2>2 DEF BuildAndPost, Sent
  <2>. QED  BY <2>2 DEF IInv, MessagesSound, BuildAndPost
<1>4. HistorySound'
  BY DEF BuildAndPost, HistorySound, IInv
<1>6. DeliveredMeansAccepted'
  BY DEF BuildAndPost, DeliveredMeansAccepted, IInv
<1>7. ClosedWithEvidence'
  BY DEF BuildAndPost, ClosedWithEvidence, IInv
<1>5. KeepsWork
  <2>1. job \in [Dispatchers -> Job] /\ job[d0].at # "idle"
    BY DEF IInv, TypeOK, BuildAndPost
  <2>2. /\ \A d \in Dispatchers : d # d0 => job'[d] = job[d]
        /\ job'[d0].at # "idle"
        /\ job'[d0].event = job[d0].event /\ job'[d0].attempt = job[d0].attempt
    BY <2>1 DEF BuildAndPost, Decide, Job
  <2>. QED  BY <2>1, <2>2 DEF KeepsWork
<1>8. ClaimsAreExclusive' /\ \A e \in Events : BudgetSound(e)'
  BY <1>5, WorkKept DEF BuildAndPost
<1>. QED
  BY <1>1, <1>2, <1>3, <1>4, <1>6, <1>7, <1>8 DEF IInv

\* A success is recorded only of what the endpoint accepted.
LEMMA AnswerKeeps ==
    ASSUME IInv, TypeOK', NEW d0 \in Dispatchers, NEW status \in Statuses, Answer(d0, status)
    PROVE  IInv'
PROOF
<1>1. \A e \in Events : RowSound(e)'
  BY DEF Answer, IInv, RowSound
<1>2. JobsSound'
  <2>1. received \subseteq received'
    BY DEF Answer, Accept
  <2>2. status = "ok" => Accepted(Delivery(d0))'
    BY DEF IInv, TypeOK, MessagesSound, Answer, Accept, Accepted, Delivery,
      Sent
  <2>3. ASSUME NEW d \in Dispatchers, job'[d].at # "idle"
        PROVE  JobSound(d)' /\ RecordSound(d)'
    <3>1. CASE d = d0
      BY <2>2, <2>3, <3>1, VerdictType DEF IInv, TypeOK, Answer, JobsSound,
        JobSound, RecordSound, Delivery
    <3>2. CASE d # d0
      <4>1. job'[d] = job[d] /\ UNCHANGED <<row, changes, history>>
        BY <3>2 DEF IInv, TypeOK, Answer
      <4>2. \A k : Accepted(k) => Accepted(k)'
        BY <2>1 DEF Accepted
      <4>. QED
        BY <2>3, <4>1, <4>2 DEF IInv, JobsSound, JobSound, RecordSound, Delivery
    <3>. QED  BY <3>1, <3>2
  <2>. QED  BY <2>3 DEF JobsSound
<1>3. MessagesSound'
  BY DEF Accept, Answer, IInv, MessagesSound
<1>4. HistorySound'
  BY DEF Answer, HistorySound, IInv
<1>6. DeliveredMeansAccepted'
  BY DEF Accept, Answer, DeliveredMeansAccepted, IInv
<1>7. ClosedWithEvidence'
  BY DEF Accept, Answer, ClosedWithEvidence, IInv
<1>5. KeepsWork
  BY DEF KeepsWork, Answer, TypeOK
<1>8. ClaimsAreExclusive' /\ \A e \in Events : BudgetSound(e)'
  BY <1>5, WorkKept DEF Answer
<1>. QED
  BY <1>1, <1>2, <1>3, <1>4, <1>6, <1>7, <1>8 DEF IInv

\* A broken connection is a transport failure.
LEMMA GiveUpKeeps ==
    ASSUME IInv, TypeOK', NEW d0 \in Dispatchers, GiveUp(d0)
    PROVE  IInv'
PROOF
<1>1. \A e \in Events : RowSound(e)'
  BY DEF GiveUp, IInv, RowSound
<1>2. JobsSound'
  BY DEF Accepted, Decide, Delivery, GiveUp, IInv, JobSound, JobsSound,
    Outcomes, RecordSound, TransportFailure, TypeOK
<1>3. MessagesSound'
  BY DEF GiveUp, IInv, MessagesSound
<1>4. HistorySound'
  BY DEF GiveUp, HistorySound, IInv
<1>6. DeliveredMeansAccepted'
  BY DEF DeliveredMeansAccepted, GiveUp, IInv
<1>7. ClosedWithEvidence'
  BY DEF ClosedWithEvidence, GiveUp, IInv
<1>5. KeepsWork
  BY DEF KeepsWork, Decide, GiveUp, TypeOK
<1>8. ClaimsAreExclusive' /\ \A e \in Events : BudgetSound(e)'
  BY <1>5, WorkKept DEF GiveUp
<1>. QED
  BY <1>1, <1>2, <1>3, <1>4, <1>6, <1>7, <1>8 DEF IInv

\* The record of an attempt is written by its only author.
LEMMA RecordDeliveryKeeps ==
    ASSUME IInv, TypeOK', NEW d0 \in Dispatchers, RecordDelivery(d0)
    PROVE  IInv'
PROOF
<1>1. \A e \in Events : RowSound(e)'
  BY DEF IInv, RecordDelivery, RowSound
<1>2. JobsSound'
  BY DEF Accepted, ClaimsAreExclusive, Delivery, Goto, IInv, JobSound,
    JobsSound, RecordDelivery, RecordSound, Recorded
<1>3. MessagesSound'
  BY DEF IInv, MessagesSound, RecordDelivery
<1>4. HistorySound'
  BY DEF HistorySound, IInv, JobsSound, RecordDelivery, RecordSound, Recorded
<1>6. DeliveredMeansAccepted'
  BY DEF Accepted, DeliveredMeansAccepted, Delivery, IInv, JobSound,
    JobsSound, RecordDelivery, Recorded
<1>7. ClosedWithEvidence'
  BY DEF ClosedWithEvidence, Delivery, IInv, JobSound, JobsSound,
    RecordDelivery, RecordSound, Recorded
<1>5. KeepsWork
  BY DEF KeepsWork, Goto, RecordDelivery
<1>8. ClaimsAreExclusive' /\ \A e \in Events : BudgetSound(e)'
  BY <1>5, WorkKept DEF RecordDelivery
<1>. QED
  BY <1>1, <1>2, <1>3, <1>4, <1>6, <1>7, <1>8 DEF IInv

\* A row is closed or released by the call that holds its last attempt.
LEMMA SettleKeeps ==
    ASSUME IInv, TypeOK', NEW d0 \in Dispatchers, Settle(d0)
    PROVE  IInv'
PROOF
<1>z. PICK f \in Events : f = job[d0].event
  BY DEF IInv, TypeOK, Settle
<1>a. /\ f = job[d0].event /\ job[d0] \in Job /\ row[f] \in Row
      /\ row' = [row EXCEPT ![f] = Settled(row[f], job[d0])]
      /\ row \in [Events -> Row] /\ job \in [Dispatchers -> Job]
      /\ job' = [job EXCEPT ![d0] = Idle]
  BY <1>z DEF IInv, TypeOK, Settle
<1>b. /\ row'[f] = Settled(row[f], job[d0])
      /\ \A e \in Events : e # f => row'[e] = row[e]
  BY <1>a DEF IInv, TypeOK
<1>1. \A e \in Events : RowSound(e)'
  <2>1. ASSUME NEW e \in Events, e # f  PROVE RowSound(e)'
    BY <1>b, <2>1 DEF IInv, RowSound, Settle
  <2>2. RowSound(f) /\ UNCHANGED changes
    BY <1>a DEF IInv, Settle
  <2>3. /\ \/ row'[f].token = row[f].token /\ row'[f].published = row[f].published
           \/ row'[f].token = 0
        /\ row'[f].due => row[f].due
        /\ row'[f].attempts = row[f].attempts
    BY <1>a, <1>b, SettledRow
  <2>4. f <= changes
    BY <1>a DEF IInv, JobsSound, JobSound, Settle
  <2>5. RowSound(f)'
    BY <2>2, <2>3, <2>4 DEF RowSound
  <2>. QED  BY <2>1, <2>5
<1>2. JobsSound'
  BY DEF Accepted, ClaimsAreExclusive, Closed, Delivery, Holds, IInv, Idle,
    JobSound, JobsSound, RecordSound, Released, RowSound, Settle, Settled,
    TypeOK
<1>3. MessagesSound'
  BY DEF IInv, MessagesSound, Settle
<1>4. HistorySound'
  BY DEF Closed, HistorySound, IInv, Released, Settle, Settled
<1>5. ClaimsAreExclusive'
  BY DEF ClaimsAreExclusive, Delivery, IInv, Idle, Settle
<1>6. DeliveredMeansAccepted'
  BY DEF DeliveredMeansAccepted, IInv, Settle
<1>7. ClosedWithEvidence'
  BY DEF Closed, ClosedWithEvidence, Delivery, Holds, IInv, JobSound,
    JobsSound, RecordSound, Released, RowSound, Settle, Settled, TypeOK
<1>8. \A e \in Events : BudgetSound(e)'
  <2>1. ASSUME NEW e \in Events, e # f  PROVE BudgetSound(e)'
    <3>1. row'[e] = row[e] /\ UNCHANGED <<faults, redeliveries>>
      BY <1>b, <2>1 DEF Settle
    <3>2. Held(e) => Held(e)'
      BY <1>a, <2>1, <3>1 DEF Held, Working
    <3>. QED  BY <3>1, <3>2 DEF IInv, BudgetSound
  <2>2. CASE Settled(row[f], job[d0]) = row[f] /\ row[f].token # job[d0].attempt
    <3>1. row'[f] = row[f] /\ UNCHANGED <<faults, redeliveries>>
      BY <1>b, <2>2 DEF Settle
    <3>2. ASSUME NEW d \in Dispatchers, Working(d, f), job[d].attempt = row[f].token
          PROVE  job'[d] = job[d]
      BY <1>a, <2>2, <3>2
    <3>3. Held(f) => Held(f)'
      BY <3>1, <3>2 DEF Held, Working
    <3>4. BudgetSound(f) => BudgetSound(f)'
      BY <3>1, <3>3 DEF BudgetSound
    <3>5. BudgetSound(f)
      BY <1>a DEF IInv
    <3>. QED  BY <2>1, <3>4, <3>5
  <2>3. CASE row[f].token = job[d0].attempt
    <3>1. row[f].token # 0 /\ row[f].token = row[f].attempts /\ ~row[f].published
      BY <1>a, <2>3 DEF IInv, TypeOK, RowSound, Settle
    <3>2. \/ row'[f].published
          \/ row[f].attempts <= RetryBudget
      BY <1>a, <1>b, <2>3, <3>1 DEF Settled, Holds, Closed, Row, IInv,
        JobsSound, JobSound, Settle
    <3>3. /\ row'[f].attempts = row[f].attempts
          /\ UNCHANGED <<faults, redeliveries>>
      BY <1>a, <1>b, SettledRow DEF Settle
    <3>4. row[f].attempts <= RetryBudget + 1 + faults + redeliveries
      BY <1>a DEF IInv, BudgetSound
    <3>5. row[f].attempts \in Nat /\ faults \in Nat /\ redeliveries \in Nat
      BY <1>a, WebhookAssumption DEF IInv, TypeOK, Row
    <3>6. BudgetSound(f)'
      BY <3>2, <3>3, <3>4, <3>5, WebhookAssumption DEF BudgetSound
    <3>. QED  BY <2>1, <3>6
  <2>. QED  BY <1>a, <2>2, <2>3, SettledRow
<1>. QED
  BY <1>1, <1>2, <1>3, <1>4, <1>5, <1>6, <1>7, <1>8 DEF IInv

\* An error behind the POST turns the verdict into a transport failure.
LEMMA DatabaseErrorKeeps ==
    ASSUME IInv, TypeOK', NEW d0 \in Dispatchers, DatabaseError(d0)
    PROVE  IInv'
PROOF
<1>z. PICK f \in Events : f = job[d0].event
  BY DEF IInv, TypeOK, DatabaseError
<1>a. f = job[d0].event /\ job[d0] \in Job /\ row[f] \in Row /\ job[d0].attempt # 0
  BY <1>z DEF IInv, TypeOK, DatabaseError
<1>b. /\ \/ row' = row
         \/ /\ job[d0].at = "settle"
            /\ row' = [row EXCEPT ![f] = Settled(row[f], job[d0])]
      /\ faults' = faults + 1
      /\ UNCHANGED <<changes, history, received, redeliveries>>
  BY <1>a DEF DatabaseError
<1>c. /\ \A e \in Events : e # f => row'[e] = row[e]
      /\ \/ row'[f] = row[f]
         \/ job[d0].at = "settle" /\ row'[f] = Settled(row[f], job[d0])
  BY <1>a, <1>b DEF IInv, TypeOK
<1>d. /\ \A e \in Events : row'[e].attempts = row[e].attempts
      /\ \A e \in Events : row'[e].published => row[e].published \/ (e = f /\ row[f].token = job[d0].attempt)
  <2>1. /\ Settled(row[f], job[d0]).attempts = row[f].attempts
        /\ Settled(row[f], job[d0]).published
              => row[f].published \/ row[f].token = job[d0].attempt
    BY <1>a, SettledRow
  <2>. QED  BY <1>a, <1>c, <2>1
<1>e. KeepsWork
  BY DEF TypeOK, Job, DatabaseError, Decide
<1>1. \A e \in Events : RowSound(e)'
  <2>1. ASSUME NEW e \in Events, e # f  PROVE RowSound(e)'
    BY <1>b, <1>c, <2>1 DEF IInv, RowSound
  <2>2. RowSound(f) /\ UNCHANGED changes
    BY <1>a, <1>b DEF IInv
  <2>3. /\ \/ row'[f].token = row[f].token /\ row'[f].published = row[f].published
           \/ row'[f].token = 0
        /\ row'[f].due => row[f].due
        /\ row'[f].attempts = row[f].attempts
    BY <1>a, <1>c, SettledRow
  <2>4. f <= changes
    BY <1>a DEF IInv, JobsSound, JobSound, DatabaseError
  <2>5. RowSound(f)'
    BY <2>2, <2>3, <2>4 DEF RowSound
  <2>. QED  BY <2>1, <2>5
<1>2. JobsSound'
  <2>1. ASSUME NEW d \in Dispatchers, job'[d].at # "idle"  PROVE JobSound(d)'
    BY <1>b, <1>d, <1>e, <2>1 DEF TypeOK, Job, DatabaseError, Decide
  <2>2. ASSUME NEW d \in Dispatchers, job'[d].at # "idle"  PROVE RecordSound(d)'
    <3>1. RecordSound(d0) /\ job[d].at # "idle" /\ RecordSound(d)
      BY <1>e, <2>2 DEF IInv, JobsSound, KeepsWork, DatabaseError
    <3>2. CASE d = d0
      BY <1>a, <1>b, <1>c, <1>d, <1>e, <3>1, <3>2 DEF DatabaseError, Decide,
        TypeOK, Job
    <3>3. CASE d # d0
      <4>1. job'[d] = job[d] /\ Delivery(d)' = Delivery(d) /\ history' = history
        BY <1>b, <3>3 DEF IInv, TypeOK, DatabaseError, Decide, Delivery
      <4>2. job[d].event \in Events
        BY <3>1 DEF IInv, TypeOK
      <4>3. ASSUME row'[job[d].event].published,
                   job[d].attempt = row[job[d].event].attempts
            PROVE  row[job[d].event].published
        <5>1. SUFFICES ASSUME ~row[job[d].event].published  PROVE FALSE
          OBVIOUS
        <5>2. job[d].event = f /\ row[f].token = job[d0].attempt
          BY <1>d, <4>2, <4>3, <5>1
        <5>3. row[f].token = row[f].attempts
          BY <1>a, <5>2 DEF IInv, RowSound
        <5>4. Delivery(d) = Delivery(d0)
          BY <1>a, <4>3, <5>2, <5>3 DEF Delivery
        <5>. QED
          BY <3>1, <3>3, <5>4 DEF IInv, ClaimsAreExclusive, DatabaseError
      <4>4. row'[job[d].event].attempts = row[job[d].event].attempts
        BY <1>d, <4>2
      <4>. QED  BY <3>1, <4>1, <4>3, <4>4 DEF RecordSound
    <3>. QED  BY <3>2, <3>3
  <2>. QED  BY <2>1, <2>2 DEF JobsSound
<1>3. MessagesSound'
  BY DEF DatabaseError, IInv, MessagesSound
<1>4. HistorySound'
  BY <1>b, <1>d DEF IInv, TypeOK, HistorySound
<1>5. ClaimsAreExclusive'
  BY <1>e DEF IInv, KeepsWork, ClaimsAreExclusive, Delivery
<1>6. DeliveredMeansAccepted'
  BY DEF DatabaseError, DeliveredMeansAccepted, IInv
<1>7. ClosedWithEvidence'
  <2>1. ASSUME NEW e \in Events, row'[e].published
        PROVE  \/ row[e].published
               \/ <<e, row[e].attempts>> = Delivery(d0) /\ job[d0].at = "settle"
    BY <1>a, <1>c, <1>d, <2>1 DEF IInv, RowSound, Delivery
  <2>2. RecordSound(d0)
    BY DEF IInv, JobsSound, DatabaseError
  <2>. QED  BY <1>b, <1>d, <2>1, <2>2 DEF IInv, ClosedWithEvidence, RecordSound
<1>8. \A e \in Events : BudgetSound(e)'
  BY <1>b, <1>d, WebhookAssumption DEF IInv, TypeOK, Row, BudgetSound
<1>. QED
  BY <1>1, <1>2, <1>3, <1>4, <1>5, <1>6, <1>7, <1>8 DEF IInv

\* A stopped call leaves its lease behind; the fault accounts for the next attempt.
LEMMA StopKeeps ==
    ASSUME IInv, TypeOK', NEW d0 \in Dispatchers, Stop(d0)
    PROVE  IInv'
PROOF
<1>1. \A e \in Events : RowSound(e)'
  BY DEF IInv, RowSound, Stop
<1>2. JobsSound'
  BY DEF Accepted, Delivery, IInv, Idle, JobSound, JobsSound, RecordSound,
    Stop
<1>3. MessagesSound'
  BY DEF IInv, MessagesSound, Stop
<1>4. HistorySound'
  BY DEF HistorySound, IInv, Stop
<1>5. ClaimsAreExclusive'
  BY DEF ClaimsAreExclusive, Delivery, IInv, Idle, Stop
<1>6. DeliveredMeansAccepted'
  BY DEF DeliveredMeansAccepted, IInv, Stop
<1>7. ClosedWithEvidence'
  BY DEF ClosedWithEvidence, IInv, Stop
<1>8. \A e \in Events : BudgetSound(e)'
  BY WebhookAssumption DEF BudgetSound, IInv, Row, Stop, TypeOK
<1>. QED
  BY <1>1, <1>2, <1>3, <1>4, <1>5, <1>6, <1>7, <1>8 DEF IInv

\* A late request is accepted without anyone knowing.
LEMMA ArriveLateKeeps ==
    ASSUME IInv, TypeOK', NEW m0 \in wire, ArriveLate(m0)
    PROVE  IInv'
PROOF
<1>1. \A e \in Events : RowSound(e)'
  BY DEF ArriveLate, IInv, RowSound
<1>2. JobsSound'
  BY DEF Accept, Accepted, ArriveLate, Delivery, IInv, JobSound, JobsSound,
    RecordSound
<1>3. MessagesSound'
  BY DEF Accept, ArriveLate, IInv, MessagesSound
<1>4. HistorySound'
  BY DEF ArriveLate, HistorySound, IInv
<1>5. ClaimsAreExclusive'
  BY DEF ArriveLate, ClaimsAreExclusive, Delivery, IInv
<1>6. DeliveredMeansAccepted'
  BY DEF Accept, ArriveLate, DeliveredMeansAccepted, IInv
<1>7. ClosedWithEvidence'
  BY DEF ArriveLate, ClosedWithEvidence, IInv
<1>8. \A e \in Events : BudgetSound(e)'
  BY DEF ArriveLate, BudgetSound, Held, IInv, Working
<1>. QED
  BY <1>1, <1>2, <1>3, <1>4, <1>5, <1>6, <1>7, <1>8 DEF IInv

\* The operator's switch touches no row.
LEMMA SetEnabledKeeps ==
    ASSUME IInv, TypeOK', SetEnabled
    PROVE  IInv'
PROOF
<1>1. \A e \in Events : RowSound(e)'
  BY DEF IInv, RowSound, SetEnabled
<1>2. JobsSound'
  BY DEF Accepted, Delivery, IInv, JobSound, JobsSound, RecordSound,
    SetEnabled
<1>3. MessagesSound'
  BY DEF IInv, MessagesSound, SetEnabled
<1>4. HistorySound'
  BY DEF HistorySound, IInv, SetEnabled
<1>5. ClaimsAreExclusive'
  BY DEF ClaimsAreExclusive, Delivery, IInv, SetEnabled
<1>6. DeliveredMeansAccepted'
  BY DEF DeliveredMeansAccepted, IInv, SetEnabled
<1>7. ClosedWithEvidence'
  BY DEF ClosedWithEvidence, IInv, SetEnabled
<1>8. \A e \in Events : BudgetSound(e)'
  BY DEF BudgetSound, Held, IInv, SetEnabled, Working
<1>. QED
  BY <1>1, <1>2, <1>3, <1>4, <1>5, <1>6, <1>7, <1>8 DEF IInv

-----------------------------------------------------------------------------
(* Types.                                                                  *)

LEMMA RecordedType ==
    ASSUME TypeOK, NEW d \in Dispatchers, job[d].at # "idle",
           NEW outcome \in Outcomes \cup {"started"},
           history' = Recorded(Delivery(d), outcome)
    PROVE  /\ DOMAIN history' \subseteq Events \X (Nat \ {0})
           /\ \A k \in DOMAIN history' : history'[k] \in Outcomes \cup {"started"}
PROOF
<1>1. Delivery(d) \in Events \X (Nat \ {0})
  BY DEF TypeOK, Job, Delivery
<1>. QED  BY <1>1 DEF TypeOK, Recorded

\* What a step leaves alone keeps its type; changes leave no row beyond the
\* bound.
LEMMA TypeStep ==
    ASSUME IInv, [Next]_vars
    PROVE  TypeOK'
PROOF
<1>1. ASSUME Change  PROVE TypeOK'
  <2>1. changes + 1 \in Events /\ changes' \in 0 .. MaxChanges
    BY <1>1, WebhookAssumption DEF IInv, TypeOK, Change, Events
  <2>2. row' \in [Events -> Row]
    BY <1>1, <2>1 DEF IInv, TypeOK, Row, Change
  <2>. QED  BY <1>1, <2>1, <2>2 DEF IInv, TypeOK, Change
<1>2. ASSUME NEW e0 \in Events, BecomesDue(e0)  PROVE TypeOK'
  BY <1>2 DEF IInv, TypeOK, Row, BecomesDue
<1>3. ASSUME NEW e0 \in Events, LeaseRunsOut(e0)  PROVE TypeOK'
  <2>1. faults' \in 0 .. MaxFaults
    BY <1>3, WebhookAssumption DEF IInv, TypeOK, LeaseRunsOut
  <2>2. row' \in [Events -> Row]
    BY <1>3 DEF IInv, TypeOK, Row, LeaseRunsOut
  <2>. QED  BY <1>3, <2>1, <2>2 DEF IInv, TypeOK, LeaseRunsOut
<1>4. ASSUME NEW e0 \in Events, Redeliver(e0)  PROVE TypeOK'
  <2>1. redeliveries' \in 0 .. MaxRedeliveries
    BY <1>4, WebhookAssumption DEF IInv, TypeOK, Redeliver
  <2>2. row' \in [Events -> Row]
    BY <1>4 DEF IInv, TypeOK, Row, Redeliver, Requeued
  <2>. QED  BY <1>4, <2>1, <2>2 DEF IInv, TypeOK, Redeliver
<1>5. ASSUME NEW d0 \in Dispatchers, NEW e0 \in Events, Claim(d0, e0)  PROVE TypeOK'
  <2>1. row[e0] \in Row /\ row' = [row EXCEPT ![e0] = Claimed(row[e0])]
    BY <1>5 DEF IInv, TypeOK, Claim
  <2>2. Claimed(row[e0]) \in Row /\ Claimed(row[e0]).attempts \in Nat \ {0}
    <3>1. row[e0].attempts \in Nat /\ row[e0].attempts + 1 \in Nat \ {0}
      BY <2>1 DEF Row
    <3>2. Claimed(row[e0]) =
             [row[e0] EXCEPT !.token = row[e0].attempts + 1,
                             !.attempts = row[e0].attempts + 1, !.overdue = FALSE]
      BY <2>1 DEF Row, Claimed
    <3>. QED  BY <2>1, <3>1, <3>2 DEF Row
  <2>3. row' \in [Events -> Row] /\ row'[e0].attempts \in Nat \ {0}
    BY <2>1, <2>2 DEF IInv, TypeOK
  <2>4. /\ job' \in [Dispatchers -> Job]
        /\ \A d \in Dispatchers : job'[d].at # "idle" =>
              job'[d].event \in Events /\ job'[d].attempt # 0
    <3>1. [Idle EXCEPT !.at = "credential", !.event = e0,
                       !.attempt = row'[e0].attempts] \in Job
      <4>1. e0 \in Nat /\ row'[e0].attempts \in Nat
        BY <2>3 DEF Events
      <4>2. Idle \in Job
        BY DEF Idle, Job
      <4>. QED  BY <4>1, <4>2 DEF Job
    <3>. QED  BY <1>5, <2>3, <3>1 DEF IInv, TypeOK, Claim, Idle
  <2>. QED  BY <1>5, <2>3, <2>4 DEF IInv, TypeOK, Claim
<1>6. ASSUME NEW d0 \in Dispatchers, LoadCredential(d0)  PROVE TypeOK'
  BY <1>6 DEF IInv, TypeOK, Job, LoadCredential, Goto, Decide
<1>7. ASSUME NEW d0 \in Dispatchers, StartDelivery(d0)  PROVE TypeOK'
  <2>1. /\ DOMAIN history' \subseteq Events \X (Nat \ {0})
        /\ \A k \in DOMAIN history' : history'[k] \in Outcomes \cup {"started"}
    BY <1>7, RecordedType DEF IInv, StartDelivery, TypeOK
  <2>. QED  BY <1>7, <2>1 DEF IInv, TypeOK, Job, StartDelivery, Goto
<1>8. ASSUME NEW d0 \in Dispatchers, BuildAndPost(d0)  PROVE TypeOK'
  BY <1>8 DEF IInv, TypeOK, Job, BuildAndPost, Decide, Sent, Request
<1>9. ASSUME NEW d0 \in Dispatchers, NEW status \in Statuses, Answer(d0, status)  PROVE TypeOK'
  BY <1>9, VerdictType DEF IInv, TypeOK, Job, Answer, Accept, Request
<1>10. ASSUME NEW d0 \in Dispatchers, GiveUp(d0)  PROVE TypeOK'
  <2>1. job[d0] \in Job /\ job \in [Dispatchers -> Job] /\ job[d0].at # "idle"
    BY <1>10 DEF IInv, TypeOK, GiveUp
  <2>2. TransportFailure(job[d0].attempt) \in Outcomes
    BY <2>1, VerdictType DEF Job, Outcomes
  <2>3. job' \in [Dispatchers -> Job]
    BY <1>10, <2>1, <2>2 DEF GiveUp, Decide, Job
  <2>4. \A d \in Dispatchers : job'[d].at # "idle" =>
           job'[d].event \in Events /\ job'[d].attempt # 0
    BY <1>10, <2>1 DEF IInv, TypeOK, GiveUp, Decide, Job
  <2>. QED  BY <1>10, <2>3, <2>4 DEF IInv, TypeOK, GiveUp
<1>11. ASSUME NEW d0 \in Dispatchers, RecordDelivery(d0)  PROVE TypeOK'
  <2>1. /\ DOMAIN history' \subseteq Events \X (Nat \ {0})
        /\ \A k \in DOMAIN history' : history'[k] \in Outcomes \cup {"started"}
    BY <1>11, RecordedType DEF IInv, RecordDelivery, TypeOK, JobsSound, JobSound
  <2>. QED  BY <1>11, <2>1 DEF IInv, TypeOK, Job, RecordDelivery, Goto
<1>12. ASSUME NEW d0 \in Dispatchers, Settle(d0)  PROVE TypeOK'
  BY <1>12, SettledRow DEF IInv, TypeOK, Job, Settle, Idle
<1>13. ASSUME NEW d0 \in Dispatchers, DatabaseError(d0)  PROVE TypeOK'
  BY <1>13, SettledRow, VerdictType, WebhookAssumption DEF IInv, TypeOK, Job,
    DatabaseError, Decide
<1>14. ASSUME NEW d0 \in Dispatchers, Stop(d0)  PROVE TypeOK'
  BY <1>14, WebhookAssumption DEF IInv, TypeOK, Job, Stop, Idle
<1>15. ASSUME NEW m0 \in wire, ArriveLate(m0)  PROVE TypeOK'
  BY <1>15 DEF IInv, TypeOK, ArriveLate, Accept, Request
<1>16. ASSUME SetEnabled  PROVE TypeOK'
  BY <1>16 DEF IInv, TypeOK, SetEnabled
<1>17. CASE UNCHANGED vars
  BY <1>17 DEF IInv, TypeOK, vars
<1>. QED
  BY <1>1, <1>2, <1>3, <1>4, <1>5, <1>6, <1>7, <1>8, <1>9, <1>10, <1>11,
    <1>12, <1>13, <1>14, <1>15, <1>16, <1>17 DEF Next, Step

-----------------------------------------------------------------------------
(* The theorems.                                                           *)

LEMMA InitIInv == Init => IInv
PROOF
<1>. SUFFICES ASSUME Init  PROVE IInv
  OBVIOUS
<1>1. TypeOK
  BY WebhookAssumption DEF Init, TypeOK, Row, Absent, Job, Idle
<1>2. \A d \in Dispatchers : job[d].at = "idle"
  BY DEF Init, Idle
<1>3. \A e \in Events : RowSound(e) /\ BudgetSound(e)
  BY WebhookAssumption DEF Init, Absent, RowSound, BudgetSound
<1>4. JobsSound /\ MessagesSound /\ HistorySound /\ ClaimsAreExclusive
  BY <1>2 DEF Init, JobsSound, MessagesSound, HistorySound, ClaimsAreExclusive
<1>5. DeliveredMeansAccepted /\ ClosedWithEvidence
  BY DEF Init, DeliveredMeansAccepted, ClosedWithEvidence
<1>. QED  BY <1>1, <1>3, <1>4, <1>5 DEF IInv

LEMMA IInvStep == IInv /\ [Next]_vars => IInv'
PROOF
<1>. SUFFICES ASSUME IInv, [Next]_vars  PROVE IInv'
  OBVIOUS
<1>0. TypeOK'
  BY TypeStep
<1>1. ASSUME Change  PROVE IInv'
  BY <1>0, <1>1, ChangeKeeps
<1>2. ASSUME NEW e0 \in Events, BecomesDue(e0)  PROVE IInv'
  BY <1>0, <1>2, BecomesDueKeeps
<1>3. ASSUME NEW e0 \in Events, LeaseRunsOut(e0)  PROVE IInv'
  BY <1>0, <1>3, LeaseRunsOutKeeps
<1>4. ASSUME NEW e0 \in Events, Redeliver(e0)  PROVE IInv'
  BY <1>0, <1>4, RedeliverKeeps
<1>5. ASSUME NEW d0 \in Dispatchers, NEW e0 \in Events, Claim(d0, e0)  PROVE IInv'
  BY <1>0, <1>5, ClaimKeeps
<1>6. ASSUME NEW d0 \in Dispatchers, LoadCredential(d0)  PROVE IInv'
  BY <1>0, <1>6, LoadCredentialKeeps
<1>7. ASSUME NEW d0 \in Dispatchers, StartDelivery(d0)  PROVE IInv'
  BY <1>0, <1>7, StartDeliveryKeeps
<1>8. ASSUME NEW d0 \in Dispatchers, BuildAndPost(d0)  PROVE IInv'
  BY <1>0, <1>8, BuildAndPostKeeps
<1>9. ASSUME NEW d0 \in Dispatchers, NEW status \in Statuses, Answer(d0, status)  PROVE IInv'
  BY <1>0, <1>9, AnswerKeeps
<1>10. ASSUME NEW d0 \in Dispatchers, GiveUp(d0)  PROVE IInv'
  BY <1>0, <1>10, GiveUpKeeps
<1>11. ASSUME NEW d0 \in Dispatchers, RecordDelivery(d0)  PROVE IInv'
  BY <1>0, <1>11, RecordDeliveryKeeps
<1>12. ASSUME NEW d0 \in Dispatchers, Settle(d0)  PROVE IInv'
  BY <1>0, <1>12, SettleKeeps
<1>13. ASSUME NEW d0 \in Dispatchers, DatabaseError(d0)  PROVE IInv'
  BY <1>0, <1>13, DatabaseErrorKeeps
<1>14. ASSUME NEW d0 \in Dispatchers, Stop(d0)  PROVE IInv'
  BY <1>0, <1>14, StopKeeps
<1>15. ASSUME NEW m0 \in wire, ArriveLate(m0)  PROVE IInv'
  BY <1>0, <1>15, ArriveLateKeeps
<1>16. ASSUME SetEnabled  PROVE IInv'
  BY <1>0, <1>16, SetEnabledKeeps
<1>17. ASSUME UNCHANGED vars  PROVE IInv'
  <2>1. \A e \in Events : RowSound(e)' /\ BudgetSound(e)'
    BY <1>17 DEF IInv, vars, RowSound, BudgetSound, Held, Working
  <2>2. JobsSound'
    BY <1>17 DEF IInv, vars, JobsSound, JobSound, RecordSound, Accepted,
      Delivery
  <2>3. MessagesSound' /\ HistorySound' /\ ClaimsAreExclusive'
    BY <1>17 DEF IInv, vars, MessagesSound, HistorySound, ClaimsAreExclusive,
      Delivery
  <2>4. DeliveredMeansAccepted' /\ ClosedWithEvidence'
    BY <1>17 DEF IInv, vars, DeliveredMeansAccepted, ClosedWithEvidence
  <2>. QED  BY <1>0, <2>1, <2>2, <2>3, <2>4 DEF IInv
<1>. QED
  BY <1>1, <1>2, <1>3, <1>4, <1>5, <1>6, <1>7, <1>8, <1>9, <1>10, <1>11,
    <1>12, <1>13, <1>14, <1>15, <1>16, <1>17 DEF Next, Step

\* The inductive invariant holds in every reachable state, for any dispatchers,
\* budgets and bounds.
THEOREM WebhookInvariance == Spec => []IInv
PROOF
BY InitIInv, IInvStep, PTL DEF Spec

\* Every row, record, request and call stays well-formed.
THEOREM WebhookTypes == Spec => []TypeOK
PROOF
<1>1. IInv => TypeOK
  BY DEF IInv
<1>. QED  BY <1>1, WebhookInvariance, PTL

\* Two running calls never share an attempt of an event: a claim takes a number
\* no call and no delivery record has, whatever leases ran out before.
THEOREM ClaimsStayExclusive == Spec => []ClaimsAreExclusive
PROOF
<1>1. IInv => ClaimsAreExclusive
  BY DEF IInv
<1>. QED  BY <1>1, WebhookInvariance, PTL

\* What the history calls delivered, the endpoint answered with a 2xx.
THEOREM DeliveredWasAccepted == Spec => []DeliveredMeansAccepted
PROOF
<1>1. IInv => DeliveredMeansAccepted
  BY DEF IInv
<1>. QED  BY <1>1, WebhookInvariance, PTL

\* No interleaving of dispatchers, stops and database errors closes a row while
\* the record of its last delivery is still open.
THEOREM ClosedRowsHaveEvidence == Spec => []ClosedWithEvidence
PROOF
<1>1. IInv => ClosedWithEvidence
  BY DEF IInv
<1>. QED  BY <1>1, WebhookInvariance, PTL

\* An event never gets more attempts than the budget, the faults and the
\* redeliveries account for.
THEOREM RetriesStayBounded == Spec => []AttemptsAreBounded
PROOF
<1>1. IInv => AttemptsAreBounded
  BY DEF IInv, BudgetSound, AttemptsAreBounded
<1>. QED  BY <1>1, WebhookInvariance, PTL

=============================================================================
