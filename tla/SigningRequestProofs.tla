------------------------ MODULE SigningRequestProofs ------------------------
(***************************************************************************)
(* What one classic signing Request promises whatever its signers, policy  *)
(* and preconditions: types, recorded submissions, final verdicts, reads   *)
(* that see the ledger, envelopes that stay usable and final approvals.    *)
(*                                                                         *)
(* The invariant says what a call between two awaits still knows.  The     *)
(* account it read is never ahead of the ledger's; a verdict it carries    *)
(* names a transaction no later ledger takes (Dead), which stays so; a     *)
(* call about to record a submission has seen it succeed.                  *)
(*                                                                         *)
(* The last part is about the envelope that the contributions make when    *)
(* they are replayed: what one that is added does to it, who has signed    *)
(* it, and what a call that read some of them knows of it later.           *)
(***************************************************************************)
EXTENDS SigningRequest, TLAPS, WellFoundedInduction

(* What the verdicts of the precondition evaluator promise of the ledgers  *)
(* that follow, for every transaction, account and ledger.                 *)

\* Ledger next comes after the present one, and the account's sequence never falls.
Later(present, next) == present.number < next.number /\ present.time < next.time
Expired(tx, present) ==
    \/ TimeBoundsCheck(tx, present) = "expired"
    \/ LedgerBoundsCheck(tx, present) = "expired"

\* Only the sequence makes a transaction stale, only its bounds expire it, and
\* it is ready only if every check passes.
LEMMA SummaryCause ==
    ASSUME NEW tx \in Transaction, NEW holder \in Account, NEW present \in Ledger
    PROVE  LET verdict == assessTransactionPreconditions(tx, holder, present) IN
           /\ verdict = "stale" <=> holder.sequence >= tx.seq
           /\ verdict = "expired" => Expired(tx, present)
           /\ verdict = "ready" => Checks(tx, holder, present) = {"pass"}
<1> DEFINE checks == Checks(tx, holder, present)
<1>1. /\ SequenceCheck(tx, holder) \in {"stale", "wait", "pass"}
      /\ SequenceCheck(tx, holder) = "stale" <=> holder.sequence >= tx.seq
  BY DEF SequenceCheck, Transaction, Account
<1>2. /\ TimeBoundsCheck(tx, present) \in {"expired", "wait", "pass"}
      /\ LedgerBoundsCheck(tx, present) \in {"expired", "wait", "pass"}
  BY DEF TimeBoundsCheck, LedgerBoundsCheck, Transaction, Ledger
<1>3. /\ MinSequenceAgeCheck(tx, holder, present) \in {"wait", "pass"}
      /\ MinSequenceLedgerGapCheck(tx, holder, present) \in {"wait", "pass"}
  BY DEF MinSequenceAgeCheck, MinSequenceLedgerGapCheck
<1>4. checks \subseteq {"stale", "expired", "wait", "pass"}
  BY <1>1, <1>2, <1>3 DEF Checks
<1>5. "stale" \in checks <=> holder.sequence >= tx.seq
  BY <1>1, <1>2, <1>3 DEF Checks
<1>6. "expired" \in checks => Expired(tx, present)
  BY <1>1, <1>3 DEF Checks, Expired
<1>7. checks # {} /\ Summary(checks) = "ready" => checks = {"pass"}
  BY <1>4 DEF Summary
<1>8. /\ Summary(checks) = "stale" <=> "stale" \in checks
      /\ Summary(checks) = "expired" => "expired" \in checks
  BY <1>4 DEF Summary
<1>9. checks # {}
  BY DEF Checks
<1> QED BY <1>5, <1>6, <1>7, <1>8, <1>9 DEF assessTransactionPreconditions

\* "stale" is final: the account's sequence number never goes back, so no
\* ledger takes the transaction any more (sequenceCheck).
THEOREM StaleIsFinal ==
    ASSUME NEW tx \in Transaction, NEW holder \in Account, NEW present \in Ledger,
           assessTransactionPreconditions(tx, holder, present) = "stale",
           NEW later \in Account, later.sequence >= holder.sequence,
           NEW next \in Ledger
    PROVE  ~Accepts(tx, later, next)
<1>1. holder.sequence >= tx.seq
  BY SummaryCause
<1> QED BY <1>1 DEF Accepts, Transaction, Account

\* "expired" is final: no later ledger takes the transaction, whatever becomes
\* of its account (timeBoundsCheck, ledgerBoundsCheck).
THEOREM ExpiredIsFinal ==
    ASSUME NEW tx \in Transaction, NEW holder \in Account, NEW present \in Ledger,
           assessTransactionPreconditions(tx, holder, present) = "expired",
           NEW later \in Account, NEW next \in Ledger, Later(present, next)
    PROVE  ~Accepts(tx, later, next)
<1>1. Expired(tx, present)
  BY SummaryCause
<1>2. CASE TimeBoundsCheck(tx, present) = "expired"
  <2>1. tx.maxTime # 0 /\ present.time >= tx.maxTime
    BY <1>2 DEF TimeBoundsCheck
  <2> QED BY <2>1 DEF Accepts, Later, Transaction, Ledger
<1>3. CASE LedgerBoundsCheck(tx, present) = "expired"
  <2>1. tx.maxLedger # 0 /\ present.number + 1 >= tx.maxLedger
    BY <1>3 DEF LedgerBoundsCheck
  <2> QED BY <2>1 DEF Accepts, Later, Transaction, Ledger
<1> QED BY <1>1, <1>2, <1>3 DEF Expired

\* "ready" is sound: the very next ledger takes the transaction, unless it
\* closes after the maximum time or the account moves first.
THEOREM ReadyIsAccepted ==
    ASSUME NEW tx \in Transaction, NEW holder \in Account, NEW present \in Ledger,
           assessTransactionPreconditions(tx, holder, present) = "ready",
           holder.time <= present.time, holder.ledger <= present.number,
           NEW next \in Ledger, next.number = present.number + 1,
           next.time > present.time, tx.maxTime = 0 \/ next.time <= tx.maxTime
    PROVE  Accepts(tx, holder, next)
<1>1. Checks(tx, holder, present) = {"pass"}
  BY SummaryCause
<1>2. /\ SequenceCheck(tx, holder) = "pass"
      /\ TimeBoundsCheck(tx, present) = "pass"
      /\ LedgerBoundsCheck(tx, present) = "pass"
      /\ MinSequenceAgeCheck(tx, holder, present) = "pass"
      /\ MinSequenceLedgerGapCheck(tx, holder, present) = "pass"
  BY <1>1 DEF Checks
<1>3. IF tx.relaxed THEN tx.minSeq <= holder.sequence /\ holder.sequence < tx.seq
                    ELSE tx.seq = holder.sequence + 1
  BY <1>2 DEF SequenceCheck, Transaction, Account
<1>4. tx.minTime <= next.time
  BY <1>2 DEF TimeBoundsCheck, Transaction, Ledger
<1>5. /\ tx.minLedger <= next.number
      /\ tx.maxLedger = 0 \/ next.number < tx.maxLedger
  BY <1>2 DEF LedgerBoundsCheck, Transaction, Ledger
<1>6. tx.minAge <= next.time - holder.time
  BY <1>2 DEF MinSequenceAgeCheck, Transaction, Account, Ledger
<1>7. tx.minGap <= next.number - holder.ledger
  BY <1>2 DEF MinSequenceLedgerGapCheck, Transaction, Account, Ledger
<1> QED BY <1>3, <1>4, <1>5, <1>6, <1>7 DEF Accepts

-----------------------------------------------------------------------------
(* The Request.                                                            *)

Dead ==
    \/ account.sequence >= request.tx.seq
    \/ Expired(request.tx, LedgerAt(ledger))

Verdict(j) == j.status \in {"stale", "transaction_expired"}
Waits == {"preflight", "post", "waiting", "recheck"}

\* What call j knows.
CallSound(j) ==
    /\ j.step = "decline" => j.op = "decline" /\ j.status = "awaiting_signatures"
    /\ j.op = "decline" /\ j.step \in {"facts", "policy", "context", "decline"}
           => j.signer \in Signers
    /\ j.step \in Waits => j.op = "submit"
    /\ j.step = "context" => j.account.sequence <= account.sequence
    /\ j.step \in {"lookup", "answered"} /\ j.op \notin {"submit", "repeat"} /\ Verdict(j)
           => Dead
    /\ j.step = "answered" /\ j.informed /\ j.op \notin {"submit", "repeat"} /\ Verdict(j)
           => result # "success"
    /\ j.step = "persist" => result = "success"

\* What a read that began after the success knows.
ReadSound(j) ==
    j.landed =>
        /\ j.op = "read" /\ result = "success"
        /\ j.step \in {"facts", "policy", "context", "lookup", "persist", "answered"}
        /\ j.step = "context" => j.account.sequence >= request.tx.seq
        /\ j.step = "answered" /\ j.informed => j.status \in {"submitted", "unreadable"}

LedgerSound ==
    /\ result # "none" => account.sequence >= request.tx.seq
    /\ submission => result = "success"
    /\ "after" \in ruledOut => Dead /\ result # "success"

IInv ==
    /\ TypeOK
    /\ LedgerSound
    /\ \A c \in Calls : CallSound(job[c]) /\ ReadSound(job[c])

-----------------------------------------------------------------------------
(* The operators.                                                          *)

LEMMA TransactionType == TypeOK => request.tx \in Transaction
BY SigningAssumption DEF TypeOK

LEMMA LedgerAtType == \A n \in Nat : LedgerAt(n) \in Ledger
BY DEF LedgerAt, Ledger

LEMMA AnalysisType ==
    \A envelope, p :
        Analysis(envelope, p) \in {"unrecognized", "missing", "bad_auth_extra", "authorized"}
BY DEF Analysis, innerOutcome

LEMMA FirstStatusType ==
    \A j : FirstStatus(j) \in {"unreadable", "submitted", "request_expired", "none"}
BY DEF FirstStatus

\* A verdict rests on an account the ledger has, or has passed.
LEMMA LastStatusCause ==
    ASSUME TypeOK, NEW j \in Job, j.account.sequence <= account.sequence,
           NEW known \in BOOLEAN
    PROVE  LET s == LastStatus(j, known) IN
           /\ s \in {"stale", "transaction_expired", "awaiting_signatures",
                     "waiting_preconditions", "ready"}
           /\ s \in {"stale", "transaction_expired"} => Dead
           /\ known /\ j.account.sequence >= request.tx.seq => s = "stale"
<1> DEFINE verdict == assessTransactionPreconditions(request.tx, j.account, LedgerAt(ledger))
           unknown == NeedsLedgerContext(request.tx) /\ ~known
<1>1. request.tx \in Transaction /\ j.account \in Account /\ LedgerAt(ledger) \in Ledger
  BY TransactionType, LedgerAtType DEF TypeOK, Job
<1>2. /\ verdict = "stale" <=> j.account.sequence >= request.tx.seq
      /\ verdict = "expired" => Expired(request.tx, LedgerAt(ledger))
  BY <1>1, SummaryCause
<1>3. verdict \in {"stale", "expired", "not_yet_valid", "ready"}
  BY DEF assessTransactionPreconditions, Summary
<1> HIDE DEF verdict
<1>4. LastStatus(j, known) =
        LET assessment == IF unknown THEN "unknown" ELSE verdict IN
        CASE assessment = "stale" -> "stale"
          [] assessment = "expired" -> "transaction_expired"
          [] assessment \in {"not_yet_valid", "unknown"} ->
                 IF j.outcome = "authorized" THEN "waiting_preconditions"
                                             ELSE "awaiting_signatures"
          [] assessment = "ready" ->
                 IF j.outcome = "authorized" THEN "ready" ELSE "awaiting_signatures"
  BY DEF LastStatus, verdict
<1> HIDE DEF unknown
<1>5. known => ~unknown
  BY DEF unknown
<1>6. j.account.sequence >= request.tx.seq => account.sequence >= request.tx.seq
  BY <1>1 DEF TypeOK, Account, Transaction
<1>7. CASE unknown
  BY <1>4, <1>5, <1>7
<1>8. CASE ~unknown
  BY <1>2, <1>3, <1>4, <1>6, <1>8 DEF Dead
<1> QED BY <1>7, <1>8

LEMMA IdleType == Idle \in Job
<1>1. Nothing \in [Uploads -> Nat]
  BY DEF Nothing
<1>2. NoAccount \in Account
  BY DEF NoAccount, Account
<1> QED BY <1>1, <1>2 DEF Idle, Job, Statuses

LEMMA AnsweredFields ==
    ASSUME NEW j \in Job, NEW s \in Statuses
    PROVE  /\ Answered(j, s) \in Job
           /\ Answered(j, s).op = j.op /\ Answered(j, s).step = "answered"
           /\ Answered(j, s).status = s /\ Answered(j, s).landed = j.landed
           /\ Answered(j, s).informed = j.informed
<1> DEFINE k == Answered(j, s)
<1>1. k = [Idle EXCEPT !.op = j.op, !.step = "answered", !.status = s,
                       !.landed = j.landed, !.informed = j.informed]
  BY DEF Answered
<1>2. k \in Job
  <2>1. Idle \in Job
    BY IdleType
  <2>2. /\ j.op \in {"none", "contribute", "repeat", "read", "submit", "decline"}
        /\ j.landed \in BOOLEAN /\ j.informed \in BOOLEAN
    BY DEF Job
  <2> HIDE DEF k
  <2> QED BY <1>1, <2>1, <2>2 DEF Job
<1>3. k.op = j.op /\ k.step = "answered" /\ k.status = s
  BY DEF Answered, Idle
<1>4. k.landed = j.landed /\ k.informed = j.informed
  BY DEF Answered, Idle
<1> QED BY <1>2, <1>3, <1>4

LEMMA AskingFields ==
    ASSUME NEW j \in Job, NEW s \in Statuses,
           NEW step \in {"lookup", "waiting", "recheck", "persist"}
    PROVE  /\ Asking(j, step, s) \in Job
           /\ Asking(j, step, s).op = j.op /\ Asking(j, step, s).step = step
           /\ Asking(j, step, s).status = s /\ Asking(j, step, s).landed = j.landed
           /\ Asking(j, step, s).informed = j.informed
<1> DEFINE answer == Answered(j, s)
<1>1. answer \in Job /\ answer.op = j.op /\ answer.status = s
      /\ answer.landed = j.landed /\ answer.informed = j.informed
  BY AnsweredFields
<1> HIDE DEF answer
<1>2. [answer EXCEPT !.step = step] \in Job
  BY <1>1 DEF Job
<1>3. Asking(j, step, s) = [answer EXCEPT !.step = step]
  BY DEF Asking, answer
<1>4. /\ [answer EXCEPT !.step = step].op = answer.op
      /\ [answer EXCEPT !.step = step].step = step
      /\ [answer EXCEPT !.step = step].status = answer.status
      /\ [answer EXCEPT !.step = step].landed = answer.landed
      /\ [answer EXCEPT !.step = step].informed = answer.informed
  BY <1>1 DEF Job
<1> QED BY <1>1, <1>2, <1>3, <1>4

LEMMA UnansweredFields ==
    ASSUME NEW j \in Job
    PROVE  /\ Unanswered(j) \in Job
           /\ Unanswered(j).op = j.op /\ Unanswered(j).step = "answered"
           /\ Unanswered(j).status = j.status /\ Unanswered(j).landed = j.landed
           /\ Unanswered(j).informed = FALSE
<1> DEFINE answer == Answered(j, j.status)
<1>1. j.status \in Statuses
  BY DEF Job
<1>2. answer \in Job /\ answer.op = j.op /\ answer.step = "answered"
      /\ answer.status = j.status /\ answer.landed = j.landed
  BY <1>1, AnsweredFields
<1> HIDE DEF answer
<1>3. [answer EXCEPT !.informed = FALSE] \in Job
  BY <1>2 DEF Job
<1>4. Unanswered(j) = [answer EXCEPT !.informed = FALSE]
  BY DEF Unanswered, answer
<1> QED BY <1>2, <1>3, <1>4 DEF Job

\* Where Concluded takes a call.
LEMMA ConcludedFields ==
    ASSUME NEW j \in Job, NEW s \in Statuses
    PROVE  LET k == Concluded(j, s) IN
           /\ k \in Job
           /\ k.op = j.op /\ k.status = s /\ k.landed = j.landed /\ k.informed = j.informed
           /\ k.step \in {"lookup", "post", "decline", "answered"}
           /\ k.step = "lookup" <=> s \in Doubtful /\ j.op \notin {"submit", "repeat"}
           /\ k.step = "post" => j.op = "submit"
           /\ k.step = "decline" =>
                  j.op = "decline" /\ s = "awaiting_signatures" /\ k.signer = j.signer
<1> DEFINE k == Concluded(j, s)
<1>1. CASE s \in Doubtful /\ j.op \notin {"submit", "repeat"}
  <2>1. k = Asking(j, "lookup", s)
    BY <1>1 DEF Concluded, Doubtful
  <2>2. /\ k \in Job /\ k.op = j.op /\ k.step = "lookup" /\ k.status = s
        /\ k.landed = j.landed /\ k.informed = j.informed
    <3> DEFINE a == Asking(j, "lookup", s)
    <3>1. /\ a \in Job /\ a.op = j.op /\ a.step = "lookup" /\ a.status = s
          /\ a.landed = j.landed /\ a.informed = j.informed
      BY AskingFields
    <3> HIDE DEF a
    <3>2. k = a
      BY <2>1 DEF a
    <3> HIDE DEF k
    <3> QED BY <3>1, <3>2
  <2> HIDE DEF k
  <2>3. QED BY <1>1, <2>2 DEF k
<1>2. CASE j.op = "submit" /\ s = "ready"
  <2>1. k = [j EXCEPT !.step = "post", !.status = s]
    BY <1>2 DEF Concluded, Doubtful
  <2> HIDE DEF k
  <2>2. k \in Job
    BY <1>2, <2>1 DEF Job
  <2>3. /\ k.op = j.op /\ k.step = "post" /\ k.status = s /\ k.signer = j.signer
        /\ k.landed = j.landed /\ k.informed = j.informed
    BY <1>2, <2>1 DEF Job
  <2>4. s \notin Doubtful
    BY <1>2 DEF Doubtful
  <2>5. QED BY <1>2, <2>2, <2>3, <2>4 DEF k
<1>3. CASE /\ j.op = "decline" /\ s = "awaiting_signatures"
           /\ j.signer \notin KeysOf(mergedXdr(j.seen))
  <2>1. k = [j EXCEPT !.step = "decline", !.status = s]
    BY <1>3 DEF Concluded, Doubtful
  <2> HIDE DEF k
  <2>2. k \in Job
    BY <1>3, <2>1 DEF Job
  <2>3. /\ k.op = j.op /\ k.step = "decline" /\ k.status = s /\ k.signer = j.signer
        /\ k.landed = j.landed /\ k.informed = j.informed
    BY <1>3, <2>1 DEF Job
  <2>4. s \notin Doubtful
    BY <1>3 DEF Doubtful
  <2>5. QED BY <1>3, <2>2, <2>3, <2>4 DEF k
<1>4. CASE /\ ~(s \in Doubtful /\ j.op \notin {"submit", "repeat"})
           /\ ~(j.op = "submit" /\ s = "ready")
           /\ ~(/\ j.op = "decline" /\ s = "awaiting_signatures"
                /\ j.signer \notin KeysOf(mergedXdr(j.seen)))
  <2>1. k = Answered(j, s)
    BY <1>4 DEF Concluded
  <2> QED BY <1>4, <2>1, AnsweredFields
<1> QED BY <1>1, <1>2, <1>3, <1>4

LEMMA StartedFields ==
    ASSUME TypeOK, NEW op \in {"read", "submit", "decline", "contribute"},
           NEW step \in {"facts", "list"}
    PROVE  /\ Started(op, step) \in Job
           /\ Started(op, step).op = op /\ Started(op, step).step = step
           /\ Started(op, step).signer = "none" /\ Started(op, step).status = "none"
           /\ Started(op, step).landed = (op = "read" /\ result = "success")
<1>1. requestExpired \in BOOLEAN
  BY DEF requestExpired
<1>2. (IF op \in {"contribute", "decline"} THEN received ELSE Nothing) \in [Uploads -> Nat]
  BY DEF TypeOK, Nothing
<1> DEFINE k == Started(op, step)
<1>3. k = [Idle EXCEPT !.op = op, !.step = step, !.expired = requestExpired,
             !.before = IF op \in {"contribute", "decline"} THEN received ELSE Nothing,
             !.landed = (op = "read" /\ result = "success")]
  BY DEF Started
<1>4. k \in Job
  <2>1. (op = "read" /\ result = "success") \in BOOLEAN
    OBVIOUS
  <2> DEFINE before == IF op \in {"contribute", "decline"} THEN received ELSE Nothing
             landed == op = "read" /\ result = "success"
  <2> HIDE DEF k, before, landed
  <2>2. /\ before \in [Uploads -> Nat] /\ landed \in BOOLEAN
        /\ requestExpired \in BOOLEAN
    BY <1>1, <1>2, <2>1 DEF before, landed
  <2>3. k = [Idle EXCEPT !.op = op, !.step = step, !.expired = requestExpired,
                         !.before = before, !.landed = landed]
    BY <1>3 DEF before, landed
  <2> QED BY <2>2, <2>3, IdleType DEF Job
<1>5. /\ k.op = op /\ k.step = step /\ k.signer = "none" /\ k.status = "none"
      /\ k.landed = (op = "read" /\ result = "success")
  <2> HIDE DEF requestExpired, Nothing, NoAccount
  <2> QED BY DEF Started, Idle
<1> QED BY <1>4, <1>5

-----------------------------------------------------------------------------
(* Where the calls go.                                                     *)

CallMove(c) ==
    \E k \in Job : job' = [job EXCEPT ![c] = k] /\ CallSound(k) /\ ReadSound(k)

LEMMA Known ==
    ASSUME IInv, NEW c \in Calls
    PROVE  job[c] \in Job /\ job[c].status \in Statuses /\ CallSound(job[c]) /\ ReadSound(job[c])
BY DEF IInv, TypeOK, Job

LEMMA IdleSound == CallSound(Idle) /\ ReadSound(Idle)
BY DEF Idle, CallSound, ReadSound, Waits

\* An answer that rules nothing out.
LEMMA AnswerSound ==
    ASSUME NEW j \in Job, NEW s \in Statuses, s \notin {"stale", "transaction_expired"},
           ReadSound(j), j.landed => s \in {"submitted", "unreadable"}
    PROVE  LET k == Answered(j, s) IN k \in Job /\ CallSound(k) /\ ReadSound(k)
<1> DEFINE k == Answered(j, s)
<1>1. /\ k \in Job /\ k.op = j.op /\ k.step = "answered" /\ k.status = s
      /\ k.landed = j.landed /\ k.informed = j.informed
  BY AnsweredFields
<1> HIDE DEF k
<1>2. CallSound(k)
  BY <1>1 DEF CallSound, Verdict, Waits
<1>3. ReadSound(k)
  BY <1>1 DEF ReadSound
<1> QED BY <1>1, <1>2, <1>3 DEF k

LEMMA ConcludedSound ==
    ASSUME NEW j \in Job, NEW s \in Statuses,
           s \in {"stale", "transaction_expired"} => Dead,
           j.op = "decline" => j.signer \in Signers,
           j.landed => /\ j.op = "read" /\ result = "success"
                       /\ s \in Doubtful \cup {"submitted", "unreadable"} \/ ~j.informed
    PROVE  LET k == Concluded(j, s) IN k \in Job /\ CallSound(k) /\ ReadSound(k)
<1> DEFINE k == Concluded(j, s)
<1>1. /\ k \in Job
      /\ k.op = j.op /\ k.status = s /\ k.landed = j.landed /\ k.informed = j.informed
      /\ k.step \in {"lookup", "post", "decline", "answered"}
      /\ k.step = "lookup" <=> s \in Doubtful /\ j.op \notin {"submit", "repeat"}
      /\ k.step = "post" => j.op = "submit"
      /\ k.step = "decline" =>
             j.op = "decline" /\ s = "awaiting_signatures" /\ k.signer = j.signer
  BY ConcludedFields
<1> HIDE DEF k
<1>2. CallSound(k)
  BY <1>1 DEF CallSound, Verdict, Waits, Doubtful
<1>3. ReadSound(k)
  BY <1>1 DEF ReadSound, Doubtful
<1> QED BY <1>1, <1>2, <1>3 DEF k

LEMMA PersistSound ==
    ASSUME NEW j \in Job, ReadSound(j), result = "success"
    PROVE  LET k == Asking(j, "persist", "none") IN k \in Job /\ CallSound(k) /\ ReadSound(k)
<1> DEFINE k == Asking(j, "persist", "none")
<1>1. /\ k \in Job /\ k.op = j.op /\ k.step = "persist" /\ k.status = "none"
      /\ k.landed = j.landed /\ k.informed = j.informed
  BY AskingFields DEF Statuses
<1> HIDE DEF k
<1>2. CallSound(k) /\ ReadSound(k)
  BY <1>1 DEF CallSound, Verdict, Waits, ReadSound
<1> QED BY <1>1, <1>2 DEF k

\* A step that leaves only the ledger to be asked, in a submission.
LEMMA SubmitSound ==
    ASSUME NEW j \in Job, NEW s \in Statuses, j.op = "submit", ReadSound(j),
           NEW step \in {"waiting", "recheck"}
    PROVE  LET k == Asking(j, step, s) IN k \in Job /\ CallSound(k) /\ ReadSound(k)
<1> DEFINE k == Asking(j, step, s)
<1>1. /\ k \in Job /\ k.op = j.op /\ k.step = step /\ k.status = s
      /\ k.landed = j.landed /\ k.informed = j.informed
  BY AskingFields
<1> HIDE DEF k
<1>2. CallSound(k) /\ ReadSound(k)
  BY <1>1 DEF CallSound, Verdict, Waits, ReadSound
<1> QED BY <1>1, <1>2 DEF k

LEMMA UnansweredSound ==
    ASSUME NEW j \in Job, ReadSound(j),
           (j.op \notin {"submit", "repeat"} /\ Verdict(j)) => Dead
    PROVE  LET k == Unanswered(j) IN k \in Job /\ CallSound(k) /\ ReadSound(k)
<1> DEFINE k == Unanswered(j)
<1>1. /\ k \in Job /\ k.op = j.op /\ k.step = "answered" /\ k.status = j.status
      /\ k.landed = j.landed /\ k.informed = FALSE
  BY UnansweredFields
<1> HIDE DEF k
<1>2. CallSound(k) /\ ReadSound(k)
  BY <1>1 DEF CallSound, Verdict, Waits, ReadSound
<1> QED BY <1>1, <1>2 DEF k

\* A call other than a read has nothing to answer of the ledger.
LEMMA SubmitAnswered ==
    ASSUME NEW j \in Job, NEW s \in Statuses, j.op = "submit", ReadSound(j)
    PROVE  LET k == Answered(j, s) IN k \in Job /\ CallSound(k) /\ ReadSound(k)
<1> DEFINE k == Answered(j, s)
<1>1. /\ k \in Job /\ k.op = "submit" /\ k.step = "answered" /\ k.landed = j.landed
  BY AnsweredFields
<1> HIDE DEF k
<1>2. CallSound(k) /\ ReadSound(k)
  BY <1>1 DEF CallSound, Verdict, Waits, ReadSound
<1> QED BY <1>1, <1>2 DEF k

-----------------------------------------------------------------------------
(* One lemma per step of a call.                                           *)

LEMMA MoveTo ==
    ASSUME NEW c \in Calls, NEW k, job' = [job EXCEPT ![c] = k],
           k \in Job /\ CallSound(k) /\ ReadSound(k)
    PROVE  CallMove(c)
BY DEF CallMove

LEMMA StartMove ==
    ASSUME IInv, NEW c \in Calls,
           \/ StartRead(c) \/ StartSubmit(c)
           \/ \E signer \in Signers : StartDecline(c, signer)
           \/ \E upload \in Uploads : StartContribute(c, upload)
    PROVE  CallMove(c)
<1> USE DEF IInv
<1>1. CASE StartRead(c)
  <2> DEFINE k == Started("read", "facts")
  <2>1. job' = [job EXCEPT ![c] = k]
    BY <1>1 DEF StartRead
  <2>2. /\ k \in Job /\ k.op = "read" /\ k.step = "facts" /\ k.status = "none"
        /\ k.landed = (result = "success")
    BY StartedFields
  <2> HIDE DEF k
  <2>3. CallSound(k) /\ ReadSound(k)
    BY <2>2 DEF CallSound, ReadSound, Waits
  <2> QED BY <2>1, <2>2, <2>3, MoveTo
<1>2. CASE StartSubmit(c)
  <2> DEFINE k == Started("submit", "facts")
  <2>1. job' = [job EXCEPT ![c] = k]
    BY <1>2 DEF StartSubmit
  <2>2. k \in Job /\ k.op = "submit" /\ k.step = "facts" /\ k.landed = FALSE
    BY StartedFields
  <2> HIDE DEF k
  <2>3. CallSound(k) /\ ReadSound(k)
    BY <2>2 DEF CallSound, ReadSound, Waits
  <2> QED BY <2>1, <2>2, <2>3, MoveTo
<1>3. ASSUME NEW signer \in Signers, StartDecline(c, signer) PROVE CallMove(c)
  <2> DEFINE i == Started("decline", "facts")
             k == [i EXCEPT !.signer = signer]
  <2>1. job' = [job EXCEPT ![c] = k]
    BY <1>3 DEF StartDecline
  <2>2. i \in Job /\ i.op = "decline" /\ i.step = "facts" /\ i.landed = FALSE
    BY StartedFields
  <2> HIDE DEF i
  <2>3. /\ k \in Job /\ k.op = "decline" /\ k.step = "facts" /\ k.landed = FALSE
        /\ k.signer = signer
    BY <2>2 DEF Job
  <2> HIDE DEF k
  <2>4. CallSound(k) /\ ReadSound(k)
    BY <2>3 DEF CallSound, ReadSound, Waits
  <2> QED BY <2>1, <2>3, <2>4, MoveTo
<1>4. ASSUME NEW upload \in Uploads, StartContribute(c, upload) PROVE CallMove(c)
  <2> DEFINE i == Started("contribute", "list")
             k == [i EXCEPT !.upload = upload, !.at = arrivals + 1]
  <2>1. job' = [job EXCEPT ![c] = k]
    BY <1>4 DEF StartContribute
  <2>2. i \in Job /\ i.op = "contribute" /\ i.step = "list" /\ i.landed = FALSE
    BY StartedFields
  <2>3. arrivals + 1 \in Nat
    BY DEF TypeOK
  <2> HIDE DEF i
  <2>4. k \in Job /\ k.op = "contribute" /\ k.step = "list" /\ k.landed = FALSE
    BY <2>2, <2>3 DEF Job
  <2> HIDE DEF k
  <2>5. CallSound(k) /\ ReadSound(k)
    BY <2>4 DEF CallSound, ReadSound, Waits
  <2> QED BY <2>1, <2>4, <2>5, MoveTo
<1> QED BY <1>1, <1>2, <1>3, <1>4

LEMMA ListMove == ASSUME IInv, NEW c \in Calls, List(c) PROVE CallMove(c)
<1> DEFINE j == job[c]
           current == mergedXdr(received)
           shut == submission \/ ~Readable(received) \/ ~Mergeable(current, j.upload)
           known == Additions(current, j.upload) = <<>>
           repeat == [Idle EXCEPT !.op = "repeat", !.step = "policy", !.seen = received]
           on == [j EXCEPT !.step = "validate", !.seen = received]
<1>1. /\ j.step = "list" /\ j \in Job /\ ReadSound(j) /\ CallSound(j)
      /\ received \in [Uploads -> Nat]
  BY Known DEF List, IInv, TypeOK
<1>2. ~j.landed
  BY <1>1 DEF ReadSound
<1>3. job' = [job EXCEPT ![c] = IF shut THEN Answered(j, "none")
                               ELSE IF known THEN repeat ELSE on]
  BY DEF List, IInv, TypeOK
<1> HIDE DEF j, shut, known, repeat, on
<1>4. \/ job' = [job EXCEPT ![c] = Answered(j, "none")]
      \/ job' = [job EXCEPT ![c] = repeat]
      \/ job' = [job EXCEPT ![c] = on]
  BY <1>3
<1>5. CASE job' = [job EXCEPT ![c] = Answered(j, "none")]
  BY <1>1, <1>2, <1>5, AnswerSound, MoveTo DEF Statuses
<1>6. CASE job' = [job EXCEPT ![c] = repeat]
  <2>1. repeat \in Job
    BY <1>1, IdleType DEF Job, repeat
  <2>2. repeat.op = "repeat" /\ repeat.step = "policy" /\ repeat.landed = FALSE
    BY DEF repeat, Idle
  <2>3. CallSound(repeat) /\ ReadSound(repeat)
    BY <2>2 DEF CallSound, ReadSound, Waits
  <2> QED BY <1>6, <2>1, <2>3, MoveTo
<1>7. CASE job' = [job EXCEPT ![c] = on]
  <2>1. on \in Job /\ on.step = "validate" /\ on.landed = j.landed
    BY <1>1 DEF Job, on
  <2>2. CallSound(on) /\ ReadSound(on)
    BY <1>2, <2>1 DEF CallSound, ReadSound, Waits
  <2> QED BY <1>7, <2>1, <2>2, MoveTo
<1> QED BY <1>4, <1>5, <1>6, <1>7

LEMMA ValidateMove == ASSUME IInv, NEW c \in Calls, Validate(c) PROVE CallMove(c)
<1> DEFINE j == job[c]
           on == [j EXCEPT !.step = "put"]
<1>1. j.step = "validate" /\ j \in Job /\ ReadSound(j)
  BY Known DEF Validate
<1>2. ~j.landed
  BY <1>1 DEF ReadSound
<1>3. \/ job' = [job EXCEPT ![c] = Answered(j, "none")]
      \/ job' = [job EXCEPT ![c] = on]
  BY DEF Validate, IInv, TypeOK
<1> HIDE DEF j
<1>4. CASE job' = [job EXCEPT ![c] = Answered(j, "none")]
  BY <1>1, <1>2, <1>4, AnswerSound, MoveTo DEF Statuses
<1>5. CASE job' = [job EXCEPT ![c] = on]
  <2>1. on \in Job /\ on.step = "put" /\ on.landed = j.landed
    BY <1>1 DEF Job
  <2>2. CallSound(on) /\ ReadSound(on)
    BY <1>2, <2>1 DEF CallSound, ReadSound, Waits
  <2> QED BY <1>5, <2>1, <2>2, MoveTo
<1> QED BY <1>3, <1>4, <1>5

LEMMA PutMove == ASSUME IInv, NEW c \in Calls, Put(c) PROVE CallMove(c)
<1> DEFINE k == [Idle EXCEPT !.op = "contribute", !.step = "facts"]
<1>1. job' = [job EXCEPT ![c] = k]
  BY DEF Put
<1>2. k \in Job
  BY IdleType DEF Job
<1>3. k.op = "contribute" /\ k.step = "facts" /\ k.landed = FALSE
  BY DEF Idle
<1> HIDE DEF k
<1>4. CallSound(k) /\ ReadSound(k)
  BY <1>3 DEF CallSound, ReadSound, Waits
<1> QED BY <1>1, <1>2, <1>4, MoveTo

LEMMA FactsMove == ASSUME IInv, NEW c \in Calls, Facts(c) PROVE CallMove(c)
<1> DEFINE j == job[c]
           s == FirstStatus(j)
           first == [j EXCEPT !.seen = received, !.step = "preflight"]
           on == [j EXCEPT !.seen = received, !.step = "policy"]
           read == [j EXCEPT !.seen = received]
           asks == j.op = "submit" /\ ~submission
           goes == ~(j.op = "submit" /\ ~submission) /\ s = "none"
<1>1. /\ j.step = "facts" /\ j \in Job /\ CallSound(j) /\ ReadSound(j)
      /\ received \in [Uploads -> Nat]
  BY Known DEF Facts, IInv, TypeOK
<1>2. s \in {"unreadable", "submitted", "request_expired", "none"}
  BY FirstStatusType
<1>3. job' = [job EXCEPT ![c] = CASE asks -> first [] goes -> on [] OTHER -> Concluded(read, s)]
  BY DEF Facts, IInv, TypeOK
<1> HIDE DEF j, s
<1>4. \/ asks /\ job' = [job EXCEPT ![c] = first]
      \/ goes /\ job' = [job EXCEPT ![c] = on]
      \/ ~asks /\ s # "none" /\ job' = [job EXCEPT ![c] = Concluded(read, s)]
  BY <1>3
<1>5. j.op = "decline" => j.signer \in Signers
  BY <1>1 DEF CallSound
<1>6. j.landed => j.op = "read" /\ result = "success"
  BY <1>1 DEF ReadSound
<1>7. CASE asks /\ job' = [job EXCEPT ![c] = first]
  <2>1. first \in Job /\ first.op = j.op /\ first.step = "preflight" /\ first.landed = j.landed
    BY <1>1 DEF Job
  <2> HIDE DEF first
  <2>2. CallSound(first) /\ ReadSound(first)
    BY <1>6, <1>7, <2>1 DEF CallSound, ReadSound, Waits
  <2> QED BY <1>7, <2>1, <2>2, MoveTo
<1>8. CASE goes /\ job' = [job EXCEPT ![c] = on]
  <2>1. /\ on \in Job /\ on.op = j.op /\ on.step = "policy" /\ on.landed = j.landed
        /\ on.signer = j.signer
    BY <1>1 DEF Job
  <2> HIDE DEF on
  <2>2. CallSound(on) /\ ReadSound(on)
    BY <1>5, <1>6, <2>1 DEF CallSound, ReadSound, Waits
  <2> QED BY <1>8, <2>1, <2>2, MoveTo
<1>9. CASE ~asks /\ s # "none" /\ job' = [job EXCEPT ![c] = Concluded(read, s)]
  <2>1. /\ read \in Job /\ read.op = j.op /\ read.landed = j.landed
        /\ read.signer = j.signer
    BY <1>1 DEF Job
  <2>2. s \in Statuses
    BY <1>2 DEF Statuses
  <2> HIDE DEF read
  <2>3. Concluded(read, s) \in Job /\ CallSound(Concluded(read, s)) /\ ReadSound(Concluded(read, s))
    BY <1>2, <1>5, <1>6, <1>9, <2>1, <2>2, ConcludedSound DEF Doubtful
  <2> QED BY <1>9, <2>3, MoveTo
<1> QED BY <1>4, <1>7, <1>8, <1>9

LEMMA ReadPolicyMove == ASSUME IInv, NEW c \in Calls, ReadPolicy(c) PROVE CallMove(c)
<1> DEFINE outcome == Analysis(mergedXdr(job[c].seen), policy)
           j == [job[c] EXCEPT !.outcome = outcome, !.account = account]
           on == [j EXCEPT !.step = "context"]
           s == LastStatus(j, TRUE)
<1>1. job[c] \in Job /\ job[c].step = "policy" /\ CallSound(job[c]) /\ ReadSound(job[c])
  BY Known DEF ReadPolicy
<1>2. outcome \in {"unrecognized", "missing", "bad_auth_extra", "authorized"}
  BY AnalysisType
<1>3. account \in Account /\ account.sequence \in Nat
  BY DEF IInv, TypeOK, Account
<1>4. job' = [job EXCEPT ![c] =
          CASE outcome \in {"unrecognized", "bad_auth_extra"} -> Concluded(j, outcome)
            [] outcome \in {"missing", "authorized"} /\ NeedsLedgerContext(request.tx) -> on
            [] OTHER -> Concluded(j, s)]
  BY DEF ReadPolicy
<1> HIDE DEF outcome
<1>5. /\ j \in Job /\ j.op = job[c].op /\ j.landed = job[c].landed
      /\ j.signer = job[c].signer /\ j.account = account
  BY <1>1, <1>2, <1>3 DEF Job
<1> HIDE DEF j
<1>6. j.op = "decline" => j.signer \in Signers
  BY <1>1, <1>5 DEF CallSound
<1>7. j.landed => /\ j.op = "read" /\ result = "success"
                  /\ account.sequence >= request.tx.seq
  BY <1>1, <1>5 DEF ReadSound, IInv, LedgerSound
<1>8. CASE outcome \in {"unrecognized", "bad_auth_extra"}
  <2>1. /\ Concluded(j, outcome) \in Job
        /\ CallSound(Concluded(j, outcome)) /\ ReadSound(Concluded(j, outcome))
    BY <1>5, <1>6, <1>7, <1>8, ConcludedSound DEF Statuses, Doubtful
  <2>2. job' = [job EXCEPT ![c] = Concluded(j, outcome)]
    BY <1>4, <1>8
  <2> QED BY <2>1, <2>2, MoveTo
<1>9. CASE outcome \in {"missing", "authorized"} /\ NeedsLedgerContext(request.tx)
  <2>1. job' = [job EXCEPT ![c] = on]
    BY <1>4, <1>9
  <2>2. /\ on \in Job /\ on.op = j.op /\ on.step = "context" /\ on.landed = j.landed
        /\ on.signer = j.signer /\ on.account = account
    BY <1>5 DEF Job
  <2> HIDE DEF on
  <2>3. CallSound(on)
    BY <1>3, <1>6, <2>2 DEF CallSound, Waits
  <2>4. ReadSound(on)
    BY <1>7, <2>2 DEF ReadSound
  <2> QED BY <2>1, <2>2, <2>3, <2>4, MoveTo
<1>10. CASE outcome \in {"missing", "authorized"} /\ ~NeedsLedgerContext(request.tx)
  <2>1. job' = [job EXCEPT ![c] = Concluded(j, s)]
    BY <1>4, <1>10
  <2>2. /\ s \in {"stale", "transaction_expired", "awaiting_signatures",
                  "waiting_preconditions", "ready"}
        /\ s \in {"stale", "transaction_expired"} => Dead
        /\ account.sequence >= request.tx.seq => s = "stale"
    <3>1. j.account.sequence <= account.sequence
      BY <1>3, <1>5
    <3> QED BY <1>5, <3>1, LastStatusCause DEF IInv
  <2> HIDE DEF s
  <2>3. s \in Statuses
    BY <2>2 DEF Statuses
  <2>4. Concluded(j, s) \in Job /\ CallSound(Concluded(j, s)) /\ ReadSound(Concluded(j, s))
    BY <1>5, <1>6, <1>7, <2>2, <2>3, ConcludedSound DEF Doubtful
  <2> QED BY <2>1, <2>4, MoveTo
<1> QED BY <1>2, <1>8, <1>9, <1>10

LEMMA ReadLedgerMove == ASSUME IInv, NEW c \in Calls, ReadLedger(c) PROVE CallMove(c)
<1>1. job[c] \in Job /\ job[c].step = "context" /\ CallSound(job[c]) /\ ReadSound(job[c])
  BY Known DEF ReadLedger
<1>2. PICK known \in BOOLEAN : job' = [job EXCEPT ![c] =
          Concluded([job[c] EXCEPT !.informed = job[c].informed /\ known],
                    LastStatus(job[c], known))]
  BY DEF ReadLedger
<1> DEFINE informed == job[c].informed /\ known
           j == [job[c] EXCEPT !.informed = informed]
           s == LastStatus(job[c], known)
<1>3. job' = [job EXCEPT ![c] = Concluded(j, s)]
  BY <1>2
<1>4. informed \in BOOLEAN /\ (informed => known)
  BY <1>2
<1> HIDE DEF informed
<1>5. /\ j \in Job /\ j.op = job[c].op /\ j.landed = job[c].landed
      /\ j.signer = job[c].signer /\ j.informed = informed
  BY <1>1, <1>4 DEF Job
<1> HIDE DEF j
<1>6. job[c].account.sequence <= account.sequence
  BY <1>1 DEF CallSound
<1>7. /\ s \in {"stale", "transaction_expired", "awaiting_signatures",
                "waiting_preconditions", "ready"}
      /\ s \in {"stale", "transaction_expired"} => Dead
      /\ known /\ job[c].account.sequence >= request.tx.seq => s = "stale"
  BY <1>1, <1>6, LastStatusCause DEF IInv
<1> HIDE DEF s
<1>8. s \in Statuses
  BY <1>7 DEF Statuses
<1>9. j.op = "decline" => j.signer \in Signers
  BY <1>1, <1>5 DEF CallSound
<1>10. j.landed => /\ j.op = "read" /\ result = "success"
                   /\ s \in Doubtful \/ ~j.informed
  BY <1>1, <1>4, <1>5, <1>7 DEF ReadSound, Doubtful
<1>11. Concluded(j, s) \in Job /\ CallSound(Concluded(j, s)) /\ ReadSound(Concluded(j, s))
  BY <1>5, <1>7, <1>8, <1>9, <1>10, ConcludedSound
<1> QED BY <1>3, <1>11, MoveTo

LEMMA LookupMove == ASSUME IInv, NEW c \in Calls, Lookup(c) PROVE CallMove(c)
<1> DEFINE j == job[c]
<1>1. /\ j.step = "lookup" /\ j \in Job /\ j.status \in Statuses
      /\ CallSound(j) /\ ReadSound(j)
  BY Known DEF Lookup
<1>2. \/ result = "success" /\ job' = [job EXCEPT ![c] = Asking(j, "persist", "none")]
      \/ result # "success" /\ job' = [job EXCEPT ![c] = Answered(j, j.status)]
      \/ job' = [job EXCEPT ![c] = Unanswered(j)]
  BY DEF Lookup, Confirmed
<1> HIDE DEF j
<1>3. CASE result = "success" /\ job' = [job EXCEPT ![c] = Asking(j, "persist", "none")]
  BY <1>1, <1>3, PersistSound, MoveTo
<1>4. CASE result # "success" /\ job' = [job EXCEPT ![c] = Answered(j, j.status)]
  <2> DEFINE k == Answered(j, j.status)
  <2>1. /\ k \in Job /\ k.op = j.op /\ k.step = "answered" /\ k.status = j.status
        /\ k.landed = j.landed
    BY <1>1, AnsweredFields
  <2> HIDE DEF k
  <2>2. CallSound(k) /\ ReadSound(k)
    BY <1>1, <1>4, <2>1 DEF CallSound, ReadSound, Verdict, Waits
  <2> QED BY <1>4, <2>1, <2>2, MoveTo DEF k
<1>5. CASE job' = [job EXCEPT ![c] = Unanswered(j)]
  <2>1. (j.op \notin {"submit", "repeat"} /\ Verdict(j)) => Dead
    BY <1>1 DEF CallSound
  <2> QED BY <1>1, <1>5, <2>1, UnansweredSound, MoveTo
<1> QED BY <1>2, <1>3, <1>4, <1>5

LEMMA PreflightMove == ASSUME IInv, NEW c \in Calls, Preflight(c) PROVE CallMove(c)
<1> DEFINE j == job[c]
           on == [j EXCEPT !.step = "policy"]
<1>1. j.step = "preflight" /\ j \in Job /\ CallSound(j) /\ ReadSound(j)
  BY Known DEF Preflight
<1>2. j.op = "submit" /\ ~j.landed
  BY <1>1 DEF CallSound, ReadSound, Waits
<1>3. \/ result = "success" /\ job' = [job EXCEPT ![c] = Asking(j, "persist", "none")]
      \/ job' = [job EXCEPT ![c] = Answered(j, "request_expired")]
      \/ job' = [job EXCEPT ![c] = Answered(j, "unreadable")]
      \/ job' = [job EXCEPT ![c] = on]
      \/ job' = [job EXCEPT ![c] = Unanswered(j)]
  BY DEF Preflight, Confirmed
<1> HIDE DEF j
<1>4. CASE result = "success" /\ job' = [job EXCEPT ![c] = Asking(j, "persist", "none")]
  BY <1>1, <1>4, PersistSound, MoveTo
<1>5. ASSUME NEW s \in {"request_expired", "unreadable"},
             job' = [job EXCEPT ![c] = Answered(j, s)]
      PROVE  CallMove(c)
  BY <1>1, <1>2, <1>5, SubmitAnswered, MoveTo DEF Statuses
<1>6. CASE job' = [job EXCEPT ![c] = on]
  <2>1. on \in Job /\ on.op = j.op /\ on.step = "policy" /\ on.landed = j.landed
    BY <1>1 DEF Job
  <2> HIDE DEF on
  <2>2. CallSound(on) /\ ReadSound(on)
    BY <1>2, <2>1 DEF CallSound, ReadSound, Waits
  <2> QED BY <1>6, <2>1, <2>2, MoveTo
<1>7. CASE job' = [job EXCEPT ![c] = Unanswered(j)]
  BY <1>1, <1>2, <1>7, UnansweredSound, MoveTo
<1> QED BY <1>3, <1>4, <1>5, <1>6, <1>7

LEMMA PostMove == ASSUME IInv, NEW c \in Calls, Post(c) PROVE CallMove(c)
<1> DEFINE j == job[c]
<1>1. /\ j.step = "post" /\ j \in Job /\ j.status \in Statuses
      /\ CallSound(j) /\ ReadSound(j)
  BY Known DEF Post
<1>2. j.op = "submit"
  BY <1>1 DEF CallSound, Waits
<1>3. \/ job' = [job EXCEPT ![c] = Asking(j, "waiting", j.status)]
      \/ job' = [job EXCEPT ![c] = Asking(j, "recheck", "failed")]
      \/ job' = [job EXCEPT ![c] = Answered(j, "failed")]
      \/ job' = [job EXCEPT ![c] = Asking(j, "recheck", "outcome_unknown")]
  BY DEF Post
<1> HIDE DEF j
<1>4. CASE job' = [job EXCEPT ![c] = Asking(j, "waiting", j.status)]
  BY <1>1, <1>2, <1>4, SubmitSound, MoveTo
<1>5. ASSUME NEW s \in {"failed", "outcome_unknown"},
             job' = [job EXCEPT ![c] = Asking(j, "recheck", s)]
      PROVE  CallMove(c)
  BY <1>1, <1>2, <1>5, SubmitSound, MoveTo DEF Statuses
<1>6. CASE job' = [job EXCEPT ![c] = Answered(j, "failed")]
  BY <1>1, <1>2, <1>6, SubmitAnswered, MoveTo DEF Statuses
<1> QED BY <1>3, <1>4, <1>5, <1>6

LEMMA WaitMove == ASSUME IInv, NEW c \in Calls, Wait(c) PROVE CallMove(c)
<1> DEFINE j == job[c]
<1>1. j.step = "waiting" /\ j \in Job /\ CallSound(j) /\ ReadSound(j)
  BY Known DEF Wait
<1>2. j.op = "submit"
  BY <1>1 DEF CallSound, Waits
<1>3. \/ result = "success" /\ job' = [job EXCEPT ![c] = Asking(j, "persist", "none")]
      \/ job' = [job EXCEPT ![c] = Answered(j, "failed")]
      \/ job' = [job EXCEPT ![c] = Asking(j, "recheck", "outcome_unknown")]
  BY DEF Wait, IInv, TypeOK
<1> HIDE DEF j
<1>4. CASE result = "success" /\ job' = [job EXCEPT ![c] = Asking(j, "persist", "none")]
  BY <1>1, <1>4, PersistSound, MoveTo
<1>5. CASE job' = [job EXCEPT ![c] = Answered(j, "failed")]
  BY <1>1, <1>2, <1>5, SubmitAnswered, MoveTo DEF Statuses
<1>6. CASE job' = [job EXCEPT ![c] = Asking(j, "recheck", "outcome_unknown")]
  BY <1>1, <1>2, <1>6, SubmitSound, MoveTo DEF Statuses
<1> QED BY <1>3, <1>4, <1>5, <1>6

LEMMA RecheckMove == ASSUME IInv, NEW c \in Calls, Recheck(c) PROVE CallMove(c)
<1> DEFINE j == job[c]
<1>1. /\ j.step = "recheck" /\ j \in Job /\ j.status \in Statuses
      /\ CallSound(j) /\ ReadSound(j)
  BY Known DEF Recheck
<1>2. j.op = "submit"
  BY <1>1 DEF CallSound, Waits
<1>3. \/ result = "success" /\ job' = [job EXCEPT ![c] = Asking(j, "persist", "none")]
      \/ job' = [job EXCEPT ![c] = Answered(j, j.status)]
      \/ job' = [job EXCEPT ![c] = Unanswered(j)]
  BY DEF Recheck, Confirmed
<1> HIDE DEF j
<1>4. CASE result = "success" /\ job' = [job EXCEPT ![c] = Asking(j, "persist", "none")]
  BY <1>1, <1>4, PersistSound, MoveTo
<1>5. CASE job' = [job EXCEPT ![c] = Answered(j, j.status)]
  BY <1>1, <1>2, <1>5, SubmitAnswered, MoveTo
<1>6. CASE job' = [job EXCEPT ![c] = Unanswered(j)]
  BY <1>1, <1>2, <1>6, UnansweredSound, MoveTo
<1> QED BY <1>3, <1>4, <1>5, <1>6

LEMMA PersistMove ==
    ASSUME IInv, NEW c \in Calls, persistConfirmedSubmission(c) PROVE CallMove(c)
<1>1. job[c] \in Job /\ ReadSound(job[c])
  BY Known
<1>2. job' = [job EXCEPT ![c] = Answered(job[c], "submitted")]
  BY DEF persistConfirmedSubmission
<1> QED BY <1>1, <1>2, AnswerSound, MoveTo DEF Statuses

LEMMA DeclineMove == ASSUME IInv, NEW c \in Calls, RecordDecline(c) PROVE CallMove(c)
<1> DEFINE j == job[c]
<1>1. /\ j.step = "decline" /\ j \in Job /\ j.status \in Statuses
      /\ CallSound(j) /\ ReadSound(j)
  BY Known DEF RecordDecline
<1>2. ~j.landed /\ j.status = "awaiting_signatures"
  BY <1>1 DEF CallSound, ReadSound
<1>3. job' = [job EXCEPT ![c] = Answered(j, j.status)]
  BY DEF RecordDecline
<1> HIDE DEF j
<1> QED BY <1>1, <1>2, <1>3, AnswerSound, MoveTo

LEMMA ReturnMove == ASSUME IInv, NEW c \in Calls, Return(c) PROVE CallMove(c)
<1>1. \/ job' = [job EXCEPT ![c] = Started("submit", "facts")]
      \/ job' = [job EXCEPT ![c] = Idle]
  BY DEF Return
<1>2. CASE job' = [job EXCEPT ![c] = Started("submit", "facts")]
  <2> DEFINE k == Started("submit", "facts")
  <2>1. k \in Job /\ k.op = "submit" /\ k.step = "facts" /\ k.landed = FALSE
    BY StartedFields DEF IInv
  <2> HIDE DEF k
  <2>2. CallSound(k) /\ ReadSound(k)
    BY <2>1 DEF CallSound, ReadSound, Waits
  <2> QED BY <1>2, <2>1, <2>2, MoveTo DEF k
<1>3. CASE job' = [job EXCEPT ![c] = Idle]
  BY <1>3, IdleType, IdleSound, MoveTo
<1> QED BY <1>1, <1>2, <1>3

LEMMA StopMove == ASSUME IInv, NEW c \in Calls, Stop(c) PROVE CallMove(c)
BY IdleType, IdleSound, MoveTo DEF Stop

CallStep(c) ==
    \/ StartRead(c) \/ StartSubmit(c)
    \/ \E signer \in Signers : StartDecline(c, signer)
    \/ \E upload \in Uploads : StartContribute(c, upload)
    \/ Step(c) \/ Stop(c)

LEMMA CallsMove == ASSUME IInv, NEW c \in Calls, CallStep(c) PROVE CallMove(c)
BY StartMove, ListMove, ValidateMove, PutMove, FactsMove, ReadPolicyMove, ReadLedgerMove,
   LookupMove, PreflightMove, PostMove, WaitMove, RecheckMove, PersistMove, DeclineMove,
   ReturnMove, StopMove DEF CallStep, Step

-----------------------------------------------------------------------------
(* The ledger moves on.                                                    *)

LEMMA OnlyLedgers ==
    ASSUME [Next]_vars
    PROVE  \/ \E other, included \in BOOLEAN : CloseLedger(other, included)
           \/ UNCHANGED <<request, account, ledger, result>>
BY DEF Next, Step, vars, store, chain, bounds, Quiet, StartRead, StartSubmit, StartDecline,
       StartContribute, List, Validate, Put, Facts, ReadPolicy, ReadLedger, Lookup, Preflight,
       Post, Wait, Recheck, persistConfirmedSubmission, RecordDecline, Return, Stop, Tick,
       ChangePolicy

LEMMA DeadIsRefused ==
    ASSUME TypeOK, Dead, NEW later \in Account, later.sequence >= account.sequence
    PROVE  ~Accepts(request.tx, later, LedgerAt(ledger + 1))
<1>1. request.tx \in Transaction /\ account.sequence \in Nat /\ ledger \in Nat
  BY TransactionType DEF TypeOK, Account
<1>2. CASE account.sequence >= request.tx.seq
  BY <1>1, <1>2 DEF Accepts, Transaction, Account
<1>3. CASE TimeBoundsCheck(request.tx, LedgerAt(ledger)) = "expired"
  <2>1. request.tx.maxTime # 0 /\ ledger >= request.tx.maxTime
    BY <1>3 DEF TimeBoundsCheck, LedgerAt
  <2> QED BY <1>1, <2>1 DEF Accepts, Transaction, LedgerAt
<1>4. CASE LedgerBoundsCheck(request.tx, LedgerAt(ledger)) = "expired"
  <2>1. request.tx.maxLedger # 0 /\ ledger + 1 >= request.tx.maxLedger
    BY <1>4 DEF LedgerBoundsCheck, LedgerAt
  <2> QED BY <1>1, <2>1 DEF Accepts, Transaction, LedgerAt
<1> QED BY <1>2, <1>3, <1>4 DEF Dead, Expired

LEMMA ExpiredStays ==
    ASSUME TypeOK, Expired(request.tx, LedgerAt(ledger))
    PROVE  Expired(request.tx, LedgerAt(ledger + 1))
<1>1. request.tx \in Transaction /\ ledger \in Nat
  BY TransactionType DEF TypeOK
<1>2. CASE TimeBoundsCheck(request.tx, LedgerAt(ledger)) = "expired"
  <2>1. request.tx.maxTime # 0 /\ ledger >= request.tx.maxTime
    BY <1>2 DEF TimeBoundsCheck, LedgerAt
  <2> QED BY <1>1, <2>1 DEF TimeBoundsCheck, LedgerAt, Transaction, Expired
<1>3. CASE LedgerBoundsCheck(request.tx, LedgerAt(ledger)) = "expired"
  <2>1. /\ request.tx.maxLedger # 0 /\ ledger + 1 >= request.tx.maxLedger
        /\ ledger + 1 >= request.tx.minLedger
    BY <1>3 DEF LedgerBoundsCheck, LedgerAt
  <2> QED BY <1>1, <2>1 DEF LedgerBoundsCheck, LedgerAt, Transaction, Expired
<1> QED BY <1>2, <1>3 DEF Expired

\* Nothing that is past comes back.
LEMMA Onwards ==
    ASSUME IInv, [Next]_vars
    PROVE  /\ request' = request
           /\ account' \in Account /\ account'.sequence >= account.sequence
           /\ ledger' \in 0 .. MaxClock \/ ledger' = ledger
           /\ result' \in {"none", "success", "failed"}
           /\ result' # "none" => account'.sequence >= request.tx.seq
           /\ result = "success" => result' = "success"
           /\ Dead => Dead' /\ (result # "success" => result' # "success")
<1>1. /\ request.tx \in Transaction /\ account \in Account /\ account.sequence \in Nat
      /\ ledger \in 0 .. MaxClock /\ clock \in 0 .. MaxClock /\ MaxClock \in Nat
      /\ result \in {"none", "success", "failed"}
  BY TransactionType, SigningAssumption DEF IInv, TypeOK, Account
<1>2. ASSUME UNCHANGED <<request, account, ledger, result>>
      PROVE  /\ request' = request
             /\ account' \in Account /\ account'.sequence >= account.sequence
             /\ ledger' \in 0 .. MaxClock \/ ledger' = ledger
             /\ result' \in {"none", "success", "failed"}
             /\ result' # "none" => account'.sequence >= request.tx.seq
             /\ result = "success" => result' = "success"
             /\ Dead => Dead' /\ (result # "success" => result' # "success")
  BY <1>1, <1>2 DEF IInv, LedgerSound, Dead
<1>3. ASSUME NEW other \in BOOLEAN, NEW included \in BOOLEAN, CloseLedger(other, included)
      PROVE  /\ request' = request
             /\ account' \in Account /\ account'.sequence >= account.sequence
             /\ ledger' \in 0 .. MaxClock \/ ledger' = ledger
             /\ result' \in {"none", "success", "failed"}
             /\ result' # "none" => account'.sequence >= request.tx.seq
             /\ result = "success" => result' = "success"
             /\ Dead => Dead' /\ (result # "success" => result' # "success")
  <2> DEFINE next == LedgerAt(ledger + 1)
             moved == IF other THEN [sequence |-> account.sequence + 1,
                                     ledger |-> next.number, time |-> next.time]
                      ELSE account
  <2>1. request' = request /\ ledger' = ledger + 1 /\ ledger < clock
    BY <1>3 DEF CloseLedger, LedgerAt
  <2>2. next.number = ledger + 1 /\ next.time = ledger + 1 /\ ledger + 1 \in 0 .. MaxClock
    BY <1>1, <2>1 DEF LedgerAt
  <2>3. moved \in Account /\ moved.sequence >= account.sequence
    BY <1>1, <2>2 DEF Account
  <2>4. IF included
        THEN /\ result = "none" /\ Accepts(request.tx, moved, next)
             /\ result' \in {"success", "failed"}
             /\ account' = [sequence |-> request.tx.seq, ledger |-> next.number,
                            time |-> next.time]
        ELSE account' = moved /\ UNCHANGED result
    BY <1>3 DEF CloseLedger
  <2> HIDE DEF next, moved
  <2>5. Accepts(request.tx, moved, next) => moved.sequence < request.tx.seq
    BY <1>1, <2>3 DEF Accepts, Transaction, Account
  <2>6. Dead => ~Accepts(request.tx, moved, next)
    BY <2>3, DeadIsRefused DEF IInv, next
  <2>7. account' \in Account /\ account'.sequence >= account.sequence
    BY <1>1, <2>2, <2>3, <2>4, <2>5 DEF Account, Transaction
  <2>8. result' # "none" => account'.sequence >= request.tx.seq
    BY <1>1, <2>4, <2>7 DEF Account, Transaction, IInv, LedgerSound
  <2>9. Dead => Dead'
    <3>1. account.sequence >= request.tx.seq => account'.sequence >= request.tx.seq
      BY <1>1, <2>7 DEF Account, Transaction
    <3>2. Expired(request.tx, LedgerAt(ledger)) => Expired(request.tx, LedgerAt(ledger'))
      BY <2>1, ExpiredStays DEF IInv
    <3> QED BY <2>1, <3>1, <3>2 DEF Dead
  <2> QED BY <1>1, <2>1, <2>2, <2>4, <2>6, <2>7, <2>8, <2>9
<1> QED BY <1>2, <1>3, OnlyLedgers

LEMMA CallsKeep ==
    ASSUME IInv, [Next]_vars, NEW j \in Job, CallSound(j), ReadSound(j)
    PROVE  CallSound(j)' /\ ReadSound(j)'
<1>1. /\ request' = request
      /\ account'.sequence >= account.sequence
      /\ result = "success" => result' = "success"
      /\ Dead => Dead' /\ (result # "success" => result' # "success")
  BY Onwards
<1>2. /\ account.sequence \in Nat /\ account'.sequence \in Nat /\ j.account.sequence \in Nat
      /\ request.tx.seq \in Nat
  BY Onwards, TransactionType DEF IInv, TypeOK, Account, Job, Transaction
<1>3. CallSound(j)'
  BY <1>1, <1>2 DEF CallSound, Verdict
<1>4. ReadSound(j)'
  BY <1>1 DEF ReadSound
<1> QED BY <1>3, <1>4

-----------------------------------------------------------------------------
(* The invariant.                                                          *)

LEMMA OnlyCalls ==
    ASSUME [Next]_vars
    PROVE  (\E c \in Calls : CallStep(c)) \/ UNCHANGED job
BY DEF Next, CallStep, Tick, CloseLedger, ChangePolicy, vars

LEMMA JobsStep ==
    ASSUME IInv, [Next]_vars
    PROVE  /\ job' \in [Calls -> Job]
           /\ \A c \in Calls : CallSound(job[c])' /\ ReadSound(job[c])'
<1>1. job \in [Calls -> Job] /\ \A c \in Calls : CallSound(job[c]) /\ ReadSound(job[c])
  BY DEF IInv, TypeOK
<1>2. ASSUME NEW d \in Calls, CallMove(d)
      PROVE  /\ job' \in [Calls -> Job]
             /\ \A c \in Calls : job'[c] \in Job /\ CallSound(job'[c]) /\ ReadSound(job'[c])
  <2>1. PICK k \in Job : job' = [job EXCEPT ![d] = k] /\ CallSound(k) /\ ReadSound(k)
    BY <1>2 DEF CallMove
  <2>2. job' \in [Calls -> Job]
    BY <1>1, <2>1
  <2>3. ASSUME NEW c \in Calls
        PROVE  job'[c] \in Job /\ CallSound(job'[c]) /\ ReadSound(job'[c])
    <3>1. CASE c = d
      <4>1. job'[c] = k
        BY <1>1, <2>1, <3>1
      <4> QED BY <2>1, <4>1
    <3>2. CASE c # d
      <4>1. job'[c] = job[c]
        BY <1>1, <2>1, <3>2
      <4> QED BY <1>1, <4>1
    <3> QED BY <3>1, <3>2
  <2> QED BY <2>2, <2>3
<1>3. /\ job' \in [Calls -> Job]
      /\ \A c \in Calls : job'[c] \in Job /\ CallSound(job'[c]) /\ ReadSound(job'[c])
  BY <1>1, <1>2, CallsMove, OnlyCalls
<1>4. ASSUME NEW c \in Calls PROVE CallSound(job[c])' /\ ReadSound(job[c])'
  <2>1. PICK j \in Job : j = job'[c]
    BY <1>3
  <2>2. CallSound(j)' /\ ReadSound(j)'
    BY <1>3, <2>1, CallsKeep
  <2> QED BY <2>1, <2>2 DEF CallSound, ReadSound, Verdict, Dead
<1> QED BY <1>3, <1>4

LEMMA StoreType ==
    ASSUME IInv, [Next]_vars
    PROVE  /\ received' \in [Uploads -> Nat] /\ declined' \subseteq Signers
           /\ submission' \in BOOLEAN /\ policy' \in Policies
           /\ clock' \in 0 .. MaxClock
           /\ arrivals' \in 0 .. MaxArrivals /\ policyChanges' \in 0 .. MaxPolicyChanges
           /\ posts' \in 0 .. MaxPosts /\ overlapped' \in BOOLEAN
           /\ ruledOut' \subseteq {"before", "after"}
<1> USE DEF IInv, TypeOK
<1>1. received' \in [Uploads -> Nat]
  <2>1. ASSUME NEW c \in Calls, Put(c) PROVE received' \in [Uploads -> Nat]
    <3>1. job[c].at \in Nat
      BY DEF Job
    <3> QED BY <2>1, <3>1 DEF Put
  <2>2. (\E c \in Calls : Put(c)) \/ UNCHANGED received
    BY DEF Next, Step, vars, store, Quiet, StartRead, StartSubmit, StartDecline,
           StartContribute, List, Validate, Facts, ReadPolicy, ReadLedger, Lookup, Preflight,
           Post, Wait, Recheck, persistConfirmedSubmission, RecordDecline, Return, Stop, Tick,
           CloseLedger, ChangePolicy
  <2> QED BY <2>1, <2>2
<1>2. declined' \subseteq Signers
  <2>1. ASSUME NEW c \in Calls, RecordDecline(c) PROVE declined' \subseteq Signers
    <3>1. job[c].signer \in Signers
      BY <2>1 DEF RecordDecline, CallSound
    <3> QED BY <2>1, <3>1 DEF RecordDecline
  <2>2. (\E c \in Calls : RecordDecline(c)) \/ UNCHANGED declined
    BY DEF Next, Step, vars, store, Quiet, StartRead, StartSubmit, StartDecline,
           StartContribute, List, Validate, Put, Facts, ReadPolicy, ReadLedger, Lookup,
           Preflight, Post, Wait, Recheck, persistConfirmedSubmission, Return, Stop, Tick,
           CloseLedger, ChangePolicy
  <2> QED BY <2>1, <2>2
<1>3. submission' \in BOOLEAN
  BY DEF Next, Step, vars, store, Quiet, StartRead, StartSubmit, StartDecline,
         StartContribute, List, Validate, Put, Facts, ReadPolicy, ReadLedger, Lookup,
         Preflight, Post, Wait, Recheck, persistConfirmedSubmission, RecordDecline, Return,
         Stop, Tick, CloseLedger, ChangePolicy
<1>4. policy' \in Policies /\ policyChanges' \in 0 .. MaxPolicyChanges
  <2>1. ChangePolicy \/ UNCHANGED <<policy, policyChanges>>
    BY DEF Next, Step, vars, Quiet, chain, bounds, StartRead, StartSubmit, StartDecline,
           StartContribute, List, Validate, Put, Facts, ReadPolicy, ReadLedger, Lookup,
           Preflight, Post, Wait, Recheck, persistConfirmedSubmission, RecordDecline,
           Return, Stop, Tick, CloseLedger
  <2>2. policyChanges \in 0 .. MaxPolicyChanges /\ MaxPolicyChanges \in Nat
    BY SigningAssumption
  <2> QED BY <2>1, <2>2 DEF ChangePolicy
<1>5. clock' \in 0 .. MaxClock
  <2>1. Tick \/ UNCHANGED clock
    BY DEF Next, Step, vars, Quiet, StartRead, StartSubmit, StartDecline,
           StartContribute, List, Validate, Put, Facts, ReadPolicy, ReadLedger, Lookup,
           Preflight, Post, Wait, Recheck, persistConfirmedSubmission, RecordDecline,
           Return, Stop, CloseLedger, ChangePolicy
  <2>2. clock \in 0 .. MaxClock /\ MaxClock \in Nat
    BY SigningAssumption
  <2> QED BY <2>1, <2>2 DEF Tick
<1>6. arrivals' \in 0 .. MaxArrivals /\ posts' \in 0 .. MaxPosts
  <2>1. (arrivals < MaxArrivals /\ arrivals' = arrivals + 1) \/ UNCHANGED arrivals
    BY DEF Next, Step, vars, Quiet, bounds, StartRead, StartSubmit, StartDecline,
           StartContribute, List, Validate, Put, Facts, ReadPolicy, ReadLedger, Lookup,
           Preflight, Post, Wait, Recheck, persistConfirmedSubmission, RecordDecline,
           Return, Stop, Tick, CloseLedger, ChangePolicy
  <2>2. (posts < MaxPosts /\ posts' = posts + 1) \/ UNCHANGED posts
    BY DEF Next, Step, vars, Quiet, bounds, StartRead, StartSubmit, StartDecline,
           StartContribute, List, Validate, Put, Facts, ReadPolicy, ReadLedger, Lookup,
           Preflight, Post, Wait, Recheck, persistConfirmedSubmission, RecordDecline,
           Return, Stop, Tick, CloseLedger, ChangePolicy
  <2>3. /\ arrivals \in 0 .. MaxArrivals /\ MaxArrivals \in Nat
        /\ posts \in 0 .. MaxPosts /\ MaxPosts \in Nat
    BY SigningAssumption
  <2> QED BY <2>1, <2>2, <2>3
<1>7. overlapped' \in BOOLEAN
  BY DEF Next, Step, vars, Quiet, StartRead, StartSubmit, StartDecline,
         StartContribute, List, Validate, Put, Facts, ReadPolicy, ReadLedger, Lookup,
         Preflight, Post, Wait, Recheck, persistConfirmedSubmission, RecordDecline, Return,
         Stop, Tick, CloseLedger, ChangePolicy
<1>8. ruledOut' \subseteq {"before", "after"}
  BY DEF Next, Step, vars, Quiet, StartRead, StartSubmit, StartDecline,
         StartContribute, List, Validate, Put, Facts, ReadPolicy, ReadLedger, Lookup,
         Preflight, Post, Wait, Recheck, persistConfirmedSubmission, RecordDecline, Return,
         Stop, Tick, CloseLedger, ChangePolicy
<1> QED BY <1>1, <1>2, <1>3, <1>4, <1>5, <1>6, <1>7, <1>8

\* A recorded submission succeeded; a verdict that went out is final.
LEMMA LedgerStep ==
    ASSUME IInv, [Next]_vars
    PROVE  LedgerSound'
<1>1. /\ request' = request
      /\ result' # "none" => account'.sequence >= request.tx.seq
      /\ result = "success" => result' = "success"
      /\ Dead => Dead' /\ (result # "success" => result' # "success")
  BY Onwards
<1>2. submission' => result' = "success"
  <2>1. ASSUME NEW c \in Calls, persistConfirmedSubmission(c) PROVE result = "success"
    BY <2>1 DEF IInv, CallSound, persistConfirmedSubmission
  <2>2. (\E c \in Calls : persistConfirmedSubmission(c)) \/ UNCHANGED submission
    BY DEF Next, Step, vars, store, Quiet, StartRead, StartSubmit, StartDecline,
           StartContribute, List, Validate, Put, Facts, ReadPolicy, ReadLedger, Lookup,
           Preflight, Post, Wait, Recheck, RecordDecline, Return, Stop, Tick, CloseLedger,
           ChangePolicy
  <2> QED BY <1>1, <2>1, <2>2 DEF IInv, LedgerSound
<1>3. "after" \in ruledOut' => Dead' /\ result' # "success"
  <2>1. ASSUME NEW c \in Calls, Return(c), "after" \in ruledOut', "after" \notin ruledOut
        PROVE  Dead /\ result # "success"
    <3>1. /\ job[c].step = "answered" /\ job[c].informed
          /\ Verdict(job[c]) /\ job[c].op \notin {"submit", "repeat"}
      BY <2>1 DEF Return, Verdict
    <3> QED BY <3>1 DEF IInv, CallSound
  <2>2. (\E c \in Calls : Return(c)) \/ UNCHANGED ruledOut
    BY DEF Next, Step, vars, Quiet, StartRead, StartSubmit, StartDecline,
           StartContribute, List, Validate, Put, Facts, ReadPolicy, ReadLedger, Lookup,
           Preflight, Post, Wait, Recheck, persistConfirmedSubmission, RecordDecline, Stop,
           Tick, CloseLedger, ChangePolicy
  <2> QED BY <1>1, <2>1, <2>2 DEF IInv, LedgerSound
<1> QED BY <1>1, <1>2, <1>3 DEF LedgerSound

LEMMA RequestStep ==
    ASSUME IInv, [Next]_vars
    PROVE  /\ request' \in [base : Bases, tx : Transactions, managed : BOOLEAN, expiresAt : Nat]
           /\ account' \in Account /\ ledger' \in 0 .. MaxClock
           /\ result' \in {"none", "success", "failed"}
BY Onwards DEF IInv, TypeOK

LEMMA InductiveInit == Init => IInv
<1> SUFFICES ASSUME Init PROVE IInv
  OBVIOUS
<1>1. PICK base \in Bases, tx \in Transactions, managed \in Managed :
          request = [base |-> base, tx |-> tx, managed |-> managed,
                     expiresAt |-> expiryForInspection(tx, 0)]
  BY DEF Init
<1>2. expiryForInspection(tx, 0) \in Nat
  <2>1. tx.maxTime \in Nat
    BY SigningAssumption DEF Transaction
  <2> QED BY <2>1, SigningAssumption DEF expiryForInspection
<1>3. request \in [base : Bases, tx : Transactions, managed : BOOLEAN, expiresAt : Nat]
  BY <1>1, <1>2, SigningAssumption
<1>4. received \in [Uploads -> Nat] /\ account \in Account
  BY DEF Init, Nothing, NoAccount, Account
<1>5. job \in [Calls -> Job] /\ \A c \in Calls : job[c] = Idle
  BY IdleType DEF Init
<1>6. TypeOK
  <2>1. /\ declined \subseteq Signers /\ submission \in BOOLEAN /\ policy \in Policies
        /\ result \in {"none", "success", "failed"} /\ overlapped \in BOOLEAN
        /\ ruledOut \subseteq {"before", "after"}
    BY DEF Init
  <2>2. /\ clock \in 0 .. MaxClock /\ ledger \in 0 .. MaxClock
        /\ arrivals \in 0 .. MaxArrivals /\ policyChanges \in 0 .. MaxPolicyChanges
        /\ posts \in 0 .. MaxPosts
    BY SigningAssumption DEF Init
  <2> QED BY <1>3, <1>4, <1>5, <2>1, <2>2 DEF TypeOK
<1>7. LedgerSound
  BY DEF Init, LedgerSound
<1> QED BY <1>5, <1>6, <1>7, IdleSound DEF IInv

LEMMA InductiveNext == IInv /\ [Next]_vars => IInv'
<1> SUFFICES ASSUME IInv, [Next]_vars PROVE IInv'
  OBVIOUS
<1>1. TypeOK'
  BY JobsStep, StoreType, RequestStep DEF TypeOK
<1> QED BY <1>1, JobsStep, LedgerStep DEF IInv

LEMMA Invariance == Spec => []IInv
BY InductiveInit, InductiveNext, PTL DEF Spec

\* Every variable keeps its type, whatever the signers, policies and bounds.
THEOREM TypeCorrectness == Spec => []TypeOK
<1>1. IInv => TypeOK
  BY DEF IInv
<1> QED BY <1>1, Invariance, PTL

\* A recorded submission is a transaction the ledger applied.
THEOREM RecordedIsConfirmed == Spec => []RecordedMeansConfirmed
<1>1. IInv => RecordedMeansConfirmed
  BY DEF IInv, LedgerSound, RecordedMeansConfirmed
<1> QED BY <1>1, Invariance, PTL

\* A snapshot whose ledger lookup follows its verdict is never refuted: the
\* stale or expired transaction does not succeed later.
THEOREM VerdictsStand == Spec => []VerdictsAreFinal
<1>1. IInv => VerdictsAreFinal
  BY DEF IInv, LedgerSound, VerdictsAreFinal
<1> QED BY <1>1, Invariance, PTL

\* A read that begins after the success, and gets its answers, reports it.
THEOREM ReadsReportSuccess == Spec => []ReadsSeeTheLedger
<1>1. IInv => ReadsSeeTheLedger
  BY DEF IInv, ReadSound, ReadsSeeTheLedger
<1> QED BY <1>1, Invariance, PTL

-----------------------------------------------------------------------------
(* Induction, and what a merge adds. *)

\* Induction on the natural numbers, of a set.
LEMMA Induction ==
    ASSUME NEW S, 0 \in S, \A n \in Nat : n \in S => n + 1 \in S
    PROVE  Nat \subseteq S
<1> DEFINE R == {p \in Nat \X Nat : p[1] < p[2]}
<1>1. IsWellFoundedOn(R, Nat)
  BY NatLessThanWellFounded DEF OpToRel
<1> SUFFICES ASSUME Nat \ S # {} PROVE FALSE
  OBVIOUS
<1> HIDE DEF R
<1>2. PICK n \in Nat \ S : \A m \in Nat \ S : ~ (<<m, n>> \in R)
  BY <1>1, WFMin
<1>3. n - 1 \in Nat /\ <<n - 1, n>> \in R
  BY <1>2 DEF R
<1>4. n - 1 \in S
  BY <1>2, <1>3
<1> QED BY <1>2, <1>3, <1>4

Adding(envelope, incoming, i, f) ==
    IF i = 0 THEN <<>>
    ELSE IF incoming[i] \in KeysOf(envelope) \cup KeysOf(f[i - 1]) THEN f[i - 1]
         ELSE Append(f[i - 1], incoming[i])
AddsFor(envelope, incoming, N, f) == f = [i \in 0 .. N |-> Adding(envelope, incoming, i, f)]

LEMMA AddedExists ==
    ASSUME NEW envelope, NEW incoming, NEW N \in Nat
    PROVE  \E f : AddsFor(envelope, incoming, N, f)
<1> DEFINE S == {n \in Nat : \E f : AddsFor(envelope, incoming, n, f)}
<1>1. 0 \in S
  <2> DEFINE f == [i \in 0 .. 0 |-> <<>>]
  <2>1. f = [i \in 0 .. 0 |-> Adding(envelope, incoming, i, f)]
    BY DEF Adding
  <2> QED BY <2>1 DEF AddsFor
<1>2. ASSUME NEW n \in Nat, n \in S PROVE n + 1 \in S
  <2>1. PICK f : AddsFor(envelope, incoming, n, f)
    BY <1>2
  <2> DEFINE g == [i \in 0 .. n + 1 |-> IF i = n + 1 THEN Adding(envelope, incoming, i, f) ELSE f[i]]
  <2>2. ASSUME NEW i \in 0 .. n + 1
        PROVE  g[i] = Adding(envelope, incoming, i, g)
    <3>1. CASE i = 0
      BY <2>1, <3>1 DEF Adding, AddsFor
    <3>2. CASE i # 0
      <4>1. g[i - 1] = f[i - 1] /\ i - 1 \in 0 .. n
        BY <3>2
      <4>2. g[i] = Adding(envelope, incoming, i, f)
        BY <2>1 DEF AddsFor
      <4> QED BY <3>2, <4>1, <4>2 DEF Adding
    <3> QED BY <3>1, <3>2
  <2>3. AddsFor(envelope, incoming, n + 1, g)
    BY <2>2 DEF AddsFor
  <2> QED BY <2>3
<1> HIDE DEF S
<1>3. N \in S
  BY <1>1, <1>2, Induction
<1> QED BY <1>3 DEF S

\* The signatures added after each of the incoming ones.
LEMMA AdditionsAre ==
    ASSUME NEW envelope, NEW T, NEW incoming \in Seq(T)
    PROVE  \E f : /\ AddsFor(envelope, incoming, Len(incoming), f)
                  /\ Additions(envelope, incoming) = f[Len(incoming)]
<1> DEFINE n == Len(incoming)
           Added(f) == f = [i \in 0 .. n |->
                                IF i = 0 THEN <<>>
                                ELSE IF incoming[i] \in KeysOf(envelope) \cup KeysOf(f[i - 1])
                                     THEN f[i - 1]
                                     ELSE Append(f[i - 1], incoming[i])]
           added == CHOOSE f : Added(f)
<1>1. n \in Nat
  OBVIOUS
<1>2. PICK g : AddsFor(envelope, incoming, n, g)
  BY <1>1, AddedExists
<1>3. Added(g)
  BY <1>2 DEF AddsFor, Adding
<1>4. Added(added)
  BY <1>3
<1>5. Additions(envelope, incoming) = added[n]
  BY DEF Additions
<1>6. AddsFor(envelope, incoming, n, added)
  BY <1>4 DEF AddsFor, Adding
<1> QED BY <1>5, <1>6

LEMMA KeysOfAppend ==
    ASSUME NEW T, NEW s \in Seq(T), NEW x \in T
    PROVE  KeysOf(Append(s, x)) = KeysOf(s) \cup {x}
<1> DEFINE t == Append(s, x)
<1>1. /\ DOMAIN s = 1 .. Len(s) /\ DOMAIN t = 1 .. Len(s) + 1 /\ Len(s) \in Nat
      /\ \A i \in 1 .. Len(s) : t[i] = s[i]
      /\ t[Len(s) + 1] = x
  OBVIOUS
<1> HIDE DEF t
<1>2. KeysOf(t) = KeysOf(s) \cup {x}
  BY <1>1 DEF KeysOf
<1> QED BY <1>2 DEF t

LEMMA KeysOfConcat ==
    ASSUME NEW T, NEW s \in Seq(T), NEW e \in Seq(T)
    PROVE  KeysOf(s \o e) = KeysOf(s) \cup KeysOf(e)
<1> DEFINE t == s \o e
           m == Len(s)
           n == Len(e)
<1>1. /\ DOMAIN s = 1 .. m /\ DOMAIN e = 1 .. n /\ DOMAIN t = 1 .. m + n
      /\ m \in Nat /\ n \in Nat
      /\ \A i \in 1 .. m + n : t[i] = IF i <= m THEN s[i] ELSE e[i - m]
  OBVIOUS
<1> HIDE DEF t, m, n
<1>2. KeysOf(t) \subseteq KeysOf(s) \cup KeysOf(e)
  BY <1>1 DEF KeysOf
<1>3. \A i \in 1 .. m : t[i] = s[i]
  BY <1>1
<1>4. \A i \in 1 .. n : m + i \in 1 .. m + n /\ t[m + i] = e[i]
  BY <1>1
<1>5. KeysOf(s) \subseteq KeysOf(t)
  BY <1>1, <1>3 DEF KeysOf
<1>6. KeysOf(e) \subseteq KeysOf(t)
  BY <1>1, <1>4 DEF KeysOf
<1>7. KeysOf(t) = KeysOf(s) \cup KeysOf(e)
  BY <1>2, <1>5, <1>6
<1> QED BY <1>7 DEF t

\* A merge keeps every signature and takes those of the incoming envelope.
LEMMA MergeCollects ==
    ASSUME NEW T, NEW envelope \in Seq(T), NEW incoming \in Seq(T)
    PROVE  /\ Additions(envelope, incoming) \in Seq(T)
           /\ Merged(envelope, incoming) \in Seq(T)
           /\ KeysOf(Merged(envelope, incoming)) = KeysOf(envelope) \cup KeysOf(incoming)
<1> DEFINE n == Len(incoming)
           upTo(i) == {incoming[k] : k \in 1 .. i}
           Collected(f, i) ==
               /\ f[i] \in Seq(T)
               /\ KeysOf(envelope) \cup KeysOf(f[i]) = KeysOf(envelope) \cup upTo(i)
<1>1. PICK f : /\ AddsFor(envelope, incoming, n, f)
               /\ Additions(envelope, incoming) = f[n]
  BY AdditionsAre
<1>2. n \in Nat /\ \A i \in 1 .. n : incoming[i] \in T
  OBVIOUS
<1>3. KeysOf(incoming) = upTo(n)
  BY DEF KeysOf
<1> HIDE DEF n
<1>4. \A i \in 0 .. n : f[i] = Adding(envelope, incoming, i, f)
  BY <1>1 DEF AddsFor
<1> DEFINE S == {i \in Nat : i <= n => Collected(f, i)}
<1>5. 0 \in S
  <2>1. f[0] = <<>>
    BY <1>2, <1>4 DEF Adding
  <2>2. KeysOf(<<>>) = {} /\ upTo(0) = {} /\ <<>> \in Seq(T)
    BY DEF KeysOf
  <2> QED BY <2>1, <2>2
<1>6. ASSUME NEW i \in Nat, i \in S PROVE i + 1 \in S
  <2> SUFFICES ASSUME i + 1 <= n PROVE Collected(f, i + 1)
    OBVIOUS
  <2>1. Collected(f, i)
    BY <1>2, <1>6
  <2>2. f[i + 1] = IF incoming[i + 1] \in KeysOf(envelope) \cup KeysOf(f[i]) THEN f[i]
                   ELSE Append(f[i], incoming[i + 1])
    <3>1. f[i + 1] = Adding(envelope, incoming, i + 1, f)
      BY <1>2, <1>4
    <3> QED BY <3>1 DEF Adding
  <2>3. incoming[i + 1] \in T
    BY <1>2
  <2>4. /\ KeysOf(Append(f[i], incoming[i + 1])) = KeysOf(f[i]) \cup {incoming[i + 1]}
        /\ Append(f[i], incoming[i + 1]) \in Seq(T)
    BY <2>1, <2>3, KeysOfAppend
  <2>5. upTo(i + 1) = upTo(i) \cup {incoming[i + 1]}
    OBVIOUS
  <2> HIDE DEF S, upTo
  <2> QED BY <2>1, <2>2, <2>4, <2>5
<1>7. Collected(f, n)
  <2>1. n \in S
    <3> HIDE DEF S
    <3> QED BY <1>2, <1>5, <1>6, Induction
  <2> QED BY <1>2, <2>1
<1>8. KeysOf(envelope \o f[n]) = KeysOf(envelope) \cup KeysOf(f[n])
  BY <1>7, KeysOfConcat
<1> HIDE DEF upTo
<1> QED BY <1>1, <1>3, <1>7, <1>8 DEF Merged

-----------------------------------------------------------------------------
(* What the weights of a longer envelope are. *)

Weighed(envelope, p, i, w) ==
    IF i = 0 THEN 0 ELSE w[i - 1] + effectiveWeight(p, envelope[i])
WeightsFor(envelope, p, N, w) == w = [i \in 0 .. N |-> Weighed(envelope, p, i, w)]

LEMMA WeightsExist ==
    ASSUME NEW envelope, NEW p, NEW N \in Nat
    PROVE  \E w : WeightsFor(envelope, p, N, w)
<1> DEFINE S == {n \in Nat : \E w : WeightsFor(envelope, p, n, w)}
<1>1. 0 \in S
  <2> DEFINE w == [i \in 0 .. 0 |-> 0]
  <2>1. w = [i \in 0 .. 0 |-> Weighed(envelope, p, i, w)]
    BY DEF Weighed
  <2> QED BY <2>1 DEF WeightsFor
<1>2. ASSUME NEW n \in Nat, n \in S PROVE n + 1 \in S
  <2>1. PICK w : WeightsFor(envelope, p, n, w)
    BY <1>2
  <2> DEFINE v == [i \in 0 .. n + 1 |-> IF i = n + 1 THEN Weighed(envelope, p, i, w) ELSE w[i]]
  <2>2. ASSUME NEW i \in 0 .. n + 1 PROVE v[i] = Weighed(envelope, p, i, v)
    <3>1. v[i] = Weighed(envelope, p, i, w)
      BY <2>1 DEF WeightsFor
    <3>2. CASE i = 0
      BY <3>1, <3>2 DEF Weighed
    <3>3. CASE i # 0
      <4>1. v[i - 1] = w[i - 1]
        BY <3>3
      <4> QED BY <3>1, <3>3, <4>1 DEF Weighed
    <3> QED BY <3>2, <3>3
  <2>3. WeightsFor(envelope, p, n + 1, v)
    BY <2>2 DEF WeightsFor
  <2> QED BY <2>3
<1> HIDE DEF S
<1>3. N \in S
  BY <1>1, <1>2, Induction
<1> QED BY <1>3 DEF S

LEMMA WeightsAre ==
    ASSUME NEW T, NEW envelope \in Seq(T), NEW p
    PROVE  \A i \in 0 .. Len(envelope) :
               MatchedWeight(envelope, p)[i] =
                   Weighed(envelope, p, i, MatchedWeight(envelope, p))
<1> DEFINE n == Len(envelope)
           Is(w) == w = [i \in 0 .. n |->
                             IF i = 0 THEN 0 ELSE w[i - 1] + effectiveWeight(p, envelope[i])]
           weights == CHOOSE w : Is(w)
<1>1. n \in Nat
  OBVIOUS
<1>2. PICK v : WeightsFor(envelope, p, n, v)
  BY <1>1, WeightsExist
<1>3. Is(v)
  BY <1>2 DEF WeightsFor, Weighed
<1>4. Is(weights)
  BY <1>3
<1>5. MatchedWeight(envelope, p) = weights
  BY DEF MatchedWeight
<1>6. WeightsFor(envelope, p, n, weights)
  BY <1>4 DEF WeightsFor, Weighed
<1> QED BY <1>5, <1>6 DEF WeightsFor

\* Signatures at the end leave the weights before them alone.
LEMMA WeightsStay ==
    ASSUME NEW T, NEW s \in Seq(T), NEW e \in Seq(T), NEW p
    PROVE  \A i \in 0 .. Len(s) : MatchedWeight(s \o e, p)[i] = MatchedWeight(s, p)[i]
<1> DEFINE t == s \o e
           m == Len(s)
           V == MatchedWeight(s, p)
           W == MatchedWeight(t, p)
           S == {i \in Nat : i <= m => W[i] = V[i]}
<1>1. /\ t \in Seq(T) /\ m \in Nat /\ m <= Len(t) /\ Len(t) \in Nat
      /\ \A i \in 1 .. m : t[i] = s[i]
  OBVIOUS
<1>2. \A i \in 0 .. m : V[i] = Weighed(s, p, i, V)
  BY WeightsAre
<1> HIDE DEF t
<1>3. \A i \in 0 .. Len(t) : W[i] = Weighed(t, p, i, W)
  BY <1>1, WeightsAre
<1> HIDE DEF m, V, W
<1>4. 0 \in S
  <2>1. V[0] = Weighed(s, p, 0, V) /\ W[0] = Weighed(t, p, 0, W)
    BY <1>1, <1>2, <1>3
  <2> QED BY <2>1 DEF Weighed
<1>5. ASSUME NEW i \in Nat, i \in S PROVE i + 1 \in S
  <2> SUFFICES ASSUME i + 1 <= m PROVE W[i + 1] = V[i + 1]
    OBVIOUS
  <2>1. W[i] = V[i] /\ t[i + 1] = s[i + 1]
    BY <1>1, <1>5
  <2>2. V[i + 1] = Weighed(s, p, i + 1, V) /\ W[i + 1] = Weighed(t, p, i + 1, W)
    BY <1>1, <1>2, <1>3
  <2>3. (i + 1) - 1 = i /\ i + 1 # 0
    OBVIOUS
  <2> HIDE DEF S
  <2> QED BY <2>1, <2>2, <2>3 DEF Weighed
<1> HIDE DEF S
<1>6. Nat \subseteq S
  BY <1>4, <1>5, Induction
<1> QED BY <1>1, <1>6 DEF S, V, W, t, m

\* An authorized envelope is complete: whatever a further envelope adds to it,
\* Core refuses the result.  This is why a contribution is validated in the
\* envelope it makes, and why an overlapping one can block a Request.
THEOREM AuthorizedTakesNoMore ==
    ASSUME NEW T, NEW envelope \in Seq(T), NEW incoming \in Seq(T), NEW p,
           Analysis(envelope, p) = "authorized", Additions(envelope, incoming) # <<>>
    PROVE  Analysis(Merged(envelope, incoming), p) \in {"unrecognized", "bad_auth_extra"}
<1> DEFINE e == Additions(envelope, incoming)
           t == envelope \o e
           m == Len(envelope)
<1>1. e \in Seq(T)
  BY MergeCollects
<1> HIDE DEF e
<1>2. /\ m \in Nat /\ DOMAIN envelope = 1 .. m
      /\ m + 1 \in DOMAIN t /\ 1 .. m \subseteq DOMAIN t
      /\ \A i \in 1 .. m : t[i] = envelope[i]
  BY <1>1 DEF e
<1>3. \A i \in 0 .. m : MatchedWeight(t, p)[i] = MatchedWeight(envelope, p)[i]
  BY <1>1, WeightsStay
<1> HIDE DEF t, m
<1> SUFFICES ASSUME \A i \in DOMAIN t : Recognized(p, t[i])
             PROVE  Analysis(t, p) = "bad_auth_extra"
  BY DEF Analysis, Merged, t, e
<1>4. \A needed \in Thresholds(p) : Satisfied(envelope, p, needed)
  BY DEF Analysis, innerOutcome
<1>5. ASSUME NEW needed \in Thresholds(p)
      PROVE  /\ Satisfied(t, p, needed)
             /\ m + 1 \notin UsedIndexes(t, p, needed)
  <2>1. PICK i \in 1 .. m : Suffices(envelope, p, needed, i)
    BY <1>2, <1>4 DEF Satisfied
  <2>2. Suffices(t, p, needed, i)
    BY <1>2, <1>3, <2>1 DEF Suffices
  <2>3. i \in DOMAIN t /\ i \in 1 .. (m + 1) - 1
    BY <1>2, <2>1
  <2> QED BY <2>2, <2>3 DEF Satisfied, UsedIndexes
<1>6. m + 1 \in Unused(t, p)
  BY <1>2, <1>5 DEF Unused
<1> QED BY <1>5, <1>6 DEF Analysis, innerOutcome

-----------------------------------------------------------------------------
(* The replay of contributions. *)

Replayed(base, f, n, m) ==
    IF n = 0 THEN base
    ELSE IF \E u \in Uploads : f[u] = n
         THEN Merged(m[n - 1], CHOOSE u \in Uploads : f[u] = n)
         ELSE m[n - 1]
ReplaysFor(base, f, N, m) == m = [n \in 0 .. N |-> Replayed(base, f, n, m)]

\* Replay, of any Request after any number of arrivals.
ReplayOf(base, f, N) ==
    LET m[n \in 0 .. N] ==
            IF n = 0 THEN base
            ELSE IF \E u \in Uploads : f[u] = n
                 THEN Merged(m[n - 1], CHOOSE u \in Uploads : f[u] = n)
                 ELSE m[n - 1]
    IN m

LEMMA ReplayExists ==
    ASSUME NEW base, NEW f, NEW N \in Nat
    PROVE  \E m : ReplaysFor(base, f, N, m)
<1> DEFINE S == {n \in Nat : \E m : ReplaysFor(base, f, n, m)}
<1>1. 0 \in S
  <2> DEFINE m == [n \in 0 .. 0 |-> base]
  <2>1. m = [n \in 0 .. 0 |-> Replayed(base, f, n, m)]
    BY DEF Replayed
  <2> QED BY <2>1 DEF ReplaysFor
<1>2. ASSUME NEW k \in Nat, k \in S PROVE k + 1 \in S
  <2>1. PICK m : ReplaysFor(base, f, k, m)
    BY <1>2
  <2> DEFINE g == [n \in 0 .. k + 1 |-> IF n = k + 1 THEN Replayed(base, f, n, m) ELSE m[n]]
  <2>2. ASSUME NEW n \in 0 .. k + 1 PROVE g[n] = Replayed(base, f, n, g)
    <3>1. g[n] = Replayed(base, f, n, m)
      BY <2>1 DEF ReplaysFor
    <3>2. CASE n = 0
      BY <3>1, <3>2 DEF Replayed
    <3>3. CASE n # 0
      <4>1. g[n - 1] = m[n - 1]
        BY <3>3
      <4> QED BY <3>1, <3>3, <4>1 DEF Replayed
    <3> QED BY <3>2, <3>3
  <2>3. ReplaysFor(base, f, k + 1, g)
    BY <2>2 DEF ReplaysFor
  <2> QED BY <2>3
<1> HIDE DEF S
<1>3. N \in S
  BY <1>1, <1>2, Induction
<1> QED BY <1>3 DEF S

LEMMA ReplayIs ==
    ASSUME NEW base, NEW f, NEW N \in Nat
    PROVE  \A n \in 0 .. N : ReplayOf(base, f, N)[n] = Replayed(base, f, n, ReplayOf(base, f, N))
<1> DEFINE Is(m) == m = [n \in 0 .. N |->
                             IF n = 0 THEN base
                             ELSE IF \E u \in Uploads : f[u] = n
                                  THEN Merged(m[n - 1], CHOOSE u \in Uploads : f[u] = n)
                                  ELSE m[n - 1]]
           replay == CHOOSE m : Is(m)
<1>1. PICK g : ReplaysFor(base, f, N, g)
  BY ReplayExists
<1>2. Is(g)
  BY <1>1 DEF ReplaysFor, Replayed
<1>3. Is(replay)
  BY <1>2
<1>4. ReplayOf(base, f, N) = replay
  BY DEF ReplayOf
<1>5. ReplaysFor(base, f, N, replay)
  BY <1>3 DEF ReplaysFor, Replayed
<1> QED BY <1>4, <1>5 DEF ReplaysFor

SameUpTo(f, g, K) == \A n \in 1 .. K : \A u \in Uploads : f[u] = n <=> g[u] = n

\* Two replays agree as long as their contributions do.
LEMMA ReplaysAgree ==
    ASSUME NEW base, NEW f, NEW g, NEW M \in Nat, NEW N \in Nat, NEW K \in Nat,
           K <= M, K <= N, SameUpTo(f, g, K)
    PROVE  \A n \in 0 .. K : ReplayOf(base, f, M)[n] = ReplayOf(base, g, N)[n]
<1> DEFINE F == ReplayOf(base, f, M)
           G == ReplayOf(base, g, N)
           S == {n \in Nat : n <= K => F[n] = G[n]}
<1>1. /\ \A n \in 0 .. M : F[n] = Replayed(base, f, n, F)
      /\ \A n \in 0 .. N : G[n] = Replayed(base, g, n, G)
  BY ReplayIs
<1> HIDE DEF F, G
<1>2. 0 \in S
  <2>1. F[0] = Replayed(base, f, 0, F) /\ G[0] = Replayed(base, g, 0, G)
    BY <1>1
  <2> QED BY <2>1 DEF Replayed
<1>3. ASSUME NEW n \in Nat, n \in S PROVE n + 1 \in S
  <2> SUFFICES ASSUME n + 1 <= K PROVE F[n + 1] = G[n + 1]
    OBVIOUS
  <2>1. F[n] = G[n]
    BY <1>3
  <2>2. /\ F[n + 1] = Replayed(base, f, n + 1, F)
        /\ G[n + 1] = Replayed(base, g, n + 1, G)
    BY <1>1
  <2>3. \A u \in Uploads : f[u] = n + 1 <=> g[u] = n + 1
    BY DEF SameUpTo
  <2>4. (CHOOSE u \in Uploads : f[u] = n + 1) = (CHOOSE u \in Uploads : g[u] = n + 1)
    BY <2>3, Zenon
  <2>5. (n + 1) - 1 = n /\ n + 1 # 0
    OBVIOUS
  <2> HIDE DEF S
  <2> QED BY <2>1, <2>2, <2>3, <2>4, <2>5 DEF Replayed
<1> HIDE DEF S
<1>4. Nat \subseteq S
  BY <1>2, <1>3, Induction
<1> QED BY <1>4 DEF S, F, G

\* Nothing happens to the envelope while nothing is contributed.
LEMMA ReplayRests ==
    ASSUME NEW base, NEW f, NEW N \in Nat, NEW K \in 0 .. N,
           \A u \in Uploads : f[u] \notin K + 1 .. N
    PROVE  \A n \in K .. N : ReplayOf(base, f, N)[n] = ReplayOf(base, f, N)[K]
<1> DEFINE F == ReplayOf(base, f, N)
           S == {n \in Nat : K <= n /\ n <= N => F[n] = F[K]}
<1>1. \A n \in 0 .. N : F[n] = Replayed(base, f, n, F)
  BY ReplayIs
<1> HIDE DEF F
<1>2. 0 \in S
  OBVIOUS
<1>3. ASSUME NEW n \in Nat, n \in S PROVE n + 1 \in S
  <2> SUFFICES ASSUME K <= n + 1, n + 1 <= N PROVE F[n + 1] = F[K]
    OBVIOUS
  <2>1. CASE n + 1 = K
    BY <2>1
  <2>2. CASE K <= n
    <3>1. F[n + 1] = Replayed(base, f, n + 1, F) /\ F[n] = F[K]
      BY <1>1, <1>3, <2>2
    <3>2. ~ \E u \in Uploads : f[u] = n + 1
      BY <2>2
    <3>3. (n + 1) - 1 = n /\ n + 1 # 0
      OBVIOUS
    <3> HIDE DEF S
    <3> QED BY <3>1, <3>2, <3>3 DEF Replayed
  <2> QED BY <2>1, <2>2
<1> HIDE DEF S
<1>4. Nat \subseteq S
  BY <1>2, <1>3, Induction
<1> QED BY <1>4 DEF S, F

\* Contribution v is added to those of f, under an instant k after theirs.
Added(f, g, v, k) ==
    /\ f[v] = 0 /\ g[v] = k
    /\ \A u \in Uploads : f[u] < k
    /\ \A u \in Uploads \ {v} : g[u] = f[u]

\* A contribution that is replayed after all others is merged into what they make.
LEMMA ReplayAdds ==
    ASSUME NEW base, NEW f \in [Uploads -> Nat], NEW v \in Uploads, NEW N \in Nat,
           NEW k \in 1 .. N, NEW g \in [Uploads -> Nat], Added(f, g, v, k)
    PROVE  /\ ReplayOf(base, f, N)[k - 1] = ReplayOf(base, f, N)[N]
           /\ \A n \in 0 .. k - 1 : ReplayOf(base, g, N)[n] = ReplayOf(base, f, N)[n]
           /\ ReplayOf(base, g, N)[N] = Merged(ReplayOf(base, f, N)[N], v)
<1> DEFINE F == ReplayOf(base, f, N)
           G == ReplayOf(base, g, N)
<1>1. g[v] = k /\ \A u \in Uploads \ {v} : g[u] = f[u]
  BY DEF Added
<1>2. F[N] = F[k - 1]
  <2>1. \A u \in Uploads : f[u] \notin (k - 1) + 1 .. N
    BY DEF Added
  <2> QED BY <2>1, ReplayRests
<1>3. \A u \in Uploads : g[u] \notin k + 1 .. N
  BY DEF Added
<1>4. G[N] = G[k]
  BY <1>3, ReplayRests
<1>5. SameUpTo(f, g, k - 1)
  BY DEF SameUpTo, Added
<1>6. \A n \in 0 .. k - 1 : G[n] = F[n]
  <2>1. PICK K \in Nat : K = k - 1
    OBVIOUS
  <2>2. K <= N /\ SameUpTo(f, g, K)
    BY <1>5, <2>1
  <2> HIDE DEF F, G
  <2>3. \A n \in 0 .. K : ReplayOf(base, f, N)[n] = ReplayOf(base, g, N)[n]
    BY <2>2, ReplaysAgree
  <2> QED BY <2>1, <2>3 DEF F, G
<1>7. G[k] = Replayed(base, g, k, G)
  BY ReplayIs
<1>8. (CHOOSE u \in Uploads : g[u] = k) = v
  BY <1>1
<1> HIDE DEF F, G
<1>9. G[k] = Merged(G[k - 1], v)
  <2>1. k # 0 /\ \E u \in Uploads : g[u] = k
    BY <1>1
  <2> QED BY <1>7, <1>8, <2>1 DEF Replayed
<1>10. G[k - 1] = F[k - 1]
  BY <1>6
<1>11. F[k - 1] = F[N] /\ (\A n \in 0 .. k - 1 : G[n] = F[n]) /\ G[N] = Merged(F[N], v)
  BY <1>2, <1>4, <1>6, <1>9, <1>10
<1> QED BY <1>11 DEF F, G

Dated(f) == \A u, v \in Uploads : f[u] # 0 /\ f[u] = f[v] => u = v

\* Whoever signed a contribution has signed every later envelope.
LEMMA ReplayCollects ==
    ASSUME NEW T, NEW base \in Seq(T), Uploads \subseteq Seq(T),
           NEW f \in [Uploads -> Nat], Dated(f), NEW N \in Nat
    PROVE  \A n \in 0 .. N :
               /\ ReplayOf(base, f, N)[n] \in Seq(T)
               /\ \A u \in Uploads :
                      f[u] \in 1 .. n => KeysOf(u) \subseteq KeysOf(ReplayOf(base, f, N)[n])
<1> DEFINE F == ReplayOf(base, f, N)
           Collected(n) ==
               /\ F[n] \in Seq(T)
               /\ \A u \in Uploads : f[u] \in 1 .. n => KeysOf(u) \subseteq KeysOf(F[n])
           S == {n \in Nat : n <= N => Collected(n)}
<1>1. \A n \in 0 .. N : F[n] = Replayed(base, f, n, F)
  BY ReplayIs
<1> HIDE DEF F
<1>2. 0 \in S
  <2>1. F[0] = base
    <3>1. F[0] = Replayed(base, f, 0, F)
      BY <1>1
    <3> QED BY <3>1 DEF Replayed
  <2> QED BY <2>1
<1>3. ASSUME NEW n \in Nat, n \in S PROVE n + 1 \in S
  <2> SUFFICES ASSUME n + 1 <= N PROVE Collected(n + 1)
    OBVIOUS
  <2>1. Collected(n)
    BY <1>3
  <2>2. F[n + 1] = IF \E u \in Uploads : f[u] = n + 1
                   THEN Merged(F[n], CHOOSE u \in Uploads : f[u] = n + 1)
                   ELSE F[n]
    <3>1. F[n + 1] = Replayed(base, f, n + 1, F) /\ (n + 1) - 1 = n /\ n + 1 # 0
      BY <1>1
    <3> QED BY <3>1 DEF Replayed
  <2>3. CASE \E u \in Uploads : f[u] = n + 1
    <3>1. PICK w \in Uploads : f[w] = n + 1
      BY <2>3
    <3>2. \A u \in Uploads : f[u] = n + 1 => u = w
      BY <3>1 DEF Dated
    <3>3. F[n + 1] = Merged(F[n], w)
      BY <2>2, <3>1, <3>2
    <3>4. /\ F[n + 1] \in Seq(T)
          /\ KeysOf(F[n + 1]) = KeysOf(F[n]) \cup KeysOf(w)
      BY <2>1, <3>3, MergeCollects
    <3>5. ASSUME NEW u \in Uploads, f[u] \in 1 .. n + 1
          PROVE  KeysOf(u) \subseteq KeysOf(F[n + 1])
      <4>1. f[u] \in 1 .. n \/ f[u] = n + 1
        BY <3>5
      <4> HIDE DEF S
      <4> QED BY <2>1, <3>2, <3>4, <4>1
    <3> QED BY <3>4, <3>5
  <2>4. CASE ~ \E u \in Uploads : f[u] = n + 1
    <3>1. \A u \in Uploads : f[u] \in 1 .. n + 1 => f[u] \in 1 .. n
      BY <2>4
    <3> HIDE DEF S
    <3> QED BY <2>1, <2>2, <2>4, <3>1
  <2> QED BY <2>3, <2>4
<1> HIDE DEF S
<1>4. Nat \subseteq S
  BY <1>2, <1>3, Induction
<1> QED BY <1>4 DEF S, F

-----------------------------------------------------------------------------
(* What a call knows of the contributions. *)

Extends(g, f) == \A u \in Uploads : f[u] # 0 => g[u] = f[u]
Contributing == {"list", "validate", "put"}
Fit == {"missing", "authorized"}

\* What call j has read is still stored, what it is about to add still merges
\* and, while the policy stands, still gives an envelope Core takes.
CallKeeps(j) ==
    /\ Extends(received, j.before) /\ Extends(received, j.seen)
    /\ j.step \in {"list", "facts"} \/ Extends(j.seen, j.before)
    /\ j.step \in Contributing =>
           /\ j.at \in 1 .. arrivals /\ j.upload \in Uploads
           /\ \A u \in Uploads : j.before[u] < j.at /\ received[u] # j.at
    /\ j.step \in {"validate", "put"} => Mergeable(mergedXdr(j.seen), j.upload)
    /\ j.step = "put" /\ policyChanges = 0 =>
           Analysis(Merged(mergedXdr(j.seen), j.upload), policy) \in Fit
    /\ j.step = "decline" => ~SignedIn(j.before, j.signer)

\* Every contribution, stored or under way, has an instant of its own.
ReplayInv ==
    /\ IInv
    /\ \A u \in Uploads : received[u] <= arrivals
    /\ Dated(received)
    /\ \A c, d \in Calls :
           c # d /\ job[c].step \in Contributing /\ job[d].step \in Contributing
               => job[c].at # job[d].at
    /\ \A c \in Calls : CallKeeps(job[c])
    /\ BlockedNeedsAnOverlap

Blank(k) ==
    /\ k.before = Nothing /\ k.seen = Nothing
    /\ k.step \notin Contributing \cup {"decline"}

LEMMA BlankKeeps ==
    ASSUME NEW k, Blank(k)
    PROVE  CallKeeps(k) /\ CallKeeps(k)'
BY DEF Blank, CallKeeps, Extends, Nothing, Contributing

LEMMA AnsweredIsBlank ==
    ASSUME NEW j, NEW s
    PROVE  /\ Blank(Answered(j, s)) /\ Blank(Unanswered(j)) /\ Blank(Idle)
           /\ \A step \in {"lookup", "persist", "waiting", "recheck"} : Blank(Asking(j, step, s))
BY DEF Blank, Answered, Unanswered, Asking, Idle, Contributing

\* An envelope does not change by what starts later.
LEMMA ReplayOfRequest ==
    /\ \A f : Replay(f) = ReplayOf(request.base, f, arrivals)
    /\ \A f : mergedXdr(f) = ReplayOf(request.base, f, arrivals)[arrivals]
    /\ \A f : Replay(f)' = ReplayOf(request'.base, f, arrivals')
    /\ \A f : mergedXdr(f)' = ReplayOf(request'.base, f, arrivals')[arrivals']
BY DEF Replay, mergedXdr, ReplayOf

LEMMA EnvelopesStay ==
    ASSUME arrivals \in Nat, arrivals' \in {arrivals, arrivals + 1}, request' = request,
           NEW f \in [Uploads -> Nat], \A u \in Uploads : f[u] <= arrivals
    PROVE  /\ mergedXdr(f)' = mergedXdr(f)
           /\ \A n \in 0 .. arrivals : Replay(f)'[n] = Replay(f)[n]
<1> DEFINE base == request.base
           M == arrivals
           N == arrivals'
<1>1. M \in Nat /\ N \in Nat /\ M <= N
  OBVIOUS
<1>2. SameUpTo(f, f, M)
  BY DEF SameUpTo
<1> HIDE DEF M, N, base
<1>3. \A n \in 0 .. M : ReplayOf(base, f, M)[n] = ReplayOf(base, f, N)[n]
  BY <1>1, <1>2, ReplaysAgree
<1>4. \A u \in Uploads : f[u] \notin M + 1 .. N
  BY <1>1 DEF M
<1>5. M \in 0 .. N /\ N \in M .. N
  BY <1>1
<1>6. ReplayOf(base, f, N)[N] = ReplayOf(base, f, N)[M]
  BY <1>1, <1>4, <1>5, ReplayRests
<1>7. ReplayOf(base, f, N)[N] = ReplayOf(base, f, M)[M]
  BY <1>1, <1>3, <1>6
<1> QED BY <1>3, <1>7, ReplayOfRequest DEF M, N, base

LEMMA ExtendsDated ==
    ASSUME IInv, \A u \in Uploads : received[u] <= arrivals, Dated(received),
           NEW f \in [Uploads -> Nat], Extends(received, f)
    PROVE  Dated(f) /\ \A u \in Uploads : f[u] <= arrivals
<1>1. arrivals \in Nat
  BY SigningAssumption DEF IInv, TypeOK
<1> QED BY <1>1 DEF Extends, Dated

LEMMA Growth ==
    ASSUME IInv, [Next]_vars
    PROVE  /\ arrivals \in Nat /\ arrivals' \in {arrivals, arrivals + 1}
           /\ request' = request
           /\ policyChanges' = 0 => policyChanges = 0 /\ policy' = policy
           /\ ~overlapped' => ~overlapped
           /\ UNCHANGED received \/ \E c \in Calls : Put(c)
<1>1. request' = request
  BY Onwards
<1>2. arrivals \in Nat /\ policyChanges \in Nat
  BY SigningAssumption DEF IInv, TypeOK
<1>3. arrivals' \in {arrivals, arrivals + 1}
  BY DEF Next, Step, vars, Quiet, bounds, StartRead, StartSubmit, StartDecline,
         StartContribute, List, Validate, Put, Facts, ReadPolicy, ReadLedger, Lookup,
         Preflight, Post, Wait, Recheck, persistConfirmedSubmission, RecordDecline,
         Return, Stop, Tick, CloseLedger, ChangePolicy
<1>4. policyChanges' = policyChanges + 1 \/ UNCHANGED <<policy, policyChanges>>
  BY DEF Next, Step, vars, Quiet, chain, bounds, StartRead, StartSubmit, StartDecline,
         StartContribute, List, Validate, Put, Facts, ReadPolicy, ReadLedger, Lookup,
         Preflight, Post, Wait, Recheck, persistConfirmedSubmission, RecordDecline,
         Return, Stop, Tick, CloseLedger, ChangePolicy
<1>5. ~overlapped' => ~overlapped
  BY DEF Next, Step, vars, Quiet, StartRead, StartSubmit, StartDecline,
         StartContribute, List, Validate, Put, Facts, ReadPolicy, ReadLedger, Lookup,
         Preflight, Post, Wait, Recheck, persistConfirmedSubmission, RecordDecline,
         Return, Stop, Tick, CloseLedger, ChangePolicy
<1>6. UNCHANGED received \/ \E c \in Calls : Put(c)
  BY DEF Next, Step, vars, store, Quiet, StartRead, StartSubmit, StartDecline,
         StartContribute, List, Validate, Facts, ReadPolicy, ReadLedger, Lookup, Preflight,
         Post, Wait, Recheck, persistConfirmedSubmission, RecordDecline, Return, Stop, Tick,
         CloseLedger, ChangePolicy
<1> QED BY <1>1, <1>2, <1>3, <1>4, <1>5, <1>6

\* What a call knows stays true while the Request moves on.
LEMMA KeepsOn ==
    ASSUME ReplayInv, [Next]_vars, NEW j \in Job, CallKeeps(j),
           received' \in [Uploads -> Nat], Extends(received', received),
           j.step \in Contributing => \A u \in Uploads : received'[u] # j.at
    PROVE  CallKeeps(j)'
<1>1. /\ arrivals \in Nat /\ arrivals' \in {arrivals, arrivals + 1}
      /\ request' = request
      /\ policyChanges' = 0 => policyChanges = 0 /\ policy' = policy
  BY Growth DEF ReplayInv
<1>2. /\ j.before \in [Uploads -> Nat] /\ j.seen \in [Uploads -> Nat] /\ j.at \in Nat
      /\ received \in [Uploads -> Nat]
  BY DEF Job, ReplayInv, IInv, TypeOK
<1>3. Extends(received, j.before) /\ Extends(received, j.seen)
  BY DEF CallKeeps
<1>4. Extends(received', j.before) /\ Extends(received', j.seen)
  BY <1>2, <1>3 DEF Extends
<1>5. \A u \in Uploads : j.seen[u] <= arrivals
  BY <1>2, <1>3, ExtendsDated DEF ReplayInv
<1>6. mergedXdr(j.seen)' = mergedXdr(j.seen)
  <2>1. PICK f \in [Uploads -> Nat] : f = j.seen
    BY <1>2
  <2>2. mergedXdr(f)' = mergedXdr(f)
    BY <1>1, <1>5, <2>1, EnvelopesStay
  <2> QED BY <2>1, <2>2
<1>7. SignedIn(j.before, j.signer)' <=> SignedIn(j.before, j.signer)
  BY <1>1 DEF SignedIn
<1>8. j.step \in Contributing =>
          /\ j.at \in 1 .. arrivals' /\ j.upload \in Uploads
          /\ \A u \in Uploads : j.before[u] < j.at /\ received'[u] # j.at
  BY <1>1, <1>2 DEF CallKeeps
<1>9. j.step \in {"list", "facts"} \/ Extends(j.seen, j.before)
  BY DEF CallKeeps
<1>10. j.step \in {"validate", "put"} => Mergeable(mergedXdr(j.seen), j.upload)'
  BY <1>6 DEF CallKeeps, Mergeable
<1>11. j.step = "put" /\ policyChanges' = 0 =>
           Analysis(Merged(mergedXdr(j.seen)', j.upload), policy') \in Fit
  BY <1>1, <1>6 DEF CallKeeps
<1>12. j.step = "decline" => ~SignedIn(j.before, j.signer)'
  BY <1>7 DEF CallKeeps
<1> QED BY <1>4, <1>8, <1>9, <1>10, <1>11, <1>12 DEF CallKeeps

Moves(c) ==
    \E k : /\ job' = [job EXCEPT ![c] = k] /\ CallKeeps(k)'
           /\ k.step \in Contributing =>
                  \/ job[c].step \in Contributing /\ k.at = job[c].at
                  \/ k.at = arrivals + 1

LEMMA BlankMoves ==
    ASSUME NEW c \in Calls, NEW k, job' = [job EXCEPT ![c] = k], Blank(k)
    PROVE  Moves(c)
BY BlankKeeps DEF Moves, Blank

\* A call that learns something, while nothing else happens.
LEMMA LearnedMoves ==
    ASSUME ReplayInv, [Next]_vars, NEW c \in Calls, NEW k \in Job,
           job' = [job EXCEPT ![c] = k], CallKeeps(k), UNCHANGED received,
           k.step \in Contributing => job[c].step \in Contributing /\ k.at = job[c].at
    PROVE  Moves(c)
<1>1. /\ received \in [Uploads -> Nat] /\ Extends(received, received)
      /\ k.step \in Contributing => \A u \in Uploads : received[u] # k.at
  BY DEF ReplayInv, IInv, TypeOK, Extends, CallKeeps
<1>2. CallKeeps(k)'
  <2>1. received' = received
    OBVIOUS
  <2> QED BY <1>1, <2>1, KeepsOn
<1> QED BY <1>2 DEF Moves

LEMMA StartMoves ==
    ASSUME ReplayInv, [Next]_vars, NEW c \in Calls,
           \/ StartRead(c) \/ StartSubmit(c)
           \/ \E signer \in Signers : StartDecline(c, signer)
           \/ \E upload \in Uploads : StartContribute(c, upload)
    PROVE  Moves(c)
<1>1. /\ received \in [Uploads -> Nat] /\ arrivals \in Nat
      /\ \A u \in Uploads : received[u] <= arrivals
  BY Growth DEF ReplayInv, IInv, TypeOK
<1>2. \A op, step : /\ Started(op, step).seen = Nothing /\ Started(op, step).step = step
                    /\ Started(op, step).before =
                           IF op \in {"contribute", "decline"} THEN received ELSE Nothing
  <2> HIDE DEF requestExpired, Nothing, NoAccount
  <2> QED BY DEF Started, Idle
<1>3. CASE StartRead(c)
  <2>1. Blank(Started("read", "facts"))
    BY <1>2 DEF Blank, Contributing
  <2> QED BY <1>3, <2>1, BlankMoves DEF StartRead
<1>4. CASE StartSubmit(c)
  <2>1. Blank(Started("submit", "facts"))
    BY <1>2 DEF Blank, Contributing
  <2> QED BY <1>4, <2>1, BlankMoves DEF StartSubmit
<1>5. ASSUME NEW signer \in Signers, StartDecline(c, signer) PROVE Moves(c)
  <2> DEFINE i == Started("decline", "facts")
  <2>0. PICK k : k = [i EXCEPT !.signer = signer]
    OBVIOUS
  <2>1. job' = [job EXCEPT ![c] = k] /\ received' = received
    BY <1>5, <2>0 DEF StartDecline, store
  <2>2. i \in Job /\ i.step = "facts" /\ i.before = received /\ i.seen = Nothing
    BY <1>2, StartedFields DEF ReplayInv, IInv
  <2> HIDE DEF i
  <2>3. k.step = "facts" /\ k.before = received /\ k.seen = Nothing
    BY <2>0, <2>2 DEF Job
  <2>4. CallKeeps(k)'
    BY <2>1, <2>3 DEF CallKeeps, Extends, Nothing, Contributing
  <2> QED BY <2>1, <2>3, <2>4 DEF Moves, Contributing
<1>6. ASSUME NEW upload \in Uploads, StartContribute(c, upload) PROVE Moves(c)
  <2> DEFINE i == Started("contribute", "list")
  <2>0. PICK k : k = [i EXCEPT !.upload = upload, !.at = arrivals + 1]
    OBVIOUS
  <2>1. /\ job' = [job EXCEPT ![c] = k] /\ received' = received
        /\ arrivals' = arrivals + 1
    BY <1>6, <2>0 DEF StartContribute, store
  <2>2. i \in Job /\ i.step = "list" /\ i.before = received /\ i.seen = Nothing
    BY <1>2, StartedFields DEF ReplayInv, IInv
  <2> HIDE DEF i
  <2>3. /\ k.step = "list" /\ k.before = received /\ k.seen = Nothing
        /\ k.upload = upload /\ k.at = arrivals + 1
    BY <2>0, <2>2 DEF Job
  <2>4. \A u \in Uploads : received[u] < arrivals + 1 /\ received[u] # arrivals + 1
    BY <1>1
  <2>5. k.at \in 1 .. arrivals'
    BY <1>1, <2>1, <2>3
  <2>6. CallKeeps(k)'
    BY <2>1, <2>3, <2>4, <2>5 DEF CallKeeps, Extends, Nothing, Contributing
  <2> QED BY <2>1, <2>3, <2>6 DEF Moves
<1> QED BY <1>3, <1>4, <1>5, <1>6

LEMMA ListMoves == ASSUME ReplayInv, [Next]_vars, NEW c \in Calls, List(c) PROVE Moves(c)
<1> DEFINE j == job[c]
           current == mergedXdr(received)
           shut == submission \/ ~Readable(received) \/ ~Mergeable(current, j.upload)
           known == Additions(current, j.upload) = <<>>
           repeat == [Idle EXCEPT !.op = "repeat", !.step = "policy", !.seen = received]
           on == [j EXCEPT !.step = "validate", !.seen = received]
<1>1. /\ j.step = "list" /\ j \in Job /\ CallKeeps(j)
      /\ received \in [Uploads -> Nat] /\ UNCHANGED received
  BY DEF List, ReplayInv, IInv, TypeOK, store
<1>2. job' = [job EXCEPT ![c] = IF shut THEN Answered(j, "none")
                               ELSE IF known THEN repeat ELSE on]
  BY DEF List, ReplayInv, IInv, TypeOK
<1>3. CASE shut
  BY <1>2, <1>3, AnsweredIsBlank, BlankMoves
<1>4. CASE ~shut /\ known
  <2>1. repeat \in Job /\ repeat.step = "policy" /\ repeat.seen = received
        /\ repeat.before = Nothing
    BY <1>1, IdleType DEF Job, Idle
  <2> HIDE DEF repeat, current
  <2>2. CallKeeps(repeat)
    BY <2>1 DEF CallKeeps, Extends, Nothing, Contributing
  <2>3. job' = [job EXCEPT ![c] = repeat]
    BY <1>2, <1>4
  <2> QED BY <1>1, <2>1, <2>2, <2>3, LearnedMoves DEF Contributing
<1>5. CASE ~shut /\ ~known
  <2>1. /\ on \in Job /\ on.step = "validate" /\ on.seen = received /\ on.before = j.before
        /\ on.at = j.at /\ on.upload = j.upload
    BY <1>1 DEF Job
  <2>2. job' = [job EXCEPT ![c] = on]
    BY <1>2, <1>5
  <2>3. Mergeable(current, j.upload)
    BY <1>5
  <2> HIDE DEF on, shut, known, j
  <2>4. CallKeeps(on)
    BY <1>1, <2>1, <2>3 DEF CallKeeps, Extends, Contributing
  <2> QED BY <1>1, <2>1, <2>2, <2>4, LearnedMoves DEF Contributing, j
<1> QED BY <1>3, <1>4, <1>5

LEMMA ValidateMoves == ASSUME ReplayInv, [Next]_vars, NEW c \in Calls, Validate(c) PROVE Moves(c)
<1> DEFINE j == job[c]
           on == [j EXCEPT !.step = "put"]
<1>1. /\ j.step = "validate" /\ j \in Job /\ CallKeeps(j) /\ UNCHANGED received
  BY DEF Validate, ReplayInv, IInv, TypeOK, store
<1>2. job' = [job EXCEPT ![c] = IF validateStoredEnvelope(j) THEN on ELSE Answered(j, "none")]
  BY DEF Validate, ReplayInv, IInv, TypeOK
<1>3. CASE ~validateStoredEnvelope(j)
  BY <1>2, <1>3, AnsweredIsBlank, BlankMoves
<1>4. CASE validateStoredEnvelope(j)
  <2>1. /\ on \in Job /\ on.step = "put" /\ on.seen = j.seen /\ on.before = j.before
        /\ on.at = j.at /\ on.upload = j.upload
    BY <1>1 DEF Job
  <2>2. Analysis(Merged(mergedXdr(j.seen), j.upload), policy) \in Fit
    BY <1>4, AnalysisType DEF validateStoredEnvelope, Fit
  <2>3. job' = [job EXCEPT ![c] = on]
    BY <1>2, <1>4
  <2> HIDE DEF on, j
  <2>4. CallKeeps(on)
    BY <1>1, <2>1, <2>2 DEF CallKeeps, Extends, Contributing
  <2> QED BY <1>1, <2>1, <2>3, <2>4, LearnedMoves DEF Contributing, j
<1> QED BY <1>3, <1>4

LEMMA PutMoves == ASSUME ReplayInv, [Next]_vars, NEW c \in Calls, Put(c) PROVE Moves(c)
<1> DEFINE k == [Idle EXCEPT !.op = "contribute", !.step = "facts"]
<1>1. job' = [job EXCEPT ![c] = k]
  BY DEF Put
<1>2. Blank(k)
  BY DEF Blank, Idle, Contributing
<1> QED BY <1>1, <1>2, BlankMoves

\* Whoever may decline has not signed what was stored when the call began.
LEMMA ConcludedKeeps ==
    ASSUME ReplayInv, NEW j \in Job, NEW s \in Statuses, Extends(received, j.before),
           Extends(received, j.seen), Extends(j.seen, j.before)
    PROVE  LET k == Concluded(j, s) IN CallKeeps(k) /\ k.step \notin Contributing
<1>1. CASE s \in Doubtful /\ j.op \notin {"submit", "repeat"}
  <2>1. Concluded(j, s) = Asking(j, "lookup", s)
    BY <1>1 DEF Concluded, Doubtful
  <2> QED BY <2>1, AnsweredIsBlank, BlankKeeps DEF Blank
<1>2. CASE j.op = "submit" /\ s = "ready"
  <2> DEFINE k == [j EXCEPT !.step = "post", !.status = s]
  <2>1. Concluded(j, s) = k
    BY <1>2 DEF Concluded, Doubtful
  <2>2. k.step = "post" /\ k.before = j.before /\ k.seen = j.seen
    BY DEF Job
  <2> HIDE DEF k
  <2>3. CallKeeps(k) /\ k.step \notin Contributing
    BY <2>2 DEF CallKeeps, Contributing
  <2> QED BY <2>1, <2>3
<1>3. CASE /\ j.op = "decline" /\ s = "awaiting_signatures"
           /\ j.signer \notin KeysOf(mergedXdr(j.seen))
  <2> DEFINE k == [j EXCEPT !.step = "decline", !.status = s]
  <2>1. Concluded(j, s) = k
    BY <1>3 DEF Concluded, Doubtful
  <2>2. k.step = "decline" /\ k.before = j.before /\ k.seen = j.seen /\ k.signer = j.signer
    BY DEF Job
  <2>3. ~SignedIn(j.before, j.signer)
    <3> SUFFICES ASSUME NEW u \in Uploads, j.before[u] # 0, j.signer \in KeysOf(u)
                 PROVE  FALSE
      BY DEF SignedIn
    <3>1. /\ arrivals \in Nat /\ j.seen \in [Uploads -> Nat]
          /\ request.base \in Seq(Signers) /\ Uploads \subseteq Seq(Signers)
      BY SigningAssumption DEF ReplayInv, IInv, TypeOK, Job
    <3>2. Dated(j.seen) /\ \A v \in Uploads : j.seen[v] <= arrivals
      BY <3>1, ExtendsDated DEF ReplayInv
    <3>3. j.seen[u] \in 1 .. arrivals
      BY <3>1, <3>2 DEF Extends
    <3>4. KeysOf(u) \subseteq KeysOf(ReplayOf(request.base, j.seen, arrivals)[arrivals])
      <4>1. arrivals \in 0 .. arrivals
        BY <3>1
      <4>2. \A n \in 0 .. arrivals : \A v \in Uploads :
                j.seen[v] \in 1 .. n =>
                    KeysOf(v) \subseteq KeysOf(ReplayOf(request.base, j.seen, arrivals)[n])
        BY <3>1, <3>2, ReplayCollects
      <4> QED BY <3>3, <4>1, <4>2
    <3> QED BY <1>3, <3>4, ReplayOfRequest
  <2> HIDE DEF k
  <2>4. CallKeeps(k) /\ k.step \notin Contributing
    BY <2>2, <2>3 DEF CallKeeps, Contributing
  <2> QED BY <2>1, <2>4
<1>4. CASE /\ ~(s \in Doubtful /\ j.op \notin {"submit", "repeat"})
           /\ ~(j.op = "submit" /\ s = "ready")
           /\ ~(/\ j.op = "decline" /\ s = "awaiting_signatures"
                /\ j.signer \notin KeysOf(mergedXdr(j.seen)))
  <2>1. Concluded(j, s) = Answered(j, s)
    BY <1>4 DEF Concluded
  <2> QED BY <2>1, AnsweredIsBlank, BlankKeeps DEF Blank
<1> QED BY <1>1, <1>2, <1>3, <1>4

\* The steps that conclude from what a call has read.
LEMMA ConcludedMoves ==
    ASSUME ReplayInv, [Next]_vars, NEW c \in Calls, NEW j \in Job, NEW s \in Statuses,
           UNCHANGED received, job' = [job EXCEPT ![c] = Concluded(j, s)],
           Extends(received, j.before), Extends(received, j.seen), Extends(j.seen, j.before)
    PROVE  Moves(c)
<1> DEFINE k == Concluded(j, s)
<1>1. k \in Job
  BY ConcludedFields
<1>2. CallKeeps(k) /\ k.step \notin Contributing
  BY ConcludedKeeps
<1>3. job' = [job EXCEPT ![c] = k]
  OBVIOUS
<1> HIDE DEF k
<1> QED BY <1>1, <1>2, <1>3, LearnedMoves

LEMMA FactsMoves == ASSUME ReplayInv, [Next]_vars, NEW c \in Calls, Facts(c) PROVE Moves(c)
<1> DEFINE j == job[c]
           s == FirstStatus(j)
           asks == [j EXCEPT !.seen = received, !.step = "preflight"]
           on == [j EXCEPT !.seen = received, !.step = "policy"]
           read == [j EXCEPT !.seen = received]
<1>1. /\ j.step = "facts" /\ j \in Job /\ CallKeeps(j)
      /\ received \in [Uploads -> Nat] /\ UNCHANGED received
  BY DEF Facts, ReplayInv, IInv, TypeOK, store
<1>2. /\ Extends(received, j.before) /\ Extends(received, received)
      /\ s \in Statuses
  BY <1>1, FirstStatusType DEF CallKeeps, Extends, Statuses
<1>3. \/ job' = [job EXCEPT ![c] = asks]
      \/ job' = [job EXCEPT ![c] = on]
      \/ job' = [job EXCEPT ![c] = Concluded(read, s)]
  BY DEF Facts, ReplayInv, IInv, TypeOK
<1> HIDE DEF j, s
<1>4. /\ asks \in Job /\ asks.step = "preflight" /\ asks.seen = received
      /\ asks.before = j.before
      /\ on \in Job /\ on.step = "policy" /\ on.seen = received /\ on.before = j.before
      /\ read \in Job /\ read.seen = received /\ read.before = j.before
  BY <1>1 DEF Job
<1> HIDE DEF asks, on, read
<1>5. CallKeeps(asks) /\ CallKeeps(on)
  BY <1>2, <1>4 DEF CallKeeps, Contributing
<1>6. CASE job' = [job EXCEPT ![c] = asks]
  BY <1>1, <1>4, <1>5, <1>6, LearnedMoves DEF Contributing
<1>7. CASE job' = [job EXCEPT ![c] = on]
  BY <1>1, <1>4, <1>5, <1>7, LearnedMoves DEF Contributing
<1>8. CASE job' = [job EXCEPT ![c] = Concluded(read, s)]
  BY <1>1, <1>2, <1>4, <1>8, ConcludedMoves
<1> QED BY <1>3, <1>6, <1>7, <1>8

LEMMA ReadPolicyMoves ==
    ASSUME ReplayInv, [Next]_vars, NEW c \in Calls, ReadPolicy(c) PROVE Moves(c)
<1> DEFINE outcome == Analysis(mergedXdr(job[c].seen), policy)
           j == [job[c] EXCEPT !.outcome = outcome, !.account = account]
           on == [j EXCEPT !.step = "context"]
<1>1. /\ job[c].step = "policy" /\ job[c] \in Job /\ CallKeeps(job[c])
      /\ account \in Account /\ UNCHANGED received
  BY DEF ReadPolicy, ReplayInv, IInv, TypeOK, store
<1>2. outcome \in {"unrecognized", "missing", "bad_auth_extra", "authorized"}
  BY AnalysisType
<1>3. \/ outcome \in {"unrecognized", "bad_auth_extra"}
             /\ job' = [job EXCEPT ![c] = Concluded(j, outcome)]
      \/ job' = [job EXCEPT ![c] = on]
      \/ job' = [job EXCEPT ![c] = Concluded(j, LastStatus(j, TRUE))]
  BY DEF ReadPolicy, ReplayInv, IInv, TypeOK
<1> HIDE DEF outcome
<1>4. /\ j \in Job /\ j.step = "policy" /\ j.seen = job[c].seen /\ j.before = job[c].before
      /\ j.account = account
  BY <1>1, <1>2 DEF Job
<1> HIDE DEF j
<1>5. on \in Job /\ on.step = "context" /\ on.seen = job[c].seen /\ on.before = job[c].before
  BY <1>4 DEF Job
<1> HIDE DEF on
<1>6. Extends(received, j.before) /\ Extends(received, j.seen) /\ Extends(j.seen, j.before)
  BY <1>1, <1>4 DEF CallKeeps
<1>7. CallKeeps(on)
  BY <1>4, <1>5, <1>6 DEF CallKeeps, Contributing
<1>8. CASE outcome \in {"unrecognized", "bad_auth_extra"}
             /\ job' = [job EXCEPT ![c] = Concluded(j, outcome)]
  <2>1. outcome \in Statuses
    BY <1>8 DEF Statuses
  <2> QED BY <1>1, <1>4, <1>6, <1>8, <2>1, ConcludedMoves
<1>9. CASE job' = [job EXCEPT ![c] = on]
  BY <1>1, <1>5, <1>7, <1>9, LearnedMoves DEF Contributing
<1>10. CASE job' = [job EXCEPT ![c] = Concluded(j, LastStatus(j, TRUE))]
  <2>1. j.account.sequence <= account.sequence
    BY <1>1, <1>4 DEF Account
  <2>2. LastStatus(j, TRUE) \in Statuses
    BY <1>4, <2>1, LastStatusCause DEF ReplayInv, IInv, Statuses
  <2> QED BY <1>1, <1>4, <1>6, <1>10, <2>2, ConcludedMoves
<1> QED BY <1>3, <1>8, <1>9, <1>10

LEMMA ReadLedgerMoves ==
    ASSUME ReplayInv, [Next]_vars, NEW c \in Calls, ReadLedger(c) PROVE Moves(c)
<1>1. /\ job[c].step = "context" /\ job[c] \in Job /\ CallKeeps(job[c]) /\ CallSound(job[c])
      /\ UNCHANGED received
  BY DEF ReadLedger, ReplayInv, IInv, TypeOK, store
<1>2. PICK known \in BOOLEAN :
          job' = [job EXCEPT ![c] =
                      Concluded([job[c] EXCEPT !.informed = job[c].informed /\ known],
                                LastStatus(job[c], known))]
  BY DEF ReadLedger, ReplayInv, IInv, TypeOK
<1> DEFINE informed == job[c].informed /\ known
           j == [job[c] EXCEPT !.informed = informed]
           s == LastStatus(job[c], known)
<1>3. informed \in BOOLEAN
  BY <1>1 DEF Job
<1>4. s \in Statuses
  BY <1>1, LastStatusCause DEF ReplayInv, IInv, Statuses, CallSound
<1>5. job' = [job EXCEPT ![c] = Concluded(j, s)]
  BY <1>2
<1> HIDE DEF informed, s
<1>6. j \in Job /\ j.seen = job[c].seen /\ j.before = job[c].before
  BY <1>1, <1>3 DEF Job
<1> HIDE DEF j
<1>7. Extends(received, j.before) /\ Extends(received, j.seen) /\ Extends(j.seen, j.before)
  BY <1>1, <1>6 DEF CallKeeps
<1> QED BY <1>1, <1>4, <1>5, <1>6, <1>7, ConcludedMoves

LEMMA PreflightMoves ==
    ASSUME ReplayInv, [Next]_vars, NEW c \in Calls, Preflight(c) PROVE Moves(c)
<1> DEFINE j == job[c]
           on == [j EXCEPT !.step = "policy"]
<1>1. /\ j.step = "preflight" /\ j \in Job /\ CallKeeps(j) /\ UNCHANGED received
  BY DEF Preflight, ReplayInv, IInv, TypeOK, store
<1>2. \/ \E k : job' = [job EXCEPT ![c] = k] /\ Blank(k)
      \/ job' = [job EXCEPT ![c] = on]
  BY AnsweredIsBlank DEF Preflight, ReplayInv, IInv, TypeOK
<1>3. on \in Job /\ on.step = "policy" /\ on.seen = j.seen /\ on.before = j.before
  BY <1>1 DEF Job
<1> HIDE DEF on, j
<1>4. CallKeeps(on)
  BY <1>1, <1>3 DEF CallKeeps, Contributing
<1>5. CASE job' = [job EXCEPT ![c] = on]
  BY <1>1, <1>3, <1>4, <1>5, LearnedMoves DEF Contributing
<1> QED BY <1>2, <1>5, BlankMoves

\* The others forget what they read.
LEMMA OtherMoves ==
    ASSUME ReplayInv, NEW c \in Calls,
           \/ Lookup(c) \/ Post(c) \/ Wait(c) \/ Recheck(c) \/ persistConfirmedSubmission(c)
           \/ RecordDecline(c) \/ Return(c) \/ Stop(c)
    PROVE  Moves(c)
<1>1. job \in [Calls -> Job]
  BY DEF ReplayInv, IInv, TypeOK
<1>2. Blank(Started("submit", "facts"))
  <2> HIDE DEF requestExpired, Nothing, NoAccount
  <2> QED BY DEF Started, Idle, Blank, Contributing
<1>3. /\ \A j, s : job' = [job EXCEPT ![c] = Answered(j, s)] => Moves(c)
      /\ \A j : job' = [job EXCEPT ![c] = Unanswered(j)] => Moves(c)
      /\ job' = [job EXCEPT ![c] = Idle] => Moves(c)
      /\ \A j, s : \A step \in {"persist", "waiting", "recheck"} :
             job' = [job EXCEPT ![c] = Asking(j, step, s)] => Moves(c)
      /\ job' = [job EXCEPT ![c] = Started("submit", "facts")] => Moves(c)
  BY <1>2, AnsweredIsBlank, BlankMoves
<1>4. CASE Lookup(c)
  BY <1>1, <1>3, <1>4 DEF Lookup
<1>5. CASE Post(c)
  BY <1>1, <1>3, <1>5 DEF Post
<1>6. CASE Wait(c)
  BY <1>1, <1>3, <1>6 DEF Wait, ReplayInv, IInv, TypeOK
<1>7. CASE Recheck(c)
  BY <1>1, <1>3, <1>7 DEF Recheck
<1>8. CASE persistConfirmedSubmission(c) \/ RecordDecline(c)
  BY <1>1, <1>3, <1>8 DEF persistConfirmedSubmission, RecordDecline
<1>9. CASE Return(c)
  BY <1>1, <1>3, <1>9 DEF Return
<1>10. CASE Stop(c)
  BY <1>3, <1>10 DEF Stop
<1> QED BY <1>4, <1>5, <1>6, <1>7, <1>8, <1>9, <1>10

LEMMA CallsMoves == ASSUME ReplayInv, [Next]_vars, NEW c \in Calls, CallStep(c) PROVE Moves(c)
BY StartMoves, ListMoves, ValidateMoves, PutMoves, FactsMoves, ReadPolicyMoves,
   ReadLedgerMoves, PreflightMoves, OtherMoves DEF CallStep, Step

\* A contribution is stored once, under an instant of its own.
LEMMA ReceivedStep ==
    ASSUME ReplayInv, [Next]_vars
    PROVE  /\ received' \in [Uploads -> Nat] /\ Extends(received', received)
           /\ Dated(received') /\ \A u \in Uploads : received'[u] <= arrivals'
           /\ \A d \in Calls :
                  job[d].step \in Contributing
                      => \/ Put(d)
                         \/ \A u \in Uploads : received'[u] # job[d].at
<1>1. /\ arrivals \in Nat /\ arrivals' \in {arrivals, arrivals + 1}
      /\ UNCHANGED received \/ \E c \in Calls : Put(c)
  BY Growth DEF ReplayInv
<1>2. /\ received \in [Uploads -> Nat] /\ Dated(received)
      /\ \A u \in Uploads : received[u] <= arrivals
      /\ \A d \in Calls : CallKeeps(job[d])
  BY DEF ReplayInv, IInv, TypeOK
<1>3. CASE UNCHANGED received
  <2>1. \A u \in Uploads : received[u] <= arrivals'
    BY <1>1, <1>2
  <2>2. \A d \in Calls :
            job[d].step \in Contributing => \A u \in Uploads : received[u] # job[d].at
    BY <1>2 DEF CallKeeps
  <2> QED BY <1>2, <1>3, <2>1, <2>2 DEF Extends
<1>4. ASSUME NEW c \in Calls, Put(c), received' # received
      PROVE  /\ received' \in [Uploads -> Nat] /\ Extends(received', received)
             /\ Dated(received') /\ \A u \in Uploads : received'[u] <= arrivals'
             /\ \A d \in Calls :
                    job[d].step \in Contributing
                        => \/ Put(d)
                           \/ \A u \in Uploads : received'[u] # job[d].at
  <2> DEFINE v == job[c].upload
             k == job[c].at
  <2>1. /\ job[c].step = "put" /\ received[v] = 0
        /\ received' = [received EXCEPT ![v] = k]
    BY <1>4 DEF Put
  <2>2. /\ v \in Uploads /\ k \in 1 .. arrivals
        /\ \A u \in Uploads : received[u] # k
    BY <1>2, <2>1 DEF CallKeeps, Contributing
  <2>3. ASSUME NEW d \in Calls, d # c, job[d].step \in Contributing
        PROVE  job[d].at # k /\ \A u \in Uploads : received[u] # job[d].at
    BY <1>2, <2>1, <2>3 DEF ReplayInv, CallKeeps, Contributing
  <2> HIDE DEF v, k
  <2>4. /\ received' \in [Uploads -> Nat] /\ received'[v] = k
        /\ \A u \in Uploads \ {v} : received'[u] = received[u]
    BY <1>2, <2>1, <2>2
  <2>5. Extends(received', received)
    BY <2>1, <2>4 DEF Extends
  <2>6. Dated(received')
    BY <1>2, <2>2, <2>4 DEF Dated
  <2>7. \A u \in Uploads : received'[u] <= arrivals'
    BY <1>1, <1>2, <2>2, <2>4
  <2>8. \A d \in Calls \ {c} :
            job[d].step \in Contributing => \A u \in Uploads : received'[u] # job[d].at
    BY <2>2, <2>3, <2>4
  <2> QED BY <1>4, <2>4, <2>5, <2>6, <2>7, <2>8
<1> QED BY <1>1, <1>3, <1>4

LEMMA CallsKeepReading ==
    ASSUME ReplayInv, [Next]_vars
    PROVE  /\ \A c \in Calls : CallKeeps(job[c])'
           /\ \A c, d \in Calls :
                  c # d /\ job'[c].step \in Contributing /\ job'[d].step \in Contributing
                      => job'[c].at # job'[d].at
<1>1. /\ job \in [Calls -> Job] /\ \A c \in Calls : CallKeeps(job[c])
      /\ arrivals \in Nat
  BY Growth DEF ReplayInv, IInv, TypeOK
<1>2. /\ received' \in [Uploads -> Nat] /\ Extends(received', received)
      /\ \A d \in Calls : job[d].step \in Contributing
             => Put(d) \/ \A u \in Uploads : received'[u] # job[d].at
  BY ReceivedStep
<1>3. ASSUME NEW d \in Calls, job'[d] = job[d], ~Put(d)
      PROVE  CallKeeps(job[d])'
  <2>1. PICK j \in Job : j = job[d]
    BY <1>1
  <2>2. CallKeeps(j) /\ (j.step \in Contributing => \A u \in Uploads : received'[u] # j.at)
    BY <1>1, <1>2, <1>3, <2>1
  <2>3. CallKeeps(j)'
    BY <1>2, <2>2, KeepsOn
  <2> QED BY <1>3, <2>1, <2>3 DEF CallKeeps
<1>4. ASSUME NEW c \in Calls, CallStep(c)
      PROVE  /\ \A d \in Calls : CallKeeps(job[d])'
             /\ \A d, e \in Calls :
                    d # e /\ job'[d].step \in Contributing /\ job'[e].step \in Contributing
                        => job'[d].at # job'[e].at
  <2>1. PICK k : /\ job' = [job EXCEPT ![c] = k] /\ CallKeeps(k)'
                 /\ k.step \in Contributing =>
                        \/ job[c].step \in Contributing /\ k.at = job[c].at
                        \/ k.at = arrivals + 1
    BY <1>4, CallsMoves DEF Moves
  <2>2. job'[c] = k /\ \A d \in Calls \ {c} : job'[d] = job[d]
    BY <1>1, <2>1
  <2>3. CallKeeps(job[c])'
    BY <2>1, <2>2 DEF CallKeeps
  <2>4. ASSUME NEW d \in Calls, d # c PROVE CallKeeps(job[d])'
    <3>1. job'[d] = job[d]
      BY <2>2, <2>4
    <3>2. CASE ~Put(d)
      BY <1>3, <3>1, <3>2
    <3>3. CASE Put(d)
      <4>1. job'[d] = [Idle EXCEPT !.op = "contribute", !.step = "facts"] /\ job[d].step = "put"
        BY <1>1, <3>3 DEF Put
      <4> QED BY <3>1, <4>1 DEF Idle
    <3> QED BY <3>2, <3>3
  <2>5. ASSUME NEW d \in Calls, d # c, job[d].step \in Contributing
        PROVE  /\ job[d].at <= arrivals /\ job[d].at \in Nat
               /\ job[c].step \in Contributing => job[d].at # job[c].at
    BY <1>1, <2>5 DEF ReplayInv, CallKeeps
  <2>6. \A d, e \in Calls :
            d # e /\ job'[d].step \in Contributing /\ job'[e].step \in Contributing
                => job'[d].at # job'[e].at
    <3> SUFFICES ASSUME NEW d \in Calls, NEW e \in Calls, d # e,
                        job'[d].step \in Contributing, job'[e].step \in Contributing
                 PROVE  job'[d].at # job'[e].at
      OBVIOUS
    <3>1. CASE d = c
      BY <1>1, <2>1, <2>2, <2>5, <3>1
    <3>2. CASE e = c
      BY <1>1, <2>1, <2>2, <2>5, <3>2
    <3>3. CASE d # c /\ e # c
      BY <2>2, <3>3 DEF ReplayInv
    <3> QED BY <3>1, <3>2, <3>3
  <2> QED BY <2>3, <2>4, <2>6
<1>5. CASE UNCHANGED job
  <2>1. ASSUME NEW d \in Calls PROVE CallKeeps(job[d])'
    <3>1. CASE ~Put(d)
      BY <1>3, <1>5, <3>1
    <3>2. CASE Put(d)
      <4>1. job'[d] = [Idle EXCEPT !.op = "contribute", !.step = "facts"] /\ job[d].step = "put"
        BY <1>1, <3>2 DEF Put
      <4> QED BY <1>5, <4>1 DEF Idle
    <3> QED BY <3>1, <3>2
  <2> QED BY <1>5, <2>1 DEF ReplayInv
<1> QED BY <1>4, <1>5, OnlyCalls

\* The envelope a contribution makes is the one it was validated in, unless
\* another contribution came in between.
LEMMA PutFits ==
    ASSUME ReplayInv, [Next]_vars, NEW c \in Calls, Put(c), policyChanges' = 0, ~overlapped'
    PROVE  /\ Readable(received)'
           /\ Analysis(mergedXdr(received), policy)' \in Fit
<1> DEFINE j == job[c]
           v == j.upload
           k == j.at
<1>1. /\ arrivals \in Nat /\ policyChanges = 0 /\ policy' = policy /\ ~overlapped
      /\ request' = request
  BY Growth DEF ReplayInv
<1>2. /\ j \in Job /\ j.step = "put" /\ CallKeeps(j) /\ received = j.before
      /\ received' = IF received[v] = 0 THEN [received EXCEPT ![v] = k] ELSE received
      /\ arrivals' = arrivals
  BY DEF Put, ReplayInv, IInv, TypeOK
<1>3. /\ received \in [Uploads -> Nat] /\ j.seen \in [Uploads -> Nat]
  BY <1>2 DEF ReplayInv, IInv, TypeOK, Job
<1>4. j.seen = received
  <2>1. \A u \in Uploads : j.seen[u] = received[u]
    BY <1>2, <1>3 DEF CallKeeps, Extends
  <2> QED BY <1>3, <2>1
<1>5. /\ v \in Uploads /\ k \in 1 .. arrivals
      /\ \A u \in Uploads : received[u] < k
      /\ Mergeable(mergedXdr(received), v)
      /\ Analysis(Merged(mergedXdr(received), v), policy) \in Fit
  BY <1>1, <1>2, <1>4 DEF CallKeeps, Contributing
<1>6. Readable(received) /\ Analysis(mergedXdr(received), policy) \in Fit
  BY <1>1 DEF ReplayInv, BlockedNeedsAnOverlap, Fit
<1> HIDE DEF j, v, k
<1>7. PICK f \in [Uploads -> Nat] : f = received
  BY <1>3
<1>8. PICK g : g = received'
  OBVIOUS
<1> DEFINE N == arrivals
           F == ReplayOf(request.base, f, N)
           G == ReplayOf(request.base, g, N)
<1>9. /\ mergedXdr(received) = F[N] /\ mergedXdr(received)' = G[N]
      /\ Readable(received) <=> \A u \in Uploads : f[u] # 0 => Mergeable(F[f[u] - 1], u)
      /\ Readable(received)' <=> \A u \in Uploads : g[u] # 0 => Mergeable(G[g[u] - 1], u)
  BY <1>1, <1>2, <1>7, <1>8, ReplayOfRequest DEF Readable, mergedXdr, Mergeable
<1>10. CASE f[v] # 0
  BY <1>1, <1>2, <1>6, <1>7, <1>8, <1>9, <1>10
<1>11. CASE f[v] = 0
  <2>1. g = [f EXCEPT ![v] = k]
    BY <1>2, <1>7, <1>8, <1>11
  <2>2. /\ F[k - 1] = F[N]
        /\ \A n \in 0 .. k - 1 : G[n] = F[n]
        /\ G[N] = Merged(F[N], v)
    <3>1. N \in Nat /\ k \in 1 .. N /\ v \in Uploads /\ g \in [Uploads -> Nat]
      BY <1>1, <1>5, <1>7, <2>1
    <3>2. Added(f, g, v, k)
      BY <1>5, <1>7, <1>11, <2>1, <3>1 DEF Added
    <3> HIDE DEF N
    <3> QED BY <3>1, <3>2, ReplayAdds
  <2> HIDE DEF F, G, N
  <2>3. Analysis(G[N], policy') \in Fit
    BY <1>1, <1>5, <1>9, <2>2
  <2>4. ASSUME NEW u \in Uploads, g[u] # 0 PROVE Mergeable(G[g[u] - 1], u)
    <3>1. CASE u = v
      <4>1. g[u] = k /\ G[k - 1] = F[N]
        BY <1>5, <2>1, <2>2, <3>1
      <4> QED BY <1>5, <1>9, <3>1, <4>1
    <3>2. CASE u # v
      <4>1. g[u] = f[u] /\ f[u] - 1 \in 0 .. k - 1
        BY <1>1, <1>5, <1>7, <2>1, <2>4, <3>2
      <4>2. Mergeable(F[f[u] - 1], u)
        BY <1>6, <1>9, <2>4, <4>1
      <4> QED BY <2>2, <4>1, <4>2
    <3> QED BY <3>1, <3>2
  <2> QED BY <1>9, <2>3, <2>4
<1> QED BY <1>10, <1>11

LEMMA BlockedStep == ASSUME ReplayInv, [Next]_vars PROVE BlockedNeedsAnOverlap'
<1> SUFFICES ASSUME policyChanges' = 0, ~overlapped'
             PROVE  Readable(received)' /\ Analysis(mergedXdr(received), policy)' \in Fit
  BY DEF BlockedNeedsAnOverlap, Fit
<1>1. /\ arrivals \in Nat /\ arrivals' \in {arrivals, arrivals + 1}
      /\ request' = request /\ policyChanges = 0 /\ policy' = policy /\ ~overlapped
      /\ UNCHANGED received \/ \E c \in Calls : Put(c)
  BY Growth DEF ReplayInv
<1>2. CASE \E c \in Calls : Put(c)
  BY <1>2, PutFits
<1>3. CASE UNCHANGED received
  <2>1. PICK f \in [Uploads -> Nat] : f = received
    BY DEF ReplayInv, IInv, TypeOK
  <2>2. /\ mergedXdr(f)' = mergedXdr(f)
        /\ \A n \in 0 .. arrivals : Replay(f)'[n] = Replay(f)[n]
    BY <1>1, <2>1, EnvelopesStay DEF ReplayInv
  <2>3. Readable(f) /\ Analysis(mergedXdr(f), policy) \in Fit
    BY <1>1, <2>1 DEF ReplayInv, BlockedNeedsAnOverlap, Fit
  <2>4. \A u \in Uploads : f[u] # 0 => f[u] - 1 \in 0 .. arrivals
    BY <1>1, <2>1 DEF ReplayInv
  <2>5. \A u \in Uploads : f[u] # 0 => Mergeable(Replay(f)'[f[u] - 1], u)
    BY <2>2, <2>3, <2>4 DEF Readable
  <2>6. Readable(f)' /\ Analysis(mergedXdr(f)', policy') \in Fit
    BY <1>1, <2>2, <2>3, <2>5 DEF Readable, Mergeable
  <2> QED BY <1>3, <2>1, <2>6 DEF Readable, mergedXdr, Replay
<1> QED BY <1>1, <1>2, <1>3

LEMMA ReplayInit == Init => ReplayInv
<1> SUFFICES ASSUME Init PROVE ReplayInv
  OBVIOUS
<1>1. IInv
  BY InductiveInit
<1>2. received = Nothing /\ arrivals = 0 /\ job = [c \in Calls |-> Idle]
  BY DEF Init
<1>3. \A u \in Uploads : received[u] = 0
  BY <1>2 DEF Nothing
<1>4. \A c \in Calls : job[c] = Idle /\ CallKeeps(Idle) /\ Idle.step = "idle"
  BY <1>2, AnsweredIsBlank, BlankKeeps DEF Idle
<1>5. BlockedNeedsAnOverlap
  <2>1. Readable(received)
    BY <1>3 DEF Readable
  <2>2. mergedXdr(received) = request.base
    <3>1. ReplayOf(request.base, received, 0)[0] =
              Replayed(request.base, received, 0, ReplayOf(request.base, received, 0))
      BY ReplayIs
    <3> QED BY <1>2, <3>1, ReplayOfRequest DEF Replayed
  <2>3. Analysis(request.base, policy) \in {"missing", "authorized"}
    BY DEF Init
  <2> QED BY <2>1, <2>2, <2>3 DEF BlockedNeedsAnOverlap
<1> QED BY <1>1, <1>2, <1>3, <1>4, <1>5 DEF ReplayInv, Dated, Contributing

LEMMA ReplayNext == ReplayInv /\ [Next]_vars => ReplayInv'
<1> SUFFICES ASSUME ReplayInv, [Next]_vars PROVE ReplayInv'
  OBVIOUS
<1>1. IInv'
  BY InductiveNext DEF ReplayInv
<1>2. /\ Dated(received') /\ \A u \in Uploads : received'[u] <= arrivals'
  BY ReceivedStep
<1> QED BY <1>1, <1>2, CallsKeepReading, BlockedStep DEF ReplayInv, Dated

LEMMA ReplayInvariance == Spec => []ReplayInv
BY ReplayInit, ReplayNext, PTL DEF Spec

\* While the policy stands, a Request is blocked (its contributions do not
\* merge, or its envelope holds a signature Core refuses) only if two
\* contributions overlapped.
THEOREM BlockedByOverlapOnly == Spec => []BlockedNeedsAnOverlap
<1>1. ReplayInv => BlockedNeedsAnOverlap
  BY DEF ReplayInv
<1> QED BY <1>1, ReplayInvariance, PTL

\* A signer whose approval was stored before the call began declines no more.
THEOREM ApprovalsAreFinal == Spec => ApprovalsEndDeclines
<1>1. ReplayInv /\ [Next]_vars =>
          [\A c \in Calls : (job[c].step = "decline" /\ declined' # declined)
              => ~SignedIn(job[c].before, job[c].signer)]_vars
  BY DEF ReplayInv, CallKeeps
<1> QED BY <1>1, ReplayInvariance, PTL DEF Spec, ApprovalsEndDeclines
=============================================================================
