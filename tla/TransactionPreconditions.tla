---------------------- MODULE TransactionPreconditions ----------------------
(***************************************************************************)
(* The precondition evaluator of the Stellar core library: what it says    *)
(* of a transaction, given its source account and the latest closed        *)
(* ledger, and the ledger's own rule it predicts.                          *)
(*                                                                         *)
(* A bound the transaction does not set is 0, as in its XDR.  An account   *)
(* carries the ledger and the close time of its last sequence change, the  *)
(* sequence_ledger and sequence_time of Horizon.                           *)
(***************************************************************************)
EXTENDS Integers

Transaction == [seq : Nat, relaxed : BOOLEAN, minSeq : Nat,
                minTime : Nat, maxTime : Nat, minLedger : Nat, maxLedger : Nat,
                minAge : Nat, minGap : Nat]
Account == [sequence : Nat, ledger : Nat, time : Nat]
Ledger == [number : Nat, time : Nat]

SequenceCheck(tx, account) ==
    CASE account.sequence >= tx.seq -> "stale"
      [] account.sequence < tx.seq /\ tx.relaxed ->
             IF account.sequence < tx.minSeq THEN "wait" ELSE "pass"
      [] account.sequence < tx.seq /\ ~tx.relaxed ->
             IF tx.seq = account.sequence + 1 THEN "pass" ELSE "wait"

\* Fault: the bound is taken for exclusive, as maxLedger is, and compared
\* with the earliest time the next ledger can close at.
ExclusiveMaxTime(tx, ledger) ==
    CASE tx.maxTime # 0 /\ ledger.time + 1 >= tx.maxTime -> "expired"
      [] ~(tx.maxTime # 0 /\ ledger.time + 1 >= tx.maxTime) /\ ledger.time < tx.minTime -> "wait"
      [] OTHER -> "pass"

TimeBoundsCheck(tx, ledger) ==
    CASE tx.maxTime # 0 /\ ledger.time >= tx.maxTime -> "expired"
      [] ~(tx.maxTime # 0 /\ ledger.time >= tx.maxTime) /\ ledger.time < tx.minTime -> "wait"
      [] OTHER -> "pass"

LedgerBoundsCheck(tx, ledger) ==
    CASE ledger.number + 1 < tx.minLedger -> "wait"
      [] /\ ledger.number + 1 >= tx.minLedger
         /\ tx.maxLedger # 0 /\ ledger.number + 1 >= tx.maxLedger -> "expired"
      [] OTHER -> "pass"

MinSequenceAgeCheck(tx, account, ledger) ==
    IF tx.minAge # 0 /\ ledger.time - account.time < tx.minAge THEN "wait" ELSE "pass"

MinSequenceLedgerGapCheck(tx, account, ledger) ==
    IF tx.minGap # 0 /\ (ledger.number + 1) - account.ledger < tx.minGap
    THEN "wait" ELSE "pass"

Timed(tx) == tx.minTime # 0 \/ tx.maxTime # 0
Bounded(tx) == tx.minLedger # 0 \/ tx.maxLedger # 0
NeedsLedgerContext(tx) == Timed(tx) \/ Bounded(tx) \/ tx.minAge # 0 \/ tx.minGap # 0

\* The checks assessTransactionPreconditions collects when the ledger is known.
Checks(tx, account, ledger) ==
    {SequenceCheck(tx, account), TimeBoundsCheck(tx, ledger),
     LedgerBoundsCheck(tx, ledger), MinSequenceAgeCheck(tx, account, ledger),
     MinSequenceLedgerGapCheck(tx, account, ledger)}

Summary(checks) ==
    CASE "stale" \in checks -> "stale"
      [] "stale" \notin checks /\ "expired" \in checks -> "expired"
      [] checks \cap {"stale", "expired"} = {} /\ "wait" \in checks -> "not_yet_valid"
      [] OTHER -> "ready"

assessTransactionPreconditions(tx, account, ledger) == Summary(Checks(tx, account, ledger))

-----------------------------------------------------------------------------
(* The ledger's rule: may the transaction be applied in the ledger next,   *)
(* on the account as it is when its turn comes?                            *)
Accepts(tx, account, next) ==
    /\ IF tx.relaxed THEN tx.minSeq <= account.sequence /\ account.sequence < tx.seq
                     ELSE tx.seq = account.sequence + 1
    /\ tx.minTime <= next.time
    /\ tx.maxTime = 0 \/ next.time <= tx.maxTime
    /\ tx.minLedger <= next.number
    /\ tx.maxLedger = 0 \/ next.number < tx.maxLedger
    /\ tx.minAge <= next.time - account.time
    /\ tx.minGap <= next.number - account.ledger
=============================================================================
