------------------------- MODULE CoreAuthorization -------------------------
(***************************************************************************)
(* The order-sensitive signature check of Stellar Core, as the core        *)
(* library simulates it, and the merge of signed envelopes.                *)
(*                                                                         *)
(* An envelope of one transaction is the sequence of its signatures; a     *)
(* signature stands for the key that made it (one key, one signature:      *)
(* ed25519 is deterministic).  A policy gives each key its weight on the   *)
(* source account, 0 for a key that is no signer, and the two thresholds   *)
(* the transaction is checked against: low, and that of its operation.     *)
(***************************************************************************)
EXTENDS Integers, Sequences

CONSTANT MaxSignatures       \* the ledger's limit per envelope: 20

Recognized(policy, key) == policy.weight[key] > 0

effectiveWeight(policy, key) ==
    IF policy.weight[key] > 255 THEN 255 ELSE policy.weight[key]

\* matchedWeight after signature i.
MatchedWeight(envelope, policy) ==
    LET w[i \in 0 .. Len(envelope)] ==
            IF i = 0 THEN 0 ELSE w[i - 1] + effectiveWeight(policy, envelope[i])
    IN w

\* simulateCoreSignatureCheck stops at signature i with the weight it needs.
\* The weight is compared after a match only: even the threshold 0 takes one.
Suffices(envelope, policy, needed, i) ==
    /\ Recognized(policy, envelope[i])
    /\ MatchedWeight(envelope, policy)[i] >= needed

Satisfied(envelope, policy, needed) ==
    \E i \in DOMAIN envelope : Suffices(envelope, policy, needed, i)

\* The signatures a check takes: the matches before it stops, and the last.
UsedIndexes(envelope, policy, needed) ==
    {i \in DOMAIN envelope :
        /\ Recognized(policy, envelope[i])
        /\ \A j \in 1 .. i - 1 : ~Suffices(envelope, policy, needed, j)}

Thresholds(policy) == {policy.low, policy.operation}

Unused(envelope, policy) ==
    DOMAIN envelope \
        UNION {UsedIndexes(envelope, policy, needed) : needed \in Thresholds(policy)}

innerOutcome(envelope, policy) ==
    CASE \E needed \in Thresholds(policy) : ~Satisfied(envelope, policy, needed) -> "missing"
      [] /\ \A needed \in Thresholds(policy) : Satisfied(envelope, policy, needed)
         /\ Unused(envelope, policy) # {} -> "bad_auth_extra"
      [] OTHER -> "authorized"

\* What analyzeStoredEnvelope reports of a stored envelope.
Analysis(envelope, policy) ==
    IF \E i \in DOMAIN envelope : ~Recognized(policy, envelope[i])
    THEN "unrecognized"
    ELSE innerOutcome(envelope, policy)

-----------------------------------------------------------------------------
KeysOf(envelope) == {envelope[i] : i \in DOMAIN envelope}

\* The incoming signatures that are neither there nor among those before them.
Additions(envelope, incoming) ==
    LET added[i \in 0 .. Len(incoming)] ==
            IF i = 0 THEN <<>>
            ELSE IF incoming[i] \in KeysOf(envelope) \cup KeysOf(added[i - 1])
                 THEN added[i - 1]
                 ELSE Append(added[i - 1], incoming[i])
    IN added[Len(incoming)]

\* mergeSignedTransactionXdr throws above the limit.
Mergeable(envelope, incoming) ==
    Len(envelope) + Len(Additions(envelope, incoming)) <= MaxSignatures

Merged(envelope, incoming) == envelope \o Additions(envelope, incoming)
=============================================================================
