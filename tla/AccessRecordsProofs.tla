------------------------ MODULE AccessRecordsProofs ------------------------
(***************************************************************************)
(* What the records of the private object store promise whatever the       *)
(* number of calls: the unlocking of a wallet, the Integration records,    *)
(* and the settings of a Treasury.                                         *)
(*                                                                         *)
(* WalletUnlock.  Once stored, the service's key stays where the store     *)
(* does not overwrite; whoever is past getOrCreateAuthServerKeypair has    *)
(* it, and so has everything signed (VisitSound, SignedByServer).  A visit *)
(* about to issue a token holds the claim of its challenge alone           *)
(* (ClaimedAlone).                                                         *)
(*                                                                         *)
(* IntegrationAdmin.  While no put has replaced another record than the    *)
(* one it was made from, the record in force is the operator's last word   *)
(* (Agrees).                                                               *)
(*                                                                         *)
(* TreasuryBox.  An Audit credential is created once, before it is         *)
(* revoked, and every state has its event, is about to have it, or was cut *)
(* (KeySound); a renaming under way is later than every event (NameSound). *)
(***************************************************************************)
EXTENDS WalletUnlock, IntegrationAdmin, TreasuryBox, FiniteSetTheorems, TLAPS

(* WalletUnlock.                                                           *)

Spent(id) == [id |-> id] \in redeemed

\* Why a visit was refused.
Due(j) ==
    \/ j.op = "verify" /\ j.token.until <= time
    \/ /\ j.op = "exchange"
       /\ \/ j.challenge.until < time
          \/ j.mode = "message" /\ j.challenge.ttl # j.ttl
          \/ Spent(j.challenge.id)

VisitSound(j) ==
    /\ j.op = "challenge" => j.ttl \in UnlockTtls
    /\ j.op = "exchange" => j.challenge \in challenges
    /\ j.op = "verify" => j.token \in tokens
    /\ j.step \in {"claim", "issue"} => j.op = "exchange"
    /\ j.step = "refused" => j.op \in {"exchange", "verify"}
    /\ j.step \in {"create", "work", "claim", "issue"} => j.key # 0
    /\ j.step \in {"reread", "work", "claim", "issue"} => serverKey # 0
    /\ exclusive /\ j.step \in {"work", "claim", "issue"} => j.key = serverKey
    /\ j.step = "issue" => Spent(j.challenge.id)
    /\ exclusive /\ j.step = "refused" => Due(j)

Finite == IsFiniteSet(challenges) /\ IsFiniteSet(tokens)

SignedByServer ==
    exclusive => /\ \A challenge \in challenges : challenge.key = serverKey
                 /\ \A token \in tokens : token.key = serverKey

\* Nobody else issues, or has issued, a token for the challenge of a visit that
\* is about to.
ClaimedAlone ==
    /\ \A token \in tokens : Spent(token.challenge)
    /\ exclusive =>
          \A v \in Visits : visit[v].step = "issue" =>
              /\ \A token \in tokens : token.challenge # visit[v].challenge.id
              /\ \A w \in Visits \ {v} :
                    visit[w].step = "issue" => visit[w].challenge.id # visit[v].challenge.id

UnlockSound ==
    /\ Finite /\ SignedByServer /\ ClaimedAlone /\ RedeemedOnce
    /\ \A v \in Visits : VisitSound(visit[v])

-----------------------------------------------------------------------------
(* The objects of the store.                                               *)

\* Nothing stored is lost, and the key stays where the store does not
\* overwrite.
LEMMA StoreGrows ==
    ASSUME UnlockTypeOK, UnlockSound, [UnlockNext]_unlockVars
    PROVE  /\ exclusive' = exclusive
           /\ serverKey' \in 0 .. MaxKeys
           /\ serverKey # 0 => serverKey' # 0
           /\ exclusive /\ serverKey # 0 => serverKey' = serverKey
           /\ keyPairs' \in 0 .. MaxKeys
           /\ challenges \subseteq challenges' /\ tokens \subseteq tokens'
           /\ redeemed \subseteq redeemed'
           /\ time' \in Nat /\ time <= time'
<1> USE UnlockAssumption DEF UnlockTypeOK
<1> DEFINE Goal == /\ exclusive' = exclusive
                   /\ serverKey' \in 0 .. MaxKeys
                   /\ serverKey # 0 => serverKey' # 0
                   /\ exclusive /\ serverKey # 0 => serverKey' = serverKey
                   /\ keyPairs' \in 0 .. MaxKeys
                   /\ challenges \subseteq challenges' /\ tokens \subseteq tokens'
                   /\ redeemed \subseteq redeemed'
                   /\ time' \in Nat /\ time <= time'
<1>1. CASE UNCHANGED unlockVars
  BY <1>1 DEF unlockVars
<1>2. CASE UnlockTick
  BY <1>2 DEF UnlockTick
<1>3. ASSUME NEW v \in Visits PROVE OnlyVisit => Goal
  BY DEF OnlyVisit
<1>4. ASSUME NEW v \in Visits, VisitStep(v) PROVE Goal
  <2>1. CASE ReadServerKey(v)
    BY <2>1 DEF ReadServerKey
  <2>2. CASE CreateServerKey(v)
    <3>1. visit[v].key \in 0 .. MaxKeys /\ visit[v].key # 0
      BY <2>2 DEF CreateServerKey, UnlockSound, VisitSound, Visit
    <3> QED BY <2>2, <3>1 DEF CreateServerKey, FreeToCreate
  <2>3. CASE IssueChallenge(v)
    BY <2>3 DEF IssueChallenge
  <2>4. CASE ClaimRedemption(v) \/ ClaimAnswerIsLost(v)
    BY <2>4 DEF ClaimRedemption, ClaimAnswerIsLost
  <2>5. CASE IssueToken(v)
    BY <2>5 DEF IssueToken
  <2>6. CASE RereadServerKey(v) \/ Validate(v) \/ VerifyToken(v) \/ AnswerRefusal(v) \/ Fail(v)
    BY <2>6, <1>3 DEF RereadServerKey, Validate, VerifyToken, AnswerRefusal, Fail
  <2> QED BY <1>4, <2>1, <2>2, <2>3, <2>4, <2>5, <2>6 DEF VisitStep
<1>5. ASSUME NEW v \in Visits, OnlyVisit PROVE Goal
  BY <1>5 DEF OnlyVisit
<1> QED
  BY <1>1, <1>2, <1>4, <1>5 DEF UnlockNext, AskChallenge, AskExchange, Present

\* What holds of a call goes on holding while others move.
LEMMA VisitStays ==
    ASSUME UnlockTypeOK, UnlockSound, [UnlockNext]_unlockVars
    PROVE  \A w \in Visits : visit'[w] = visit[w] => visit'[w] \in Visit /\ VisitSound(visit[w])'
<1> SUFFICES ASSUME NEW w \in Visits, visit'[w] = visit[w]
             PROVE  visit'[w] \in Visit /\ VisitSound(visit[w])'
  OBVIOUS
<1>1. visit[w] \in Visit /\ VisitSound(visit[w])
  BY DEF UnlockTypeOK, UnlockSound
<1>2. visit[w].op = "verify" => visit[w].token.until \in Nat
  BY <1>1 DEF VisitSound, UnlockTypeOK, Token
<1>3. visit[w].op = "exchange" => visit[w].challenge.until \in Nat
  BY <1>1 DEF VisitSound, UnlockTypeOK, Challenge
<1>4. time \in Nat
  BY DEF UnlockTypeOK
<1>5. exclusive /\ visit[w].step = "refused" => Due(visit[w])'
  <2> SUFFICES ASSUME exclusive, visit[w].step = "refused" PROVE Due(visit[w])'
    OBVIOUS
  <2>1. Due(visit[w]) /\ visit[w].op \in {"exchange", "verify"}
    BY <1>1 DEF VisitSound
  <2>2. time' \in Nat /\ time <= time' /\ redeemed \subseteq redeemed'
    BY StoreGrows
  <2>3. CASE visit[w].op = "verify"
    <3>1. visit[w].token.until <= time
      BY <2>1, <2>3 DEF Due
    <3>2. visit[w].token.until <= time'
      BY <1>2, <1>4, <2>2, <2>3, <3>1
    <3> QED BY <2>3, <3>2 DEF Due
  <2>4. CASE visit[w].op = "exchange"
    <3>1. CASE visit[w].challenge.until < time
      <4>1. visit[w].challenge.until < time'
        BY <1>3, <1>4, <2>2, <2>4, <3>1
      <4> QED BY <2>4, <4>1 DEF Due
    <3>2. CASE ~(visit[w].challenge.until < time)
      BY <2>1, <2>2, <2>4, <3>2 DEF Due, Spent
    <3> QED BY <3>1, <3>2
  <2> QED BY <2>1, <2>3, <2>4
<1> QED BY <1>1, <1>5, StoreGrows DEF VisitSound, Spent

\* A call that ends.
LEMMA AwaySound == Away \in Visit /\ VisitSound(Away) /\ VisitSound(Away)'
BY UnlockAssumption DEF Away, Visit, VisitSound, Due, Nothing

\* The calls are sound after a step of one of them.
LEMMA VisitsKept ==
    ASSUME UnlockTypeOK, UnlockSound, UnlockNext, NEW v \in Visits,
           \A w \in Visits \ {v} : visit'[w] = visit[w],
           visit'[v] \in Visit, VisitSound(visit[v])'
    PROVE  \A w \in Visits : visit'[w] \in Visit /\ VisitSound(visit[w])'
<1> SUFFICES ASSUME NEW w \in Visits PROVE visit'[w] \in Visit /\ VisitSound(visit[w])'
  OBVIOUS
<1>1. CASE w = v
  BY <1>1
<1>2. CASE w # v
  BY <1>2, VisitStays
<1> QED BY <1>1, <1>2

LEMMA VisitsSound ==
    ASSUME UnlockTypeOK, UnlockSound, UnlockNext
    PROVE  \A w \in Visits : visit'[w] \in Visit /\ VisitSound(visit[w])'
<1> USE UnlockAssumption
<1> DEFINE Goal == \A w \in Visits : visit'[w] \in Visit /\ VisitSound(visit[w])'
<1>0. \A v \in Visits : visit[v] \in Visit /\ VisitSound(visit[v])
  BY DEF UnlockTypeOK, UnlockSound
<1>1. CASE UnlockTick
  BY <1>1, VisitStays DEF UnlockTick
<1>2. ASSUME NEW v \in Visits, visit' = [visit EXCEPT ![v] = Away] PROVE Goal
  <2>1. visit'[v] = Away /\ \A w \in Visits \ {v} : visit'[w] = visit[w]
    BY <1>2 DEF UnlockTypeOK
  <2>2. VisitSound(visit[v])'
    BY <2>1 DEF VisitSound, Away
  <2> QED BY <2>1, <2>2, AwaySound, VisitsKept
<1>3. ASSUME NEW v \in Visits, NEW ttl \in UnlockTtls, AskChallenge(v, ttl) PROVE Goal
  <2>1. /\ visit'[v] = [op |-> "challenge", step |-> "key", key |-> 0, at |-> time, ttl |-> ttl,
                        mode |-> "none", challenge |-> Nothing, token |-> Nothing]
        /\ \A w \in Visits \ {v} : visit'[w] = visit[w]
    BY <1>3 DEF AskChallenge, UnlockTypeOK, Away
  <2>2. visit'[v] \in Visit
    BY <2>1 DEF Visit, UnlockTypeOK
  <2>3. VisitSound(visit[v])'
    BY <2>1 DEF VisitSound
  <2> QED BY <2>1, <2>2, <2>3, VisitsKept
<1>4. ASSUME NEW v \in Visits, NEW ttl \in UnlockTtls, NEW challenge \in challenges,
             NEW mode \in Mode, AskExchange(v, challenge, mode, ttl)
      PROVE  Goal
  <2>1. /\ visit'[v] = [op |-> "exchange", step |-> "key", key |-> 0, at |-> 0, ttl |-> ttl,
                        mode |-> mode, challenge |-> challenge, token |-> Nothing]
        /\ \A w \in Visits \ {v} : visit'[w] = visit[w]
    BY <1>4 DEF AskExchange, UnlockTypeOK, Away
  <2>2. visit'[v] \in Visit
    BY <2>1 DEF Visit, UnlockTypeOK
  <2>3. VisitSound(visit[v])'
    BY <1>4, <2>1, StoreGrows DEF VisitSound
  <2> QED BY <2>1, <2>2, <2>3, VisitsKept
<1>5. ASSUME NEW v \in Visits, NEW token \in tokens, Present(v, token) PROVE Goal
  <2>1. /\ visit'[v] = [op |-> "verify", step |-> "key", key |-> 0, at |-> 0, ttl |-> 0,
                        mode |-> "none", challenge |-> Nothing, token |-> token]
        /\ \A w \in Visits \ {v} : visit'[w] = visit[w]
    BY <1>5 DEF Present, UnlockTypeOK, Away
  <2>2. visit'[v] \in Visit
    BY <2>1 DEF Visit, UnlockTypeOK
  <2>3. VisitSound(visit[v])'
    BY <1>5, <2>1, StoreGrows DEF VisitSound
  <2> QED BY <2>1, <2>2, <2>3, VisitsKept
\* A call keeps what it remembers, but for its step, its key and its time.
<1>6. ASSUME NEW v \in Visits, NEW step, NEW key,
             \A w \in Visits \ {v} : visit'[w] = visit[w],
             visit'[v] \in Visit, visit'[v].step = step, visit'[v].key = key,
             visit'[v].op = visit[v].op, visit'[v].ttl = visit[v].ttl,
             visit'[v].mode = visit[v].mode, visit'[v].challenge = visit[v].challenge,
             visit'[v].token = visit[v].token,
             step \in {"claim", "issue"} => visit[v].op = "exchange",
             step = "refused" => visit[v].op \in {"exchange", "verify"},
             step \in {"create", "work", "claim", "issue"} => key # 0,
             step \in {"reread", "work", "claim", "issue"} => serverKey' # 0,
             exclusive /\ step \in {"work", "claim", "issue"} => key = serverKey',
             step = "issue" => Spent(visit[v].challenge.id)',
             exclusive /\ step = "refused" => Due(visit[v])'
      PROVE  Goal
  <2>1. visit[v] \in Visit /\ VisitSound(visit[v])
    BY <1>0
  <2>2. VisitSound(visit[v])'
    <3>1. exclusive' = exclusive /\ challenges \subseteq challenges' /\ tokens \subseteq tokens'
      BY StoreGrows
    <3>2. /\ visit'[v].op = "challenge" => visit'[v].ttl \in UnlockTtls
          /\ visit'[v].op = "exchange" => visit'[v].challenge \in challenges'
          /\ visit'[v].op = "verify" => visit'[v].token \in tokens'
      BY <1>6, <2>1, <3>1 DEF VisitSound
    <3>3. exclusive' /\ step = "refused" => Due(visit[v])'
      BY <1>6, <3>1
    <3> QED BY <1>6, <3>1, <3>2, <3>3 DEF VisitSound, Spent
  <2> QED BY <1>6, <2>2, VisitsKept
<1>7. ASSUME NEW v \in Visits, ReadServerKey(v) PROVE Goal
  <2>1. visit[v] \in Visit /\ visit[v].step = "key" /\ serverKey' = serverKey
    BY <1>0, <1>7 DEF ReadServerKey
  <2>2. CASE serverKey # 0
    <3>1. visit' = [visit EXCEPT ![v].step = "work", ![v].key = serverKey]
      BY <1>7, <2>2 DEF ReadServerKey
    <3>2. /\ \A w \in Visits \ {v} : visit'[w] = visit[w]
          /\ visit'[v].step = "work" /\ visit'[v].key = serverKey
          /\ visit'[v].op = visit[v].op /\ visit'[v].ttl = visit[v].ttl
          /\ visit'[v].mode = visit[v].mode /\ visit'[v].challenge = visit[v].challenge
          /\ visit'[v].token = visit[v].token
      BY <2>1, <3>1 DEF UnlockTypeOK, Visit
    <3>3. visit'[v] \in Visit
      BY <2>1, <3>1 DEF UnlockTypeOK, Visit
    <3> QED BY <1>6, <2>1, <2>2, <3>2, <3>3
  <2>3. CASE serverKey = 0
    <3>1. /\ keyPairs < MaxKeys /\ keyPairs' = keyPairs + 1
          /\ visit' = [visit EXCEPT ![v].step = "create", ![v].key = keyPairs']
      BY <1>7, <2>3 DEF ReadServerKey
    <3>2. keyPairs' \in 0 .. MaxKeys /\ keyPairs' # 0
      BY <3>1 DEF UnlockTypeOK
    <3>3. /\ \A w \in Visits \ {v} : visit'[w] = visit[w]
          /\ visit'[v].step = "create" /\ visit'[v].key = keyPairs'
          /\ visit'[v].op = visit[v].op /\ visit'[v].ttl = visit[v].ttl
          /\ visit'[v].mode = visit[v].mode /\ visit'[v].challenge = visit[v].challenge
          /\ visit'[v].token = visit[v].token
      BY <2>1, <3>1 DEF UnlockTypeOK, Visit
    <3>4. visit'[v] \in Visit
      BY <2>1, <3>1, <3>2 DEF UnlockTypeOK, Visit
    <3> QED BY <1>6, <3>2, <3>3, <3>4
  <2> QED BY <2>2, <2>3
\* Only the step moves.
<1>8. ASSUME NEW v \in Visits, NEW step, Proceed(v, step),
             step \in {"reread", "issue", "refused"},
             step = "issue" => /\ visit[v].op = "exchange" /\ visit[v].key # 0 /\ serverKey' # 0
                               /\ exclusive => visit[v].key = serverKey'
                               /\ Spent(visit[v].challenge.id)',
             step = "reread" => serverKey' # 0,
             step = "refused" => visit[v].op \in {"exchange", "verify"},
             exclusive /\ step = "refused" => Due(visit[v])'
      PROVE  Goal
  <2>1. visit' = [visit EXCEPT ![v].step = step] /\ visit[v] \in Visit
    BY <1>0, <1>8 DEF Proceed
  <2>2. /\ \A w \in Visits \ {v} : visit'[w] = visit[w]
        /\ visit'[v].step = step /\ visit'[v].key = visit[v].key
        /\ visit'[v].op = visit[v].op /\ visit'[v].ttl = visit[v].ttl
        /\ visit'[v].mode = visit[v].mode /\ visit'[v].challenge = visit[v].challenge
        /\ visit'[v].token = visit[v].token
    BY <2>1 DEF UnlockTypeOK, Visit
  <2>3. visit'[v] \in Visit
    BY <1>8, <2>1 DEF UnlockTypeOK, Visit
  <2> QED BY <1>6, <1>8, <2>2, <2>3
<1>9. ASSUME NEW v \in Visits, CreateServerKey(v) PROVE Goal
  <2>1. visit[v].key # 0
    BY <1>0, <1>9 DEF CreateServerKey, VisitSound
  <2>2. serverKey' # 0
    BY <1>9, <2>1 DEF CreateServerKey, FreeToCreate
  <2> QED BY <1>8, <1>9, <2>2 DEF CreateServerKey
<1>10. ASSUME NEW v \in Visits, RereadServerKey(v) PROVE Goal
  <2>1. /\ visit[v] \in Visit /\ serverKey' = serverKey /\ serverKey # 0
        /\ visit' = [visit EXCEPT ![v].step = "work", ![v].key = serverKey]
    BY <1>0, <1>10 DEF RereadServerKey, OnlyVisit, PersistedKey, VisitSound
  <2>2. /\ \A w \in Visits \ {v} : visit'[w] = visit[w]
        /\ visit'[v].step = "work" /\ visit'[v].key = serverKey
        /\ visit'[v].op = visit[v].op /\ visit'[v].ttl = visit[v].ttl
        /\ visit'[v].mode = visit[v].mode /\ visit'[v].challenge = visit[v].challenge
        /\ visit'[v].token = visit[v].token
    BY <2>1 DEF UnlockTypeOK, Visit
  <2>3. visit'[v] \in Visit
    BY <2>1 DEF UnlockTypeOK, Visit
  <2> QED BY <1>6, <2>1, <2>2, <2>3
<1>11. ASSUME NEW v \in Visits, Validate(v) PROVE Goal
  <2>1. /\ visit[v] \in Visit /\ VisitSound(visit[v]) /\ visit[v].step = "work"
        /\ visit[v].op = "exchange" /\ OnlyVisit
    BY <1>0, <1>11 DEF Validate
  <2>2. CASE Valid(visit[v])
    <3>1. visit' = [visit EXCEPT ![v].step = "claim", ![v].at = time]
      BY <1>11, <2>2 DEF Validate
    <3>2. /\ \A w \in Visits \ {v} : visit'[w] = visit[w]
          /\ visit'[v].step = "claim" /\ visit'[v].key = visit[v].key
          /\ visit'[v].op = visit[v].op /\ visit'[v].ttl = visit[v].ttl
          /\ visit'[v].mode = visit[v].mode /\ visit'[v].challenge = visit[v].challenge
          /\ visit'[v].token = visit[v].token
      BY <2>1, <3>1 DEF UnlockTypeOK, Visit
    <3>3. visit'[v] \in Visit
      BY <2>1, <3>1 DEF UnlockTypeOK, Visit
    <3> QED BY <1>6, <2>1, <3>2, <3>3 DEF VisitSound, OnlyVisit
  <2>3. CASE ~Valid(visit[v])
    <3>1. Proceed(v, "refused")
      BY <1>11, <2>3 DEF Validate
    <3>2. visit[v].challenge \in challenges /\ visit[v].challenge.until \in Nat
      BY <2>1 DEF VisitSound, UnlockTypeOK, Challenge
    <3>3. exclusive => \/ visit[v].challenge.until < time
                       \/ visit[v].mode = "message" /\ visit[v].challenge.ttl # visit[v].ttl
      BY <2>1, <2>3, <3>2 DEF Valid, VisitSound, UnlockSound, SignedByServer, UnlockTypeOK
    <3>4. exclusive => Due(visit[v])'
      <4>1. /\ visit'[v].op = visit[v].op /\ visit'[v].ttl = visit[v].ttl
            /\ visit'[v].mode = visit[v].mode /\ visit'[v].challenge = visit[v].challenge
        BY <2>1, <3>1 DEF Proceed, UnlockTypeOK, Visit
      <4> QED BY <2>1, <3>3, <4>1 DEF Due, OnlyVisit
    <3> QED BY <1>8, <2>1, <3>1, <3>4
  <2> QED BY <2>2, <2>3
<1>12. ASSUME NEW v \in Visits, ClaimRedemption(v) PROVE Goal
  <2>1. /\ visit[v] \in Visit /\ VisitSound(visit[v]) /\ visit[v].step = "claim"
        /\ visit[v].op = "exchange" /\ serverKey' = serverKey
        /\ redeemed' = redeemed \cup {[id |-> visit[v].challenge.id]}
    BY <1>0, <1>12 DEF ClaimRedemption, VisitSound, transactionHash
  <2>2. \E step \in {"issue", "refused"} : Proceed(v, step)
    BY <1>12 DEF ClaimRedemption
  <2>3. PICK step \in {"issue", "refused"} : Proceed(v, step)
    BY <2>2
  <2>4. /\ visit'[v].op = visit[v].op /\ visit'[v].challenge = visit[v].challenge
    BY <2>1, <2>3 DEF Proceed, UnlockTypeOK, Visit
  <2>5. Spent(visit[v].challenge.id)' /\ Due(visit[v])'
    BY <2>1, <2>4 DEF Spent, Due
  <2>6. visit[v].key # 0 /\ serverKey # 0 /\ (exclusive => visit[v].key = serverKey)
    BY <2>1 DEF VisitSound
  <2> QED BY <1>8, <2>1, <2>3, <2>5, <2>6
<1>13. ASSUME NEW v \in Visits, VerifyToken(v) PROVE Goal
  <2>1. /\ visit[v] \in Visit /\ VisitSound(visit[v]) /\ visit[v].step = "work"
        /\ visit[v].op = "verify" /\ OnlyVisit
    BY <1>0, <1>13 DEF VerifyToken
  <2>2. CASE visit[v].token.key = visit[v].key /\ time < visit[v].token.until
    BY <1>2, <1>13, <2>2 DEF VerifyToken, Leave
  <2>3. CASE ~(visit[v].token.key = visit[v].key /\ time < visit[v].token.until)
    <3>1. Proceed(v, "refused")
      BY <1>13, <2>3 DEF VerifyToken
    <3>2. visit[v].token \in tokens /\ visit[v].token.until \in Nat
      BY <2>1 DEF VisitSound, UnlockTypeOK, Token
    <3>3. exclusive => visit[v].token.until <= time
      BY <2>1, <2>3, <3>2 DEF VisitSound, UnlockSound, SignedByServer, UnlockTypeOK
    <3>4. exclusive => Due(visit[v])'
      <4>1. visit'[v].op = visit[v].op /\ visit'[v].token = visit[v].token
        BY <2>1, <3>1 DEF Proceed, UnlockTypeOK, Visit
      <4> QED BY <2>1, <3>3, <4>1 DEF Due, OnlyVisit
    <3> QED BY <1>8, <2>1, <3>1, <3>4
  <2> QED BY <2>2, <2>3
<1>14. ASSUME NEW v \in Visits, IssueChallenge(v) \/ ClaimAnswerIsLost(v) \/ IssueToken(v)
                                \/ AnswerRefusal(v) \/ Fail(v)
       PROVE  Goal
  BY <1>2, <1>14 DEF IssueChallenge, ClaimAnswerIsLost, IssueToken, AnswerRefusal, Fail, Leave
<1> QED
  BY <1>1, <1>3, <1>4, <1>5, <1>7, <1>9, <1>10, <1>11, <1>12, <1>13, <1>14
  DEF UnlockNext, VisitStep

LEMMA VisitStaysAFunction ==
    ASSUME UnlockTypeOK, UnlockNext
    PROVE  visit' = [w \in Visits |-> visit'[w]]
<1> DEFINE Goal == visit' = [w \in Visits |-> visit'[w]]
<1> USE DEF UnlockTypeOK
<1>1. ASSUME NEW v \in Visits, NEW j, visit' = [visit EXCEPT ![v] = j] PROVE Goal
  BY <1>1
<1>2. ASSUME NEW v \in Visits, NEW step, Proceed(v, step) PROVE Goal
  BY <1>2 DEF Proceed
<1>3. ASSUME NEW v \in Visits, NEW step, NEW key,
             visit' = [visit EXCEPT ![v].step = step, ![v].key = key]
      PROVE  Goal
  BY <1>3
<1>4. ASSUME NEW v \in Visits, NEW step, NEW at,
             visit' = [visit EXCEPT ![v].step = step, ![v].at = at]
      PROVE  Goal
  BY <1>4
<1>5. ASSUME NEW v \in Visits, VisitStep(v) PROVE Goal
  <2>1. CASE ReadServerKey(v) \/ RereadServerKey(v)
    BY <1>3, <2>1 DEF ReadServerKey, RereadServerKey
  <2>2. CASE Validate(v)
    BY <1>2, <1>4, <2>2 DEF Validate
  <2>3. CASE CreateServerKey(v)
    BY <1>2, <2>3 DEF CreateServerKey
  <2>4. CASE ClaimRedemption(v)
    BY <1>2, <2>4 DEF ClaimRedemption
  <2>5. CASE VerifyToken(v)
    BY <1>1, <1>2, <2>5 DEF VerifyToken, Leave
  <2>6. CASE \/ IssueChallenge(v) \/ ClaimAnswerIsLost(v) \/ IssueToken(v)
             \/ AnswerRefusal(v) \/ Fail(v)
    BY <1>1, <2>6
    DEF IssueChallenge, ClaimAnswerIsLost, IssueToken, AnswerRefusal, Fail, Leave
  <2> QED BY <1>5, <2>1, <2>2, <2>3, <2>4, <2>5, <2>6 DEF VisitStep
<1>6. CASE UnlockTick
  BY <1>6 DEF UnlockTick
<1>7. ASSUME NEW v \in Visits, NEW j, visit' = [visit EXCEPT ![v] = j] \/ VisitStep(v) PROVE Goal
  BY <1>1, <1>5, <1>7
<1> QED BY <1>6, <1>7 DEF UnlockNext, AskChallenge, AskExchange, Present

\* A set of records that grows by one.
LEMMA OneMore ==
    ASSUME NEW S, IsFiniteSet(S), NEW x
    PROVE  IsFiniteSet(S \cup {x}) /\ Cardinality(S) \in Nat
BY FS_AddElement, FS_CardinalityType

\* What the store and the calls hold together, step by step.
LEMMA UnlockSoundKept ==
    ASSUME UnlockTypeOK, UnlockSound, [UnlockNext]_unlockVars
    PROVE  UnlockTypeOK' /\ UnlockSound'
<1> USE UnlockAssumption
<1>1. CASE UNCHANGED unlockVars
  BY <1>1 DEF unlockVars, UnlockTypeOK, UnlockSound, Finite, SignedByServer, ClaimedAlone,
              RedeemedOnce, VisitSound, Due, Spent
<1>2. CASE UnlockNext
  <2>1. /\ \A v \in Visits : visit'[v] \in Visit /\ VisitSound(visit[v])'
        /\ \A v \in Visits : visit[v] \in Visit /\ VisitSound(visit[v])
    BY <1>2, VisitsSound DEF UnlockTypeOK, UnlockSound
  <2>2. visit' \in [Visits -> Visit]
    BY <1>2, <2>1, VisitStaysAFunction
  <2>3. ASSUME UNCHANGED <<challenges, redeemed, tokens>>,
               \A v \in Visits : visit'[v].step = "issue" => visit'[v] = visit[v]
        PROVE  UnlockTypeOK' /\ UnlockSound'
    <3>1. UnlockTypeOK'
      BY <2>2, <2>3, <1>2, StoreGrows DEF UnlockTypeOK
    <3>2. Finite' /\ RedeemedOnce'
      BY <2>3, <1>2, StoreGrows DEF UnlockSound, Finite, RedeemedOnce
    <3>3. SignedByServer'
      <4>1. \A challenge \in challenges : challenge.key # 0
        BY DEF UnlockTypeOK, Challenge
      <4>2. \A token \in tokens : token.key # 0
        BY DEF UnlockTypeOK, Token
      <4> QED BY <2>3, <1>2, <4>1, <4>2, StoreGrows DEF UnlockSound, SignedByServer
    <3>4. ClaimedAlone'
      BY <2>3, <1>2, StoreGrows DEF UnlockSound, ClaimedAlone, Spent
    <3> QED BY <2>1, <3>1, <3>2, <3>3, <3>4 DEF UnlockSound
  <2>4. ASSUME NEW v \in Visits, IssueChallenge(v) PROVE UnlockTypeOK' /\ UnlockSound'
    <3> DEFINE c == [id |-> Cardinality(challenges) + 1, key |-> visit[v].key,
                     until |-> visit[v].at + ChallengeTtl, ttl |-> visit[v].ttl]
    <3>1. /\ challenges' = challenges \cup {c} /\ Cardinality(challenges) < MaxChallenges
          /\ UNCHANGED <<exclusive, serverKey, keyPairs, redeemed, tokens, time>>
          /\ visit[v].step = "work" /\ visit[v].op = "challenge"
          /\ visit' = [visit EXCEPT ![v] = Away]
      BY <2>4 DEF IssueChallenge, Leave
    <3>2. IsFiniteSet(challenges) /\ Cardinality(challenges) \in Nat
      BY OneMore DEF UnlockSound, Finite
    <3>3. /\ visit[v].key \in 1 .. MaxKeys /\ visit[v].at \in Nat /\ visit[v].ttl \in UnlockTtls
          /\ exclusive => visit[v].key = serverKey
      BY <2>1, <3>1 DEF Visit, VisitSound
    <3>4. c \in Challenge
      BY <3>1, <3>2, <3>3 DEF Challenge
    <3>5. UnlockTypeOK'
      BY <2>2, <3>1, <3>4 DEF UnlockTypeOK
    <3>6. Finite' /\ SignedByServer' /\ RedeemedOnce'
      <4>1. IsFiniteSet(challenges \cup {c})
        BY <3>2, OneMore
      <4>2. c.key = visit[v].key
        OBVIOUS
      <4> QED BY <3>1, <3>3, <4>1, <4>2 DEF UnlockSound, Finite, SignedByServer, RedeemedOnce
    <3>7. ClaimedAlone'
      <4>1. \A w \in Visits : visit'[w].step = "issue" => visit'[w] = visit[w]
        BY <3>1 DEF UnlockTypeOK, Away
      <4> QED BY <3>1, <4>1 DEF UnlockSound, ClaimedAlone, Spent
    <3> QED BY <2>1, <3>5, <3>6, <3>7 DEF UnlockSound
  <2>5. ASSUME NEW v \in Visits, ClaimRedemption(v) \/ ClaimAnswerIsLost(v)
        PROVE  UnlockTypeOK' /\ UnlockSound'
    <3>1. /\ redeemed' = redeemed \cup {[id |-> visit[v].challenge.id]}
          /\ UNCHANGED <<exclusive, serverKey, keyPairs, challenges, tokens, time>>
          /\ \A w \in Visits \ {v} : visit'[w] = visit[w]
      BY <2>5 DEF ClaimRedemption, ClaimAnswerIsLost, transactionHash, Proceed, Leave, UnlockTypeOK
    <3>2. visit'[v].step = "issue" =>
            /\ visit'[v].challenge = visit[v].challenge
            /\ exclusive => ~Spent(visit[v].challenge.id)
      <4>1. CASE ClaimRedemption(v)
        BY <2>1, <4>1 DEF ClaimRedemption, transactionHash, Proceed, Spent, UnlockTypeOK, Visit
      <4>2. CASE ClaimAnswerIsLost(v)
        BY <4>2 DEF ClaimAnswerIsLost, Leave, Away, UnlockTypeOK
      <4> QED BY <2>5, <4>1, <4>2
    <3>3. UnlockTypeOK' /\ Finite' /\ SignedByServer' /\ RedeemedOnce'
      BY <2>2, <3>1 DEF UnlockTypeOK, UnlockSound, Finite, SignedByServer, RedeemedOnce
    <3>4. \A w \in Visits : visit[w].step = "issue" => Spent(visit[w].challenge.id)
      BY <2>1 DEF VisitSound
    <3>5. ClaimedAlone'
      <4>1. \A token \in tokens' : Spent(token.challenge)'
        BY <3>1 DEF UnlockSound, ClaimedAlone, Spent
      <4>2. ASSUME exclusive, NEW w \in Visits, visit'[w].step = "issue"
            PROVE  /\ \A token \in tokens : token.challenge # visit'[w].challenge.id
                   /\ \A u \in Visits \ {w} : visit'[u].step = "issue" =>
                         visit'[u].challenge.id # visit'[w].challenge.id
        <5>1. CASE w = v
          BY <3>1, <3>2, <3>4, <4>2, <5>1 DEF UnlockSound, ClaimedAlone
        <5>2. CASE w # v
          <6>1. visit'[w] = visit[w] /\ Spent(visit[w].challenge.id)
            BY <3>1, <3>4, <4>2, <5>2
          <6>2. \A u \in Visits \ {w, v} : visit'[u] = visit[u]
            BY <3>1
          <6>3. visit'[v].step = "issue" => visit'[v].challenge.id # visit[w].challenge.id
            BY <3>2, <4>2, <6>1
          <6> QED BY <4>2, <5>2, <6>1, <6>2, <6>3 DEF UnlockSound, ClaimedAlone
        <5> QED BY <5>1, <5>2
      <4> QED BY <3>1, <4>1, <4>2 DEF ClaimedAlone
    <3> QED BY <2>1, <3>3, <3>5 DEF UnlockSound
  <2>6. ASSUME NEW v \in Visits, IssueToken(v) PROVE UnlockTypeOK' /\ UnlockSound'
    <3> DEFINE t == [id |-> Cardinality(tokens) + 1, challenge |-> visit[v].challenge.id,
                     key |-> visit[v].key, until |-> visit[v].at + visit[v].ttl]
    <3>1. /\ tokens' = tokens \cup {t} /\ Cardinality(tokens) < MaxTokens
          /\ UNCHANGED <<exclusive, serverKey, keyPairs, challenges, redeemed, time>>
          /\ visit[v].step = "issue" /\ visit' = [visit EXCEPT ![v] = Away]
      BY <2>6 DEF IssueToken, Leave
    <3>2. IsFiniteSet(tokens) /\ Cardinality(tokens) \in Nat
      BY OneMore DEF UnlockSound, Finite
    <3>3. /\ visit[v].key \in 1 .. MaxKeys /\ visit[v].at \in Nat /\ visit[v].ttl \in Nat
          /\ visit[v].challenge \in challenges /\ Spent(visit[v].challenge.id)
          /\ exclusive => visit[v].key = serverKey
      BY <2>1, <3>1 DEF Visit, VisitSound
    <3>4. visit[v].challenge.id \in 1 .. MaxChallenges
      BY <3>3 DEF UnlockTypeOK, Challenge
    <3>5. t \in Token
      BY <3>1, <3>2, <3>3, <3>4 DEF Token
    <3>6. UnlockTypeOK'
      BY <2>2, <3>1, <3>5 DEF UnlockTypeOK
    <3>7. Finite' /\ SignedByServer'
      <4>1. IsFiniteSet(tokens \cup {t})
        BY <3>2, OneMore
      <4>2. t.key = visit[v].key
        OBVIOUS
      <4> QED BY <3>1, <3>3, <4>1, <4>2 DEF UnlockSound, Finite, SignedByServer
    <3>8. exclusive => \A token \in tokens : token.challenge # t.challenge
      BY <3>1 DEF UnlockSound, ClaimedAlone
    <3>9. RedeemedOnce'
      BY <3>1, <3>8 DEF UnlockSound, RedeemedOnce
    <3>10. ClaimedAlone'
      <4>1. \A w \in Visits : visit'[w].step = "issue" => w # v /\ visit'[w] = visit[w]
        BY <3>1 DEF UnlockTypeOK, Away
      <4>2. t.challenge = visit[v].challenge.id
        OBVIOUS
      <4>3. \A token \in tokens' : Spent(token.challenge)'
        BY <3>1, <3>3, <4>2 DEF UnlockSound, ClaimedAlone, Spent
      <4>4. ASSUME exclusive, NEW w \in Visits, visit'[w].step = "issue"
            PROVE  /\ \A token \in tokens' : token.challenge # visit'[w].challenge.id
                   /\ \A u \in Visits \ {w} : visit'[u].step = "issue" =>
                         visit'[u].challenge.id # visit'[w].challenge.id
        BY <3>1, <4>1, <4>2, <4>4 DEF UnlockSound, ClaimedAlone
      <4> QED BY <3>1, <4>3, <4>4 DEF ClaimedAlone
    <3> QED BY <2>1, <3>6, <3>7, <3>9, <3>10 DEF UnlockSound
\* What does not touch the records, and brings nobody to the issue of a token.
  <2>7. ASSUME NEW v \in Visits, UNCHANGED <<challenges, redeemed, tokens>>,
               visit'[v].step # "issue", \A w \in Visits \ {v} : visit'[w] = visit[w]
        PROVE  UnlockTypeOK' /\ UnlockSound'
    BY <2>3, <2>7
  <2>8. ASSUME NEW v \in Visits, NEW j, visit' = [visit EXCEPT ![v] = j], j.step # "issue", OnlyVisit
        PROVE  UnlockTypeOK' /\ UnlockSound'
    BY <2>7, <2>8 DEF UnlockTypeOK, OnlyVisit
  <2>9. ASSUME NEW v \in Visits, Leave(v), OnlyVisit PROVE UnlockTypeOK' /\ UnlockSound'
    <3>1. Away.step # "issue"
      BY DEF Away
    <3> QED BY <2>8, <2>9, <3>1 DEF Leave
  <2>10. ASSUME NEW v \in Visits, NEW ttl \in UnlockTtls, AskChallenge(v, ttl)
         PROVE  UnlockTypeOK' /\ UnlockSound'
    <3>1. [Away EXCEPT !.op = "challenge", !.step = "key", !.ttl = ttl, !.at = time].step # "issue"
      BY DEF Away
    <3> QED BY <2>8, <2>10, <3>1 DEF AskChallenge
  <2>11. ASSUME NEW v \in Visits, NEW challenge \in challenges, NEW mode \in Mode,
                NEW ttl \in UnlockTtls, AskExchange(v, challenge, mode, ttl)
         PROVE  UnlockTypeOK' /\ UnlockSound'
    <3>1. [Away EXCEPT !.op = "exchange", !.step = "key", !.ttl = ttl, !.mode = mode,
                       !.challenge = challenge].step # "issue"
      BY DEF Away
    <3> QED BY <2>8, <2>11, <3>1 DEF AskExchange
  <2>12. ASSUME NEW v \in Visits, NEW token \in tokens, Present(v, token)
         PROVE  UnlockTypeOK' /\ UnlockSound'
    <3>1. [Away EXCEPT !.op = "verify", !.step = "key", !.token = token].step # "issue"
      BY DEF Away
    <3> QED BY <2>8, <2>12, <3>1 DEF Present
  <2>13. ASSUME NEW v \in Visits, ReadServerKey(v) PROVE UnlockTypeOK' /\ UnlockSound'
    BY <2>1, <2>7, <2>13 DEF ReadServerKey, UnlockTypeOK, Visit
  <2>14. ASSUME NEW v \in Visits, CreateServerKey(v) \/ RereadServerKey(v)
         PROVE  UnlockTypeOK' /\ UnlockSound'
    BY <2>1, <2>7, <2>14 DEF CreateServerKey, RereadServerKey, Proceed, OnlyVisit, UnlockTypeOK, Visit
  <2>15. ASSUME NEW v \in Visits, Validate(v) PROVE UnlockTypeOK' /\ UnlockSound'
    BY <2>1, <2>7, <2>15 DEF Validate, Proceed, OnlyVisit, UnlockTypeOK, Visit
  <2>16. ASSUME NEW v \in Visits, VerifyToken(v) PROVE UnlockTypeOK' /\ UnlockSound'
    <3>1. Leave(v) \/ Proceed(v, "refused")
      BY <2>16 DEF VerifyToken
    <3>2. OnlyVisit
      BY <2>16 DEF VerifyToken
    <3> QED BY <2>1, <2>7, <2>9, <3>1, <3>2 DEF Proceed, OnlyVisit, UnlockTypeOK, Visit
  <2>17. CASE UnlockTick
    BY <2>3, <2>17 DEF UnlockTick
  <2>18. ASSUME NEW v \in Visits, AnswerRefusal(v) \/ Fail(v) PROVE UnlockTypeOK' /\ UnlockSound'
    BY <2>9, <2>18 DEF AnswerRefusal, Fail
  <2> QED
    BY <1>2, <2>4, <2>5, <2>6, <2>10, <2>11, <2>12, <2>13, <2>14, <2>15, <2>16, <2>17, <2>18
    DEF UnlockNext, VisitStep
<1> QED BY <1>1, <1>2

LEMMA UnlockSoundAtFirst == UnlockInit => UnlockTypeOK /\ UnlockSound
<1> SUFFICES ASSUME UnlockInit PROVE UnlockTypeOK /\ UnlockSound
  OBVIOUS
<1>1. UnlockTypeOK
  <2>1. visit \in [Visits -> Visit]
    BY AwaySound DEF UnlockInit
  <2> QED BY <2>1, UnlockAssumption DEF UnlockInit, UnlockTypeOK
<1>2. Finite
  BY FS_EmptySet DEF UnlockInit, Finite
<1>3. \A v \in Visits : VisitSound(visit[v])
  BY AwaySound DEF UnlockInit
<1>4. ClaimedAlone
  BY DEF UnlockInit, ClaimedAlone, Away
<1> QED BY <1>1, <1>2, <1>3, <1>4 DEF UnlockInit, UnlockSound, SignedByServer, RedeemedOnce

\* Whatever the calls do, the variables keep their types.
THEOREM UnlockTypesKept == UnlockSpec => []UnlockTypeOK
BY UnlockSoundAtFirst, UnlockSoundKept, PTL DEF UnlockSpec

\* RedeemedOnce, for any number of calls, challenges and tokens.
THEOREM ChallengesRedeemedOnce == UnlockSpec => []RedeemedOnce
<1>1. UnlockTypeOK /\ UnlockSound => RedeemedOnce
  BY DEF UnlockSound
<1> QED BY <1>1, UnlockSoundAtFirst, UnlockSoundKept, PTL DEF UnlockSpec

\* SignedIsAccepted, for any number of calls that find the store without a key.
THEOREM WhatIsSignedIsAccepted == UnlockSpec => []SignedIsAccepted
<1>1. UnlockTypeOK /\ UnlockSound => SignedIsAccepted
  <2> SUFFICES ASSUME UnlockSound, exclusive, NEW v \in Visits, visit[v].step = "refused"
               PROVE  CASE visit[v].op = "verify" -> visit[v].token.until <= time
                        [] visit[v].op = "exchange" ->
                             \/ visit[v].challenge.until < time
                             \/ /\ visit[v].mode = "message"
                                /\ visit[v].challenge.ttl # visit[v].ttl
                             \/ transactionHash(visit[v]) \in redeemed
    BY DEF SignedIsAccepted
  <2>1. Due(visit[v]) /\ visit[v].op \in {"exchange", "verify"}
    BY DEF UnlockSound, VisitSound
  <2>2. CASE visit[v].op = "verify"
    BY <2>1, <2>2 DEF Due
  <2>3. CASE visit[v].op = "exchange"
    BY <2>1, <2>3 DEF Due, Spent, transactionHash
  <2> QED BY <2>1, <2>2, <2>3
<1> QED BY <1>1, UnlockSoundAtFirst, UnlockSoundKept, PTL DEF UnlockSpec

-----------------------------------------------------------------------------
(* IntegrationAdmin.                                                       *)

Known(record) == record = Missing \/ record.key # 0

CallSound(j) ==
    j.op # "none" => /\ j.op \in Creation <=> j.base = Missing
                     /\ Known(j.base) /\ j.next.key # 0
                     /\ \E key \in 1 .. MaxDrawn :
                           j.next = Changed(j.base, j.op, key)

\* The record in force is the operator's last word.
Agrees ==
    ~crossed => /\ currentRecord.key = newest
                /\ currentRecord # Missing => (currentRecord.enabled <=> ~shut)
                /\ \A g \in retired : g < currentRecord.generation

AdminSound ==
    /\ Known(bootstrap) /\ (bootstrap # Missing => bootstrap.enabled)
    /\ Known(service) /\ Agrees
    /\ \A c \in AdminCalls : CallSound(call[c])

LEMMA CreatedRecord ==
    ASSUME NEW op \in Creation, NEW old, NEW key
    PROVE  \E enabled, delivers \in BOOLEAN, generation \in {0, 1} :
              /\ Changed(old, op, key) = [key |-> key, enabled |-> enabled,
                                          generation |-> generation, delivers |-> delivers]
              /\ enabled <=> op # "create_shut"
<1>1. CASE op = "create"
  <2>1. Changed(old, op, key) = [key |-> key, enabled |-> TRUE, generation |-> 0,
                                 delivers |-> FALSE]
    BY <1>1 DEF Changed, Creation
  <2> QED BY <1>1, <2>1
<1>2. CASE op = "create_shut"
  <2>1. Changed(old, op, key) = [key |-> key, enabled |-> FALSE, generation |-> 0,
                                 delivers |-> FALSE]
    BY <1>2 DEF Changed, Creation
  <2> QED BY <1>2, <2>1
<1>3. CASE op = "create_hook"
  <2>1. Changed(old, op, key) = [key |-> key, enabled |-> TRUE, generation |-> 1,
                                 delivers |-> TRUE]
    BY <1>3 DEF Changed, Creation
  <2> QED BY <1>3, <2>1
<1> QED BY <1>1, <1>2, <1>3 DEF Creation

\* Every record made is of the type.
LEMMA ChangedTyped ==
    ASSUME NEW old \in Setting, NEW op \in Change, NEW key \in 0 .. MaxDrawn,
           op = "rotate_hook" => old.generation \in 1 .. MaxGeneration - 1
    PROVE  Changed(old, op, key) \in Setting
<1>1. \A generation \in 0 .. MaxGeneration, k \in 0 .. MaxDrawn, e \in BOOLEAN, d \in BOOLEAN :
        [key |-> k, enabled |-> e, generation |-> generation, delivers |-> d] \in Setting
  BY DEF Setting
<1>2. /\ old.generation \in 0 .. MaxGeneration /\ old.key \in 0 .. MaxDrawn
      /\ old.enabled \in BOOLEAN /\ old.delivers \in BOOLEAN
  BY DEF Setting
<1>3. SameGeneration(old) \in 0 .. MaxGeneration
  BY <1>2, AdminAssumption DEF SameGeneration
<1>4. CASE op \in Creation
  BY <1>1, <1>4, CreatedRecord, AdminAssumption
<1>5. CASE op = "rotate_hook"
  <2>1. old.generation + 1 \in 0 .. MaxGeneration
    BY <1>2, <1>5, AdminAssumption
  <2> QED BY <2>1, <1>5 DEF Changed, WithWebhook, Creation, Setting
<1>6. CASE op \in {"hook_on", "hook_off", "unhook"}
  <2>1. \A generation \in 0 .. MaxGeneration, d \in BOOLEAN :
          WithWebhook(old, generation, d) \in Setting
    BY <1>1, <1>2 DEF WithWebhook
  <2>2. CASE op = "unhook"
    <3>1. 0 \in 0 .. MaxGeneration
      BY AdminAssumption
    <3>2. Changed(old, op, key) = WithWebhook(old, 0, FALSE)
      BY <2>2 DEF Changed, Creation
    <3> QED BY <2>1, <3>1, <3>2
  <2>3. CASE op = "hook_on"
    BY <1>3, <2>1, <2>3 DEF Changed, Creation
  <2>4. CASE op = "hook_off"
    BY <1>3, <2>1, <2>4 DEF Changed, Creation
  <2> QED BY <1>6, <2>2, <2>3, <2>4
<1>7. CASE op \in {"enable", "disable", "edit", "rotate"}
  BY <1>7, AdminAssumption DEF Changed, Creation, Setting
<1> QED BY <1>4, <1>5, <1>6, <1>7 DEF Change

\* Whatever the calls do, the variables keep their types.
THEOREM AdminTypesKept == AdminSpec => []AdminTypeOK
<1>1. AdminInit => AdminTypeOK
  <2>1. Missing \in Setting /\ Configured \in Setting
    BY AdminAssumption DEF Setting, Missing, Configured
  <2>2. NoCall \in Pending
    BY <2>1 DEF Pending, NoCall
  <2>3. Missing.key \in 0 .. MaxDrawn /\ Configured.key \in 0 .. MaxDrawn
    BY <2>1 DEF Setting
  <2> SUFFICES ASSUME AdminInit PROVE AdminTypeOK
    OBVIOUS
  <2>4. bootstrap \in Setting /\ newest \in 0 .. MaxDrawn
    BY <2>1, <2>3 DEF AdminInit
  <2>5. call \in [AdminCalls -> Pending] /\ drawnKeys \in 1 .. MaxDrawn
    BY <2>2, AdminAssumption DEF AdminInit
  <2> QED BY <2>1, <2>4, <2>5 DEF AdminInit, AdminTypeOK
<1>2. AdminTypeOK /\ [AdminNext]_adminVars => AdminTypeOK'
  <2> SUFFICES ASSUME AdminTypeOK, [AdminNext]_adminVars PROVE AdminTypeOK'
    OBVIOUS
  <2> USE AdminAssumption DEF AdminTypeOK
  <2>1. currentRecord \in Setting
    BY DEF currentRecord
  <2>2. NoCall \in Pending
    BY DEF NoCall, Pending, Missing, Setting
  <2>3. ASSUME NEW c \in AdminCalls, NEW op \in Change, Begin(c, op) PROVE AdminTypeOK'
    <3>1. drawnKeys' \in 1 .. MaxDrawn
      BY <2>3 DEF Begin
    <3>2. Changed(currentRecord, op, drawnKeys') \in Setting
      <4>1. op = "rotate_hook" => currentRecord.generation \in 1 .. MaxGeneration - 1
        BY <2>3 DEF Begin
      <4> QED BY <2>1, <3>1, <4>1, ChangedTyped
    <3>3. call' \in [AdminCalls -> Pending]
      BY <2>1, <2>3, <3>2 DEF Begin, Pending
    <3> QED BY <2>3, <3>1, <3>3 DEF Begin, told
  <2>4. ASSUME NEW c \in AdminCalls, PutRecord(c) PROVE AdminTypeOK'
    <3>1. call[c] \in Pending
      OBVIOUS
    <3>2. call[c].next \in Setting /\ call[c].base \in Setting
      BY <3>1 DEF Pending
    <3>3. newest' \in 0 .. MaxDrawn /\ retired' \subseteq 0 .. MaxGeneration
      BY <2>4, <3>2 DEF PutRecord, Setting
    <3>4. crossed' \in BOOLEAN /\ shut' \in BOOLEAN
      BY <2>4 DEF PutRecord
    <3> QED BY <2>2, <2>4, <3>2, <3>3, <3>4 DEF PutRecord
  <2>5. ASSUME NEW c \in AdminCalls, Abandon(c) PROVE AdminTypeOK'
    BY <2>2, <2>5 DEF Abandon, told
  <2>6. CASE UNCHANGED adminVars
    BY <2>6 DEF adminVars, told
  <2> QED BY <2>3, <2>4, <2>5, <2>6 DEF AdminNext
<1> QED BY <1>1, <1>2, PTL DEF AdminSpec

\* The calls keep what is known of the record.
LEMMA AdminSoundKept ==
    ASSUME AdminTypeOK, AdminSound, [AdminNext]_adminVars
    PROVE  AdminSound'
<1> USE DEF AdminTypeOK
<1>1. CASE UNCHANGED adminVars
  BY <1>1 DEF adminVars, told, AdminSound, Agrees, CallSound, currentRecord
<1>2. ASSUME NEW c \in AdminCalls, NEW op \in Change, Begin(c, op) PROVE AdminSound'
  <2> DEFINE j == [op |-> op, base |-> currentRecord,
                   next |-> Changed(currentRecord, op, drawnKeys')]
  <2>1. call' = [call EXCEPT ![c] = j]
    BY <1>2 DEF Begin
  <2>2. drawnKeys' \in 1 .. MaxDrawn
    BY <1>2, AdminAssumption DEF Begin
  <2>3. Known(currentRecord)
    BY DEF currentRecord, AdminSound
  <2>4. j.next.key # 0
    <3>1. CASE op \in Creation
      BY <2>2, <3>1, CreatedRecord
    <3>2. CASE op = "rotate"
      BY <2>2, <3>2 DEF Changed, WithWebhook, Creation, Setting, currentRecord
    <3>3. CASE op \notin Creation \cup {"rotate"}
      <4>1. currentRecord.key # 0 /\ currentRecord \in Setting
        BY <1>2, <2>3, <3>3 DEF Begin, Known, currentRecord
      <4>2. Changed(currentRecord, op, drawnKeys').key = currentRecord.key
        BY <3>3, <4>1 DEF Changed, WithWebhook, Creation, Change, Setting
      <4> QED BY <4>1, <4>2
    <3> QED BY <3>1, <3>2, <3>3
  <2>5. CallSound(j)
    <3>1. op \in Creation <=> currentRecord = Missing
      BY <1>2 DEF Begin
    <3> QED BY <2>2, <2>3, <2>4, <3>1 DEF CallSound
  <2>6. \A d \in AdminCalls : CallSound(call'[d])
    BY <2>1, <2>5 DEF AdminSound
  <2> QED BY <1>2, <2>6 DEF Begin, told, AdminSound, Agrees, currentRecord, CallSound
<1>3. ASSUME NEW c \in AdminCalls, Abandon(c) PROVE AdminSound'
  <2>1. \A d \in AdminCalls : CallSound(call'[d])
    BY <1>3 DEF Abandon, AdminSound, CallSound, NoCall
  <2> QED BY <1>3, <2>1 DEF Abandon, told, AdminSound, Agrees, currentRecord, CallSound
<1>4. ASSUME NEW c \in AdminCalls, PutRecord(c) PROVE AdminSound'
  <2> DEFINE j == call[c]
  <2>1. j \in Pending /\ j.base \in Setting /\ j.next \in Setting /\ j.op \in Change
    BY <1>4 DEF PutRecord, Pending
  <2>2. CallSound(j) /\ j.op # "none"
    BY <1>4 DEF PutRecord, AdminSound
  <2>3. j.next # Missing /\ j.next.key # 0
    BY <2>2 DEF CallSound, Missing
  <2>4. service' = j.next /\ currentRecord' = j.next
    BY <1>4, <2>3 DEF PutRecord, currentRecord
  <2>5. \A d \in AdminCalls : CallSound(call'[d])
    BY <1>4 DEF PutRecord, AdminSound, CallSound, NoCall
  <2>6. ASSUME ~crossed' PROVE /\ j.next.key = newest'
                               /\ j.next.enabled <=> ~shut'
                               /\ \A g \in retired' : g < j.next.generation
    <3>1. ~crossed /\ currentRecord = j.base
      BY <1>4, <2>6 DEF PutRecord
    <3>2. /\ j.base.key = newest
          /\ j.base # Missing => (j.base.enabled <=> ~shut)
          /\ \A g \in retired : g < j.base.generation
      BY <3>1 DEF AdminSound, Agrees
    <3>3. PICK key \in 1 .. MaxDrawn : j.next = Changed(j.base, j.op, key)
      BY <2>2 DEF CallSound
    <3>4. j.base.generation \in 0 .. MaxGeneration /\ retired \subseteq 0 .. MaxGeneration
      BY <2>1 DEF Setting
    <3>5. CASE j.op \in Creation
      <4>1. j.base = Missing
        BY <2>2, <3>5 DEF CallSound
      <4>2. retired = {}
        BY <3>2, <3>4, <4>1 DEF Missing
      <4>3. retired' = {}
        BY <1>4, <3>5, <4>2 DEF PutRecord, Creation
      <4>4. j.next.key = newest'
        BY <1>4, <3>5 DEF PutRecord, NeedsAKey
      <4>5. shut' <=> j.op = "create_shut" \/ (shut /\ j.op = "create_shut")
        BY <1>4, <3>5 DEF PutRecord, Creation
      <4>6. j.next.enabled <=> j.op # "create_shut"
        BY <3>3, <3>5, CreatedRecord
      <4> QED BY <4>3, <4>4, <4>5, <4>6
    <3>6. CASE j.op \notin Creation
      <4>1. j.base # Missing
        BY <2>2, <3>6 DEF CallSound
      <4>2. j.next.key = newest'
        BY <1>4, <2>1, <3>2, <3>3, <3>6 DEF PutRecord, Change, Creation, Changed, WithWebhook, NeedsAKey, Setting
      <4>3. j.next.enabled <=> ~shut'
        <5>1. CASE j.op = "enable"
          BY <1>4, <2>1, <3>3, <5>1 DEF PutRecord, Creation, Changed, Setting
        <5>2. CASE j.op = "disable"
          BY <1>4, <2>1, <3>3, <5>2 DEF PutRecord, Creation, Changed, Setting
        <5>3. CASE j.op \in {"edit", "rotate_hook", "rotate"}
          BY <1>4, <2>1, <3>2, <3>3, <4>1, <5>3 DEF PutRecord, Creation, Changed, Setting
        <5>4. CASE j.op \in {"hook_on", "hook_off", "unhook"}
          <6>1. j.next.enabled = j.base.enabled
            <7>1. CASE j.op = "hook_on"
              BY <3>3, <7>1 DEF Creation, Changed, WithWebhook
            <7>2. CASE j.op = "hook_off"
              BY <3>3, <7>2 DEF Creation, Changed, WithWebhook
            <7>3. CASE j.op = "unhook"
              BY <3>3, <7>3 DEF Creation, Changed, WithWebhook
            <7> QED BY <5>4, <7>1, <7>2, <7>3
          <6>2. shut' <=> shut
            BY <1>4, <5>4 DEF PutRecord
          <6> QED BY <3>2, <4>1, <6>1, <6>2
        <5> QED BY <2>1, <3>6, <5>1, <5>2, <5>3, <5>4 DEF Change
      <4>4. \A g \in retired' : g < j.next.generation
        <5>1. CASE j.op = "unhook"
          BY <1>4, <5>1 DEF PutRecord
        <5>2. CASE j.op = "rotate_hook"
          BY <1>4, <2>1, <3>2, <3>3, <3>4, <5>2 DEF PutRecord, Changed, WithWebhook, Creation, Setting
        <5>3. CASE j.op \in {"enable", "disable", "edit", "rotate"}
          BY <1>4, <2>1, <3>2, <3>3, <5>3 DEF PutRecord, Changed, WithWebhook, Creation, Setting
        <5>4. CASE j.op \in {"hook_on", "hook_off"}
          <6>1. j.next.generation = SameGeneration(j.base) /\ retired' = retired
            BY <1>4, <2>1, <3>3, <5>4 DEF PutRecord, Changed, WithWebhook, Creation, Setting
          <6> QED BY <3>2, <3>4, <6>1 DEF SameGeneration
        <5> QED BY <2>1, <3>6, <5>1, <5>2, <5>3, <5>4 DEF Change
      <4> QED BY <4>2, <4>3, <4>4
    <3> QED BY <3>5, <3>6
  <2>7. bootstrap' = bootstrap
    BY <1>4 DEF PutRecord
  <2>8. Agrees'
    BY <2>4, <2>6 DEF Agrees
  <2> QED BY <2>3, <2>4, <2>5, <2>7, <2>8 DEF AdminSound, Known
<1> QED BY <1>1, <1>2, <1>3, <1>4 DEF AdminNext

\* ChoicesStand, for any number of calls, keys and rotations.
THEOREM AdminChoicesStand == AdminSpec => []ChoicesStand
<1>1. AdminInit => AdminSound
  BY DEF AdminInit, AdminSound, Agrees, CallSound, NoCall, Known, currentRecord,
         Missing, Configured
<1>2. AdminTypeOK /\ AdminSound => ChoicesStand
  <2> SUFFICES ASSUME AdminTypeOK, AdminSound, ~crossed
               PROVE  /\ \A key \in 0 .. MaxDrawn :
                            Opens(key) <=> key # 0 /\ key = newest /\ ~shut
                      /\ service.generation # 0 => service.generation \notin retired
    BY DEF ChoicesStand
  <2>1. CASE service = Missing
    BY <2>1 DEF AdminTypeOK, AdminSound, Agrees, Opens, currentRecord, Known, Missing
  <2>2. CASE service # Missing
    BY <2>2 DEF AdminTypeOK, AdminSound, Agrees, Opens, currentRecord, Setting
  <2> QED BY <2>1, <2>2
<1> QED
  BY <1>1, <1>2, AdminTypesKept, AdminSoundKept, PTL DEF AdminSpec

-----------------------------------------------------------------------------
(* TreasuryBox.                                                            *)

Busy(a, subject) == change[a].step # "idle" /\ change[a].subject = subject
TaskEvent(j) == [at |-> j.at, subject |-> j.subject, value |-> j.value]

\* What is told of a subject, or is about to be.
Traces(subject) ==
    {e \in history : e.subject = subject} \cup
    {TaskEvent(change[a]) : a \in {b \in Administrators : Busy(b, subject)}}

Dated ==
    /\ \A subject \in Subjects : \A e \in Traces(subject) : e.at <= begun
    /\ \A e \in history : Latest(e.subject) # {}

\* A key is created once, before it is revoked; what it is now was recorded,
\* is about to be, or was cut.
KeySound(k) ==
    /\ \A e \in Traces(k) : e.value \in {"active", "revoked"}
    /\ \A e, f \in Traces(k) : e.value = "active" /\ f.value = "revoked" => e.at < f.at
    /\ \A a \in Administrators :
          Busy(a, k) /\ change[a].value = "active" /\ change[a].step # "record" =>
              auditKey[k] = "absent" /\ \A b \in Administrators : Busy(b, k) => b = a
    /\ auditKey[k] = "absent" =>
          /\ \A e \in history : e.subject # k
          /\ \A a \in Administrators :
                Busy(a, k) => change[a].value = "active" /\ change[a].step # "record"
    /\ auditKey[k] = "active" =>
          /\ \A e \in history : e.subject = k => e.value = "active"
          /\ \A a \in Administrators :
                Busy(a, k) /\ change[a].step = "record" => change[a].value = "active"
    /\ k \in cut \/ auditKey[k] = "absent"
          \/ (\E e \in history : e.subject = k /\ e.value = auditKey[k])
          \/ \E a \in Administrators :
                Busy(a, k) /\ change[a].step = "record" /\ change[a].value = auditKey[k]

\* Without renamings at the same time, the one under way is the newest.
NameSound ==
    ~parallel =>
        /\ \A a \in Administrators : Renames(a) =>
              /\ \A b \in Administrators : Renames(b) => b = a
              /\ \A e \in history : e.subject = "name" => e.at < change[a].at
              /\ change[a].step = "record" => name = change[a].value
        /\ "name" \in cut \/ Recording("name") \/
              IF Latest("name") = {} THEN name = Unnamed
              ELSE \A e \in Latest("name") : e.value = name

TreasurySound == Dated /\ NameSound /\ \A k \in AuditKeys : KeySound(k)

\* Whatever the calls do, the variables keep their types.
THEOREM TreasuryTypesKept == TreasurySpec => []TreasuryTypeOK
<1> USE TreasuryAssumption
<1>1. TreasuryInit => TreasuryTypeOK
  <2>1. NoTask \in Task
    BY DEF Task
  <2> SUFFICES ASSUME TreasuryInit PROVE TreasuryTypeOK
    OBVIOUS
  <2>2. change \in [Administrators -> Task] /\ begun \in 0 .. MaxChanges
    BY <2>1 DEF TreasuryInit
  <2>3. auditKey \in [AuditKeys -> KeyState]
    BY DEF TreasuryInit, KeyState
  <2> QED BY <2>2, <2>3 DEF TreasuryInit, TreasuryTypeOK
<1>2. TreasuryTypeOK /\ [TreasuryNext]_treasuryVars => TreasuryTypeOK'
  <2> SUFFICES ASSUME TreasuryTypeOK, [TreasuryNext]_treasuryVars PROVE TreasuryTypeOK'
    OBVIOUS
  <2> USE DEF TreasuryTypeOK
  <2>1. NoTask \in Task
    BY DEF Task
  <2>2. ASSUME NEW a \in Administrators, NEW subject, NEW value,
               \/ subject = "name" /\ value \in Names
               \/ subject \in AuditKeys /\ value \in {"active", "revoked"},
               BeginChange(a, subject, value)
        PROVE  TreasuryTypeOK'
    <3>1. begun' \in 1 .. MaxChanges
      BY <2>2 DEF BeginChange
    <3>2. [step |-> "read", at |-> begun', subject |-> subject, value |-> value] \in Task
      BY <2>2, <3>1 DEF Task
    <3>3. change' \in [Administrators -> Task]
      BY <2>2, <3>2 DEF BeginChange, Instant
    <3>4. parallel' \in BOOLEAN
      BY <2>2 DEF BeginChange
    <3> QED BY <2>2, <3>1, <3>3, <3>4 DEF BeginChange
  <2>3. ASSUME NEW a \in Administrators, change[a].step # "idle"
        PROVE  /\ change[a].subject \in Subjects
               /\ TaskEvent(change[a]) \in Event
               /\ \A step \in {"put", "record"} : [change[a] EXCEPT !.step = step] \in Task
               /\ \/ change[a].subject = "name" /\ change[a].value \in Names
                  \/ change[a].subject \in AuditKeys /\ change[a].value \in {"active", "revoked"}
    <3>1. CASE change[a] \in [step : {"read", "put", "record"}, at : 1 .. MaxChanges,
                              subject : {"name"}, value : Names]
      BY <3>1 DEF Task, Event, TaskEvent, Subjects
    <3>2. CASE change[a] \in [step : {"read", "put", "record"}, at : 1 .. MaxChanges,
                              subject : AuditKeys, value : {"active", "revoked"}]
      BY <3>2 DEF Task, Event, TaskEvent, Subjects
    <3>3. change[a] # NoTask
      BY <2>3 DEF NoTask
    <3> QED BY <3>1, <3>2, <3>3 DEF Task
  <2>4. ASSUME NEW a \in Administrators, ReadSettings(a) PROVE TreasuryTypeOK'
    <3>1. change' \in [Administrators -> Task]
      BY <2>1, <2>3, <2>4 DEF ReadSettings, Done
    <3> QED BY <2>4, <3>1 DEF ReadSettings
  <2>5. ASSUME NEW a \in Administrators, PutSettings(a) PROVE TreasuryTypeOK'
    <3>1. change' \in [Administrators -> Task]
      BY <2>3, <2>5 DEF PutSettings
    <3>2. name' \in Names \cup {Unnamed} /\ auditKey' \in [AuditKeys -> KeyState]
      BY <2>3, <2>5 DEF PutSettings, KeyState
    <3> QED BY <2>5, <3>1, <3>2 DEF PutSettings
  <2>6. ASSUME NEW a \in Administrators, RecordChange(a) PROVE TreasuryTypeOK'
    <3>1. history' \subseteq Event
      BY <2>3, <2>6 DEF RecordChange, TaskEvent
    <3> QED BY <2>1, <2>6, <3>1 DEF RecordChange, Done
  <2>7. ASSUME NEW a \in Administrators, GiveUp(a) PROVE TreasuryTypeOK'
    <3>1. cut' \subseteq Subjects
      BY <2>3, <2>7 DEF GiveUp
    <3> QED BY <2>1, <2>7, <3>1 DEF GiveUp, Done
  <2>8. CASE UNCHANGED treasuryVars
    BY <2>8 DEF treasuryVars
  <2> QED
    BY <2>2, <2>4, <2>5, <2>6, <2>7, <2>8
    DEF TreasuryNext, Rename, CreateAuditKey, RevokeAuditKey
<1> QED BY <1>1, <1>2, PTL DEF TreasurySpec

\* The values of a task that is under way.
LEMMA TaskKinds ==
    ASSUME TreasuryTypeOK, NEW a \in Administrators, change[a].step # "idle"
    PROVE  /\ change[a].at \in 1 .. MaxChanges
           /\ change[a].step \in {"read", "put", "record"}
           /\ \/ change[a].subject = "name" /\ change[a].value \in Names
              \/ change[a].subject \in AuditKeys /\ change[a].value \in {"active", "revoked"}
<1>1. change[a] \in Task /\ change[a] # NoTask
  BY DEF TreasuryTypeOK, NoTask
<1> QED BY <1>1 DEF Task

\* A new event that is later than the others of its subject is the newest one,
\* and one of them stays the newest otherwise.
LEMMA NewestStays ==
    ASSUME TreasuryTypeOK, Dated, NEW event \in Event, history' = history \cup {event}
    PROVE  \A e \in history' : Latest(e.subject)' # {}
<1>1. \A e \in history' : e.at \in Nat
  BY DEF TreasuryTypeOK, Event
<1> SUFFICES ASSUME NEW e \in history' PROVE Latest(e.subject)' # {}
  OBVIOUS
<1>2. CASE e \in history
  <2>1. PICK top \in history : top \in Latest(e.subject)
    BY <1>2 DEF Dated, Latest
  <2>2. CASE event.subject = e.subject /\ event.at > top.at
    <3>1. event \in Latest(e.subject)'
      BY <1>1, <2>1, <2>2 DEF Latest
    <3> QED BY <3>1
  <2>3. CASE ~(event.subject = e.subject /\ event.at > top.at)
    <3>1. top \in Latest(e.subject)'
      BY <1>1, <2>1, <2>3 DEF Latest
    <3> QED BY <3>1
  <2> QED BY <2>2, <2>3
<1>3. CASE e = event
  <2>1. CASE \E f \in history : f.subject = event.subject
    <3>1. PICK top \in history : top \in Latest(event.subject)
      BY <2>1 DEF Dated, Latest
    <3>2. CASE event.at > top.at
      <4>1. event \in Latest(e.subject)'
        BY <1>1, <1>3, <3>1, <3>2 DEF Latest
      <4> QED BY <4>1
    <3>3. CASE ~(event.at > top.at)
      <4>1. top \in Latest(e.subject)'
        BY <1>1, <1>3, <3>1, <3>3 DEF Latest
      <4> QED BY <4>1
    <3> QED BY <3>2, <3>3
  <2>2. CASE ~ \E f \in history : f.subject = event.subject
    <3>1. event \in Latest(e.subject)'
      BY <1>1, <1>3, <2>2 DEF Latest
    <3> QED BY <3>1
  <2> QED BY <2>1, <2>2
<1> QED BY <1>2, <1>3

\* A call begins.
LEMMA BeginKeeps ==
    ASSUME TreasuryTypeOK, TreasurySound, NEW a \in Administrators, NEW subject \in Subjects,
           NEW value, BeginChange(a, subject, value),
           subject \in AuditKeys => \/ value = "revoked" /\ auditKey[subject] # "absent"
                                    \/ /\ value = "active" /\ auditKey[subject] = "absent"
                                       /\ \A b \in Administrators : ~Busy(b, subject)
    PROVE  TreasurySound'
<1> USE TreasuryAssumption DEF TreasuryTypeOK, TreasurySound
<1> DEFINE task == [step |-> "read", at |-> begun + 1, subject |-> subject, value |-> value]
<1>1. /\ change[a].step = "idle" /\ begun' = begun + 1
      /\ change' = [change EXCEPT ![a] = task]
      /\ name' = name /\ auditKey' = auditKey /\ history' = history /\ cut' = cut
      /\ parallel' = (parallel \/ (subject = "name" /\ \E other \in Administrators : Renames(other)))
  BY DEF BeginChange, Instant
<1>2. /\ change'[a] = task /\ \A b \in Administrators \ {a} : change'[b] = change[b]
      /\ \A s : ~Busy(a, s)
  BY <1>1 DEF Busy
<1>3. \A s : \A b \in Administrators : Busy(b, s)' <=> IF b = a THEN s = subject ELSE Busy(b, s)
  BY <1>1, <1>2 DEF Busy
<1>4. \A s : Traces(s)' = IF s = subject THEN Traces(s) \cup {TaskEvent(task)} ELSE Traces(s)
  <2> SUFFICES ASSUME NEW s
               PROVE  Traces(s)' = IF s = subject THEN Traces(s) \cup {TaskEvent(task)} ELSE Traces(s)
    OBVIOUS
  <2>1. {b \in Administrators : Busy(b, s)'} =
          {b \in Administrators : Busy(b, s)} \cup (IF s = subject THEN {a} ELSE {})
    BY <1>2, <1>3
  <2> QED BY <1>1, <1>2, <2>1 DEF Traces, TaskEvent
<1>5. \A s \in Subjects : \A e \in Traces(s) : e.at \in Nat /\ e.at <= begun
  <2> SUFFICES ASSUME NEW s \in Subjects, NEW e \in Traces(s) PROVE e.at \in Nat
    BY DEF Dated
  <2> QED BY TaskKinds DEF Traces, Event, TaskEvent, Busy
<1>6. begun \in Nat
  OBVIOUS
<1>7. Dated'
  <2>1. \A s \in Subjects : \A e \in Traces(s)' : e.at <= begun'
    BY <1>1, <1>4, <1>5, <1>6 DEF TaskEvent
  <2>2. \A s : Latest(s)' = Latest(s)
    BY <1>1 DEF Latest
  <2> QED BY <1>1, <2>1, <2>2 DEF Dated
<1>8. NameSound'
  <2> SUFFICES ASSUME ~parallel'
               PROVE  /\ \A b \in Administrators : Renames(b)' =>
                            /\ \A d \in Administrators : Renames(d)' => d = b
                            /\ \A e \in history' : e.subject = "name" => e.at < change'[b].at
                            /\ change'[b].step = "record" => name' = change'[b].value
                      /\ "name" \in cut' \/ Recording("name")' \/
                            IF Latest("name")' = {} THEN name' = Unnamed
                            ELSE \A e \in Latest("name")' : e.value = name'
    BY DEF NameSound
  <2>1. ~parallel /\ (subject = "name" => \A b \in Administrators : ~Renames(b))
    BY <1>1
  <2>2. \A b \in Administrators : Renames(b)' <=> IF b = a THEN subject = "name" ELSE Renames(b)
    BY <1>1, <1>2 DEF Renames
  <2>3. \A e \in history : e.subject = "name" => e \in Traces("name")
    BY DEF Traces
  <2>4. \A b \in Administrators : Renames(b)' =>
            /\ \A d \in Administrators : Renames(d)' => d = b
            /\ \A e \in history' : e.subject = "name" => e.at < change'[b].at
            /\ change'[b].step = "record" => name' = change'[b].value
    BY <1>1, <1>2, <1>5, <1>6, <2>1, <2>2, <2>3 DEF NameSound, Subjects
  <2>5. Recording("name") => Recording("name")'
    BY <1>1, <1>2 DEF Recording
  <2>6. Latest("name")' = Latest("name")
    BY <1>1 DEF Latest
  <2> QED BY <1>1, <2>1, <2>4, <2>5, <2>6 DEF NameSound
<1>9. ASSUME NEW k \in AuditKeys PROVE KeySound(k)'
  <2>1. CASE k # subject
    <3>1. Traces(k)' = Traces(k)
      BY <1>4, <2>1
    <3>2. \A b \in Administrators : /\ Busy(b, k)' <=> Busy(b, k)
                                    /\ Busy(b, k) => change'[b] = change[b]
      BY <1>2, <1>3, <2>1
    <3> QED BY <1>1, <1>9, <3>1, <3>2 DEF KeySound
  <2>2. CASE k = subject /\ value = "revoked" /\ auditKey[k] # "absent"
    <3>1. Traces(k)' = Traces(k) \cup {TaskEvent(task)}
      BY <1>4, <2>2
    <3>2. TaskEvent(task).at = begun + 1 /\ TaskEvent(task).value = "revoked"
      BY <2>2 DEF TaskEvent
    <3>3. \A e \in Traces(k)' : e.value \in {"active", "revoked"}
      BY <1>9, <3>1, <3>2 DEF KeySound
    <3>4. \A e, f \in Traces(k)' : e.value = "active" /\ f.value = "revoked" => e.at < f.at
      <4> SUFFICES ASSUME NEW e \in Traces(k)', NEW f \in Traces(k)',
                          e.value = "active", f.value = "revoked"
                   PROVE  e.at < f.at
        OBVIOUS
      <4>1. e \in Traces(k)
        BY <3>1, <3>2
      <4>2. CASE f \in Traces(k)
        BY <1>9, <4>1, <4>2 DEF KeySound
      <4>3. CASE f = TaskEvent(task)
        <5>1. e.at \in Nat /\ e.at <= begun
          BY <1>5, <4>1 DEF Subjects
        <5> QED BY <1>6, <3>2, <4>3, <5>1
      <4> QED BY <3>1, <4>2, <4>3
    <3>5. \A b \in Administrators \ {a} : Busy(b, k)' <=> Busy(b, k)
      BY <1>3
    <3> QED BY <1>1, <1>2, <1>9, <2>2, <3>3, <3>4, <3>5 DEF KeySound
  <2>3. CASE /\ k = subject /\ value = "active" /\ auditKey[k] = "absent"
             /\ \A b \in Administrators : ~Busy(b, k)
    <3>1. Traces(k) = {}
      BY <1>9, <2>3 DEF Traces, KeySound
    <3>2. Traces(k)' = {TaskEvent(task)}
      BY <1>4, <2>3, <3>1
    <3>3. TaskEvent(task).value = "active"
      BY <2>3 DEF TaskEvent
    <3>4. \A b \in Administrators : Busy(b, k)' => b = a
      BY <1>3, <2>3
    <3> QED BY <1>1, <1>2, <1>9, <2>3, <3>2, <3>3, <3>4 DEF KeySound
  <2> QED BY <1>9, <2>1, <2>2, <2>3
<1> QED BY <1>7, <1>8, <1>9

\* The objects put: the name or a key, and the event they are told by.
LEMMA PutKeeps ==
    ASSUME TreasuryTypeOK, TreasurySound, NEW a \in Administrators, PutSettings(a)
    PROVE  TreasurySound'
<1> USE TreasuryAssumption DEF TreasuryTypeOK, TreasurySound
<1> DEFINE j == change[a]
<1>1. /\ change' = [change EXCEPT ![a].step = "record"]
      /\ history' = history /\ cut' = cut /\ begun' = begun /\ parallel' = parallel
      /\ j.step = "put"
  BY DEF PutSettings
<1>2. /\ change'[a] = [j EXCEPT !.step = "record"]
      /\ \A b \in Administrators \ {a} : change'[b] = change[b]
  BY <1>1
<1>3. /\ j.at \in 1 .. MaxChanges
      /\ \/ j.subject = "name" /\ j.value \in Names
         \/ j.subject \in AuditKeys /\ j.value \in {"active", "revoked"}
  BY <1>1, TaskKinds
<1>4. /\ change'[a].step = "record" /\ change'[a].at = j.at
      /\ change'[a].subject = j.subject /\ change'[a].value = j.value
  BY <1>2 DEF Task
<1>5. \A s : \A b \in Administrators : Busy(b, s)' <=> Busy(b, s)
  BY <1>1, <1>2, <1>4 DEF Busy
<1>6. \A b \in Administrators : TaskEvent(change'[b]) = TaskEvent(change[b])
  BY <1>2, <1>4 DEF TaskEvent
<1>7. \A s : Traces(s)' = Traces(s)
  <2> SUFFICES ASSUME NEW s PROVE Traces(s)' = Traces(s)
    OBVIOUS
  <2>1. {b \in Administrators : Busy(b, s)'} = {b \in Administrators : Busy(b, s)}
    BY <1>5
  <2> QED BY <1>1, <1>6, <2>1 DEF Traces
<1>8. \A s : Latest(s)' = Latest(s)
  BY <1>1 DEF Latest
<1>9. Dated'
  BY <1>1, <1>7, <1>8 DEF Dated
<1>10. CASE j.subject = "name"
  <2>1. name' = j.value /\ auditKey' = auditKey
    BY <1>10 DEF PutSettings
  <2>2. Renames(a) /\ Recording("name")'
    BY <1>1, <1>4, <1>10 DEF Renames, Recording
  <2>3. \A b \in Administrators : Renames(b)' <=> Renames(b)
    BY <1>1, <1>2, <1>4 DEF Renames
  <2>4. NameSound'
    BY <1>1, <1>2, <1>4, <2>1, <2>2, <2>3 DEF NameSound
  <2>5. \A k \in AuditKeys : KeySound(k)'
    <3> SUFFICES ASSUME NEW k \in AuditKeys PROVE KeySound(k)'
      OBVIOUS
    <3>1. \A b \in Administrators : Busy(b, k)' => b # a /\ change'[b] = change[b]
      BY <1>2, <1>4, <1>10 DEF Busy
    <3>2. \A b \in Administrators : Busy(b, k) => b # a
      BY <1>10 DEF Busy
    <3> QED BY <1>1, <1>2, <1>5, <1>7, <2>1, <3>1, <3>2 DEF KeySound
  <2> QED BY <1>9, <2>4, <2>5
<1>11. CASE j.subject # "name"
  <2>1. /\ j.subject \in AuditKeys /\ j.value \in {"active", "revoked"}
        /\ name' = name /\ auditKey' = [auditKey EXCEPT ![j.subject] = j.value]
    BY <1>3, <1>11 DEF PutSettings
  <2>2. \A b \in Administrators : /\ Renames(b)' <=> Renames(b)
                                  /\ Renames(b) => change'[b] = change[b]
    BY <1>1, <1>2, <1>4, <1>11 DEF Renames
  <2>3. Recording("name") => Recording("name")'
    BY <1>1, <1>2, <1>11 DEF Recording
  <2>4. NameSound'
    BY <1>1, <1>8, <2>1, <2>2, <2>3 DEF NameSound
  <2>5. ASSUME NEW k \in AuditKeys PROVE KeySound(k)'
    <3>1. CASE k # j.subject
      <4>1. \A b \in Administrators : Busy(b, k) => b # a /\ change'[b] = change[b]
        BY <1>2, <3>1 DEF Busy
      <4>2. auditKey'[k] = auditKey[k]
        BY <2>1, <3>1
      <4> QED BY <1>1, <1>5, <1>7, <4>1, <4>2 DEF KeySound
    <3>2. CASE k = j.subject
      <4>1. auditKey'[k] = j.value /\ Busy(a, k) /\ Busy(a, k)'
        BY <1>1, <1>4, <2>1, <3>2 DEF Busy
      <4>2. KeySound(k) /\ TaskEvent(j) \in Traces(k) /\ TaskEvent(j).value = j.value
        BY <4>1 DEF Traces, TaskEvent
      <4>3. CASE j.value = "active"
        <5>1. auditKey[k] = "absent" /\ \A b \in Administrators : Busy(b, k) => b = a
          BY <1>1, <4>1, <4>2, <4>3 DEF KeySound
        <5>2. \A e \in history' : e.subject # k
          BY <1>1, <4>2, <5>1 DEF KeySound
        <5>3. \A b \in Administrators : Busy(b, k)' => b = a
          BY <1>5, <5>1
        <5>4. change'[a].step = "record" /\ change'[a].value = "active"
          BY <1>4, <4>3
        <5>5. \A b \in Administrators :
                Busy(b, k)' => change'[b].step = "record" /\ change'[b].value = "active"
          BY <5>3, <5>4
        <5>6. auditKey'[k] = "active"
          BY <4>1, <4>3
        <5>7. \E b \in Administrators :
                Busy(b, k)' /\ change'[b].step = "record" /\ change'[b].value = auditKey'[k]
          BY <4>1, <5>4, <5>6
        <5> QED BY <1>7, <4>2, <5>2, <5>5, <5>6, <5>7 DEF KeySound, Busy
      <4>4. CASE j.value = "revoked"
        <5>1. auditKey[k] # "absent"
          BY <1>1, <4>1, <4>2, <4>4 DEF KeySound
        <5>2. \A b \in Administrators :
                Busy(b, k) /\ change[b].value = "active" => change[b].step = "record"
          BY <4>2, <5>1 DEF KeySound
        <5> QED BY <1>1, <1>2, <1>4, <1>5, <1>7, <4>1, <4>2, <4>4, <5>2 DEF KeySound
      <4> QED BY <2>1, <4>3, <4>4
    <3> QED BY <3>1, <3>2
  <2> QED BY <1>9, <2>4, <2>5
<1> QED BY <1>10, <1>11

\* A call that has nothing to do ends, and one that has goes on to its put.
LEMMA ReadKeeps ==
    ASSUME TreasuryTypeOK, TreasurySound, NEW a \in Administrators, change[a].step = "read",
           UNCHANGED <<name, auditKey, history, begun, parallel, cut>>,
           \/ change' = [change EXCEPT ![a].step = "put"]
           \/ change' = [change EXCEPT ![a] = NoTask]
    PROVE  TreasurySound'
<1> USE TreasuryAssumption DEF TreasuryTypeOK, TreasurySound
<1>1. /\ \A b \in Administrators \ {a} : change'[b] = change[b]
      /\ \/ change'[a].step = "idle"
         \/ /\ change'[a].step = "put" /\ change'[a].at = change[a].at
            /\ change'[a].subject = change[a].subject /\ change'[a].value = change[a].value
  BY DEF Task, NoTask
<1>2. \A s : \A b \in Administrators :
        Busy(b, s)' => /\ Busy(b, s)
                       /\ change'[b].value = change[b].value /\ change'[b].at = change[b].at
                       /\ TaskEvent(change'[b]) = TaskEvent(change[b])
                       /\ change'[b].step = "record" <=> change[b].step = "record"
  BY <1>1 DEF Busy, TaskEvent
<1>3. \A s : \A b \in Administrators :
        Busy(b, s) /\ change[b].step = "record" => Busy(b, s)' /\ change'[b] = change[b]
  BY <1>1 DEF Busy
<1>4. \A s : Traces(s)' \subseteq Traces(s)
  BY <1>2 DEF Traces
<1>5. \A s : Latest(s)' = Latest(s)
  BY DEF Latest
<1>6. Dated'
  BY <1>4, <1>5 DEF Dated
<1>7. NameSound'
  <2>1. \A b \in Administrators : Renames(b) <=> Busy(b, "name")
    BY DEF Renames, Busy
  <2>2. \A b \in Administrators : Renames(b)' <=> Busy(b, "name")'
    BY DEF Renames, Busy
  <2>3. Recording("name") => Recording("name")'
    BY <1>1 DEF Recording
  <2> QED BY <1>2, <1>5, <2>1, <2>2, <2>3 DEF NameSound
<1>8. ASSUME NEW k \in AuditKeys PROVE KeySound(k)'
  BY <1>2, <1>3, <1>4, <1>8 DEF KeySound
<1> QED BY <1>6, <1>7, <1>8

\* The event is written.
LEMMA RecordKeeps ==
    ASSUME TreasuryTypeOK, TreasurySound, NEW a \in Administrators, RecordChange(a)
    PROVE  TreasurySound'
<1> USE TreasuryAssumption DEF TreasuryTypeOK, TreasurySound
<1> DEFINE j == change[a]
<1>1. /\ j.step = "record" /\ history' = history \cup {TaskEvent(j)}
      /\ change' = [change EXCEPT ![a] = NoTask]
      /\ name' = name /\ auditKey' = auditKey /\ cut' = cut /\ begun' = begun
      /\ parallel' = parallel
  BY DEF RecordChange, Done, TaskEvent
<1>2. /\ change'[a] = NoTask /\ NoTask.step = "idle"
      /\ \A b \in Administrators \ {a} : change'[b] = change[b]
  BY <1>1 DEF NoTask
<1>3. /\ j.at \in 1 .. MaxChanges
      /\ \/ j.subject = "name" /\ j.value \in Names
         \/ j.subject \in AuditKeys /\ j.value \in {"active", "revoked"}
  BY <1>1, TaskKinds
<1>4. /\ TaskEvent(j) \in Event /\ TaskEvent(j).at = j.at
      /\ TaskEvent(j).subject = j.subject /\ TaskEvent(j).value = j.value
  BY <1>3 DEF TaskEvent, Event
<1>5. \A s : \A b \in Administrators : /\ Busy(b, s)' <=> b # a /\ Busy(b, s)
                                       /\ Busy(a, s) <=> s = j.subject
  BY <1>1, <1>2 DEF Busy
<1>6. \A s : Traces(s)' = Traces(s)
  <2> SUFFICES ASSUME NEW s PROVE Traces(s)' = Traces(s)
    OBVIOUS
  <2>1. {e \in history' : e.subject = s} =
          {e \in history : e.subject = s} \cup (IF s = j.subject THEN {TaskEvent(j)} ELSE {})
    BY <1>1, <1>4
  <2>2. {b \in Administrators : Busy(b, s)} =
          {b \in Administrators : Busy(b, s)'} \cup (IF s = j.subject THEN {a} ELSE {})
    BY <1>5
  <2>3. \A b \in Administrators : Busy(b, s)' => change'[b] = change[b]
    BY <1>2, <1>5
  <2> QED BY <2>1, <2>2, <2>3 DEF Traces
<1>7. Dated'
  <2>1. \A e \in history' : Latest(e.subject)' # {}
    BY <1>1, <1>4, NewestStays
  <2> QED BY <1>1, <1>6, <2>1 DEF Dated
<1>8. CASE j.subject = "name"
  <2>1. Renames(a) /\ \A b \in Administrators : Renames(b)' => b # a /\ Renames(b)
    BY <1>1, <1>2, <1>8 DEF Renames
  <2>2. NameSound'
    <3> SUFFICES ASSUME ~parallel
                 PROVE  /\ \A b \in Administrators : ~Renames(b)'
                        /\ Latest("name")' # {}
                        /\ \A e \in Latest("name")' : e.value = name'
      BY <1>1 DEF NameSound
    <3>1. /\ \A b \in Administrators : Renames(b) => b = a
          /\ \A e \in history : e.subject = "name" => e.at < j.at
          /\ name = j.value
      BY <1>1, <2>1 DEF NameSound
    <3>2. Latest("name")' # {}
      BY <1>1, <1>4, <1>7, <1>8 DEF Dated
    <3>3. \A e \in history : e.at \in Nat
      BY DEF Event
    <3>4. ASSUME NEW e \in Latest("name")' PROVE e = TaskEvent(j)
      <4>1. e \in history' /\ e.subject = "name" /\ TaskEvent(j).at <= e.at
        BY <1>1, <1>4, <1>8 DEF Latest
      <4>2. ~(e \in history)
        BY <1>3, <1>4, <3>1, <3>3, <4>1
      <4> QED BY <1>1, <4>1, <4>2
    <3> QED BY <1>1, <1>4, <2>1, <3>1, <3>2, <3>4
  <2>3. ASSUME NEW k \in AuditKeys PROVE KeySound(k)'
    <3>1. k # j.subject
      BY <1>8
    <3>2. \A b \in Administrators : /\ Busy(b, k)' <=> Busy(b, k)
                                    /\ Busy(b, k) => change'[b] = change[b]
      BY <1>2, <1>5, <3>1
    <3>3. \A e \in history' : e.subject = k => e \in history
      BY <1>1, <1>4, <3>1
    <3> QED BY <1>1, <1>6, <3>2, <3>3 DEF KeySound
  <2> QED BY <1>7, <2>2, <2>3
<1>9. CASE j.subject # "name"
  <2>1. j.subject \in AuditKeys /\ j.value \in {"active", "revoked"}
    BY <1>3, <1>9
  <2>2. NameSound'
    <3>1. \A b \in Administrators : /\ Renames(b)' <=> Renames(b)
                                    /\ Renames(b) => change'[b] = change[b]
      BY <1>1, <1>2, <1>9 DEF Renames
    <3>2. \A e : e \in history' /\ e.subject = "name" <=> e \in history /\ e.subject = "name"
      BY <1>1, <1>4, <1>9
    <3>3. Latest("name")' = Latest("name")
      BY <3>2 DEF Latest
    <3>4. Recording("name") => Recording("name")'
      BY <1>1, <1>2, <1>9 DEF Recording
    <3> QED BY <1>1, <3>1, <3>2, <3>3, <3>4 DEF NameSound
  <2>3. ASSUME NEW k \in AuditKeys PROVE KeySound(k)'
    <3>1. CASE k # j.subject
      <4>1. \A b \in Administrators : /\ Busy(b, k)' <=> Busy(b, k)
                                      /\ Busy(b, k) => change'[b] = change[b]
        BY <1>2, <1>5, <3>1
      <4>2. \A e : e \in history' /\ e.subject = k <=> e \in history /\ e.subject = k
        BY <1>1, <1>4, <3>1
      <4> QED BY <1>1, <1>6, <4>1, <4>2 DEF KeySound
    <3>2. CASE k = j.subject
      <4>1. KeySound(k) /\ Busy(a, k)
        BY <1>5, <3>2
      <4>2. auditKey[k] # "absent"
        BY <1>1, <4>1 DEF KeySound
      <4>3. auditKey[k] = "active" => j.value = "active"
        BY <1>1, <4>1 DEF KeySound
      <4>4. \A b \in Administrators : Busy(b, k)' => Busy(b, k) /\ b # a /\ change'[b] = change[b]
        BY <1>2, <1>5
      <4>5. auditKey[k] = "active" =>
              /\ \A e \in history' : e.subject = k => e.value = "active"
              /\ \A b \in Administrators :
                    Busy(b, k)' /\ change'[b].step = "record" => change'[b].value = "active"
        BY <1>1, <1>4, <4>1, <4>3, <4>4 DEF KeySound
      <4>6. k \in cut' \/ (\E e \in history' : e.subject = k /\ e.value = auditKey[k])
               \/ \E b \in Administrators :
                     Busy(b, k)' /\ change'[b].step = "record" /\ change'[b].value = auditKey[k]
        <5>1. CASE \E e \in history : e.subject = k /\ e.value = auditKey[k]
          BY <1>1, <5>1
        <5>2. CASE \E b \in Administrators :
                     Busy(b, k) /\ change[b].step = "record" /\ change[b].value = auditKey[k]
          <6>1. PICK b \in Administrators :
                     Busy(b, k) /\ change[b].step = "record" /\ change[b].value = auditKey[k]
            BY <5>2
          <6>2. CASE b = a
            BY <1>1, <1>4, <3>2, <6>1, <6>2
          <6>3. CASE b # a
            <7>1. Busy(b, k)' /\ change'[b] = change[b]
              BY <1>2, <1>5, <6>1, <6>3
            <7> QED BY <6>1, <7>1
          <6> QED BY <6>2, <6>3
        <5> QED BY <1>1, <4>1, <4>2, <5>1, <5>2 DEF KeySound
      <4>7. \A b \in Administrators :
              Busy(b, k)' /\ change'[b].value = "active" => change'[b].step = "record"
        BY <4>1, <4>2, <4>4 DEF KeySound
      <4> QED BY <1>1, <1>6, <4>1, <4>2, <4>5, <4>6, <4>7 DEF KeySound
    <3> QED BY <3>1, <3>2
  <2> QED BY <1>7, <2>2, <2>3
<1> QED BY <1>8, <1>9

\* A call ends early.
LEMMA GiveUpKeeps ==
    ASSUME TreasuryTypeOK, TreasurySound, NEW a \in Administrators, GiveUp(a)
    PROVE  TreasurySound'
<1> USE TreasuryAssumption DEF TreasuryTypeOK, TreasurySound
<1>1. /\ UNCHANGED <<name, auditKey, history, begun, parallel>>
      /\ change' = [change EXCEPT ![a] = NoTask] /\ change[a].step # "idle"
      /\ cut' = IF change[a].step = "record" THEN cut \cup {change[a].subject} ELSE cut
  BY DEF GiveUp, Done
<1>2. /\ change'[a].step = "idle"
      /\ \A b \in Administrators \ {a} : change'[b] = change[b]
  BY <1>1 DEF NoTask
<1>3. \A s : \A b \in Administrators :
        Busy(b, s)' => b # a /\ Busy(b, s) /\ change'[b] = change[b]
  BY <1>2 DEF Busy
<1>4. \A s : Traces(s)' \subseteq Traces(s)
  BY <1>1, <1>3 DEF Traces
<1>5. \A s : Latest(s)' = Latest(s)
  BY <1>1 DEF Latest
<1>6. Dated'
  BY <1>1, <1>4, <1>5 DEF Dated
<1>7. NameSound'
  <2>1. \A b \in Administrators : Renames(b)' => Renames(b) /\ change'[b] = change[b]
    BY <1>2 DEF Renames
  <2>2. Recording("name") => "name" \in cut' \/ Recording("name")'
    BY <1>1, <1>2 DEF Recording
  <2> QED BY <1>1, <1>5, <2>1, <2>2 DEF NameSound
<1>8. ASSUME NEW k \in AuditKeys PROVE KeySound(k)'
  <2>1. \A b \in Administrators :
          Busy(b, k) /\ change[b].step = "record" =>
              k \in cut' \/ (Busy(b, k)' /\ change'[b] = change[b])
    <3> SUFFICES ASSUME NEW b \in Administrators, Busy(b, k), change[b].step = "record"
                 PROVE  k \in cut' \/ (Busy(b, k)' /\ change'[b] = change[b])
      OBVIOUS
    <3>1. CASE b = a
      BY <1>1, <3>1 DEF Busy
    <3>2. CASE b # a
      <4>1. change'[b] = change[b]
        BY <1>2, <3>2
      <4> QED BY <4>1 DEF Busy
    <3> QED BY <3>1, <3>2
  <2> QED BY <1>1, <1>3, <1>4, <1>8, <2>1 DEF KeySound
<1> QED BY <1>6, <1>7, <1>8

\* HistoryTellsTheState, for any number of calls, names and keys.
THEOREM HistoryTellsTheTreasury == TreasurySpec => []HistoryTellsTheState
<1> USE TreasuryAssumption
<1>1. TreasuryInit => TreasurySound
  BY DEF TreasuryInit, TreasurySound, Dated, NameSound, KeySound, Traces, Busy, Renames,
         Latest, NoTask
<1>2. TreasuryTypeOK /\ TreasurySound /\ [TreasuryNext]_treasuryVars => TreasurySound'
  <2> SUFFICES ASSUME TreasuryTypeOK, TreasurySound, [TreasuryNext]_treasuryVars
               PROVE  TreasurySound'
    OBVIOUS
  <2>1. ASSUME NEW a \in Administrators, NEW n \in Names, Rename(a, n) PROVE TreasurySound'
    BY <2>1, BeginKeeps DEF Rename, Subjects
  <2>2. ASSUME NEW a \in Administrators, NEW k \in AuditKeys, CreateAuditKey(a, k)
        PROVE  TreasurySound'
    <3>1. \A b \in Administrators : ~Busy(b, k)
      BY <2>2 DEF CreateAuditKey, Busy
    <3> QED BY <2>2, <3>1, BeginKeeps DEF CreateAuditKey, Subjects
  <2>3. ASSUME NEW a \in Administrators, NEW k \in AuditKeys, RevokeAuditKey(a, k)
        PROVE  TreasurySound'
    BY <2>3, BeginKeeps DEF RevokeAuditKey, Subjects
  <2>4. ASSUME NEW a \in Administrators, ReadSettings(a) PROVE TreasurySound'
    BY <2>4, ReadKeeps DEF ReadSettings, Done
  <2>5. CASE UNCHANGED treasuryVars
    BY <2>5 DEF treasuryVars, TreasurySound, Dated, NameSound, KeySound, Traces, Busy, Renames,
                Latest, Recording
  <2> QED
    BY <2>1, <2>2, <2>3, <2>4, <2>5, PutKeeps, RecordKeeps, GiveUpKeeps DEF TreasuryNext
<1>3. TreasuryTypeOK /\ TreasurySound => HistoryTellsTheState
  <2> SUFFICES ASSUME TreasuryTypeOK, TreasurySound, NEW s \in Subjects \ cut, ~Recording(s),
                      ~(s = "name" /\ parallel)
               PROVE  IF Latest(s) = {} THEN StateOf(s) \in {Unnamed, "absent"}
                      ELSE \A e \in Latest(s) : e.value = StateOf(s)
    BY DEF HistoryTellsTheState
  <2>1. CASE s = "name"
    BY <2>1 DEF TreasurySound, NameSound, StateOf
  <2>2. CASE s \in AuditKeys
    <3>1. KeySound(s) /\ StateOf(s) = auditKey[s] /\ auditKey[s] \in KeyState
      BY <2>2 DEF TreasurySound, StateOf, TreasuryTypeOK
    <3>2. \A e \in history : e.subject = s => e \in Traces(s)
      BY DEF Traces
    <3>3. CASE auditKey[s] = "absent"
      BY <3>1, <3>3 DEF KeySound, Latest
    <3>4. CASE auditKey[s] # "absent"
      <4>1. PICK f \in history : f.subject = s /\ f.value = auditKey[s]
        BY <3>1, <3>4 DEF KeySound, Recording, Busy
      <4>2. Latest(s) # {}
        BY <4>1 DEF TreasurySound, Dated
      <4>3. ASSUME NEW e \in Latest(s) PROVE e.value = auditKey[s]
        <5>1. e \in history /\ e.subject = s /\ f.at <= e.at
          BY <4>1 DEF Latest
        <5>2. e.value \in {"active", "revoked"} /\ e.at \in Nat /\ f.at \in Nat
          BY <3>1, <3>2, <5>1 DEF KeySound, TreasuryTypeOK, Event
        <5>3. CASE auditKey[s] = "active"
          BY <3>1, <5>1, <5>3 DEF KeySound
        <5>4. CASE auditKey[s] = "revoked"
          <6>1. e.value = "active" => e.at < f.at
            BY <3>1, <3>2, <4>1, <5>1, <5>4 DEF KeySound
          <6> QED BY <5>1, <5>2, <5>4, <6>1
        <5> QED BY <3>1, <3>4, <5>3, <5>4 DEF KeyState
      <4> QED BY <3>1, <4>2, <4>3
    <3> QED BY <3>3, <3>4
  <2> QED BY <2>1, <2>2 DEF Subjects
<1> QED BY <1>1, <1>2, <1>3, TreasuryTypesKept, PTL DEF TreasurySpec
=============================================================================
