---------------------------- MODULE WalletUnlock ----------------------------
(***************************************************************************)
(* Unlocking the private workspace of one wallet: GET auth issues a        *)
(* challenge, POST auth exchanges it, signed by the wallet, for a token,   *)
(* and every private route presents the token to verifyAuthToken.          *)
(*                                                                         *)
(* The service's key and the used challenges are objects of the private    *)
(* object store.  Both are put with allowOverwrite: false, which Vercel    *)
(* Blob honours and the filesystem store does not look at; exclusive says  *)
(* which of the two it is.  A visit is a handler; its steps are what it    *)
(* does between two awaits.  The wallet, the network and the domains are   *)
(* fixed, and a signature that must be the wallet's is.                    *)
(***************************************************************************)
EXTENDS Naturals, FiniteSets

CONSTANTS
    Visits,
    ChallengeTtl,              \* DEFAULT_CHALLENGE_TTL_SECONDS
    UnlockTtls,                \* ALLOWED_UNLOCK_TTL_SECONDS
    MaxKeys, MaxChallenges, MaxTokens,    \* bounds: how many are drawn or issued
    MaxTime                               \* bound

ASSUME UnlockAssumption ==
    /\ ChallengeTtl \in Nat /\ UnlockTtls \subseteq Nat
    /\ MaxKeys \in Nat /\ MaxChallenges \in Nat /\ MaxTokens \in Nat /\ MaxTime \in Nat

VARIABLES
    exclusive,     \* the store honours allowOverwrite: false
    serverKey,     \* auth/server-key.json; 0: not there
    keyPairs,      \* drawn so far
    challenges,    \* issued so far
    redeemed,      \* auth/redeemed/
    tokens,
    visit,         \* what each call remembers
    time

unlockVars == <<exclusive, serverKey, keyPairs, challenges, redeemed, tokens, visit, time>>

Mode == {"transaction", "message"}
Challenge == [id : 1 .. MaxChallenges, key : 1 .. MaxKeys, until : Nat,
              ttl : UnlockTtls]    \* the duration its message states
Token == [id : 1 .. MaxTokens, challenge : 1 .. MaxChallenges, key : 1 .. MaxKeys,
          until : Nat]
Nothing == [id |-> 0]
Visit == [op : {"none", "challenge", "exchange", "verify"},
          step : {"idle", "key", "create", "reread", "work", "claim", "issue", "refused"},
          key : 0 .. MaxKeys, at : Nat, ttl : UnlockTtls \cup {0},
          mode : Mode \cup {"none"},
          challenge : Challenge \cup {Nothing}, token : Token \cup {Nothing}]
Away == [op |-> "none", step |-> "idle", key |-> 0, at |-> 0, ttl |-> 0, mode |-> "none",
         challenge |-> Nothing, token |-> Nothing]

UnlockInit ==
    /\ exclusive \in BOOLEAN /\ serverKey = 0 /\ keyPairs = 0
    /\ challenges = {} /\ redeemed = {} /\ tokens = {}
    /\ visit = [v \in Visits |-> Away] /\ time = 0

Leave(v) == visit' = [visit EXCEPT ![v] = Away]
Proceed(v, step) == visit' = [visit EXCEPT ![v].step = step]
OnlyVisit == UNCHANGED <<exclusive, serverKey, keyPairs, challenges, redeemed, tokens, time>>

-----------------------------------------------------------------------------
(* A visit begins.                                                         *)

\* GET with an account: createAuthChallenge takes the time first.
AskChallenge(v, ttl) ==
    /\ visit[v].step = "idle" /\ Cardinality(challenges) < MaxChallenges
    /\ visit' = [visit EXCEPT ![v] = [Away EXCEPT !.op = "challenge", !.step = "key",
                                                  !.ttl = ttl, !.at = time]]
    /\ OnlyVisit

\* POST: the challenge comes back signed as a transaction (SEP-10), or with
\* its message signed (SEP-53); the duration is asked for once more.
AskExchange(v, challenge, mode, ttl) ==
    /\ visit[v].step = "idle"
    /\ visit' = [visit EXCEPT ![v] = [Away EXCEPT !.op = "exchange", !.step = "key",
                                                  !.ttl = ttl, !.mode = mode,
                                                  !.challenge = challenge]]
    /\ OnlyVisit

\* A private route, or GET without an account.
Present(v, token) ==
    /\ visit[v].step = "idle"
    /\ visit' = [visit EXCEPT ![v] = [Away EXCEPT !.op = "verify", !.step = "key",
                                                  !.token = token]]
    /\ OnlyVisit

-----------------------------------------------------------------------------
(* getOrCreateAuthServerKeypair, which every visit calls first.            *)

\* A proposed key pair waits in key until the store has been read again.
ReadServerKey(v) ==
    /\ visit[v].step = "key"
    /\ IF serverKey # 0
       THEN /\ visit' = [visit EXCEPT ![v].step = "work", ![v].key = serverKey]
            /\ UNCHANGED keyPairs
       ELSE /\ keyPairs < MaxKeys /\ keyPairs' = keyPairs + 1
            /\ visit' = [visit EXCEPT ![v].step = "create", ![v].key = keyPairs']
    /\ UNCHANGED <<exclusive, serverKey, challenges, redeemed, tokens, time>>

\* A put without overwriting.
FreeToCreate == serverKey = 0 \/ ~exclusive

\* createServerKey: a put that fails because the key is there is a success.
\* One that fails otherwise ends the visit (Fail).
CreateServerKey(v) ==
    /\ visit[v].step = "create"
    /\ serverKey' = IF FreeToCreate THEN visit[v].key ELSE serverKey
    /\ Proceed(v, "reread")
    /\ UNCHANGED <<exclusive, keyPairs, challenges, redeemed, tokens, time>>

\* Fault: the proposed key is used, whoever won.
OwnProposal(v) == visit[v].key

PersistedKey(v) == serverKey

RereadServerKey(v) ==
    /\ visit[v].step = "reread"
    /\ visit' = [visit EXCEPT ![v].step = "work", ![v].key = PersistedKey(v)]
    /\ OnlyVisit

-----------------------------------------------------------------------------
(* The visit's own work.                                                   *)

IssueChallenge(v) ==
    LET j == visit[v] IN
    /\ j.step = "work" /\ j.op = "challenge"
    /\ Cardinality(challenges) < MaxChallenges
    /\ challenges' = challenges \cup
          {[id |-> Cardinality(challenges) + 1, key |-> j.key,
            until |-> j.at + ChallengeTtl, ttl |-> j.ttl]}
    /\ Leave(v)
    /\ UNCHANGED <<exclusive, serverKey, keyPairs, redeemed, tokens, time>>

\* validateAuthChallenge and the wallet's signature: of this service's present
\* key, in time, and for a message that states the duration asked for.
Valid(j) ==
    /\ j.challenge.key = j.key
    /\ time <= j.challenge.until
    /\ j.mode = "message" => j.challenge.ttl = j.ttl

\* The token's time is taken before the claim.
Validate(v) ==
    LET j == visit[v] IN
    /\ j.step = "work" /\ j.op = "exchange"
    /\ IF Valid(j)
       THEN visit' = [visit EXCEPT ![v].step = "claim", ![v].at = time]
       ELSE Proceed(v, "refused")
    /\ OnlyVisit

\* Fault: the claim is of the envelope with its signatures.
WholeEnvelope(j) == [id |-> j.challenge.id, mode |-> j.mode]

\* The claim is of the transaction's hash, which signatures do not change.
transactionHash(j) == [id |-> j.challenge.id]

\* claimChallengeRedemption: a put that fails because the claim is there is a
\* refusal (409 challenge_replayed).
ClaimRedemption(v) ==
    LET j == visit[v] IN
    /\ j.step = "claim"
    /\ redeemed' = redeemed \cup {transactionHash(j)}
    /\ Proceed(v, IF exclusive /\ transactionHash(j) \in redeemed THEN "refused" ELSE "issue")
    /\ UNCHANGED <<exclusive, serverKey, keyPairs, challenges, tokens, time>>

\* The claim is stored, its answer is lost: what is found there afterwards is
\* taken for another visit's, and the challenge is spent.
ClaimAnswerIsLost(v) ==
    /\ visit[v].step = "claim"
    /\ redeemed' = redeemed \cup {transactionHash(visit[v])}
    /\ Leave(v)
    /\ UNCHANGED <<exclusive, serverKey, keyPairs, challenges, tokens, time>>

IssueToken(v) ==
    LET j == visit[v] IN
    /\ j.step = "issue" /\ Cardinality(tokens) < MaxTokens
    /\ tokens' = tokens \cup {[id |-> Cardinality(tokens) + 1, challenge |-> j.challenge.id,
                               key |-> j.key, until |-> j.at + j.ttl]}
    /\ Leave(v)
    /\ UNCHANGED <<exclusive, serverKey, keyPairs, challenges, redeemed, time>>

\* verifyAuthToken: signed with the present key, and before its expiry.
VerifyToken(v) ==
    LET j == visit[v] IN
    /\ j.step = "work" /\ j.op = "verify"
    /\ IF j.token.key = j.key /\ time < j.token.until THEN Leave(v) ELSE Proceed(v, "refused")
    /\ OnlyVisit

AnswerRefusal(v) == visit[v].step = "refused" /\ Leave(v) /\ OnlyVisit

\* An await fails, or the process stops.
Fail(v) == visit[v].step # "idle" /\ Leave(v) /\ OnlyVisit

UnlockTick ==
    /\ time < MaxTime /\ time' = time + 1
    /\ UNCHANGED <<exclusive, serverKey, keyPairs, challenges, redeemed, tokens, visit>>

VisitStep(v) ==
    \/ ReadServerKey(v) \/ CreateServerKey(v) \/ RereadServerKey(v)
    \/ IssueChallenge(v) \/ Validate(v) \/ ClaimRedemption(v) \/ ClaimAnswerIsLost(v)
    \/ IssueToken(v) \/ VerifyToken(v) \/ AnswerRefusal(v) \/ Fail(v)

UnlockNext ==
    \/ \E v \in Visits :
          \/ \E ttl \in UnlockTtls :
                \/ AskChallenge(v, ttl)
                \/ \E challenge \in challenges, mode \in Mode :
                      AskExchange(v, challenge, mode, ttl)
          \/ \E token \in tokens : Present(v, token)
          \/ VisitStep(v)
    \/ UnlockTick

UnlockSpec == UnlockInit /\ [][UnlockNext]_unlockVars
-----------------------------------------------------------------------------
(* Properties.                                                             *)

\* Every variable keeps its type.
UnlockTypeOK ==
    /\ exclusive \in BOOLEAN /\ serverKey \in 0 .. MaxKeys /\ keyPairs \in 0 .. MaxKeys
    /\ challenges \subseteq Challenge /\ tokens \subseteq Token
    /\ visit \in [Visits -> Visit] /\ time \in Nat

\* "This unlock challenge has already been used": however often and in
\* whichever of the two forms a challenge is presented, by visits that overlap
\* or fail, it becomes one token, where the store does not overwrite
\* (authService.ts 347-402, blobAuthStore.ts 39-56).
RedeemedOnce ==
    exclusive => \A t1, t2 \in tokens : t1.challenge = t2.challenge => t1 = t2

\* What the service signed it accepts until its time is over: a token until it
\* expires, a challenge until it expires or is used (for the duration its
\* message states).  The key both were signed with is still the service's,
\* although several cold starts may have created one at once, where the store
\* does not overwrite (authService.ts 124-141, blobAuthStore.ts 20-37).
SignedIsAccepted ==
    exclusive => \A v \in Visits :
        LET j == visit[v] IN
        j.step = "refused" =>
            CASE j.op = "verify" -> j.token.until <= time
              [] j.op = "exchange" -> \/ j.challenge.until < time
                                      \/ j.mode = "message" /\ j.challenge.ttl # j.ttl
                                      \/ transactionHash(j) \in redeemed
=============================================================================
