------------------------- MODULE MachineAccessProofs -------------------------
(***************************************************************************)
(* What agents and embedded browsers are promised, whatever the number of  *)
(* calls, credentials and retries, or of signers, plans and capabilities.  *)
(*                                                                         *)
(* AgentAccess.  Whoever holds an identifier - the call that drew it, the  *)
(* claim, a call that adopted the claim, the stored resource - holds it    *)
(* for the same credential and payload (Agreed).  Until an owner fails     *)
(* before its write, or a put replaces a claim, a claim, once put, stays;  *)
(* so every call past its claim has the claim's identifier, and everything *)
(* stored has it too (JobSound, Claimed).  Vercel Blob never replaces one  *)
(* (Exclusive).                                                            *)
(*                                                                         *)
(* BrowserAuthorization.  Along a call the plans it knows are ordered: the *)
(* capability's, the Intent's as it was read, then its authorization's,    *)
(* then the current one (Ordered).  A contribution needs the signed plan   *)
(* to be the current one, which closes the gap; and whatever refused a     *)
(* call still holds, because plans only grow, cancellation is final and a  *)
(* signer who is gone cannot contribute (StillRefused).                    *)
(***************************************************************************)
EXTENDS AgentAccess, BrowserAuthorization, FiniteSetTheorems, TLAPS

(* AgentAccess.                                                            *)

Entry(id, k, p) == [id |-> id, credential |-> k, payload |-> p]

\* Somebody holds identifier id, for credential k and payload p.
Held(id, k, p) ==
    \/ \E c \in Calls : job[c].id = id /\ job[c].credential = k /\ job[c].payload = p
    \/ claim[k] # None /\ claim[k].id = id /\ claim[k].payload = p
    \/ Entry(id, k, p) \in created

Ids == 1 .. MaxIds

Agreed ==
    \A id \in Ids : \A k1, k2 \in Credentials : \A p1, p2 \in Payloads :
        Held(id, k1, p1) /\ Held(id, k2, p2) => k1 = k2 /\ p1 = p2

Drawn ==
    \A id \in Ids, k \in Credentials, p \in Payloads : Held(id, k, p) => id <= drawn

\* Nothing has taken a claim from the call that put it.
Undisturbed == failures = 0 /\ ~replaced

JobSound(j) ==
    /\ j.step \in {"idle", "put", "revoke"} => j.id = 0
    /\ j.step \notin {"idle", "put", "revoke"} =>
           j.id # 0 /\ j.credential \in Credentials /\ j.payload \in Payloads
    /\ j.step \in {"put", "revoke"} => j.credential \in Credentials
    /\ j.step \in {"after", "answered"} => Stored(j.id)
    /\ j.step = "put" => IsFiniteSet(j.active) /\ Cardinality(j.active) < MaxActive
    /\ Undisturbed /\ j.step \in {"replay", "check", "write", "recover", "after", "answered"} =>
           claim[j.credential].id = j.id
    /\ failures = 0 => j.step \notin {"read_claim", "delete"}

Claimed == Undisturbed => \A r \in created : claim[r.credential].id = r.id

Exclusive == storageMode = "vercel" => ~replaced

Counted == IsFiniteSet(Active) /\ (Cardinality(Active) > MaxActive => overlapped)

Sound ==
    /\ Agreed /\ Drawn
    /\ \A c \in Calls : JobSound(job[c])
    /\ Claimed /\ Exclusive /\ Counted

-----------------------------------------------------------------------------
(* How a step changes the store and the database.                          *)

LEMMA WorldTypes ==
    ASSUME TypeOK, Sound, [Next]_vars
    PROVE  /\ credential' \in [Credentials -> Record]
           /\ claim' \in [Credentials -> Claim \cup {None}]
           /\ created' \subseteq Resource
           /\ drawn' \in 0 .. MaxIds /\ overlapped' \in BOOLEAN /\ failures' \in 0 .. MaxFailures
           /\ storageMode' = storageMode /\ replaced' \in BOOLEAN
           /\ created \subseteq created' /\ drawn <= drawn'
           /\ failures' = 0 => failures = 0
           /\ Undisturbed' => Undisturbed
<1>1. ASSUME NEW c \in Calls, job[c].step \notin {"idle", "put", "revoke"}
      PROVE  /\ job[c].id \in Ids /\ job[c].credential \in Credentials
             /\ job[c].payload \in Payloads
  BY <1>1 DEF TypeOK, Sound, JobSound, Job, Ids
<1>2. credential' \in [Credentials -> Record]
  <2>1. \/ \E c \in Calls : PutCredential(c) \/ Revoke(c)
        \/ UNCHANGED credential
    BY DEF Next, Step, vars, Kept, CountCredentials, StartRevoke, StartCreate, ClaimIdempotency,
           PutClaim, PutClaimFails, Reread, Replay, Check, CheckFails, Write, WriteFails,
           Recover, After, Answer, ReadClaim, DeleteClaim, Stop
  <2> QED BY <2>1 DEF PutCredential, Revoke, TypeOK, Record
<1>3. claim' \in [Credentials -> Claim \cup {None}]
  <2>1. \/ \E c \in Calls : PutClaim(c) \/ PutClaimFails(c) \/ DeleteClaim(c)
        \/ UNCHANGED claim
    BY DEF Next, Step, vars, Kept, CountCredentials, PutCredential, StartRevoke, Revoke,
           StartCreate, ClaimIdempotency, Reread, Replay, Check, CheckFails, Write, WriteFails,
           Recover, After, Answer, ReadClaim, Stop
  <2>2. ASSUME NEW c \in Calls, PutClaim(c) \/ PutClaimFails(c)
        PROVE  claim' \in [Credentials -> Claim \cup {None}]
    <3>1. [id |-> job[c].id, payload |-> job[c].payload] \in Claim
      BY <1>1, <2>2 DEF PutClaim, PutClaimFails, Claim, Ids
    <3>2. claim' = OwnClaim(c) \/ UNCHANGED claim
      BY <2>2 DEF PutClaim, PutClaimFails
    <3> QED BY <3>1, <3>2 DEF OwnClaim, TypeOK
  <2> QED BY <2>1, <2>2 DEF DeleteClaim, WithoutClaim, TypeOK
<1>4. created' \subseteq Resource /\ created \subseteq created'
  <2>1. \/ \E c \in Calls : /\ job[c].step = "write"
                            /\ created' = created \cup
                                   {Entry(job[c].id, job[c].credential, job[c].payload)}
        \/ UNCHANGED created
    BY DEF Next, Step, vars, Kept, CountCredentials, PutCredential, StartRevoke, Revoke,
           StartCreate, ClaimIdempotency, PutClaim, PutClaimFails, Reread, Replay, Check,
           CheckFails, Write, WriteFails, Recover, After, Answer, ReadClaim, DeleteClaim, Stop,
           Entry
  <2> QED BY <1>1, <2>1 DEF Entry, Resource, TypeOK, Ids
<1>5. drawn' \in 0 .. MaxIds /\ drawn <= drawn'
  <2>1. (drawn < MaxIds /\ drawn' = drawn + 1) \/ UNCHANGED drawn
    BY DEF Next, Step, vars, Kept, CountCredentials, PutCredential, StartRevoke, Revoke,
           StartCreate, ClaimIdempotency, PutClaim, PutClaimFails, Reread, Replay, Check,
           CheckFails, Write, WriteFails, Recover, After, Answer, ReadClaim, DeleteClaim, Stop
  <2> QED BY <2>1, AgentAssumption DEF TypeOK
<1>6. failures' \in 0 .. MaxFailures /\ (failures' = 0 => failures = 0)
  <2>1. (failures < MaxFailures /\ failures' = failures + 1) \/ UNCHANGED failures
    BY DEF Next, Step, vars, Kept, CountCredentials, PutCredential, StartRevoke, Revoke,
           StartCreate, ClaimIdempotency, PutClaim, PutClaimFails, Reread, Replay, Check,
           CheckFails, Write, WriteFails, Recover, After, Answer, ReadClaim, DeleteClaim, Stop
  <2> QED BY <2>1, AgentAssumption DEF TypeOK
<1>7. overlapped' \in BOOLEAN
  <2>1. overlapped' \in BOOLEAN \/ UNCHANGED overlapped
    BY DEF Next, Step, vars, Kept, CountCredentials, PutCredential, StartRevoke, Revoke,
           StartCreate, ClaimIdempotency, PutClaim, PutClaimFails, Reread, Replay, Check,
           CheckFails, Write, WriteFails, Recover, After, Answer, ReadClaim, DeleteClaim, Stop
  <2> QED BY <2>1 DEF TypeOK
<1>8. storageMode' = storageMode
  BY DEF Next, Step, vars, Kept, CountCredentials, PutCredential, StartRevoke, Revoke,
         StartCreate, ClaimIdempotency, PutClaim, PutClaimFails, Reread, Replay, Check,
         CheckFails, Write, WriteFails, Recover, After, Answer, ReadClaim, DeleteClaim, Stop
<1>9. replaced' \in BOOLEAN /\ (replaced => replaced')
  <2>1. (\E k \in Credentials : replaced' = (replaced \/ claim[k] # None)) \/ UNCHANGED replaced
    <3>1. (\E c \in Calls : PutClaim(c)) \/ UNCHANGED replaced
      BY DEF Next, Step, vars, Kept, CountCredentials, PutCredential, StartRevoke, Revoke,
             StartCreate, ClaimIdempotency, PutClaimFails, Reread, Replay, Check, CheckFails,
             Write, WriteFails, Recover, After, Answer, ReadClaim, DeleteClaim, Stop
    <3>2. ASSUME NEW c \in Calls, PutClaim(c)
          PROVE  job[c].credential \in Credentials
      BY <1>1, <3>2 DEF PutClaim
    <3> QED BY <3>1, <3>2 DEF PutClaim
  <2> QED BY <2>1 DEF TypeOK
<1> QED BY <1>2, <1>3, <1>4, <1>5, <1>6, <1>7, <1>8, <1>9 DEF Undisturbed

\* Until an owner fails or a put replaces a claim, a claim that was put stays.
LEMMA ClaimsStay ==
    ASSUME TypeOK, Sound, [Next]_vars, Undisturbed',
           NEW k \in Credentials, claim[k] # None
    PROVE  claim'[k] = claim[k]
<1>1. failures = 0
  BY WorldTypes DEF Undisturbed
<1>2. \/ \E c \in Calls : PutClaim(c) \/ PutClaimFails(c) \/ DeleteClaim(c)
      \/ UNCHANGED claim
  BY DEF Next, Step, vars, Kept, CountCredentials, PutCredential, StartRevoke, Revoke,
         StartCreate, ClaimIdempotency, Reread, Replay, Check, CheckFails, Write, WriteFails,
         Recover, After, Answer, ReadClaim, Stop
<1>3. ASSUME NEW c \in Calls, DeleteClaim(c) PROVE FALSE
  BY <1>1, <1>3 DEF DeleteClaim, Sound, JobSound
<1>4. ASSUME NEW c \in Calls, PutClaim(c) PROVE claim'[k] = claim[k]
  <2>1. CASE FreeToPut(job[c].credential)
    <3>1. claim[job[c].credential] = None
      BY <1>4, <2>1 DEF PutClaim, Undisturbed
    <3> QED BY <1>4, <2>1, <3>1 DEF PutClaim, OwnClaim, TypeOK
  <2>2. CASE ~FreeToPut(job[c].credential)
    BY <1>4, <2>2 DEF PutClaim
  <2> QED BY <2>1, <2>2
<1>5. ASSUME NEW c \in Calls, PutClaimFails(c) PROVE claim'[k] = claim[k]
  BY <1>5 DEF PutClaimFails, FreeToPut, OwnClaim, TypeOK
<1> QED BY <1>2, <1>3, <1>4, <1>5

LEMMA JobKeeps ==
    ASSUME TypeOK, Sound, [Next]_vars, NEW j \in Job, JobSound(j)
    PROVE  JobSound(j)'
<1>1. Stored(j.id) => Stored(j.id)'
  BY WorldTypes DEF Stored
<1>2. (failures' = 0 => failures = 0) /\ (Undisturbed' => Undisturbed)
  BY WorldTypes
<1>3. ASSUME Undisturbed', j.step \in {"replay", "check", "write", "recover", "after", "answered"}
      PROVE  claim'[j.credential].id = j.id
  <2>1. j.credential \in Credentials /\ claim[j.credential].id = j.id /\ j.id # 0
    BY <1>2, <1>3 DEF JobSound
  <2>2. claim[j.credential] # None
    BY <2>1 DEF None
  <2> QED BY <1>3, <2>1, <2>2, ClaimsStay
<1> QED BY <1>1, <1>2, <1>3 DEF JobSound

-----------------------------------------------------------------------------
(* How a step changes its call.                                            *)

\* Where a call's identifier comes from.
Source(k) ==
    k.id # 0 => \/ Held(k.id, k.credential, k.payload)
                \/ k.id = drawn' /\ drawn' = drawn + 1

JobMove(c) == \E k \in Job : job' = [job EXCEPT ![c] = k] /\ JobSound(k)' /\ Source(k)

LEMMA Ends ==
    ASSUME NEW c \in Calls, End(c)
    PROVE  JobMove(c)
<1>1. Idle \in Job /\ Idle.step = "idle" /\ Idle.id = 0
  BY AgentAssumption DEF Idle, Job
<1>2. JobSound(Idle)' /\ Source(Idle)
  BY <1>1 DEF JobSound, Source
<1> QED BY <1>1, <1>2 DEF End, JobMove

\* A call goes on with what it has.
LEMMA Goes ==
    ASSUME TypeOK, Sound, [Next]_vars, NEW c \in Calls,
           NEW step \in {"raced", "reread", "check", "write", "recover", "after", "read_claim",
                         "delete", "answered"},
           Goto(c, step), job[c].step \notin {"idle", "put", "revoke"},
           step \in {"after", "answered"} => \E r \in created' : r.id = job[c].id,
           failures' = 0 => step \notin {"read_claim", "delete"},
           step \notin {"raced", "reread"} =>
               job[c].step \in {"replay", "check", "write", "recover", "after", "answered"}
               \/ failures' # 0
    PROVE  JobMove(c)
<1>1. PICK j \in Job : j = job[c] /\ JobSound(j)
  BY DEF TypeOK, Sound
<1> DEFINE k == [j EXCEPT !.step = step]
<1>2. job' = [job EXCEPT ![c] = k]
  BY <1>1 DEF Goto, TypeOK
<1>3. JobSound(j)'
  BY <1>1, JobKeeps
<1>4. /\ k \in Job /\ k.step = step /\ k.id = j.id /\ k.credential = j.credential
      /\ k.payload = j.payload
  BY <1>1 DEF Job
<1> HIDE DEF k
<1>5. j.id # 0 /\ j.credential \in Credentials /\ j.payload \in Payloads
  BY <1>1 DEF JobSound
<1>6. /\ Undisturbed' /\ step \in {"check", "write", "recover", "after", "answered"} =>
             claim'[j.credential].id = j.id
  BY <1>1, <1>3 DEF JobSound, Undisturbed
<1>7. step \in {"after", "answered"} => Stored(k.id)'
  BY <1>1, <1>4 DEF Stored
<1>8. JobSound(k)'
  BY <1>4, <1>5, <1>6, <1>7 DEF JobSound
<1>9. Source(k)
  BY <1>1, <1>4 DEF Source, Held
<1> QED BY <1>2, <1>4, <1>8, <1>9 DEF JobMove

\* A claim that is there is adopted for the same payload only.
LEMMA Adopts ==
    ASSUME TypeOK, Sound, [Next]_vars, NEW c \in Calls,
           job[c].step \in {"claim", "reread"}, claim[job[c].credential] # None,
           job' = [job EXCEPT ![c] = Adopt(job[c], claim[job[c].credential])]
    PROVE  JobMove(c)
<1>1. PICK j \in Job : j = job[c] /\ JobSound(j)
  BY DEF TypeOK, Sound
<1>2. j.credential \in Credentials /\ j.payload \in Payloads
  BY <1>1 DEF JobSound
<1>3. PICK found \in Claim : found = claim[j.credential]
  BY <1>1, <1>2 DEF TypeOK
<1>4. CASE found.payload # j.payload
  <2>1. job' = [job EXCEPT ![c] = Idle]
    BY <1>1, <1>3, <1>4 DEF Adopt
  <2> QED BY <2>1, Ends DEF End
<1>5. CASE found.payload = j.payload
  <2> DEFINE k == [j EXCEPT !.step = "replay", !.id = found.id]
  <2>1. job' = [job EXCEPT ![c] = k]
    BY <1>1, <1>3, <1>5 DEF Adopt
  <2>2. found.id \in Ids
    BY DEF Claim, Ids
  <2>3. /\ k \in Job /\ k.step = "replay" /\ k.id = found.id /\ k.credential = j.credential
        /\ k.payload = j.payload
    <3>1. PICK i \in 0 .. MaxIds : i = found.id
      BY <2>2, AgentAssumption DEF Ids
    <3>2. k = [j EXCEPT !.step = "replay", !.id = i]
      BY <3>1
    <3> HIDE DEF k
    <3> QED BY <1>1, <3>1, <3>2 DEF Job
  <2> HIDE DEF k
  <2>4. Undisturbed' => claim'[j.credential] = found
    BY <1>1, <1>2, <1>3, ClaimsStay
  <2>5. k.id # 0
    BY <2>2, <2>3 DEF Ids
  <2>6. JobSound(k)'
    BY <1>2, <2>3, <2>4, <2>5 DEF JobSound
  <2>7. Source(k)
    BY <1>1, <1>3, <1>5, <2>3 DEF Source, Held
  <2> QED BY <2>1, <2>3, <2>6, <2>7 DEF JobMove
<1> QED BY <1>4, <1>5

LEMMA ClaimMoves ==
    ASSUME TypeOK, Sound, [Next]_vars, NEW c \in Calls,
           ClaimIdempotency(c) \/ PutClaim(c) \/ PutClaimFails(c) \/ Reread(c)
    PROVE  JobMove(c)
<1>1. PICK j \in Job : j = job[c] /\ JobSound(j)
  BY DEF TypeOK, Sound
<1>2. CASE ClaimIdempotency(c)
  <2>1. CASE claim[job[c].credential] # None /\ job' = [job EXCEPT ![c] = Adopt(@, claim[job[c].credential])]
    <3>1. job' = [job EXCEPT ![c] = Adopt(job[c], claim[job[c].credential])]
      BY <2>1 DEF TypeOK
    <3> QED BY <1>2, <2>1, <3>1, Adopts DEF ClaimIdempotency
  <2>2. CASE Goto(c, "raced")
    BY <1>2, <2>2, Goes DEF ClaimIdempotency
  <2> QED BY <1>2, <2>1, <2>2 DEF ClaimIdempotency
<1>3. CASE PutClaim(c)
  <2>1. j.step = "raced" /\ j.id # 0 /\ j.credential \in Credentials /\ j.payload \in Payloads
    BY <1>1, <1>3 DEF PutClaim, JobSound
  <2>2. CASE ~FreeToPut(j.credential)
    BY <1>1, <1>3, <2>2, Goes DEF PutClaim
  <2>3. CASE FreeToPut(j.credential)
    <3> DEFINE k == [j EXCEPT !.step = "check", !.owner = TRUE]
    <3>1. job' = [job EXCEPT ![c] = k]
      BY <1>1, <1>3, <2>3 DEF PutClaim, TypeOK
    <3>2. /\ k \in Job /\ k.step = "check" /\ k.id = j.id /\ k.credential = j.credential
          /\ k.payload = j.payload
      BY <1>1 DEF Job
    <3> HIDE DEF k
    <3>3. claim'[j.credential].id = j.id
      BY <1>1, <1>3, <2>1, <2>3 DEF PutClaim, OwnClaim, TypeOK
    <3>4. JobSound(k)'
      BY <2>1, <3>2, <3>3 DEF JobSound
    <3>5. Source(k)
      BY <1>1, <3>2 DEF Source, Held
    <3> QED BY <3>1, <3>2, <3>4, <3>5 DEF JobMove
  <2> QED BY <2>2, <2>3
<1>4. CASE PutClaimFails(c)
  BY <1>4, Goes DEF PutClaimFails
<1>5. CASE Reread(c)
  <2>1. CASE claim[job[c].credential] = None
    BY <1>5, <2>1, Ends DEF Reread, End
  <2>2. CASE claim[job[c].credential] # None
    <3>1. job' = [job EXCEPT ![c] = Adopt(job[c], claim[job[c].credential])]
      BY <1>5, <2>2 DEF Reread, TypeOK
    <3> QED BY <1>5, <2>2, <3>1, Adopts DEF Reread
  <2> QED BY <2>1, <2>2
<1> QED BY <1>2, <1>3, <1>4, <1>5

LEMMA CreationMoves ==
    ASSUME TypeOK, Sound, [Next]_vars, NEW c \in Calls,
           \/ Replay(c) \/ Check(c) \/ CheckFails(c) \/ Write(c) \/ WriteFails(c) \/ Recover(c)
           \/ After(c) \/ Answer(c) \/ ReadClaim(c) \/ DeleteClaim(c) \/ Stop(c)
    PROVE  JobMove(c)
<1>1. JobSound(job[c]) /\ failures \in Nat
  BY AgentAssumption DEF TypeOK, Sound
<1>2. Stored(job[c].id) => \E r \in created' : r.id = job[c].id
  BY WorldTypes DEF Stored
<1>3. CASE Replay(c)
  BY <1>2, <1>3, Goes DEF Replay
<1>4. CASE Check(c)
  BY <1>4, Goes DEF Check
<1>5. CASE CheckFails(c)
  <2>1. CASE job[c].owner
    <3>1. failures' # 0
      BY <1>1, <1>5, <2>1 DEF CheckFails
    <3> QED BY <1>5, <2>1, <3>1, Goes DEF CheckFails
  <2>2. CASE ~job[c].owner
    BY <1>5, <2>2, Ends DEF CheckFails
  <2> QED BY <2>1, <2>2
<1>6. CASE Write(c)
  <2>1. CASE Stored(job[c].id)
    BY <1>6, <2>1, Goes DEF Write
  <2>2. CASE ~Stored(job[c].id)
    <3>1. Entry(job[c].id, job[c].credential, job[c].payload) \in created'
      BY <1>6, <2>2 DEF Write, Entry
    <3>2. \E r \in created' : r.id = job[c].id
      BY <3>1 DEF Entry
    <3> QED BY <1>6, <2>2, <3>2, Goes DEF Write
  <2> QED BY <2>1, <2>2
<1>7. CASE WriteFails(c)
  BY <1>7, Goes DEF WriteFails
<1>8. CASE Recover(c)
  BY <1>2, <1>8, Goes, Ends DEF Recover
<1>9. CASE After(c)
  BY <1>1, <1>2, <1>9, Goes DEF After, JobSound
<1>10. CASE Answer(c)
  BY <1>10, Ends DEF Answer
<1>11. CASE ReadClaim(c)
  <2>1. failures' # 0
    BY <1>1, <1>11, WorldTypes DEF ReadClaim, JobSound
  <2> QED BY <1>11, <2>1, Goes, Ends DEF ReadClaim
<1>12. CASE DeleteClaim(c) \/ Stop(c)
  BY <1>12, Ends DEF DeleteClaim, Stop
<1> QED BY <1>3, <1>4, <1>5, <1>6, <1>7, <1>8, <1>9, <1>10, <1>11, <1>12

LEMMA FirstMoves ==
    ASSUME TypeOK, Sound, [Next]_vars, NEW c \in Calls,
           \/ PutCredential(c) \/ Revoke(c)
           \/ \E k \in Credentials : \/ CountCredentials(c, k) \/ StartRevoke(c, k)
                                     \/ \E payload \in Payloads : StartCreate(c, k, payload)
    PROVE  JobMove(c)
<1>0. 0 \in 0 .. MaxIds /\ drawn \in Nat
  BY AgentAssumption DEF TypeOK
<1>1. CASE PutCredential(c) \/ Revoke(c)
  BY <1>1, Ends DEF PutCredential, Revoke
<1>2. ASSUME NEW k \in Credentials, CountCredentials(c, k) PROVE JobMove(c)
  <2>1. PICK a \in SUBSET Credentials : a = Active
    BY DEF Active
  <2> DEFINE n == [Idle EXCEPT !.step = "put", !.credential = k, !.active = a]
  <2>2. job' = [job EXCEPT ![c] = n]
    BY <1>2, <2>1 DEF CountCredentials
  <2>3. n \in Job /\ n.step = "put" /\ n.id = 0 /\ n.credential = k /\ n.active = a
    BY <1>0 DEF Idle, Job
  <2> HIDE DEF n
  <2>4. IsFiniteSet(Active) /\ Cardinality(Active) < MaxActive
    BY <1>2 DEF Sound, Counted, CountCredentials, MayHaveAnother
  <2>5. JobSound(n)' /\ Source(n)
    BY <2>1, <2>3, <2>4 DEF JobSound, Source
  <2> QED BY <2>2, <2>3, <2>5 DEF JobMove
<1>3. ASSUME NEW k \in Credentials, StartRevoke(c, k) PROVE JobMove(c)
  <2> DEFINE n == [Idle EXCEPT !.step = "revoke", !.credential = k]
  <2>1. job' = [job EXCEPT ![c] = n]
    BY <1>3 DEF StartRevoke
  <2>2. n \in Job /\ n.step = "revoke" /\ n.id = 0 /\ n.credential = k
    BY <1>0 DEF Idle, Job
  <2> HIDE DEF n
  <2>3. JobSound(n)' /\ Source(n)
    BY <2>2 DEF JobSound, Source
  <2> QED BY <2>1, <2>2, <2>3 DEF JobMove
<1>4. ASSUME NEW k \in Credentials, NEW payload \in Payloads, StartCreate(c, k, payload)
      PROVE  JobMove(c)
  <2>1. drawn' \in 0 .. MaxIds /\ drawn' = drawn + 1 /\ drawn' # 0
    <3>1. drawn' = drawn + 1
      BY <1>4 DEF StartCreate
    <3>2. drawn' \in 0 .. MaxIds
      BY WorldTypes
    <3> QED BY <1>0, <3>1, <3>2
  <2>2. PICK i \in 0 .. MaxIds : i = drawn'
    BY <2>1
  <2> DEFINE n == [Idle EXCEPT !.step = "claim", !.credential = k, !.payload = payload, !.id = i]
  <2>3. job' = [job EXCEPT ![c] = n]
    BY <1>4, <2>2 DEF StartCreate
  <2>4. n \in Job /\ n.step = "claim" /\ n.id = i /\ n.credential = k /\ n.payload = payload
    BY DEF Idle, Job
  <2> HIDE DEF n
  <2>5. JobSound(n)' /\ Source(n)
    BY <2>1, <2>2, <2>4 DEF JobSound, Source
  <2> QED BY <2>3, <2>4, <2>5 DEF JobMove
<1> QED BY <1>1, <1>2, <1>3, <1>4

LEMMA Jobs ==
    ASSUME TypeOK, Sound, [Next]_vars
    PROVE  /\ UNCHANGED job \/ \E c \in Calls : JobMove(c)
           /\ job' \in [Calls -> Job] /\ \A c \in Calls : JobSound(job[c])'
<1>1. UNCHANGED job \/ \E c \in Calls : JobMove(c)
  <2>1. UNCHANGED vars \/ Next
    OBVIOUS
  <2> QED BY <2>1, FirstMoves, ClaimMoves, CreationMoves DEF Next, Step, vars
<1>2. job \in [Calls -> Job] /\ \A c \in Calls : JobSound(job[c])
  BY DEF TypeOK, Sound
<1>3. ASSUME NEW c \in Calls PROVE job'[c] \in Job /\ JobSound(job[c])'
  <2>1. PICK j \in Job : j = job[c] /\ JobSound(j)
    BY <1>2
  <2>2. JobSound(j)'
    BY <2>1, JobKeeps
  <2>3. CASE UNCHANGED job
    BY <2>1, <2>2, <2>3
  <2>4. ASSUME NEW b \in Calls, JobMove(b) PROVE job'[c] \in Job /\ JobSound(job[c])'
    <3>1. PICK k \in Job : job' = [job EXCEPT ![b] = k] /\ JobSound(k)'
      BY <2>4 DEF JobMove
    <3>2. CASE b = c
      <4>1. job'[c] = k
        BY <1>2, <3>1, <3>2
      <4> QED BY <3>1, <4>1
    <3>3. CASE b # c
      <4>1. job'[c] = j
        BY <1>2, <2>1, <3>1, <3>3
      <4> QED BY <2>2, <4>1
    <3> QED BY <3>2, <3>3
  <2> QED BY <1>1, <2>3, <2>4
<1>4. job' \in [Calls -> Job]
  BY <1>1, <1>2, <1>3 DEF JobMove
<1> QED BY <1>1, <1>3, <1>4

-----------------------------------------------------------------------------
(* The invariant.                                                          *)

\* What is held after a step was held before, or has just been drawn.
LEMMA HeldBefore ==
    ASSUME TypeOK, Sound, [Next]_vars, NEW id \in Ids, NEW k \in Credentials, NEW p \in Payloads,
           Held(id, k, p)'
    PROVE  Held(id, k, p) \/ (id = drawn' /\ drawn' = drawn + 1)
<1>1. CASE \E c \in Calls : job'[c].id = id /\ job'[c].credential = k /\ job'[c].payload = p
  <2>1. PICK c \in Calls : job'[c].id = id /\ job'[c].credential = k /\ job'[c].payload = p
    BY <1>1
  <2>2. CASE job'[c] = job[c]
    BY <2>1, <2>2 DEF Held
  <2>3. CASE job'[c] # job[c]
    <3>1. PICK b \in Calls : JobMove(b)
      BY <2>3, Jobs
    <3>2. PICK j \in Job : job' = [job EXCEPT ![b] = j] /\ Source(j)
      BY <3>1 DEF JobMove
    <3>3. job'[c] = j
      BY <2>3, <3>2 DEF TypeOK
    <3>4. id # 0
      BY DEF Ids
    <3> QED BY <2>1, <3>2, <3>3, <3>4 DEF Source
  <2> QED BY <2>2, <2>3
<1>2. CASE claim'[k] # None /\ claim'[k].id = id /\ claim'[k].payload = p
  <2>1. CASE claim'[k] = claim[k]
    BY <1>2, <2>1 DEF Held
  <2>2. ASSUME NEW c \in Calls, PutClaim(c) \/ PutClaimFails(c), claim'[k] # claim[k]
        PROVE  Held(id, k, p)
    <3>1. claim' = OwnClaim(c)
      BY <2>2 DEF PutClaim, PutClaimFails
    <3>2. k = job[c].credential /\ claim'[k] = [id |-> job[c].id, payload |-> job[c].payload]
      BY <2>2, <3>1 DEF OwnClaim, TypeOK
    <3> QED BY <1>2, <3>2 DEF Held
  <2>3. ASSUME NEW c \in Calls, DeleteClaim(c), claim'[k] # claim[k] PROVE FALSE
    BY <1>2, <2>3 DEF DeleteClaim, WithoutClaim, TypeOK
  <2>4. \/ \E c \in Calls : PutClaim(c) \/ PutClaimFails(c) \/ DeleteClaim(c)
        \/ UNCHANGED claim
    BY DEF Next, Step, vars, Kept, CountCredentials, PutCredential, StartRevoke, Revoke,
           StartCreate, ClaimIdempotency, Reread, Replay, Check, CheckFails, Write, WriteFails,
           Recover, After, Answer, ReadClaim, Stop
  <2> QED BY <2>1, <2>2, <2>3, <2>4
<1>3. CASE Entry(id, k, p) \in created'
  <2>1. \/ \E c \in Calls : created' = created \cup
                                {Entry(job[c].id, job[c].credential, job[c].payload)}
        \/ UNCHANGED created
    BY DEF Next, Step, vars, Kept, CountCredentials, PutCredential, StartRevoke, Revoke,
           StartCreate, ClaimIdempotency, PutClaim, PutClaimFails, Reread, Replay, Check,
           CheckFails, Write, WriteFails, Recover, After, Answer, ReadClaim, DeleteClaim, Stop,
           Entry
  <2> QED BY <1>3, <2>1 DEF Held, Entry
<1> QED BY <1>1, <1>2, <1>3 DEF Held

LEMMA AgreedNext ==
    ASSUME TypeOK, Sound, [Next]_vars
    PROVE  Agreed' /\ Drawn'
<1>1. drawn \in Nat /\ drawn' \in Nat /\ drawn <= drawn'
  BY WorldTypes, AgentAssumption DEF TypeOK
<1>2. Drawn'
  BY <1>1, HeldBefore DEF Sound, Drawn, Ids
<1>3. ASSUME NEW id \in Ids, NEW k1 \in Credentials, NEW k2 \in Credentials,
             NEW p1 \in Payloads, NEW p2 \in Payloads, Held(id, k1, p1)', Held(id, k2, p2)'
      PROVE  k1 = k2 /\ p1 = p2
  <2>1. CASE Held(id, k1, p1) \/ Held(id, k2, p2)
    <3>1. id <= drawn
      BY <2>1 DEF Sound, Drawn
    <3>2. ~(id = drawn' /\ drawn' = drawn + 1)
      BY <1>1, <3>1
    <3>3. Held(id, k1, p1) /\ Held(id, k2, p2)
      BY <1>3, <3>2, HeldBefore
    <3> QED BY <3>3 DEF Sound, Agreed
  <2>2. CASE ~Held(id, k1, p1) /\ ~Held(id, k2, p2)
    <3>1. id = drawn' /\ drawn' = drawn + 1
      BY <1>3, <2>2, HeldBefore
    <3>2. \E c \in Calls, k \in Credentials, payload \in Payloads : StartCreate(c, k, payload)
      <4>1. \/ \E c \in Calls, k \in Credentials, payload \in Payloads : StartCreate(c, k, payload)
            \/ UNCHANGED drawn
        BY DEF Next, Step, vars, Kept, CountCredentials, PutCredential, StartRevoke, Revoke,
               ClaimIdempotency, PutClaim, PutClaimFails, Reread, Replay, Check, CheckFails,
               Write, WriteFails, Recover, After, Answer, ReadClaim, DeleteClaim, Stop
      <4> QED BY <1>1, <3>1, <4>1
    <3>3. PICK c \in Calls, k \in Credentials, payload \in Payloads : StartCreate(c, k, payload)
      BY <3>2
    <3>4. /\ UNCHANGED <<claim, created>>
          /\ \A b \in Calls : b # c => job'[b] = job[b]
      BY <3>3 DEF StartCreate, TypeOK
    <3>5. \A k3 \in Credentials, p3 \in Payloads :
              Held(id, k3, p3)' /\ ~Held(id, k3, p3) =>
                  job'[c].credential = k3 /\ job'[c].payload = p3
      BY <3>4 DEF Held
    <3> QED BY <1>3, <2>2, <3>5
  <2> QED BY <2>1, <2>2
<1> QED BY <1>2, <1>3 DEF Agreed

LEMMA ClaimedNext ==
    ASSUME TypeOK, Sound, [Next]_vars
    PROVE  Claimed'
<1> SUFFICES ASSUME Undisturbed', NEW r \in created' PROVE claim'[r.credential].id = r.id
  BY DEF Claimed
<1>1. Undisturbed
  BY WorldTypes
<1>2. ASSUME NEW k \in Credentials, NEW id \in Ids, claim[k].id = id PROVE claim'[k].id = id
  <2>1. claim[k] # None
    BY <1>2 DEF None, Ids
  <2> QED BY <1>2, <2>1, ClaimsStay
<1>3. CASE r \in created
  <2>1. claim[r.credential].id = r.id /\ r.credential \in Credentials /\ r.id \in Ids
    BY <1>1, <1>3 DEF Sound, Claimed, TypeOK, Resource, Ids
  <2> QED BY <1>2, <2>1
<1>4. CASE r \notin created
  <2>1. \/ \E c \in Calls : /\ job[c].step = "write"
                            /\ created' = created \cup
                                   {Entry(job[c].id, job[c].credential, job[c].payload)}
        \/ UNCHANGED created
    BY DEF Next, Step, vars, Kept, CountCredentials, PutCredential, StartRevoke, Revoke,
           StartCreate, ClaimIdempotency, PutClaim, PutClaimFails, Reread, Replay, Check,
           CheckFails, Write, WriteFails, Recover, After, Answer, ReadClaim, DeleteClaim, Stop,
           Entry
  <2>2. PICK c \in Calls : /\ job[c].step = "write"
                           /\ r = Entry(job[c].id, job[c].credential, job[c].payload)
    BY <1>4, <2>1
  <2>3. r.id = job[c].id /\ r.credential = job[c].credential
    BY <2>2 DEF Entry
  <2>4. /\ claim[job[c].credential].id = job[c].id /\ job[c].credential \in Credentials
        /\ job[c].id \in Ids
    BY <1>1, <2>2 DEF Sound, JobSound, TypeOK, Job, Ids
  <2> QED BY <1>2, <2>3, <2>4
<1> QED BY <1>3, <1>4

\* Vercel Blob takes a put only where no claim is.
LEMMA ExclusiveNext ==
    ASSUME TypeOK, Sound, [Next]_vars
    PROVE  Exclusive'
<1>1. (\E c \in Calls : PutClaim(c)) \/ UNCHANGED replaced
  BY DEF Next, Step, vars, Kept, CountCredentials, PutCredential, StartRevoke, Revoke,
         StartCreate, ClaimIdempotency, PutClaimFails, Reread, Replay, Check, CheckFails, Write,
         WriteFails, Recover, After, Answer, ReadClaim, DeleteClaim, Stop
<1>2. storageMode' = storageMode /\ Exclusive
  BY WorldTypes DEF Sound
<1>3. ASSUME NEW c \in Calls, PutClaim(c), storageMode = "vercel" PROVE UNCHANGED replaced
  BY <1>3 DEF PutClaim, FreeToPut, TypeOK
<1> QED BY <1>1, <1>2, <1>3 DEF Exclusive

\* Each creation counted fewer than the limit; unless another was stored in
\* between, so many are active when it stores its own.
LEMMA CountedNext ==
    ASSUME TypeOK, Sound, [Next]_vars
    PROVE  Counted'
<1>1. IsFiniteSet(Active) /\ (Cardinality(Active) > MaxActive => overlapped)
  BY DEF Sound, Counted
<1>2. CASE UNCHANGED <<credential, overlapped>>
  BY <1>1, <1>2 DEF Counted, Active
<1>3. ASSUME NEW c \in Calls, PutCredential(c) PROVE Counted'
  <2> DEFINE k == job[c].credential
             counted == job[c].active
  <2>1. /\ k \in Credentials /\ IsFiniteSet(counted) /\ Cardinality(counted) < MaxActive
    BY <1>3 DEF PutCredential, Sound, JobSound
  <2>2. Active' = Active \cup {k}
    BY <1>3, <2>1 DEF PutCredential, Active, TypeOK
  <2>3. /\ IsFiniteSet(Active \cup {k})
        /\ Cardinality(Active \cup {k}) <= Cardinality(Active) + 1
    <3>1. Cardinality(Active) \in Nat
      BY <1>1, FS_CardinalityType
    <3> QED BY <1>1, <3>1, FS_AddElement
  <2>4. overlapped' = (overlapped \/ ~ (Active \subseteq counted))
    BY <1>3 DEF PutCredential
  <2>5. ASSUME ~overlapped' PROVE ~(Cardinality(Active \cup {k}) > MaxActive)
    <3>1. Active \subseteq counted
      BY <2>4, <2>5
    <3>2. Cardinality(Active) <= Cardinality(counted)
      BY <2>1, <3>1, FS_Subset
    <3>3. /\ Cardinality(Active) \in Nat /\ Cardinality(counted) \in Nat
          /\ Cardinality(Active \cup {k}) \in Nat
      BY <1>1, <2>1, <2>3, FS_CardinalityType
    <3> QED BY <2>1, <2>3, <3>2, <3>3, AgentAssumption
  <2> QED BY <2>2, <2>3, <2>5 DEF Counted
<1>4. ASSUME NEW c \in Calls, Revoke(c) PROVE Counted'
  <2>1. Active' \in SUBSET Active
    BY <1>4 DEF Revoke, Active, TypeOK
  <2>2. IsFiniteSet(Active') /\ Cardinality(Active') <= Cardinality(Active)
    BY <1>1, <2>1, FS_Subset
  <2>3. Cardinality(Active) \in Nat /\ Cardinality(Active') \in Nat
    BY <1>1, <2>2, FS_CardinalityType
  <2>4. UNCHANGED overlapped
    BY <1>4 DEF Revoke
  <2> QED BY <1>1, <2>2, <2>3, <2>4, AgentAssumption DEF Counted
<1>5. \/ UNCHANGED <<credential, overlapped>>
      \/ \E c \in Calls : PutCredential(c) \/ Revoke(c)
  BY DEF Next, Step, vars, Kept, CountCredentials, StartRevoke, StartCreate, ClaimIdempotency,
         PutClaim, PutClaimFails, Reread, Replay, Check, CheckFails, Write, WriteFails, Recover,
         After, Answer, ReadClaim, DeleteClaim, Stop
<1> QED BY <1>2, <1>3, <1>4, <1>5

LEMMA Initially == Init => TypeOK /\ Sound
<1> SUFFICES ASSUME Init PROVE TypeOK /\ Sound
  OBVIOUS
<1>1. 0 \in 0 .. MaxIds /\ 0 \in 0 .. MaxFailures
  BY AgentAssumption
<1>2. Idle \in Job /\ Idle.id = 0 /\ Idle.step = "idle"
  BY <1>1 DEF Idle, Job
<1>3. TypeOK
  BY <1>1, <1>2 DEF Init, TypeOK, Record
<1>4. \A c \in Calls : JobSound(job[c])
  BY <1>2 DEF Init, JobSound
<1>5. \A id \in Ids, k \in Credentials, p \in Payloads : ~Held(id, k, p)
  BY <1>2 DEF Init, Held, Ids
<1>6. Active = {} /\ Claimed /\ Exclusive
  BY DEF Init, Active, Claimed, Exclusive
<1>7. Counted
  BY <1>6, FS_EmptySet, AgentAssumption DEF Counted
<1> QED BY <1>3, <1>4, <1>5, <1>6, <1>7 DEF Sound, Agreed, Drawn

LEMMA Invariance == Spec => [](TypeOK /\ Sound)
<1>1. Init => TypeOK /\ Sound
  BY Initially
<1>2. TypeOK /\ Sound /\ [Next]_vars => (TypeOK /\ Sound)'
  <2> SUFFICES ASSUME TypeOK, Sound, [Next]_vars PROVE TypeOK' /\ Sound'
    OBVIOUS
  <2>1. TypeOK'
    BY WorldTypes, Jobs DEF TypeOK
  <2>2. (\A c \in Calls : JobSound(job[c]))'
    BY Jobs
  <2> QED BY <2>1, <2>2, AgreedNext, ClaimedNext, ExclusiveNext, CountedNext DEF Sound
<1> QED BY <1>1, <1>2, PTL DEF Spec

\* TypeOK: every variable keeps its type, for any number of calls and claims.
THEOREM AgentTypes == Spec => []TypeOK
BY Invariance, PTL

\* OneRequestPerKey: races, retries, stops, and puts and writes of unknown
\* outcome create one resource per key, until an owner fails before its write;
\* on the filesystem store, also until a put replaces another call's claim.
THEOREM OnePerKey == Spec => []OneRequestPerKey
<1>1. TypeOK /\ Sound => OneRequestPerKey
  BY DEF TypeOK, Resource, Sound, Claimed, Exclusive, Undisturbed, OneRequestPerKey,
         ExactlyOneRequest
<1> QED BY <1>1, Invariance, PTL

\* AnswersNameTheResource: whoever owned the claim and wrote the resource, an
\* answer names what was created with this credential for this payload.
THEOREM AnswersAreCreated == Spec => []AnswersNameTheResource
<1>1. TypeOK /\ Sound => AnswersNameTheResource
  <2> SUFFICES ASSUME TypeOK, Sound, NEW c \in Calls, job[c].step = "answered"
               PROVE  Entry(job[c].id, job[c].credential, job[c].payload) \in created
    BY DEF AnswersNameTheResource, Entry
  <2>1. /\ job[c].id \in Ids /\ job[c].credential \in Credentials
        /\ job[c].payload \in Payloads /\ Stored(job[c].id)
    BY DEF TypeOK, Sound, JobSound, Job, Ids
  <2>2. PICK r \in created : r.id = job[c].id
    BY <2>1 DEF Stored
  <2>3. /\ r = Entry(r.id, r.credential, r.payload)
        /\ r.credential \in Credentials /\ r.payload \in Payloads
    BY DEF TypeOK, Resource, Entry
  <2>4. Held(r.id, r.credential, r.payload)
    BY <2>3 DEF Held
  <2>5. Held(job[c].id, job[c].credential, job[c].payload)
    BY DEF Held
  <2> QED BY <2>1, <2>2, <2>3, <2>4, <2>5 DEF Sound, Agreed
<1> QED BY <1>1, Invariance, PTL

\* LimitNeedsAnOverlap: one more credential than the limit takes two
\* creations that overlap.
THEOREM LimitOverlaps == Spec => []LimitNeedsAnOverlap
<1>1. Sound => LimitNeedsAnOverlap
  BY DEF Sound, Counted, LimitNeedsAnOverlap
<1> QED BY <1>1, Invariance, PTL

-----------------------------------------------------------------------------
(* BrowserAuthorization.                                                   *)

\* The capability a call presented was issued, and not after it was read.
Ordered(j) ==
    j.op \in {"view", "contribute"} =>
        /\ j.id \in Issued
        /\ capability[j.id].plan <= j.stored /\ j.stored <= plan
        /\ j.signed <= j.stored
        /\ j.closed => cancelled

Authorized(j) ==
    /\ j.step # "idle" => j.op \in {"issue", "view", "contribute"} /\ j.stored <= plan
    /\ j.step = "issue" => j.op = "issue"
    /\ j.step = "authorization" /\ j.op = "issue" => j.signer \in Signers
    /\ j.step = "issue" => j.signer \in Signers
    /\ j.step \in {"authenticate", "refused"} => j.op \in {"view", "contribute"}
    /\ j.step = "authenticate" =>
           /\ j.stored <= j.seen.plan /\ j.seen.plan <= plan
           /\ j.seen.plan = plan => active \cup Evidence \subseteq j.seen.known
    /\ j.step = "contribute" =>
           /\ j.op = "contribute"
           /\ j.stored = capability[j.id].plan /\ j.signer = capability[j.id].signer

Cause(j) ==
    LET r == capability[j.id] IN
    \/ ~j.home
    \/ r.expires <= clock
    \/ r.plan < plan
    \/ cancelled
    \/ r.signer \notin active \cup Evidence
    \/ r.splitId

StillRefused(j) == j.step = "refused" => Cause(j)

HandlerSound(j) == Ordered(j) /\ Authorized(j) /\ StillRefused(j)

\* A contribution through a capability is one that was issued, as issued.
ContributionKept(x) ==
    x.via # Nobody => /\ x.via \in Issued
                      /\ x.plan = capability[x.via].plan
                      /\ x.signer = capability[x.via].signer

BrowserSound ==
    /\ \A c \in Handlers : HandlerSound(handler[c])
    /\ \A x \in contributions : ContributionKept(x)
    /\ \A id \in Issued : capability[id].plan <= plan

-----------------------------------------------------------------------------
(* How a step changes the Intent and the capabilities.                     *)

\* The Intent moves on: its plan grows, its signers leave, only a signer who
\* is active contributes, to the current plan.
LEMMA IntentMoves ==
    ASSUME BrowserTypeOK, [BrowserNext]_browserVars
    PROVE  /\ plan' \in Nat /\ plan <= plan' /\ cancelled' \in BOOLEAN
           /\ cancelled => cancelled'
           /\ active' \subseteq active /\ clock' \in Nat /\ clock <= clock'
           /\ contributions \subseteq contributions'
           /\ \A x \in contributions' \ contributions :
                  x.plan = plan /\ x.signer \in active /\ UNCHANGED plan
<1>1. plan' \in Nat /\ plan <= plan' /\ cancelled' \in BOOLEAN /\ (cancelled => cancelled')
  <2>1. Replan \/ UNCHANGED plan
    BY DEF BrowserNext, browserVars, intentVars, Reads, StartIssue, StartUse, ReadAuthorization, Issue,
           Authenticate, Contribute, Return, Sign, RemoveSigner, Cancel, Tick
  <2>2. Cancel \/ UNCHANGED cancelled
    BY DEF BrowserNext, browserVars, intentVars, Reads, StartIssue, StartUse, ReadAuthorization, Issue,
           Authenticate, Contribute, Return, Sign, RemoveSigner, Replan, Tick
  <2>3. plan' \in Nat /\ plan <= plan'
    BY <2>1 DEF Replan, BrowserTypeOK
  <2>4. cancelled' \in BOOLEAN /\ (cancelled => cancelled')
    BY <2>2 DEF Cancel, BrowserTypeOK
  <2> QED BY <2>3, <2>4
<1>2. active' \subseteq active
  BY DEF BrowserNext, browserVars, intentVars, Reads, StartIssue, StartUse, ReadAuthorization, Issue,
         Authenticate, Contribute, Return, Sign, RemoveSigner, Replan, Cancel, Tick
<1>3. clock' \in Nat /\ clock <= clock'
  <2>1. Tick \/ UNCHANGED clock
    BY DEF BrowserNext, browserVars, intentVars, Reads, StartIssue, StartUse, ReadAuthorization, Issue,
           Authenticate, Contribute, Return, Sign, RemoveSigner, Replan, Cancel
  <2> QED BY <2>1 DEF Tick, BrowserTypeOK
<1>4. /\ contributions \subseteq contributions'
      /\ \A x \in contributions' \ contributions :
             x.plan = plan /\ x.signer \in active /\ UNCHANGED plan
  <2>1. \/ UNCHANGED contributions
        \/ \E signer, signed, via : Contributes(signer, signed, via) /\ UNCHANGED plan
    BY DEF BrowserNext, browserVars, intentVars, Reads, StartIssue, StartUse, ReadAuthorization, Issue,
           Authenticate, Contribute, Return, Sign, RemoveSigner, Replan, Cancel, Tick
  <2> QED BY <2>1 DEF Contributes
<1> QED BY <1>1, <1>2, <1>3, <1>4

\* A capability that was issued never changes.
LEMMA CapabilitiesStay ==
    ASSUME BrowserTypeOK, BrowserSound, [BrowserNext]_browserVars
    PROVE  /\ capability' \in [Capabilities -> Capability]
           /\ \A id \in Issued : id \in Issued' /\ capability'[id] = capability[id]
<1>1. (\E c \in Handlers : Issue(c)) \/ UNCHANGED capability
  BY DEF BrowserNext, browserVars, intentVars, Reads, StartIssue, StartUse, ReadAuthorization,
         Authenticate, Contribute, Return, Sign, RemoveSigner, Replan, Cancel, Tick
<1>2. ASSUME NEW c \in Handlers, Issue(c), ~UNCHANGED capability
      PROVE  /\ capability' \in [Capabilities -> Capability]
             /\ \A id \in Issued : id \in Issued' /\ capability'[id] = capability[id]
  <2>1. /\ handler[c].signer \in Signers /\ handler[c].stored \in Nat
    BY <1>2 DEF Issue, BrowserSound, HandlerSound, Authorized, BrowserTypeOK, Handler
  <2>2. clock + Lifetime \in Nat
    BY BrowserAssumption DEF BrowserTypeOK
  <2>3. PICK new \in Capabilities \ Issued, splitId \in BOOLEAN, splitSecret \in BOOLEAN :
            capability' = [capability EXCEPT ![new] =
                [plan |-> handler[c].stored, signer |-> handler[c].signer, expires |-> clock + Lifetime,
                 splitId |-> splitId, splitSecret |-> splitSecret]]
    BY <1>2 DEF Issue
  <2>4. [plan |-> handler[c].stored, signer |-> handler[c].signer, expires |-> clock + Lifetime,
         splitId |-> splitId, splitSecret |-> splitSecret] \in Capability
    BY <2>1, <2>2 DEF Capability
  <2> QED BY <2>3, <2>4 DEF BrowserTypeOK, Issued
<1>3. CASE UNCHANGED capability
  BY <1>3 DEF BrowserTypeOK, Issued
<1> QED BY <1>1, <1>2, <1>3

\* Who was neither active nor on record stays so while the plan does.
LEMMA GoneStaysGone ==
    ASSUME BrowserTypeOK, BrowserSound, [BrowserNext]_browserVars, plan' = plan
    PROVE  active' \cup Evidence' \subseteq active \cup Evidence
<1>1. ASSUME NEW s \in Signers, s \in Evidence' PROVE s \in active \cup Evidence
  <2>1. PICK x \in contributions' : x.plan = plan' /\ x.signer = s
    BY <1>1 DEF Evidence
  <2>2. CASE x \in contributions
    BY <2>1, <2>2 DEF Evidence
  <2>3. CASE x \notin contributions
    BY <2>1, <2>3, IntentMoves
  <2> QED BY <2>2, <2>3
<1>2. Evidence' \subseteq Signers
  BY DEF Evidence
<1> QED BY <1>1, <1>2, IntentMoves

LEMMA CauseStays ==
    ASSUME BrowserTypeOK, BrowserSound, [BrowserNext]_browserVars, NEW j \in Handler, j.id \in Issued,
           capability[j.id].plan <= plan, Cause(j)
    PROVE  Cause(j)'
<1>1. capability'[j.id] = capability[j.id] /\ capability[j.id] \in Capability
  BY CapabilitiesStay DEF BrowserTypeOK, Issued
<1> DEFINE r == capability[j.id]
<1>2. r.plan \in Nat /\ r.expires \in Nat /\ plan \in Nat /\ plan' \in Nat /\ clock \in Nat
  BY <1>1, IntentMoves DEF Capability, BrowserTypeOK
<1>3. r.plan < plan => r.plan < plan'
  BY <1>2, IntentMoves
<1>4. r.expires <= clock => r.expires <= clock'
  BY <1>2, IntentMoves
<1>5. ASSUME r.signer \notin active \cup Evidence, ~(r.plan < plan')
      PROVE  r.signer \notin active' \cup Evidence'
  <2>1. plan' = plan
    BY <1>2, <1>5, IntentMoves
  <2> QED BY <1>5, <2>1, GoneStaysGone
<1> HIDE DEF r
<1>6. /\ ~j.home \/ r.expires <= clock \/ r.plan < plan \/ cancelled
         \/ r.signer \notin active \cup Evidence \/ r.splitId
      /\ r = capability'[j.id]
  BY <1>1 DEF Cause, r
<1> QED BY <1>3, <1>4, <1>5, <1>6, IntentMoves DEF Cause

LEMMA HandlerKeeps ==
    ASSUME BrowserTypeOK, BrowserSound, [BrowserNext]_browserVars, NEW j \in Handler, HandlerSound(j)
    PROVE  HandlerSound(j)'
<1>1. /\ plan \in Nat /\ plan' \in Nat /\ plan <= plan' /\ j.stored \in Nat /\ j.signed \in Nat
      /\ j.seen.plan \in Nat /\ (cancelled => cancelled')
  BY IntentMoves DEF BrowserTypeOK, Handler, View
<1>2. ASSUME j.id \in Issued
      PROVE  j.id \in Issued' /\ capability'[j.id] = capability[j.id]
             /\ capability[j.id].plan \in Nat
  BY <1>2, CapabilitiesStay DEF BrowserTypeOK, Capability, Issued
<1>3. Ordered(j)'
  BY <1>1, <1>2 DEF HandlerSound, Ordered
<1>4. Authorized(j)'
  <2>1. ASSUME j.step = "authenticate", j.seen.plan = plan'
        PROVE  active' \cup Evidence' \subseteq j.seen.known
    <3>1. j.seen.plan <= plan /\ (j.seen.plan = plan => active \cup Evidence \subseteq j.seen.known)
      BY <2>1 DEF HandlerSound, Authorized
    <3>2. plan' = plan
      BY <1>1, <2>1, <3>1
    <3> QED BY <2>1, <3>1, <3>2, GoneStaysGone
  <2>2. j.step = "contribute" => j.id \in Issued
    BY DEF HandlerSound, Authorized, Ordered
  <2> QED BY <1>1, <1>2, <2>1, <2>2 DEF HandlerSound, Authorized
<1>5. StillRefused(j)'
  <2> SUFFICES ASSUME j.step = "refused" PROVE Cause(j)'
    BY DEF StillRefused
  <2>1. j.op \in {"view", "contribute"} /\ Cause(j)
    BY DEF HandlerSound, Authorized, StillRefused
  <2>2. j.id \in Issued /\ capability[j.id].plan <= plan
    BY <1>1, <1>2, <2>1 DEF HandlerSound, Ordered
  <2> QED BY <2>1, <2>2, CauseStays
<1> QED BY <1>3, <1>4, <1>5 DEF HandlerSound

-----------------------------------------------------------------------------
(* How a step changes its call.                                            *)

HandlerMove(c) == \E k \in Handler : handler' = [handler EXCEPT ![c] = k] /\ HandlerSound(k)'

LEMMA HandlerEnds ==
    ASSUME NEW c \in Handlers, Finish(c)
    PROVE  HandlerMove(c)
<1>1. Free \in Handler /\ Free.step = "idle" /\ Free.op = "none"
  BY DEF Free, Handler, NoView, View
<1>2. HandlerSound(Free)'
  BY <1>1 DEF HandlerSound, Ordered, Authorized, StillRefused
<1> QED BY <1>1, <1>2 DEF Finish, HandlerMove

LEMMA Starts ==
    ASSUME BrowserTypeOK, BrowserSound, NEW c \in Handlers,
           \/ \E signer \in Signers : StartIssue(c, signer)
           \/ \E op \in {"view", "contribute"}, id \in Capabilities, home \in BOOLEAN,
                signed \in 0 .. MaxPlans : StartUse(c, op, id, home, signed)
    PROVE  HandlerMove(c)
<1>1. PICK p \in Nat, closed \in BOOLEAN : p = plan /\ closed = cancelled
  BY DEF BrowserTypeOK
<1>2. ASSUME NEW signer \in Signers, StartIssue(c, signer) PROVE HandlerMove(c)
  <2> DEFINE k == [Free EXCEPT !.op = "issue", !.step = "authorization", !.signer = signer,
                               !.stored = p, !.closed = closed]
  <2>1. handler' = [handler EXCEPT ![c] = k] /\ plan' = p
    BY <1>1, <1>2 DEF StartIssue, Reads, intentVars
  <2>2. /\ k \in Handler /\ k.op = "issue" /\ k.step = "authorization" /\ k.signer = signer
        /\ k.stored = p
    BY DEF Free, Handler, NoView, View
  <2> HIDE DEF k
  <2>3. HandlerSound(k)'
    BY <2>1, <2>2 DEF HandlerSound, Ordered, Authorized, StillRefused
  <2> QED BY <2>1, <2>2, <2>3 DEF HandlerMove
<1>3. ASSUME NEW op \in {"view", "contribute"}, NEW id \in Capabilities, NEW home \in BOOLEAN,
             NEW signed \in 0 .. MaxPlans, StartUse(c, op, id, home, signed)
      PROVE  HandlerMove(c)
  <2> DEFINE k == [Free EXCEPT !.op = op, !.step = "authorization", !.id = id, !.home = home,
                               !.signed = signed, !.stored = p, !.closed = closed]
  <2>1. handler' = [handler EXCEPT ![c] = k] /\ UNCHANGED <<plan, cancelled, capability>>
    BY <1>1, <1>3 DEF StartUse, Reads, intentVars
  <2>2. signed \in Nat
    OBVIOUS
  <2>3. /\ k \in Handler /\ k.op = op /\ k.step = "authorization" /\ k.id = id
        /\ k.stored = p /\ k.signed = signed /\ k.closed = closed
    BY <2>2 DEF Free, Handler, NoView, View
  <2> HIDE DEF k
  <2>4. id \in Issued /\ capability[id].plan <= p /\ signed <= p
    <3>1. id \in Issued /\ (op = "view" => signed = 0) /\ (op = "contribute" => signed \in 1 .. plan)
      BY <1>3 DEF StartUse
    <3>2. signed <= p
      BY <1>1, <3>1
    <3> QED BY <1>1, <3>1, <3>2 DEF BrowserSound
  <2>5. Issued' = Issued
    BY <2>1 DEF Issued
  <2>6. HandlerSound(k)'
    BY <1>1, <2>1, <2>3, <2>4, <2>5 DEF HandlerSound, Ordered, Authorized, StillRefused
  <2> QED BY <2>1, <2>3, <2>6 DEF HandlerMove
<1> QED BY <1>2, <1>3

LEMMA ReadsView ==
    ASSUME BrowserTypeOK, BrowserSound, [BrowserNext]_browserVars, NEW c \in Handlers, ReadAuthorization(c)
    PROVE  HandlerMove(c)
<1>1. PICK j \in Handler : j = handler[c] /\ HandlerSound(j)
  BY DEF BrowserTypeOK, BrowserSound
<1>2. PICK v \in View : v = Authorization
  <2>1. PICK awaiting \in BOOLEAN : awaiting = (~Ready /\ ~cancelled)
    OBVIOUS
  <2>2. PICK pending \in SUBSET Signers : pending = IF Ready THEN {} ELSE active \ Evidence
    BY DEF BrowserTypeOK
  <2>3. PICK known \in SUBSET Signers : known = active \cup Evidence
    BY DEF BrowserTypeOK, Evidence
  <2>4. Authorization = [plan |-> plan, awaiting |-> awaiting, pending |-> pending, known |-> known]
    BY <2>1, <2>2, <2>3 DEF Authorization
  <2> QED BY <2>4 DEF BrowserTypeOK, View
<1>3. v.plan = plan /\ active \cup Evidence = v.known
  BY <1>2 DEF Authorization
<1>4. PICK step \in {"issue", "authenticate"} :
          step = IF j.op = "issue" THEN "issue" ELSE "authenticate"
  OBVIOUS
<1> DEFINE k == [j EXCEPT !.seen = v, !.step = step]
<1>5. handler' = [handler EXCEPT ![c] = k] /\ j.step = "authorization"
  BY <1>1, <1>2, <1>4 DEF ReadAuthorization, BrowserTypeOK
<1>6. /\ k \in Handler /\ k.op = j.op /\ k.step = step /\ k.id = j.id /\ k.signer = j.signer
      /\ k.stored = j.stored /\ k.signed = j.signed /\ k.closed = j.closed /\ k.seen = v
  BY <1>1 DEF Handler
<1> HIDE DEF k
<1>7. UNCHANGED <<plan, active, contributions>> /\ Evidence' = Evidence /\ plan \in Nat
  BY DEF ReadAuthorization, Reads, intentVars, Evidence, BrowserTypeOK
<1>8. HandlerSound(j)'
  BY <1>1, HandlerKeeps
<1>9. /\ j.op \in {"issue", "view", "contribute"} /\ j.stored <= plan
      /\ j.op = "issue" => j.signer \in Signers
  BY <1>1, <1>5 DEF HandlerSound, Authorized
<1>10. Ordered(k)'
  BY <1>6, <1>8 DEF HandlerSound, Ordered
<1>11. Authorized(k)' /\ StillRefused(k)'
  BY <1>3, <1>4, <1>6, <1>7, <1>9 DEF Authorized, StillRefused
<1> QED BY <1>5, <1>6, <1>10, <1>11 DEF HandlerMove, HandlerSound

LEMMA Authenticates ==
    ASSUME BrowserTypeOK, BrowserSound, [BrowserNext]_browserVars, NEW c \in Handlers, Authenticate(c)
    PROVE  HandlerMove(c)
<1>1. PICK j \in Handler : j = handler[c] /\ HandlerSound(j)
  BY DEF BrowserTypeOK, BrowserSound
<1>2. /\ j.step = "authenticate" /\ UNCHANGED <<plan, cancelled, active, contributions, capability, clock>>
  BY <1>1 DEF Authenticate, Reads, intentVars
<1>3. /\ j.op \in {"view", "contribute"} /\ j.id \in Issued /\ j.id \in Capabilities
      /\ capability[j.id].plan <= j.stored /\ j.stored <= j.seen.plan /\ j.seen.plan <= plan
      /\ j.seen.plan = plan => active \cup Evidence \subseteq j.seen.known
      /\ j.closed => cancelled
  BY <1>1, <1>2 DEF HandlerSound, Ordered, Authorized, Issued
<1>4. PICK r \in Capability : r = capability[j.id] /\ r.signer # Nobody
  BY <1>3 DEF BrowserTypeOK, Issued
<1>5. /\ r.plan \in Nat /\ r.expires \in Nat /\ r.signer \in Signers /\ clock \in Nat
      /\ j.stored \in Nat /\ j.seen.plan \in Nat /\ plan \in Nat
  BY <1>4 DEF Capability, BrowserTypeOK, Handler, View
<1>6. CASE ~Authentic(r, j)
  <2> DEFINE k == [j EXCEPT !.step = "refused"]
  <2>1. handler' = [handler EXCEPT ![c] = k]
    BY <1>1, <1>4, <1>6 DEF Authenticate, Refuse, BrowserTypeOK
  <2>2. /\ k \in Handler /\ k.op = j.op /\ k.step = "refused" /\ k.id = j.id /\ k.home = j.home
        /\ k.stored = j.stored /\ k.signed = j.signed /\ k.closed = j.closed
    BY <1>1 DEF Handler
  <2> HIDE DEF k
  <2>3. Cause(j)
    <3>1. \/ r.splitId \/ ~j.home \/ ~(r.expires > clock) \/ r.plan # j.stored
          \/ r.plan # j.seen.plan \/ j.closed \/ r.signer \notin j.seen.known
      BY <1>6 DEF Authentic, capabilityParts, SamePlan
    <3>2. r.expires <= clock \/ r.expires > clock
      BY <1>5
    <3>3. r.plan # j.stored \/ r.plan # j.seen.plan => r.plan < plan
      BY <1>3, <1>4, <1>5
    <3>4. r.signer \notin j.seen.known => r.plan < plan \/ r.signer \notin active \cup Evidence
      BY <1>3, <1>4, <1>5
    <3> QED BY <1>3, <1>4, <3>1, <3>2, <3>3, <3>4 DEF Cause
  <2>4. Cause(j)'
    BY <1>1, <1>3, <1>4, <1>5, <2>3, CauseStays
  <2>5. Cause(k)'
    BY <2>2, <2>4 DEF Cause
  <2>6. Ordered(j)'
    BY <1>1, HandlerKeeps DEF HandlerSound
  <2>7. HandlerSound(k)'
    BY <1>2, <1>3, <1>5, <2>2, <2>5, <2>6 DEF HandlerSound, Ordered, Authorized, StillRefused
  <2> QED BY <2>1, <2>2, <2>7 DEF HandlerMove
<1>7. CASE Authentic(r, j) /\ j.op = "view"
  BY <1>1, <1>4, <1>7, HandlerEnds DEF Authenticate
<1>8. CASE Authentic(r, j) /\ j.op # "view"
  <2> DEFINE k == [j EXCEPT !.step = "contribute", !.signer = r.signer]
  <2>1. handler' = [handler EXCEPT ![c] = k]
    BY <1>1, <1>4, <1>8 DEF Authenticate, BrowserTypeOK
  <2>2. /\ k \in Handler /\ k.op = j.op /\ k.step = "contribute" /\ k.id = j.id
        /\ k.stored = j.stored /\ k.signed = j.signed /\ k.closed = j.closed
        /\ k.signer = r.signer
    BY <1>1, <1>5 DEF Handler
  <2> HIDE DEF k
  <2>3. r.plan = j.stored
    BY <1>8 DEF Authentic, SamePlan
  <2>4. Ordered(j)'
    BY <1>1, HandlerKeeps DEF HandlerSound
  <2>5. j.stored <= plan'
    BY <1>2, <1>3, <1>5
  <2>6. HandlerSound(k)'
    BY <1>2, <1>3, <1>4, <1>8, <2>2, <2>3, <2>4, <2>5
       DEF HandlerSound, Ordered, Authorized, StillRefused
  <2> QED BY <2>1, <2>2, <2>6 DEF HandlerMove
<1> QED BY <1>6, <1>7, <1>8

LEMMA HandlerSteps ==
    ASSUME BrowserTypeOK, BrowserSound, [BrowserNext]_browserVars
    PROVE  handler' \in [Handlers -> Handler] /\ \A c \in Handlers : HandlerSound(handler[c])'
<1>1. UNCHANGED handler \/ \E c \in Handlers : HandlerMove(c)
  <2>1. \/ UNCHANGED handler
        \/ \E c \in Handlers :
              \/ \E signer \in Signers : StartIssue(c, signer)
              \/ \E op \in {"view", "contribute"}, id \in Capabilities, home \in BOOLEAN,
                    signed \in 0 .. MaxPlans : StartUse(c, op, id, home, signed)
              \/ ReadAuthorization(c) \/ Authenticate(c) \/ Finish(c)
    BY DEF BrowserNext, browserVars, Issue, Contribute, Return, Sign, RemoveSigner, Replan, Cancel, Tick
  <2> QED BY <2>1, HandlerEnds, Starts, ReadsView, Authenticates
<1>2. handler \in [Handlers -> Handler] /\ \A c \in Handlers : HandlerSound(handler[c])
  BY DEF BrowserTypeOK, BrowserSound
<1>3. ASSUME NEW c \in Handlers PROVE handler'[c] \in Handler /\ HandlerSound(handler[c])'
  <2>1. PICK j \in Handler : j = handler[c] /\ HandlerSound(j)
    BY <1>2
  <2>2. HandlerSound(j)'
    BY <2>1, HandlerKeeps
  <2>3. CASE UNCHANGED handler
    BY <2>1, <2>2, <2>3
  <2>4. ASSUME NEW b \in Handlers, HandlerMove(b) PROVE handler'[c] \in Handler /\ HandlerSound(handler[c])'
    <3>1. PICK k \in Handler : handler' = [handler EXCEPT ![b] = k] /\ HandlerSound(k)'
      BY <2>4 DEF HandlerMove
    <3>2. CASE b = c
      <4>1. handler'[c] = k
        BY <1>2, <3>1, <3>2
      <4> QED BY <3>1, <4>1
    <3>3. CASE b # c
      <4>1. handler'[c] = j
        BY <1>2, <2>1, <3>1, <3>3
      <4> QED BY <2>2, <4>1
    <3> QED BY <3>2, <3>3
  <2> QED BY <1>1, <2>3, <2>4
<1>4. handler' \in [Handlers -> Handler]
  BY <1>1, <1>2, <1>3 DEF HandlerMove
<1> QED BY <1>3, <1>4

-----------------------------------------------------------------------------
(* The invariant.                                                          *)

LEMMA ContributionsStep ==
    ASSUME BrowserTypeOK, BrowserSound, [BrowserNext]_browserVars
    PROVE  /\ contributions' \subseteq Contribution
           /\ \A x \in contributions' : ContributionKept(x)'
<1>1. \/ UNCHANGED contributions
      \/ \E s \in Signers : Sign(s)
      \/ \E c \in Handlers : Contribute(c) /\ ~UNCHANGED contributions
  BY DEF BrowserNext, browserVars, intentVars, Reads, StartIssue, StartUse, ReadAuthorization, Issue,
         Authenticate, Return, RemoveSigner, Replan, Cancel, Tick
<1>2. ASSUME NEW x, ContributionKept(x) PROVE ContributionKept(x)'
  BY <1>2, CapabilitiesStay DEF ContributionKept
<1>3. contributions \subseteq Contribution /\ \A x \in contributions : ContributionKept(x)'
  BY <1>2 DEF BrowserTypeOK, BrowserSound
<1>4. ASSUME NEW s \in Signers, Sign(s)
      PROVE  /\ contributions' \subseteq Contribution
             /\ \A x \in contributions' : ContributionKept(x)'
  <2> DEFINE y == [plan |-> plan, signer |-> s, via |-> Nobody]
  <2>1. contributions' = contributions \cup {y}
    BY <1>4 DEF Sign, Contributes
  <2>2. PICK z \in Contribution : z = y
    BY DEF Contribution, BrowserTypeOK
  <2>3. z.via = Nobody
    BY <2>2
  <2>4. ContributionKept(z)'
    BY <2>3 DEF ContributionKept
  <2> HIDE DEF y
  <2> QED BY <1>3, <2>1, <2>2, <2>4
<1>5. ASSUME NEW c \in Handlers, Contribute(c), ~UNCHANGED contributions
      PROVE  /\ contributions' \subseteq Contribution
             /\ \A x \in contributions' : ContributionKept(x)'
  <2>1. PICK j \in Handler : j = handler[c] /\ HandlerSound(j)
    BY DEF BrowserTypeOK, BrowserSound
  <2>2. j.step = "contribute" /\ Contributes(j.signer, j.signed, j.id)
    BY <1>5, <2>1 DEF Contribute
  <2>3. /\ j.id \in Issued /\ j.id \in Capabilities /\ j.signed <= j.stored /\ j.stored <= plan
        /\ j.stored = capability[j.id].plan /\ j.signer = capability[j.id].signer
        /\ j.signed = plan
    BY <2>1, <2>2 DEF HandlerSound, Ordered, Authorized, Contributes, Issued
  <2>4. plan = capability[j.id].plan /\ plan \in Nat /\ j.signer \in active /\ active \subseteq Signers
    BY <2>2, <2>3 DEF BrowserTypeOK, Handler, Contributes
  <2> DEFINE y == [plan |-> plan, signer |-> j.signer, via |-> j.id]
  <2>5. contributions' = contributions \cup {y}
    BY <2>2, <2>3 DEF Contributes
  <2>6. PICK z \in Contribution : z = y
    BY <2>3, <2>4 DEF Contribution
  <2>7. z.plan = plan /\ z.signer = j.signer /\ z.via = j.id
    BY <2>6
  <2>8. ContributionKept(z)
    BY <2>3, <2>4, <2>7 DEF ContributionKept
  <2> HIDE DEF y
  <2> QED BY <1>2, <1>3, <2>5, <2>6, <2>8
<1> QED BY <1>1, <1>3, <1>4, <1>5

LEMMA IssuedStep ==
    ASSUME BrowserTypeOK, BrowserSound, [BrowserNext]_browserVars
    PROVE  \A id \in Issued' : capability'[id].plan <= plan'
<1> SUFFICES ASSUME NEW id \in Issued' PROVE capability'[id].plan <= plan'
  OBVIOUS
<1>1. plan \in Nat /\ plan' \in Nat /\ plan <= plan' /\ id \in Capabilities
  BY IntentMoves DEF BrowserTypeOK, Issued
<1>2. CASE id \in Issued
  <2>1. capability'[id] = capability[id] /\ capability[id].plan <= plan
    BY <1>2, CapabilitiesStay DEF BrowserSound
  <2>2. capability[id].plan \in Nat
    BY <1>1 DEF BrowserTypeOK, Capability
  <2> QED BY <1>1, <2>1, <2>2
<1>3. CASE id \notin Issued
  <2>1. (\E c \in Handlers : Issue(c)) \/ UNCHANGED capability
    BY DEF BrowserNext, browserVars, intentVars, Reads, StartIssue, StartUse, ReadAuthorization,
           Authenticate, Contribute, Return, Sign, RemoveSigner, Replan, Cancel, Tick
  <2>2. ~UNCHANGED capability
    BY <1>3 DEF Issued
  <2>3. PICK c \in Handlers : Issue(c)
    BY <2>1, <2>2
  <2>4. handler[c].step = "issue" /\ handler[c].stored <= plan /\ handler[c].stored \in Nat
    BY <2>3 DEF Issue, BrowserSound, HandlerSound, Authorized, BrowserTypeOK, Handler
  <2>5. PICK new \in Capabilities, splitId \in BOOLEAN, splitSecret \in BOOLEAN :
            capability' = [capability EXCEPT ![new] =
                [plan |-> handler[c].stored, signer |-> handler[c].signer, expires |-> clock + Lifetime,
                 splitId |-> splitId, splitSecret |-> splitSecret]]
    BY <2>2, <2>3 DEF Issue
  <2>6. id = new
    BY <1>1, <1>3, <2>5 DEF Issued, BrowserTypeOK
  <2>7. capability'[id].plan = handler[c].stored
    BY <1>1, <2>5, <2>6 DEF BrowserTypeOK
  <2> QED BY <1>1, <2>4, <2>7
<1> QED BY <1>2, <1>3

LEMMA BrowserInitially == BrowserInit => BrowserTypeOK /\ BrowserSound
<1>1. Free \in Handler /\ Free.step = "idle" /\ Free.op = "none"
  BY DEF Free, Handler, NoView, View
<1>2. NoCapability \in Capability /\ NoCapability.signer = Nobody
  BY DEF NoCapability, Capability
<1>3. BrowserInit => BrowserTypeOK
  <2> SUFFICES ASSUME BrowserInit PROVE BrowserTypeOK
    OBVIOUS
  <2>1. handler \in [Handlers -> Handler] /\ capability \in [Capabilities -> Capability]
    BY <1>1, <1>2 DEF BrowserInit
  <2>2. plan \in Nat /\ clock \in Nat /\ cancelled \in BOOLEAN
    BY DEF BrowserInit
  <2>3. active \subseteq Signers /\ contributions \subseteq Contribution
    BY DEF BrowserInit
  <2> QED BY <2>1, <2>2, <2>3 DEF BrowserTypeOK
<1>4. BrowserInit => Issued = {} /\ contributions = {}
  BY <1>2 DEF BrowserInit, Issued
<1>5. BrowserInit => \A c \in Handlers : HandlerSound(handler[c])
  BY <1>1 DEF BrowserInit, HandlerSound, Ordered, Authorized, StillRefused
<1> QED BY <1>3, <1>4, <1>5 DEF BrowserSound

LEMMA BrowserInvariance == BrowserSpec => [](BrowserTypeOK /\ BrowserSound)
<1>1. BrowserInit => BrowserTypeOK /\ BrowserSound
  BY BrowserInitially
<1>2. BrowserTypeOK /\ BrowserSound /\ [BrowserNext]_browserVars => (BrowserTypeOK /\ BrowserSound)'
  <2> SUFFICES ASSUME BrowserTypeOK, BrowserSound, [BrowserNext]_browserVars PROVE BrowserTypeOK' /\ BrowserSound'
    OBVIOUS
  <2>1. active' \subseteq Signers
    BY IntentMoves DEF BrowserTypeOK
  <2>2. BrowserTypeOK'
    BY <2>1, IntentMoves, CapabilitiesStay, HandlerSteps, ContributionsStep DEF BrowserTypeOK
  <2>3. (\A c \in Handlers : HandlerSound(handler[c]))'
    BY HandlerSteps
  <2>4. (\A x \in contributions : ContributionKept(x))'
    BY ContributionsStep
  <2>5. (\A id \in Issued : capability[id].plan <= plan)'
    BY IssuedStep
  <2> QED BY <2>2, <2>3, <2>4, <2>5 DEF BrowserSound
<1> QED BY <1>1, <1>2, PTL DEF BrowserSpec

\* BrowserTypeOK: every variable keeps its type, for any number of plans and calls.
THEOREM BrowserTypes == BrowserSpec => []BrowserTypeOK
BY BrowserInvariance, PTL

\* ContributionsKeepTheirPlan: what comes in through a capability is its
\* signer's, to its plan, however the Intent is replanned meanwhile.
THEOREM ContributionsAreBound == BrowserSpec => []ContributionsKeepTheirPlan
<1>1. BrowserSound => ContributionsKeepTheirPlan
  BY DEF BrowserSound, ContributionKept, ContributionsKeepTheirPlan
<1> QED BY <1>1, BrowserInvariance, PTL

\* RefusalsHaveACause: whatever is read between what, a capability is refused
\* for a reason that still holds when the browser is told.
THEOREM RefusalsAreDue == BrowserSpec => []RefusalsHaveACause
<1>1. BrowserSound => RefusalsHaveACause
  BY DEF BrowserSound, HandlerSound, StillRefused, Cause, RefusalsHaveACause
<1> QED BY <1>1, BrowserInvariance, PTL
=============================================================================
