---------------------------- MODULE AgentAccess ----------------------------
(***************************************************************************)
(* Agent credentials of one signer, and what an agent creates with them:   *)
(* a signing Request (createAgentSigningRequest) or a Soroban Intent       *)
(* (createAgentSorobanIntent), at most one per Idempotency-Key.            *)
(*                                                                         *)
(* Credentials and idempotency claims are objects of a private object      *)
(* store with no transactions: a claim is read, then put with              *)
(* allowOverwrite: false, and released by reading it and then deleting it. *)
(* Vercel Blob honours allowOverwrite; the filesystem store, with which    *)
(* deploy/testnet runs, does not look at it.  A call is a handler of       *)
(* routes/agent-access.ts, routes/request.ts or routes/intent.ts; its      *)
(* steps are what it does between two awaits.  Keys do not meet: one       *)
(* Idempotency-Key per credential is modelled.                             *)
(***************************************************************************)
EXTENDS Naturals, FiniteSets

CONSTANTS
    Calls, Credentials,
    Payloads,          \* what an agent may ask to be created
    MaxActive,         \* MAX_ACTIVE_SIGNER_AGENT_CREDENTIALS
    StorageModes,      \* the private object stores it may run with
    MaxIds,            \* bound: identifiers drawn for claims
    MaxFailures        \* bound: owners of a claim that fail before their write

ASSUME AgentAssumption ==
    /\ MaxActive \in Nat /\ MaxIds \in Nat /\ MaxFailures \in Nat
    /\ StorageModes \subseteq {"vercel", "filesystem"}

VARIABLES
    storageMode,   \* MULTISIG_PRIVATE_OBJECT_STORAGE, for the whole deployment
    credential,    \* the stored record's state
    claim,         \* agent-idempotency/<credential>/<key>
    created,       \* Requests and Intents in the database
    job,           \* what each call remembers
    drawn,         \* identifiers drawn so far
    overlapped,    \* a credential was stored after another was counted with it
    failures,      \* owners that failed before their write
    replaced       \* a claim was put over another call's

vars == <<storageMode, credential, claim, created, job, drawn, overlapped, failures, replaced>>

Record == {"absent", "active", "revoked"}
None == [id |-> 0]
Claim == [id : 1 .. MaxIds, payload : Payloads]
Resource == [id : 1 .. MaxIds, credential : Credentials, payload : Payloads]
Job == [step : {"idle", "put", "revoke", "claim", "raced", "reread", "replay", "check",
                "write", "recover", "after", "read_claim", "delete", "answered"},
        credential : Credentials \cup {"none"}, payload : Payloads \cup {"none"},
        id : 0 .. MaxIds,        \* its own claim's, then that of the active claim
        owner : BOOLEAN,         \* it put the claim
        active : SUBSET Credentials]    \* those it counted
Idle == [step |-> "idle", credential |-> "none", payload |-> "none", id |-> 0,
         owner |-> FALSE, active |-> {}]

Active == {k \in Credentials : credential[k] = "active"}

Init ==
    /\ storageMode \in StorageModes
    /\ credential = [k \in Credentials |-> "absent"]
    /\ claim = [k \in Credentials |-> None]
    /\ created = {} /\ job = [c \in Calls |-> Idle]
    /\ drawn = 0 /\ overlapped = FALSE /\ failures = 0 /\ replaced = FALSE

Goto(c, step) == job' = [job EXCEPT ![c].step = step]
End(c) == job' = [job EXCEPT ![c] = Idle]

-----------------------------------------------------------------------------
(* Credentials.                                                            *)

\* Fault: the limit is off by one.
OneTooMany(n) == n <= MaxActive

MayHaveAnother(n) == n < MaxActive

\* createSignerAgentCredential: counted, then stored under a fresh identifier.
CountCredentials(c, k) ==
    /\ job[c].step = "idle"
    /\ credential[k] = "absent" /\ MayHaveAnother(Cardinality(Active))
    /\ \A other \in Calls : job[other].step = "put" => job[other].credential # k
    /\ job' = [job EXCEPT ![c] = [Idle EXCEPT !.step = "put", !.credential = k,
                                              !.active = Active]]
    /\ UNCHANGED <<storageMode, credential, claim, created, drawn, overlapped, failures, replaced>>

PutCredential(c) ==
    /\ job[c].step = "put"
    /\ credential' = [credential EXCEPT ![job[c].credential] = "active"]
    /\ overlapped' = (overlapped \/ ~ (Active \subseteq job[c].active))
    /\ End(c)
    /\ UNCHANGED <<storageMode, claim, created, drawn, failures, replaced>>

\* revokeSignerAgentCredential: read, then overwritten.
StartRevoke(c, k) ==
    /\ job[c].step = "idle" /\ credential[k] = "active"
    /\ job' = [job EXCEPT ![c] = [Idle EXCEPT !.step = "revoke", !.credential = k]]
    /\ UNCHANGED <<storageMode, credential, claim, created, drawn, overlapped, failures, replaced>>

Revoke(c) ==
    /\ job[c].step = "revoke"
    /\ credential' = [credential EXCEPT ![job[c].credential] = "revoked"]
    /\ End(c)
    /\ UNCHANGED <<storageMode, claim, created, drawn, overlapped, failures, replaced>>

-----------------------------------------------------------------------------
(* Creation.                                                               *)

Kept == UNCHANGED <<storageMode, credential, claim, created, drawn, overlapped, failures, replaced>>

\* authenticateAgentCredential, and the checks before the claim.
StartCreate(c, k, payload) ==
    /\ job[c].step = "idle" /\ credential[k] = "active" /\ drawn < MaxIds
    /\ drawn' = drawn + 1
    /\ job' = [job EXCEPT ![c] = [Idle EXCEPT !.step = "claim", !.credential = k,
                                              !.payload = payload, !.id = drawn']]
    /\ UNCHANGED <<storageMode, credential, claim, created, overlapped, failures, replaced>>

\* Fault: the payloads are not compared.
AdoptsAny(j, found) == [j EXCEPT !.step = "replay", !.id = found.id]

\* A claim that is already there: it must be for the same payload.
Adopt(j, found) ==
    IF found.payload = j.payload THEN [j EXCEPT !.step = "replay", !.id = found.id]
    ELSE Idle    \* 409 idempotency_conflict

\* Fault: Vercel Blob is told to overwrite too.
PutsAnyway(k) == TRUE

\* put with allowOverwrite: false, which filesystemPut is not given.
FreeToPut(k) == claim[k] = None \/ storageMode = "filesystem"

\* claimIdempotency: read it, or put it if nobody has since.
ClaimIdempotency(c) ==
    LET k == job[c].credential IN
    /\ job[c].step = "claim"
    /\ \/ /\ claim[k] # None
          /\ job' = [job EXCEPT ![c] = Adopt(@, claim[k])]
       \/ /\ claim[k] = None
          /\ Goto(c, "raced")
    /\ Kept

\* What the put leaves in the store.
OwnClaim(c) == [claim EXCEPT ![job[c].credential] =
                    [id |-> job[c].id, payload |-> job[c].payload]]

\* The put: the claim is this call's, or it is there and the put fails.
PutClaim(c) ==
    LET k == job[c].credential IN
    /\ job[c].step = "raced"
    /\ \/ /\ FreeToPut(k)
          /\ claim' = OwnClaim(c) /\ replaced' = (replaced \/ claim[k] # None)
          /\ job' = [job EXCEPT ![c] = [@ EXCEPT !.step = "check", !.owner = TRUE]]
       \/ /\ ~FreeToPut(k)
          /\ Goto(c, "reread") /\ UNCHANGED <<claim, replaced>>
    /\ UNCHANGED <<storageMode, credential, created, drawn, overlapped, failures>>

\* The put fails for another reason: the answer of Vercel Blob may be lost, a
\* file is renamed last of all.
PutClaimFails(c) ==
    /\ job[c].step = "raced"
    /\ \/ UNCHANGED claim
       \/ /\ storageMode = "vercel" /\ FreeToPut(job[c].credential)
          /\ claim' = OwnClaim(c)
    /\ Goto(c, "reread")
    /\ UNCHANGED <<storageMode, credential, created, drawn, overlapped, failures, replaced>>

\* After a put that failed, whatever is there is not this call's claim to
\* release; nothing there ends the call.
Reread(c) ==
    LET k == job[c].credential IN
    /\ job[c].step = "reread"
    /\ job' = [job EXCEPT ![c] = IF claim[k] = None THEN Idle ELSE Adopt(@, claim[k])]
    /\ Kept

Stored(id) == \E r \in created : r.id = id

\* The Request exists: it is the answer.  Otherwise this call creates it,
\* under the claim's identifier.
Replay(c) ==
    /\ job[c].step = "replay"
    /\ Goto(c, IF Stored(job[c].id) THEN "after" ELSE "check")
    /\ Kept

\* Everything before the write: the signer policy, the envelope or the plan.
Check(c) ==
    /\ job[c].step = "check"
    /\ Goto(c, "write")
    /\ Kept

\* The call that put the claim gives it up.
CheckFails(c) ==
    /\ job[c].step = "check"
    /\ IF job[c].owner
       THEN /\ failures < MaxFailures /\ failures' = failures + 1
            /\ Goto(c, "read_claim")
       ELSE End(c) /\ UNCHANGED failures
    /\ UNCHANGED <<storageMode, credential, claim, created, drawn, overlapped, replaced>>

\* The insert: an identifier that is taken makes it fail.
Write(c) ==
    LET j == job[c] IN
    /\ j.step = "write"
    /\ IF Stored(j.id)
       THEN Goto(c, "recover") /\ UNCHANGED created
       ELSE /\ created' = created \cup
                  {[id |-> j.id, credential |-> j.credential, payload |-> j.payload]}
            /\ Goto(c, "after")
    /\ UNCHANGED <<storageMode, credential, claim, drawn, overlapped, failures, replaced>>

\* The insert fails, committed or not.
WriteFails(c) ==
    LET j == job[c] IN
    /\ j.step = "write"
    /\ \/ UNCHANGED created
       \/ /\ ~Stored(j.id)
          /\ created' = created \cup
                {[id |-> j.id, credential |-> j.credential, payload |-> j.payload]}
    /\ Goto(c, "recover")
    /\ UNCHANGED <<storageMode, credential, claim, drawn, overlapped, failures, replaced>>

\* Once the write was attempted the claim is kept; what is stored is the answer.
Recover(c) ==
    /\ job[c].step = "recover"
    /\ IF Stored(job[c].id) THEN Goto(c, "after") ELSE End(c)
    /\ Kept

\* The participant, the credential's last use (an object of its own), and the
\* answer: any of them may fail.
After(c) ==
    /\ job[c].step = "after"
    /\ Goto(c, "answered")
    /\ Kept

Answer(c) == job[c].step = "answered" /\ End(c) /\ Kept

\* releaseIdempotency: read it, then delete it.
ReadClaim(c) ==
    LET j == job[c] IN
    /\ j.step = "read_claim"
    /\ IF claim[j.credential].id = j.id THEN Goto(c, "delete") ELSE End(c)
    /\ Kept

WithoutClaim(k) == [claim EXCEPT ![k] = None]

DeleteClaim(c) ==
    /\ job[c].step = "delete"
    /\ claim' = WithoutClaim(job[c].credential)
    /\ End(c)
    /\ UNCHANGED <<storageMode, credential, created, drawn, overlapped, failures, replaced>>

\* The process stops, or any other await fails.
Stop(c) == job[c].step # "idle" /\ End(c) /\ Kept

Step(c) ==
    \/ PutCredential(c) \/ Revoke(c)
    \/ ClaimIdempotency(c) \/ PutClaim(c) \/ PutClaimFails(c) \/ Reread(c)
    \/ Replay(c) \/ Check(c) \/ CheckFails(c) \/ Write(c) \/ WriteFails(c) \/ Recover(c)
    \/ After(c) \/ Answer(c) \/ ReadClaim(c) \/ DeleteClaim(c) \/ Stop(c)

Next ==
    \E c \in Calls :
        \/ \E k \in Credentials :
              \/ CountCredentials(c, k) \/ StartRevoke(c, k)
              \/ \E payload \in Payloads : StartCreate(c, k, payload)
        \/ Step(c)

Spec == Init /\ [][Next]_vars
-----------------------------------------------------------------------------
(* Properties.                                                             *)

\* Every variable keeps its type.
TypeOK ==
    /\ storageMode \in StorageModes /\ replaced \in BOOLEAN
    /\ credential \in [Credentials -> Record]
    /\ claim \in [Credentials -> Claim \cup {None}]
    /\ created \subseteq Resource
    /\ job \in [Calls -> Job]
    /\ drawn \in 0 .. MaxIds /\ overlapped \in BOOLEAN /\ failures \in 0 .. MaxFailures

\* agent-api-v1.md: Agent credential + Idempotency-Key -> exactly one Signing
\* Request.
ExactlyOneRequest ==
    \A r1, r2 \in created : r1.credential = r2.credential => r1.id = r2.id

\* Retries, races, stops and unknown outcomes of the put and of the write
\* create at most one resource per key, unless the call that took the claim
\* failed before its own write (agentRequestService.ts 182-265) or, on the
\* filesystem store only, two calls found no claim and the later put replaced
\* the earlier (privateObjectStorage.ts 87-98, 143).
OneRequestPerKey ==
    failures = 0 /\ (storageMode = "vercel" \/ ~replaced) => ExactlyOneRequest

\* An answered call names a stored resource, created with this credential for
\* this payload, whoever wrote it and whoever owned the claim.
AnswersNameTheResource ==
    \A c \in Calls :
        LET j == job[c] IN
        j.step = "answered" =>
            [id |-> j.id, credential |-> j.credential, payload |-> j.payload] \in created

\* More credentials than the limit are active only when two creations
\* overlapped: the count and the put are not one step
\* (agentCredentialService.ts 97-123).
LimitNeedsAnOverlap == Cardinality(Active) > MaxActive => overlapped
=============================================================================
