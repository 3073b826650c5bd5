----------------------- MODULE BrowserAuthorization -----------------------
(***************************************************************************)
(* Browser capabilities of one Integration-owned Soroban Intent: the       *)
(* Service issues one to a signer, for the current AuthorizationPlan, and  *)
(* the signer's browser presents it to see its challenge and to contribute *)
(* a signature, while the Intent is replanned, cancelled, and loses        *)
(* signers.                                                                *)
(*                                                                         *)
(* A call is a handler of routes/intent.ts.  storedIntentAccess reads the  *)
(* Intent, then its authorization (the Intent again, its contributions and *)
(* the signers), then the capability; nothing is locked in between.  What  *)
(* replanning, contributing and cancelling do inside their own steps is    *)
(* the module SorobanIntent's subject.                                     *)
(***************************************************************************)
EXTENDS Naturals, FiniteSets

CONSTANTS
    Handlers, Signers,
    Capabilities,      \* capability ids
    Quorum,            \* signatures that make a plan ready
    Lifetime,          \* DEFAULT_CAPABILITY_LIFETIME_MS
    MaxPlans, MaxClock \* bounds

ASSUME BrowserAssumption ==
    Quorum \in Nat /\ Lifetime \in Nat /\ MaxPlans \in Nat /\ MaxClock \in Nat

VARIABLES
    plan, cancelled, active,    \* the Intent: its plan's revision, its signers
    contributions,
    capability,    \* soroban_browser_authorization_capabilities
    handler,           \* what each call remembers
    clock

intentVars == <<plan, cancelled, active, contributions>>
browserVars == <<intentVars, capability, handler, clock>>

Nobody == "nobody"
Contribution == [plan : Nat, signer : Signers, via : Capabilities \cup {Nobody}]

\* Ids and secrets are drawn from an alphabet that has the separator '_'.
Capability == [plan : Nat, signer : Signers \cup {Nobody}, expires : Nat,
           splitId : BOOLEAN, splitSecret : BOOLEAN]
NoCapability == [plan |-> 0, signer |-> Nobody, expires |-> 0, splitId |-> FALSE,
             splitSecret |-> FALSE]
Issued == {id \in Capabilities : capability[id].signer # Nobody}

View == [plan : Nat, awaiting : BOOLEAN, pending : SUBSET Signers, known : SUBSET Signers]
NoView == [plan |-> 0, awaiting |-> FALSE, pending |-> {}, known |-> {}]

Handler == [op : {"none", "issue", "view", "contribute"},
            step : {"idle", "authorization", "issue", "authenticate", "contribute", "refused"},
            id : Capabilities \cup {Nobody}, signer : Signers \cup {Nobody},
            home : BOOLEAN,          \* presented from the origin it was issued for
            signed : Nat,            \* the plan whose challenge was signed
            stored : Nat, closed : BOOLEAN,    \* the Intent as it was read
            seen : View]             \* its authorization
Free == [op |-> "none", step |-> "idle", id |-> Nobody, signer |-> Nobody, home |-> TRUE,
         signed |-> 0, stored |-> 0, closed |-> FALSE, seen |-> NoView]

BrowserInit ==
    /\ plan = 1 /\ cancelled = FALSE /\ active = Signers /\ contributions = {}
    /\ capability = [id \in Capabilities |-> NoCapability]
    /\ handler = [c \in Handlers |-> Free] /\ clock = 0

-----------------------------------------------------------------------------
(* The Intent.                                                             *)

Evidence == {s \in Signers : \E x \in contributions : x.plan = plan /\ x.signer = s}
Ready == Cardinality(Evidence \cap active) >= Quorum

Authorization ==
    [plan |-> plan, awaiting |-> ~Ready /\ ~cancelled,
     pending |-> IF Ready THEN {} ELSE active \ Evidence,
     known |-> active \cup Evidence]

Contributes(signer, signed, via) ==
    /\ signed = plan /\ signer \in active /\ ~cancelled /\ ~Ready
    /\ contributions' = contributions \cup {[plan |-> plan, signer |-> signer, via |-> via]}

\* A signer contributes with a wallet session.
Sign(signer) ==
    /\ signer \notin Evidence
    /\ Contributes(signer, plan, Nobody)
    /\ UNCHANGED <<plan, cancelled, active, capability, handler, clock>>

Replan ==
    /\ ~cancelled /\ plan < MaxPlans /\ plan' = plan + 1
    /\ UNCHANGED <<cancelled, active, contributions, capability, handler, clock>>

Cancel ==
    /\ ~cancelled /\ cancelled' = TRUE
    /\ UNCHANGED <<plan, active, contributions, capability, handler, clock>>

RemoveSigner(signer) ==
    /\ signer \in active /\ active' = active \ {signer}
    /\ UNCHANGED <<plan, cancelled, contributions, capability, handler, clock>>

Tick ==
    /\ clock < MaxClock /\ clock' = clock + 1
    /\ UNCHANGED <<intentVars, capability, handler>>

-----------------------------------------------------------------------------
(* The calls.                                                              *)

Reads == UNCHANGED <<intentVars, capability, clock>>
Finish(c) == handler' = [handler EXCEPT ![c] = Free]
Refuse(c) == handler' = [handler EXCEPT ![c].step = "refused"]

\* PUT issue_browser_authorization, by the Service that owns the Intent.
StartIssue(c, signer) ==
    /\ handler[c].step = "idle"
    /\ handler' = [handler EXCEPT ![c] = [Free EXCEPT !.op = "issue", !.step = "authorization",
                                              !.signer = signer, !.stored = plan,
                                              !.closed = cancelled]]
    /\ Reads

\* GET, or PATCH with a signature made before, with a capability.
StartUse(c, op, id, home, signed) ==
    /\ handler[c].step = "idle" /\ id \in Issued
    /\ op = "view" => signed = 0
    /\ op = "contribute" => signed \in 1 .. plan
    /\ handler' = [handler EXCEPT ![c] = [Free EXCEPT !.op = op, !.step = "authorization",
                                              !.id = id, !.home = home, !.signed = signed,
                                              !.stored = plan, !.closed = cancelled]]
    /\ Reads

ReadAuthorization(c) ==
    /\ handler[c].step = "authorization"
    /\ handler' = [handler EXCEPT ![c].seen = Authorization,
                          ![c].step = IF handler[c].op = "issue" THEN "issue"
                                      ELSE "authenticate"]
    /\ Reads

\* issueSorobanBrowserAuthorizationCapability: bound to the Intent as it was
\* read first, for a signer the later reading still waits for.
Issue(c) ==
    LET j == handler[c] IN
    /\ j.step = "issue"
    /\ IF ~j.closed /\ j.seen.awaiting /\ j.signer \in j.seen.pending
       THEN \E id \in Capabilities \ Issued, splitId, splitSecret \in BOOLEAN :
               capability' = [capability EXCEPT ![id] =
                   [plan |-> j.stored, signer |-> j.signer, expires |-> clock + Lifetime,
                    splitId |-> splitId, splitSecret |-> splitSecret]]
       ELSE UNCHANGED capability
    /\ Finish(c)
    /\ UNCHANGED <<intentVars, clock>>

\* Fault: the secret is cut off at the last separator.
LastSeparator(record) == ~record.splitSecret

\* capabilityParts finds the id that was issued: it cuts at the first
\* separator, which may be a character of the id.
capabilityParts(record) == ~record.splitId

\* Fault: the plan is not compared.
AnyPlan(record, j) == TRUE

SamePlan(record, j) == record.plan = j.stored /\ record.plan = j.seen.plan

\* authenticateSorobanBrowserAuthorizationCapability.
Authentic(record, j) ==
    /\ capabilityParts(record)
    /\ j.home
    /\ record.expires > clock
    /\ SamePlan(record, j)
    /\ ~j.closed
    /\ record.signer \in j.seen.known

Authenticate(c) ==
    LET j == handler[c] IN
    /\ j.step = "authenticate"
    /\ IF ~Authentic(capability[j.id], j) THEN Refuse(c)
       ELSE IF j.op = "view" THEN Finish(c)
       ELSE handler' = [handler EXCEPT ![c].step = "contribute",
                               ![c].signer = capability[j.id].signer]
    /\ Reads

\* contributeSorobanIntentAuthorization reads the Intent anew: the signature
\* must be of the plan that is current now.
Contribute(c) ==
    LET j == handler[c] IN
    /\ j.step = "contribute"
    /\ \/ Contributes(j.signer, j.signed, j.id)
       \/ UNCHANGED contributions
    /\ Finish(c)
    /\ UNCHANGED <<plan, cancelled, active, capability, clock>>

Return(c) == handler[c].step = "refused" /\ Finish(c) /\ Reads

BrowserNext ==
    \/ \E c \in Handlers :
          \/ \E signer \in Signers : StartIssue(c, signer)
          \/ \E op \in {"view", "contribute"}, id \in Capabilities, home \in BOOLEAN,
                signed \in 0 .. MaxPlans : StartUse(c, op, id, home, signed)
          \/ ReadAuthorization(c) \/ Issue(c) \/ Authenticate(c) \/ Contribute(c)
          \/ Return(c)
    \/ \E signer \in Signers : Sign(signer) \/ RemoveSigner(signer)
    \/ Replan \/ Cancel \/ Tick

BrowserSpec == BrowserInit /\ [][BrowserNext]_browserVars
-----------------------------------------------------------------------------
(* Properties.                                                             *)

\* Every variable keeps its type.
BrowserTypeOK ==
    /\ plan \in Nat /\ cancelled \in BOOLEAN /\ active \subseteq Signers
    /\ contributions \subseteq Contribution
    /\ capability \in [Capabilities -> Capability]
    /\ handler \in [Handlers -> Handler] /\ clock \in Nat

\* integration-product-model.md: a capability serves one signer and one plan.
\* A contribution made through it is that signer's, to that plan, although
\* the Intent may be replanned between the check and the contribution
\* (sorobanBrowserAuthorizationService.ts 202-285, routes/intent.ts 568-590).
ContributionsKeepTheirPlan ==
    \A x \in contributions :
        x.via # Nobody => /\ x.plan = capability[x.via].plan
                          /\ x.signer = capability[x.via].signer

\* A capability presented as it was issued is refused for a reason that lasts:
\* another origin, its time, a later plan, a cancelled Intent, a signer who is
\* none any more; or a separator among the characters of its id (181).
RefusalsHaveACause ==
    \A c \in Handlers :
        LET r == capability[handler[c].id] IN
        handler[c].step = "refused" =>
            \/ ~handler[c].home
            \/ r.expires <= clock
            \/ r.plan < plan
            \/ cancelled
            \/ r.signer \notin active \cup Evidence
            \/ r.splitId
=============================================================================
