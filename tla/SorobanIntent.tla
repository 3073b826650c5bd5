--------------------------- MODULE SorobanIntent ---------------------------
(***************************************************************************)
(* One Soroban Intent in PostgreSQL and the API request handlers that work *)
(* on it.  A store operation that runs in withPostgresTransaction and      *)
(* takes the parent row FOR UPDATE is one step; between two awaits of a    *)
(* handler any other handler, the ledger or the chain may move.            *)
(*                                                                         *)
(* The AuthorizationPlan history and the current plan are one sequence,    *)
(* chain: revision r is chain[r], the current revision is Len(chain).  A   *)
(* plan stands for its digest (every planning draws fresh AUTH nonces, so  *)
(* two plannings never share a digest).  Signer weights against the medium *)
(* threshold are the family Quorums of sufficient signer sets.             *)
(***************************************************************************)
EXTENDS Integers, Sequences

CONSTANTS
    Handlers,          \* API requests in flight
    Replanners,        \* the requests that may ask for a replan
    Operations,        \* the operations the requests ask for
    Signers,           \* ed25519 signers of the authorizing G-accounts
    Entries,           \* authorization entries of a plan
    Quorums,           \* signer sets whose weight reaches the threshold
    Structures,        \* structure digests of simulated effects
    Executors,         \* transaction source accounts
    IntegrationOwned,  \* the Intent belongs to an Integration Service
    None,
    AuthWindow,        \* ledgers an authorization entry stays valid
    MaxLedger, MaxPlans, MaxSequence   \* bounds of the model

ASSUME BoundsAssumption ==
    /\ AuthWindow \in Nat /\ MaxLedger \in Nat
    /\ MaxPlans \in Nat \ {0} /\ MaxSequence \in Nat
ASSUME ReplannersAssumption == Replanners \subseteq Handlers
ASSUME QuorumAssumption == Quorums \subseteq SUBSET Signers
ASSUME OwnerAssumption == IntegrationOwned \in BOOLEAN
ASSUME NoneAssumption == None \notin Executors

VARIABLES
    chain,          \* soroban_intents: plans by revision
    cancellation,   \* soroban_intent_cancellations: {} or one row
    binding,        \* soroban_execution_bindings: an executor or None
    contributions,  \* soroban_auth_contributions
    preparations,   \* soroban_execution_preparations
    observations,   \* soroban_execution_observations
    outbox,         \* integration_outbox event ids
    ledger, effects, active, sequence, landed,   \* the Stellar network
    planned,        \* plans drawn so far
    pc, seen, auth, pending,   \* the handlers
    acked, released \* contributions and packages answered to callers

store == <<chain, cancellation, binding, contributions, preparations,
           observations, outbox>>
network == <<ledger, effects, active, sequence, landed, planned>>
answers == <<acked, released>>
handlers == <<pc, seen, auth, pending>>
vars == <<store, network, answers, handlers>>

-----------------------------------------------------------------------------
Revisions == Nat \ {0}
Plan == [id: Nat, expires: Nat, effects: Structures]
Transaction == [auth: Plan, source: Executors, seq: Nat]
Contribution == [rev: Revisions, plan: Plan, entry: Entries, signer: Signers]
Preparation == [rev: Revisions, plan: Plan, tx: Transaction]
Observation == [rev: Revisions, plan: Plan, tx: Transaction, successful: BOOLEAN]
Cancellation == [rev: Revisions, plan: Plan]
View == [chain: Seq(Plan), cancelled: BOOLEAN, bound: Executors \cup {None}]
Statuses == {"awaiting_authorization", "authorization_ready", "expired",
             "blocked", "cancelled"}
Snapshot == [plan: Plan, status: Statuses]

\* Fault: the revision counts the superseded plans only.
SupersededOnly(c) == Len(c) - 1
Revision(c) == Len(c)
Current(c) == c[Len(c)]

\* PostgresSorobanIntentStore.getIntent: one statement joins the three rows.
GetIntent == [chain |-> chain, cancelled |-> cancellation # {}, bound |-> binding]

\* Fault: contributions of superseded plans still count.
SignersOfAnyPlan(plan, entry) ==
    {s \in Signers : \E c \in contributions : c.entry = entry /\ c.signer = s}
\* contributionBelongsToCurrentPlan, applyContributions.
SignersOf(plan, entry) ==
    {s \in Signers : \E c \in contributions :
        c.plan = plan /\ c.entry = entry /\ c.signer = s}

EntryReady(plan, entry) == \E Q \in Quorums : Q \subseteq SignersOf(plan, entry)

\* getSorobanIntentAuthorization on a row read earlier; expiry is found before
\* unsupported evidence, a signature of a removed signer is unsupported.
StatusOf(view) ==
    LET plan == Current(view.chain) IN
    IF view.cancelled THEN "cancelled"
    ELSE IF plan.expires <= ledger THEN "expired"
    ELSE IF \E e \in Entries : ~ SignersOf(plan, e) \subseteq active THEN "blocked"
    ELSE IF \A e \in Entries : EntryReady(plan, e) THEN "authorization_ready"
    ELSE "awaiting_authorization"

\* Fault: no event once the Intent is cancelled.
EnqueueWhileOpen(events) ==
    outbox' = IF IntegrationOwned /\ cancellation = {} THEN outbox \cup events ELSE outbox
\* enqueueCoordinationChange: ON CONFLICT (event_id) DO NOTHING.
Enqueue(events) == outbox' = IF IntegrationOwned THEN outbox \cup events ELSE outbox

Created == [change |-> "created"]
Revised(rev, plan) == [change |-> "authorization_plan_revised", rev |-> rev, plan |-> plan]
Contributed(c) == [change |-> "authorization_contributed", fact |-> c]
Bound == [change |-> "executor_bound"]
Prepared(p) == [change |-> "execution_prepared", rev |-> p.rev, tx |-> p.tx]
Observed(o) == [change |-> IF o.successful THEN "execution_confirmed" ELSE "execution_failed",
                tx |-> o.tx]
Cancelled == [change |-> "cancelled"]

\* Fault: the store writes do not look at the cancellation table.
NeverCancelled == FALSE
\* The cancelled() check of the store, under the lock of the parent row.
CancelledRow == cancellation # {}

\* Fault: a write that was silently skipped is answered as done.
AlwaysAnswer == TRUE
\* The read after the write that turns a skipped write into an error.
MayAnswer == cancellation = {}

Goto(h, label) == pc' = [pc EXCEPT ![h] = label]
\* A handler answers with an error, or with a result that changes nothing.
Leave(h) ==
    /\ Goto(h, "idle")
    /\ seen' = [seen EXCEPT ![h] = None]
    /\ auth' = [auth EXCEPT ![h] = None]
    /\ pending' = [pending EXCEPT ![h] = None]
Continue(h, label) == Goto(h, label) /\ UNCHANGED <<seen, auth, pending>>

-----------------------------------------------------------------------------
FirstPlan(e) == [id |-> 1, expires |-> AuthWindow, effects |-> e]

\* createIntent: revision 1, no facts, one outbox event; the executor may be
\* bound at creation by the caller, a service default or the contract policy.
Init ==
    /\ effects \in Structures
    /\ chain = <<FirstPlan(effects)>>
    /\ cancellation = {}
    /\ binding \in IF IntegrationOwned THEN Executors \cup {None} ELSE {None}
    /\ contributions = {} /\ preparations = {} /\ observations = {}
    /\ outbox = IF IntegrationOwned THEN {Created} ELSE {}
    /\ ledger = 0
    /\ active = Signers
    /\ sequence = [x \in Executors |-> 0]
    /\ landed = {}
    /\ planned = 1
    /\ pc = [h \in Handlers |-> "idle"]
    /\ seen = [h \in Handlers |-> None]
    /\ auth = [h \in Handlers |-> None]
    /\ pending = [h \in Handlers |-> None]
    /\ acked = {} /\ released = {}

-----------------------------------------------------------------------------
(* storedIntentAccess / getSorobanIntentAuthorization: the row first, then  *)
(* the contributions and the network.                                      *)

ReadIntent(h, from, to) ==
    /\ pc[h] = from
    /\ seen' = [seen EXCEPT ![h] = GetIntent]
    /\ Goto(h, to)
    /\ UNCHANGED <<store, network, answers, auth, pending>>

StartContribute(h) == "contribute" \in Operations /\ ReadIntent(h, "idle", "contribute_snapshot")
StartReplan(h) ==
    /\ "replan" \in Operations /\ h \in Replanners
    /\ ReadIntent(h, "idle", "replan_snapshot")
StartPrepare(h) == "prepare" \in Operations /\ ReadIntent(h, "idle", "prepare_snapshot")

SnapshotOf(h) == [plan |-> Current(seen[h].chain), status |-> StatusOf(seen[h])]
TakeSnapshot(h) == auth' = [auth EXCEPT ![h] = SnapshotOf(h)]

-----------------------------------------------------------------------------
(* contributeSorobanIntentAuthorization *)

ContributeSnapshot(h) ==
    /\ pc[h] = "contribute_snapshot"
    /\ UNCHANGED <<store, network, answers>>
    /\ \/ /\ SnapshotOf(h).status = "awaiting_authorization"
          /\ TakeSnapshot(h)
          /\ UNCHANGED seen
          /\ \E e \in Entries, s \in active :
                LET plan == Current(seen[h].chain) IN
                /\ ~ EntryReady(plan, e)
                /\ s \notin SignersOf(plan, e)
                /\ pending' = [pending EXCEPT ![h] =
                      [rev |-> Revision(seen[h].chain), plan |-> plan, entry |-> e, signer |-> s]]
          /\ Goto(h, "contribute_recheck")
       \/ /\ SnapshotOf(h).status # "awaiting_authorization"
          /\ Leave(h)

\* Fault: only the cancellation is looked at again.
StillOpen(plan) == cancellation = {}
StillOnPlan(plan) == cancellation = {} /\ Current(chain) = plan

\* The digest is compared again before the write; the revision is taken here.
ContributeRecheck(h) ==
    /\ pc[h] = "contribute_recheck"
    /\ UNCHANGED <<store, network, answers>>
    /\ IF StillOnPlan(auth[h].plan)
       THEN /\ pending' = [pending EXCEPT ![h] = [@ EXCEPT !.rev = Revision(chain)]]
            /\ Goto(h, "contribute_put")
            /\ UNCHANGED <<seen, auth>>
       ELSE Leave(h)

\* putContribution: silently ignored on a cancelled Intent.
PutContribution(h) ==
    /\ pc[h] = "contribute_put"
    /\ IF ~ CancelledRow
       THEN /\ contributions' = contributions \cup {pending[h]}
            /\ Enqueue({Contributed(pending[h])})
       ELSE UNCHANGED <<contributions, outbox>>
    /\ Goto(h, "contribute_after")
    /\ UNCHANGED <<chain, cancellation, binding, preparations, observations,
                   network, answers, seen, auth, pending>>

ContributeAfter(h) ==
    /\ pc[h] = "contribute_after"
    /\ acked' = IF MayAnswer THEN acked \cup {pending[h]} ELSE acked
    /\ Leave(h)
    /\ UNCHANGED <<store, network, released>>

-----------------------------------------------------------------------------
(* replanExpiredSorobanIntent, called by the route with the authorization   *)
(* snapshot of storedIntentAccess.                                         *)

ReplanSnapshot(h) ==
    /\ pc[h] = "replan_snapshot"
    /\ TakeSnapshot(h)
    /\ Goto(h, "replan_read")
    /\ UNCHANGED <<store, network, answers, seen, pending>>

ReplanRead(h) ==
    /\ pc[h] = "replan_read"
    /\ UNCHANGED <<store, network, answers>>
    /\ IF cancellation = {} /\ auth[h].status \in {"expired", "authorization_ready"}
       THEN /\ seen' = [seen EXCEPT ![h] = GetIntent]
            /\ Goto(h, "replan_plan")
            /\ UNCHANGED <<auth, pending>>
       ELSE Leave(h)

\* authorizationPlanHistory: the superseded plan stays, the new one is current.
Superseding(history, plan) == Append(history, plan)

\* planSorobanIntentForStorage against the network as it is now.
ReplanPlan(h) ==
    /\ pc[h] = "replan_plan"
    /\ planned < MaxPlans
    /\ planned' = planned + 1
    /\ IF auth[h].status = "authorization_ready" /\ Current(seen[h].chain).effects = effects
       THEN Leave(h)
       ELSE /\ pending' = [pending EXCEPT ![h] = [chain |-> Superseding(seen[h].chain,
                  [id |-> planned + 1, expires |-> ledger + AuthWindow, effects |-> effects])]]
            /\ Goto(h, "replan_recheck")
            /\ UNCHANGED <<seen, auth>>
    /\ UNCHANGED <<store, ledger, effects, active, sequence, landed, answers>>

ReplanRecheck(h) ==
    /\ pc[h] = "replan_recheck"
    /\ IF /\ cancellation = {}
          /\ Current(chain) = Current(seen[h].chain)
          /\ Revision(chain) = Revision(seen[h].chain)
       THEN Continue(h, "replan_write")
       ELSE Leave(h)
    /\ UNCHANGED <<store, network, answers>>

\* Fault: the revision number alone decides, the predecessor is not compared.
NumberOnly(new, old) == Revision(new) - Revision(old) \in {0, 1}
\* updateIntent compares the locked row with the new history: one revision
\* more must supersede the current plan; an equal revision is not compared.
Accepts(new, old) ==
    \/ Revision(new) = Revision(old)
    \/ /\ Revision(new) = Revision(old) + 1
       /\ new[Revision(old)] = Current(old)

\* Nothing is written on a cancelled Intent (no error) or on a conflict; only
\* a revision that grows is reported.
UpdateIntent(h) ==
    /\ pc[h] = "replan_write"
    /\ LET new == pending[h].chain
           grows == Revision(new) > Revision(chain)
       IN
       /\ IF ~ CancelledRow /\ Accepts(new, chain)
          THEN /\ chain' = new
               /\ Enqueue(IF grows THEN {Revised(Revision(new), Current(new))} ELSE {})
          ELSE UNCHANGED <<chain, outbox>>
       /\ IF ~ CancelledRow /\ ~ Accepts(new, chain)
          THEN Leave(h)
          ELSE Continue(h, "replan_after")
    /\ UNCHANGED <<cancellation, binding, contributions, preparations,
                   observations, network, answers>>

ReplanAfter(h) ==
    /\ pc[h] = "replan_after"
    /\ Leave(h)
    /\ UNCHANGED <<store, network, answers>>

-----------------------------------------------------------------------------
(* PUT /intent prepare_execution | refresh_execution:                       *)
(* resolveAndBindIntegrationSorobanExecutor, prepareSorobanIntentExecution. *)

PrepareSnapshot(h) ==
    /\ pc[h] = "prepare_snapshot"
    /\ UNCHANGED <<store, network, answers>>
    /\ IF SnapshotOf(h).status = "authorization_ready"
       THEN /\ TakeSnapshot(h)
            /\ \E x \in Executors : pending' = [pending EXCEPT ![h] = x]
            /\ Goto(h, IF IntegrationOwned THEN "prepare_bind" ELSE "prepare_read")
            /\ UNCHANGED seen
       ELSE Leave(h)

\* Fault: the binding of the row read at access time decides alone.
BindingSeen(h) == seen[h].bound
\* The binding of the row read at access time, or else of the locked row.
ExistingBinding(h) == IF seen[h].bound # None THEN seen[h].bound ELSE binding

\* bindExecutionPolicy keeps the first binding, and returns the wanted one
\* unbound when the Intent is cancelled.  (A request that insists on another
\* executor than the bound one is refused: Abandon.)
BindExecutor(h) ==
    /\ pc[h] = "prepare_bind"
    /\ LET existing == ExistingBinding(h)
           inserts == existing = None /\ ~ CancelledRow
       IN
       /\ binding' = IF inserts THEN pending[h] ELSE binding
       /\ IF inserts THEN Enqueue({Bound}) ELSE UNCHANGED outbox
       /\ pending' = [pending EXCEPT ![h] = IF existing = None THEN @ ELSE existing]
    /\ Goto(h, "prepare_read")
    /\ UNCHANGED <<chain, cancellation, contributions, preparations, observations,
                   network, answers, seen, auth>>

\* A fresh row beside the snapshot taken at access time.
PrepareRead(h) ==
    /\ pc[h] = "prepare_read"
    /\ UNCHANGED <<store, network, answers>>
    /\ IF cancellation = {}
       THEN /\ seen' = [seen EXCEPT ![h] = GetIntent]
            /\ Goto(h, "prepare_simulate")
            /\ UNCHANGED <<auth, pending>>
       ELSE Leave(h)

\* authMode=enforce accepts unexpired, unused AUTH of current signers.
Spent(plan) == \E r \in landed : r.successful /\ r.tx.auth = plan
Enforceable(plan) ==
    /\ plan.expires >= ledger
    /\ ~ Spent(plan)
    /\ \A e \in Entries : SignersOf(plan, e) \subseteq active

\* The transaction carries the entries of the snapshot; the effects baseline,
\* the digest and the revision of the record come from the fresh row.
PrepareSimulate(h) ==
    /\ pc[h] = "prepare_simulate"
    /\ IF Enforceable(auth[h].plan) /\ Current(seen[h].chain).effects = effects
       THEN /\ pending' = [pending EXCEPT ![h] =
                  [rev |-> Revision(seen[h].chain),
                   plan |-> Current(seen[h].chain),
                   tx |-> [auth |-> auth[h].plan, source |-> pending[h],
                           seq |-> sequence[pending[h]]]]]
            /\ Goto(h, "prepare_recheck")
            /\ UNCHANGED <<seen, auth>>
       ELSE Leave(h)
    /\ UNCHANGED <<store, network, answers>>

PrepareRecheck(h) ==
    /\ pc[h] = "prepare_recheck"
    /\ IF cancellation = {}
       THEN Continue(h, "prepare_put")
       ELSE Leave(h)
    /\ UNCHANGED <<store, network, answers>>

\* putExecutionPreparation: silently ignored on a cancelled Intent.
PutExecutionPreparation(h) ==
    /\ pc[h] = "prepare_put"
    /\ IF ~ CancelledRow
       THEN /\ preparations' = preparations \cup {pending[h]}
            /\ Enqueue({Prepared(pending[h])})
       ELSE UNCHANGED <<preparations, outbox>>
    /\ Goto(h, "prepare_after")
    /\ UNCHANGED <<chain, cancellation, binding, contributions, observations,
                   network, answers, seen, auth, pending>>

\* The package leaves the server only if the Intent is still not cancelled.
ReleasePackage(h) ==
    /\ pc[h] = "prepare_after"
    /\ released' = IF MayAnswer THEN released \cup {pending[h]} ELSE released
    /\ Leave(h)
    /\ UNCHANGED <<store, network, acked>>

-----------------------------------------------------------------------------
(* cancelSorobanIntent *)

Executed == \E o \in observations : o.successful
\* Fault: the store relies on the observations the handler read before.
TrustCaller == FALSE
SuccessfulRow == \E o \in observations : o.successful

StartCancel(h) ==
    /\ "cancel" \in Operations
    /\ pc[h] = "idle"
    /\ cancellation = {}
    /\ ~ Executed
    /\ pending' = [pending EXCEPT ![h] = [rev |-> Revision(chain), plan |-> Current(chain)]]
    /\ Goto(h, "cancel_write")
    /\ UNCHANGED <<store, network, answers, seen, auth>>

\* cancelIntent: an existing row is replayed, a stored success refuses.
CancelIntent(h) ==
    /\ pc[h] = "cancel_write"
    /\ IF ~ CancelledRow /\ ~ SuccessfulRow
       THEN cancellation' = {pending[h]} /\ Enqueue({Cancelled})
       ELSE UNCHANGED <<cancellation, outbox>>
    /\ Leave(h)
    /\ UNCHANGED <<chain, binding, contributions, preparations, observations,
                   network, answers>>

-----------------------------------------------------------------------------
(* reconcileSorobanIntentExecution: allowed after cancellation too. *)

ObservedTx(tx) == \E o \in observations : o.tx = tx

StartReconcile(h) ==
    /\ "reconcile" \in Operations
    /\ pc[h] = "idle"
    /\ \E p \in preparations :
          /\ ~ ObservedTx(p.tx)
          /\ pending' = [pending EXCEPT ![h] = p]
    /\ Goto(h, "reconcile_load")
    /\ UNCHANGED <<store, network, answers, seen, auth>>

\* Fault: a transaction found on the ledger counts as successful.
FoundIsSuccess(r) == TRUE
\* verifiedObservation: what the ledger did with the transaction.
Verdict(r) == r.successful

ReconcileLoad(h) ==
    /\ pc[h] = "reconcile_load"
    /\ \/ /\ \E r \in landed :
                /\ r.tx = pending[h].tx
                /\ pending' = [pending EXCEPT ![h] =
                      [rev |-> @.rev, plan |-> @.plan, tx |-> @.tx, successful |-> Verdict(r)]]
          /\ Goto(h, "reconcile_put")
          /\ UNCHANGED <<seen, auth>>
       \/ /\ \A r \in landed : r.tx # pending[h].tx
          /\ Leave(h)
    /\ UNCHANGED <<store, network, answers>>

\* putExecutionObservation: ON CONFLICT (intent_id, transaction_hash) DO NOTHING.
PutExecutionObservation(h) ==
    /\ pc[h] = "reconcile_put"
    /\ IF ~ ObservedTx(pending[h].tx)
       THEN /\ observations' = observations \cup {pending[h]}
            /\ Enqueue({Observed(pending[h])})
       ELSE UNCHANGED <<observations, outbox>>
    /\ Leave(h)
    /\ UNCHANGED <<chain, cancellation, binding, contributions, preparations,
                   network, answers>>

-----------------------------------------------------------------------------
\* An error, a timeout or a crash ends the request between two steps.
Abandon(h) ==
    /\ pc[h] # "idle"
    /\ Leave(h)
    /\ UNCHANGED <<store, network, answers>>

(* The Stellar network. *)

CloseLedger ==
    /\ ledger < MaxLedger
    /\ ledger' = ledger + 1
    /\ UNCHANGED <<store, effects, active, sequence, landed, planned, answers, handlers>>

\* Contract state moves: the same call now simulates to other effects.
ChangeEffects ==
    /\ \E e \in Structures \ {effects} : effects' = e
    /\ UNCHANGED <<store, ledger, active, sequence, landed, planned, answers, handlers>>

RemoveSigner ==
    /\ "rotate" \in Operations
    /\ \E s \in active : active' = active \ {s}
    /\ UNCHANGED <<store, ledger, effects, sequence, landed, planned, answers, handlers>>

\* A released package is signed and submitted by its executor.
Submit ==
    /\ \E p \in released :
          /\ sequence[p.tx.source] = p.tx.seq
          /\ p.tx.seq < MaxSequence
          /\ sequence' = [sequence EXCEPT ![p.tx.source] = @ + 1]
          /\ landed' = landed \cup {[tx |-> p.tx, successful |-> Enforceable(p.tx.auth)]}
    /\ UNCHANGED <<store, ledger, effects, active, planned, answers, handlers>>

ContributeStep(h) ==
    \/ StartContribute(h) \/ ContributeSnapshot(h) \/ ContributeRecheck(h)
    \/ PutContribution(h) \/ ContributeAfter(h)
ReplanStep(h) ==
    \/ StartReplan(h) \/ ReplanSnapshot(h) \/ ReplanRead(h) \/ ReplanPlan(h)
    \/ ReplanRecheck(h) \/ UpdateIntent(h) \/ ReplanAfter(h)
PrepareStep(h) ==
    \/ StartPrepare(h) \/ PrepareSnapshot(h) \/ BindExecutor(h) \/ PrepareRead(h)
    \/ PrepareSimulate(h) \/ PrepareRecheck(h) \/ PutExecutionPreparation(h)
    \/ ReleasePackage(h)
CancelStep(h) == StartCancel(h) \/ CancelIntent(h)
ReconcileStep(h) == StartReconcile(h) \/ ReconcileLoad(h) \/ PutExecutionObservation(h)
NetworkStep == CloseLedger \/ ChangeEffects \/ RemoveSigner \/ Submit

Next ==
    \/ \E h \in Handlers : ContributeStep(h) \/ ReplanStep(h) \/ PrepareStep(h)
                           \/ CancelStep(h) \/ ReconcileStep(h) \/ Abandon(h)
    \/ NetworkStep

Spec == Init /\ [][Next]_vars

-----------------------------------------------------------------------------
(* Properties *)

Labels == {"idle", "contribute_snapshot", "contribute_recheck", "contribute_put",
           "contribute_after", "replan_snapshot", "replan_read", "replan_plan",
           "replan_recheck", "replan_write", "replan_after", "prepare_snapshot",
           "prepare_bind", "prepare_read", "prepare_simulate", "prepare_recheck",
           "prepare_put", "prepare_after", "cancel_write", "reconcile_load",
           "reconcile_put"}
Pendings == {None} \cup Contribution \cup [chain: Seq(Plan)] \cup Executors
            \cup Preparation \cup Cancellation \cup Observation

\* Type correctness of the stored rows, the network and the handlers.
TypeOK ==
    /\ chain \in Seq(Plan) /\ Len(chain) >= 1
    /\ cancellation \in SUBSET Cancellation
    /\ binding \in Executors \cup {None}
    /\ contributions \in SUBSET Contribution
    /\ preparations \in SUBSET Preparation
    /\ observations \in SUBSET Observation
    /\ ledger \in Nat /\ effects \in Structures /\ active \in SUBSET Signers
    /\ sequence \in [Executors -> Nat]
    /\ landed \in SUBSET [tx: Transaction, successful: BOOLEAN]
    /\ planned \in Nat
    /\ pc \in [Handlers -> Labels]
    /\ seen \in [Handlers -> View \cup {None}]
    /\ auth \in [Handlers -> Snapshot \cup {None}]
    /\ pending \in [Handlers -> Pendings]
    /\ acked \in SUBSET Contribution
    /\ released \in SUBSET Preparation

Names(f) == f.rev \in DOMAIN chain /\ chain[f.rev] = f.plan

\* Replans of this Intent do not overlap: one request at a time refreshes it.
SerialReplans == \A r1, r2 \in Replanners : r1 = r2

\* With serial replans every stored fact names a revision of this Intent with
\* the plan that revision really has, whatever else ran between the handler's
\* reads and its write.
FactsNameTheirPlan ==
    /\ \A f \in contributions : Names(f)
    /\ \A f \in preparations : Names(f)
    /\ \A f \in observations : Names(f)
    /\ \A f \in cancellation : Names(f)

\* A contribution answered as added and a package answered to an executor are
\* durable, although the store skips writes on a cancelled Intent silently.
AnswersAreDurable == acked \subseteq contributions /\ released \subseteq preparations

Authorized(plan) ==
    \A e \in Entries : \E Q \in Quorums : \A s \in Q :
        \E c \in contributions : c.plan = plan /\ c.entry = e /\ c.signer = s

\* The AUTH a prepared transaction carries was contributed, entry by entry, by
\* a sufficient set of signers for the very plan the AUTH comes from.
PreparedAuthIsComplete == \A p \in preparations : Authorized(p.tx.auth)

\* All packages of an Integration-owned Intent use the one bound executor,
\* although each handler decides from a binding it read earlier.
OneExecutor == IntegrationOwned => \A p \in preparations : p.tx.source = binding

\* T1-T8, with serial replans: the outbox holds exactly one event for every
\* durable fact.
OutboxMatchesFacts ==
    outbox = IF ~ IntegrationOwned THEN {} ELSE
             {Created}
        \cup {Revised(r, chain[r]) : r \in DOMAIN chain \ {1}}
        \cup {Contributed(c) : c \in contributions}
        \cup {Prepared(p) : p \in preparations}
        \cup {Observed(o) : o \in observations}
        \cup {Cancelled : c \in cancellation}
        \cup (outbox \cap {Bound})

\* An observation reports what the ledger did with a transaction this Intent
\* prepared, once per transaction.
ObservationsAreTrue ==
    /\ \A o \in observations :
          /\ [tx |-> o.tx, successful |-> o.successful] \in landed
          /\ [rev |-> o.rev, plan |-> o.plan, tx |-> o.tx] \in preparations
    /\ \A o1, o2 \in observations : o1.tx = o2.tx => o1 = o2

\* With serial replans the history only grows: no revision is rewritten or
\* dropped, though the store compares no equal revision.
HistoryIsAppendOnly ==
    [][Len(chain) <= Len(chain') /\ SubSeq(chain', 1, Len(chain)) = chain]_chain

\* However replans race, the revision never falls and never skips, and a new
\* revision supersedes the plan that was current.
RevisionsAreContiguous ==
    [][/\ Revision(chain') \in {Revision(chain), Revision(chain) + 1}
       /\ Revision(chain') > Revision(chain) => chain'[Revision(chain)] = Current(chain)]_chain

\* A cancelled Intent takes no contribution, plan, executor or package; only
\* ledger truth may still be recorded, and the cancellation never changes.
CancellationCloses ==
    [][cancellation # {} =>
         UNCHANGED <<chain, cancellation, binding, contributions, preparations>>]_store

\* An Intent whose success is on record is never cancelled afterwards.
SuccessBeatsCancellation ==
    [][cancellation' # cancellation => ~ Executed]_store

ReplanLabels == {"replan_snapshot", "replan_read", "replan_plan", "replan_recheck",
                 "replan_write", "replan_after"}
ReadLabels == Labels \ {"idle", "cancel_write", "reconcile_load", "reconcile_put"}
BoundLabels == {"prepare_read", "prepare_simulate"}
ReadyLabels == {"prepare_bind", "prepare_read", "prepare_simulate"}
PackageLabels == {"prepare_recheck", "prepare_put"}

StillBound(view) ==
    /\ view \in View /\ Len(view.chain) >= 1
    /\ view.bound # None => view.bound = binding

UsesBinding(x) == IntegrationOwned => x = binding \/ cancellation # {}

\* What a handler between two awaits still knows, however replans race: the
\* binding it saw is the binding, a ready snapshot stays authorized, the
\* package it is about to store uses the bound executor or meets a cancelled
\* Intent, and what it is about to answer is stored.
HandlerConsistent(h) ==
    LET f == pending[h] IN
    /\ pc[h] \in ReadLabels => StillBound(seen[h])
    /\ pc[h] \in {"contribute_recheck", "contribute_put", "contribute_after"} => f \in Contribution
    /\ pc[h] = "contribute_recheck" => auth[h] \in Snapshot /\ f.plan = auth[h].plan
    /\ pc[h] = "contribute_after" => cancellation # {} \/ f \in contributions
    /\ pc[h] \in ReplanLabels => h \in Replanners
    /\ pc[h] \in {"replan_read", "replan_plan"} => auth[h] \in Snapshot
    /\ pc[h] \in {"replan_recheck", "replan_write"} =>
          f \in [chain: Seq(Plan)] /\ Len(f.chain) >= 2
    /\ pc[h] \in ReadyLabels =>
          auth[h] \in Snapshot /\ Authorized(auth[h].plan) /\ f \in Executors
    /\ pc[h] \in BoundLabels => UsesBinding(f)
    /\ pc[h] \in PackageLabels =>
          f \in Preparation /\ Authorized(f.tx.auth) /\ UsesBinding(f.tx.source)
    /\ pc[h] = "prepare_after" =>
          f \in Preparation /\ (cancellation # {} \/ f \in preparations)
    /\ pc[h] = "cancel_write" => f \in Cancellation
    /\ pc[h] = "reconcile_load" => f \in preparations
    /\ pc[h] = "reconcile_put" =>
          /\ f \in Observation
          /\ [rev |-> f.rev, plan |-> f.plan, tx |-> f.tx] \in preparations
          /\ [tx |-> f.tx, successful |-> f.successful] \in landed

HandlersConsistent == \A h \in Handlers : HandlerConsistent(h)

\* What a handler knows about the plans with serial replans: its copy of the
\* history is a prefix of the stored one, the history it is about to write
\* supersedes the current plan, and the fact it is about to write names its plan.
PrefixOfChain(c) == Len(c) <= Len(chain) /\ \A r \in 1..Len(c) : c[r] = chain[r]

PlanConsistent(h) ==
    LET f == pending[h] IN
    /\ pc[h] \in ReadLabels => PrefixOfChain(seen[h].chain)
    /\ pc[h] \in {"replan_plan", "replan_recheck", "replan_write"} => seen[h].chain = chain
    /\ pc[h] \in {"replan_recheck", "replan_write"} =>
          Len(f.chain) = Len(chain) + 1 /\ \A r \in 1..Len(chain) : f.chain[r] = chain[r]
    /\ pc[h] \in {"contribute_put", "cancel_write"} \cup PackageLabels => Names(f)

PlansConsistent == \A h \in Handlers : PlanConsistent(h)

\* With serial replans the store and the handlers implement the abstract
\* record of facts.
Lifecycle == INSTANCE IntentLifecycle WITH
    plans <- chain, evidence <- contributions \cup preparations,
    results <- observations, closed <- cancellation
ImplementsLifecycle == Lifecycle!Spec

\* T6 of postgres-persistence-model.md: the plan update and its outbox event
\* are one transaction, so the current plan of an Integration-owned Intent is
\* a reported one.
PlanUpdatesAreReported ==
    IntegrationOwned /\ Revision(chain) > 1 =>
        Revised(Revision(chain), Current(chain)) \in outbox
=============================================================================
