------------------------ MODULE SorobanIntentProofs ------------------------
(***************************************************************************)
(* Safety of SorobanIntent for every number of handlers, signers, entries, *)
(* executors and bounds.  The inductive invariant joins the stored facts   *)
(* with what each handler between two awaits still knows about the store   *)
(* (HandlersConsistent).  The facts only grow, so a step of one handler    *)
(* cannot falsify what another one knows (OthersKeepTheirKnowledge).       *)
(* What is about the plan history needs replans that do not overlap        *)
(* (SerialReplans), because an equal revision overwrites the current plan: *)
(* the second part carries that assumption in its theorems.                *)
(***************************************************************************)
EXTENDS SorobanIntent, TLAPS

Inv ==
    /\ TypeOK
    /\ HandlersConsistent
    /\ AnswersAreDurable
    /\ PreparedAuthIsComplete
    /\ OneExecutor
    /\ ObservationsAreTrue

\* What no step of any handler or of the network takes back.
StoreGrows ==
    /\ contributions \subseteq contributions'
    /\ preparations \subseteq preparations'
    /\ landed \subseteq landed'
    /\ cancellation # {} => cancellation' = cancellation
    /\ binding # None => binding' = binding

\* A step leaves the locals of handler g alone.
LocalsKept(g) ==
    /\ pc'[g] = pc[g] /\ seen'[g] = seen[g]
    /\ auth'[g] = auth[g] /\ pending'[g] = pending[g]

-----------------------------------------------------------------------------
\* An authorized plan stays authorized: contributions are never deleted.
LEMMA AuthorizedPersists ==
    ASSUME StoreGrows, NEW plan, Authorized(plan)
    PROVE  \A e \in Entries : \E Q \in Quorums : \A s \in Q :
              \E c \in contributions' : c.plan = plan /\ c.entry = e /\ c.signer = s
BY DEF StoreGrows, Authorized

\* The executor a handler holds stays the bound one.
LEMMA BindingPersists ==
    ASSUME StoreGrows, NEW x \in Executors, UsesBinding(x)
    PROVE  IntegrationOwned => x = binding' \/ cancellation' # {}
BY NoneAssumption DEF StoreGrows, UsesBinding

\* The binding a handler saw stays the binding.
LEMMA SeenBindingPersists ==
    ASSUME StoreGrows, NEW view, StillBound(view)
    PROVE  /\ view \in View /\ Len(view.chain) >= 1
           /\ view.bound # None => view.bound = binding'
BY DEF StoreGrows, StillBound

\* A step that leaves a handler's locals alone, and the store grown, leaves
\* true all that handler knows: the heart of non-interference.
LEMMA OthersKeepTheirKnowledge ==
    ASSUME TypeOK, TypeOK', StoreGrows,
           NEW g \in Handlers, LocalsKept(g), HandlerConsistent(g)
    PROVE  HandlerConsistent(g)'
<1> DEFINE f == pending[g]
<1>0. pc'[g] = pc[g] /\ seen'[g] = seen[g] /\ auth'[g] = auth[g] /\ pending'[g] = f
  BY DEF LocalsKept
<1>1. (pc[g] \in ReadLabels => StillBound(seen[g]))'
  BY <1>0, SeenBindingPersists DEF HandlerConsistent, StillBound, ReadLabels, Labels
<1>2. (pc[g] \in {"contribute_recheck", "contribute_put", "contribute_after"}
          => pending[g] \in Contribution)'
  BY <1>0 DEF HandlerConsistent
<1>3. (pc[g] = "contribute_recheck" => auth[g] \in Snapshot /\ pending[g].plan = auth[g].plan)'
  BY <1>0 DEF HandlerConsistent
<1>4. (pc[g] \in ReplanLabels => g \in Replanners)'
  BY <1>0 DEF HandlerConsistent, ReplanLabels
<1>5. (pc[g] = "contribute_after" => cancellation # {} \/ pending[g] \in contributions)'
  BY <1>0 DEF HandlerConsistent, StoreGrows
<1>6. (pc[g] \in {"replan_read", "replan_plan"} => auth[g] \in Snapshot)'
  BY <1>0 DEF HandlerConsistent
<1>7. (pc[g] \in {"replan_recheck", "replan_write"} =>
          pending[g] \in [chain: Seq(Plan)] /\ Len(pending[g].chain) >= 2)'
  BY <1>0 DEF HandlerConsistent
<1>8. (pc[g] \in ReadyLabels =>
          auth[g] \in Snapshot /\ Authorized(auth[g].plan) /\ pending[g] \in Executors)'
  <2> SUFFICES ASSUME pc[g] \in ReadyLabels
      PROVE  auth[g] \in Snapshot /\ Authorized(auth[g].plan)' /\ f \in Executors
      BY <1>0 DEF ReadyLabels
  <2>1. auth[g] \in Snapshot /\ Authorized(auth[g].plan) /\ f \in Executors
    BY DEF HandlerConsistent
  <2>2. Authorized(auth[g].plan)'
    BY <1>0, <2>1, AuthorizedPersists DEF Authorized
  <2> QED BY <2>1, <2>2
<1>9. (pc[g] \in BoundLabels => UsesBinding(pending[g]))'
  <2>1. pc[g] \in BoundLabels => f \in Executors
    BY DEF HandlerConsistent, BoundLabels, ReadyLabels
  <2> QED BY <1>0, <2>1, BindingPersists DEF HandlerConsistent, UsesBinding, BoundLabels
<1>10. (pc[g] \in PackageLabels =>
          /\ pending[g] \in Preparation
          /\ Authorized(pending[g].tx.auth) /\ UsesBinding(pending[g].tx.source))'
  <2> SUFFICES ASSUME pc[g] \in PackageLabels
      PROVE  /\ f \in Preparation
             /\ Authorized(f.tx.auth)' /\ UsesBinding(f.tx.source)'
      BY <1>0 DEF PackageLabels
  <2>1. f \in Preparation /\ Authorized(f.tx.auth) /\ UsesBinding(f.tx.source)
    BY DEF HandlerConsistent
  <2>3. Authorized(f.tx.auth)'
    <3>1. \A e \in Entries : \E Q \in Quorums : \A s \in Q : \E c \in contributions' :
             c.plan = f.tx.auth /\ c.entry = e /\ c.signer = s
      BY <2>1, AuthorizedPersists
    <3> QED BY <1>0, <3>1 DEF Authorized
  <2>4. f.tx.source \in Executors
    BY <2>1 DEF Preparation, Transaction
  <2>5. UsesBinding(f.tx.source)'
    BY <1>0, <2>1, <2>4, BindingPersists DEF UsesBinding
  <2> QED BY <2>1, <2>3, <2>5
<1>11. (pc[g] = "prepare_after" =>
          pending[g] \in Preparation /\ (cancellation # {} \/ pending[g] \in preparations))'
  BY <1>0 DEF HandlerConsistent, StoreGrows
<1>12. (pc[g] = "cancel_write" => pending[g] \in Cancellation)'
  BY <1>0 DEF HandlerConsistent
<1>13. (pc[g] = "reconcile_load" => pending[g] \in preparations)'
  BY <1>0 DEF HandlerConsistent, StoreGrows
<1>14. (pc[g] = "reconcile_put" =>
          /\ pending[g] \in Observation
          /\ [rev |-> pending[g].rev, plan |-> pending[g].plan, tx |-> pending[g].tx]
                \in preparations
          /\ [tx |-> pending[g].tx, successful |-> pending[g].successful] \in landed)'
  BY <1>0 DEF HandlerConsistent, StoreGrows
<1> QED
  BY <1>1, <1>2, <1>3, <1>4, <1>5, <1>6, <1>7, <1>8, <1>9, <1>10, <1>11, <1>12,
     <1>13, <1>14 DEF HandlerConsistent

-----------------------------------------------------------------------------
\* The initial states satisfy the invariant.
LEMMA InitEstablishes == Init => Inv
<1> SUFFICES ASSUME Init PROVE Inv
  OBVIOUS
<1>1. FirstPlan(effects) \in Plan
  BY BoundsAssumption DEF Init, FirstPlan, Plan
<1>2. chain \in Seq(Plan) /\ Len(chain) = 1
  BY <1>1 DEF Init
<1>3. TypeOK
  BY <1>2, BoundsAssumption DEF Init, TypeOK, Labels, Pendings
<1>4. HandlersConsistent
  BY DEF Init, HandlersConsistent, HandlerConsistent, ReadLabels, ReplanLabels,
         ReadyLabels, BoundLabels, PackageLabels
<1> QED
  BY <1>3, <1>4 DEF Init, Inv, AnswersAreDurable,
     PreparedAuthIsComplete, OneExecutor, ObservationsAreTrue

\* What a handler takes out of the store is well typed.
LEMMA ViewType == TypeOK => GetIntent \in View
BY DEF TypeOK, GetIntent, View

LEMMA CurrentType == ASSUME NEW c \in Seq(Plan), Len(c) >= 1 PROVE Current(c) \in Plan
BY DEF Current

LEMMA StatusType == ASSUME NEW view PROVE StatusOf(view) \in Statuses
BY DEF StatusOf, Statuses

\* Leaving a handler keeps the handlers well typed.
LEMMA LeaveType ==
    ASSUME TypeOK, NEW h \in Handlers, Leave(h)
    PROVE  /\ pc' \in [Handlers -> Labels]
           /\ seen' \in [Handlers -> View \cup {None}]
           /\ auth' \in [Handlers -> Snapshot \cup {None}]
           /\ pending' \in [Handlers -> Pendings]
BY DEF TypeOK, Leave, Goto, Labels, Pendings

\* A handler between two reads holds a copy with a current plan.
LEMMA CopyType ==
    ASSUME TypeOK, NEW h \in Handlers, HandlerConsistent(h), pc[h] \in ReadLabels
    PROVE  /\ seen[h] \in View /\ seen[h].chain \in Seq(Plan)
           /\ Len(seen[h].chain) \in Nat \ {0} /\ Revision(seen[h].chain) \in Revisions
           /\ Current(seen[h].chain) \in Plan
           /\ SnapshotOf(h) \in Snapshot
<1>1. StillBound(seen[h])
  BY DEF HandlerConsistent
<1>2. seen[h] \in View /\ seen[h].chain \in Seq(Plan) /\ Len(seen[h].chain) \in Nat \ {0}
  BY <1>1 DEF StillBound, View
<1>3. Current(seen[h].chain) \in Plan
  BY <1>2, CurrentType
<1> QED BY <1>2, <1>3, StatusType DEF SnapshotOf, Snapshot, Revision, Revisions

LEMMA ContributeType ==
    ASSUME TypeOK, HandlersConsistent, NEW h \in Handlers, ContributeStep(h)
    PROVE  TypeOK'
<1> USE DEF Goto
<1>0. HandlerConsistent(h)
  BY DEF HandlersConsistent
<1>1. CASE StartContribute(h)
  BY <1>1, ViewType DEF StartContribute, ReadIntent, TypeOK, Labels, store, network, answers
<1>2. CASE ContributeSnapshot(h)
  <2> USE <1>2 DEF ContributeSnapshot
  <2>1. /\ SnapshotOf(h) \in Snapshot /\ Current(seen[h].chain) \in Plan
        /\ Revision(seen[h].chain) \in Revisions
    BY <1>0, CopyType DEF ReadLabels, Labels
  <2>2. CASE Leave(h)
    BY <2>2, LeaveType DEF TypeOK, store, network, answers
  <2>3. CASE ~ Leave(h)
    <3>1. PICK e \in Entries, s \in active : pending' = [pending EXCEPT ![h] =
             [rev |-> Revision(seen[h].chain), plan |-> Current(seen[h].chain),
              entry |-> e, signer |-> s]]
      BY <2>3
    <3>2. pending' \in [Handlers -> Pendings]
      BY <3>1, <2>1 DEF TypeOK, Pendings, Contribution
    <3> QED BY <2>1, <2>3, <3>2 DEF TypeOK, TakeSnapshot, Labels, store, network, answers
  <2> QED BY <2>2, <2>3
<1>3. CASE ContributeRecheck(h)
  <2> USE <1>3 DEF ContributeRecheck
  <2>1. pending[h] \in Contribution
    BY <1>0 DEF HandlerConsistent
  <2>2. CASE Leave(h)
    BY <2>2, LeaveType DEF TypeOK, store, network, answers
  <2>3. CASE ~ Leave(h)
    <3>0. Revision(chain) \in Revisions
      BY DEF TypeOK, Revision, Revisions
    <3>1. [pending[h] EXCEPT !.rev = Revision(chain)] \in Contribution
      BY ONLY <2>1, <3>0 DEF Contribution
    <3>2. pending' \in [Handlers -> Pendings]
      BY <2>3, <3>1 DEF TypeOK, Pendings
    <3> QED BY <2>3, <3>2 DEF TypeOK, Labels, store, network, answers
  <2> QED BY <2>2, <2>3
<1>4. CASE PutContribution(h)
  <2>1. pending[h] \in Contribution
    BY <1>0, <1>4 DEF HandlerConsistent, PutContribution
  <2> QED BY <1>4, <2>1 DEF PutContribution, TypeOK, Labels, network, answers
<1>5. CASE ContributeAfter(h)
  <2>1. pending[h] \in Contribution
    BY <1>0, <1>5 DEF HandlerConsistent, ContributeAfter
  <2> QED BY <1>5, <2>1, LeaveType DEF ContributeAfter, TypeOK, store, network
<1> QED BY <1>1, <1>2, <1>3, <1>4, <1>5 DEF ContributeStep

LEMMA ReplanType ==
    ASSUME TypeOK, HandlersConsistent, NEW h \in Handlers, ReplanStep(h)
    PROVE  TypeOK'
<1> USE DEF Goto
<1>0. HandlerConsistent(h)
  BY DEF HandlersConsistent
<1>1. CASE StartReplan(h)
  BY <1>1, ViewType DEF StartReplan, ReadIntent, TypeOK, Labels, store, network, answers
<1>2. CASE ReplanSnapshot(h)
  <2>1. SnapshotOf(h) \in Snapshot
    BY <1>0, <1>2, CopyType DEF ReplanSnapshot, ReadLabels, Labels
  <2> QED BY <1>2, <2>1 DEF ReplanSnapshot, TakeSnapshot, TypeOK, Labels, store, network, answers
<1>3. CASE ReplanRead(h)
  <2> USE <1>3 DEF ReplanRead
  <2>1. CASE Leave(h)
    BY <2>1, LeaveType DEF TypeOK, store, network, answers
  <2>2. CASE ~ Leave(h)
    BY <2>2, ViewType DEF TypeOK, Labels, store, network, answers
  <2> QED BY <2>1, <2>2
<1>4. CASE ReplanPlan(h)
  <2> USE <1>4 DEF ReplanPlan
  <2>1. planned' \in Nat
    BY DEF TypeOK
  <2>2. CASE Leave(h)
    BY <2>1, <2>2, LeaveType DEF TypeOK, store, answers
  <2>3. CASE ~ Leave(h)
    <3> DEFINE plan == [id |-> planned + 1, expires |-> ledger + AuthWindow, effects |-> effects]
    <3>1. plan \in Plan
      BY BoundsAssumption DEF TypeOK, Plan
    <3>2. seen[h].chain \in Seq(Plan)
      BY <1>0, CopyType DEF ReadLabels, Labels
    <3>3. Superseding(seen[h].chain, plan) \in Seq(Plan)
      BY <3>1, <3>2 DEF Superseding
    <3>4. [chain |-> Superseding(seen[h].chain, plan)] \in Pendings
      BY <3>3 DEF Pendings
    <3>5. pending' \in [Handlers -> Pendings]
      BY <2>3, <3>4 DEF TypeOK
    <3> QED BY <2>1, <2>3, <3>5 DEF TypeOK, Labels, store, answers
  <2> QED BY <2>2, <2>3
<1>5. CASE ReplanRecheck(h)
  <2> USE <1>5 DEF ReplanRecheck
  <2>1. CASE Leave(h)
    BY <2>1, LeaveType DEF TypeOK, store, network, answers
  <2>2. CASE ~ Leave(h)
    BY <2>2 DEF Continue, TypeOK, Labels, store, network, answers
  <2> QED BY <2>1, <2>2
<1>6. CASE UpdateIntent(h)
  <2> USE <1>6 DEF UpdateIntent
  <2>1. pending[h].chain \in Seq(Plan) /\ Len(pending[h].chain) >= 2
    BY <1>0 DEF HandlerConsistent
  <2>2. chain' \in Seq(Plan) /\ Len(chain') >= 1
    BY <2>1 DEF TypeOK
  <2>3. CASE Leave(h)
    BY <2>2, <2>3, LeaveType DEF TypeOK, network, answers
  <2>4. CASE ~ Leave(h)
    BY <2>2, <2>4 DEF Continue, TypeOK, Labels, network, answers
  <2> QED BY <2>3, <2>4
<1>7. CASE ReplanAfter(h)
  BY <1>7, LeaveType DEF ReplanAfter, TypeOK, store, network, answers
<1> QED BY <1>1, <1>2, <1>3, <1>4, <1>5, <1>6, <1>7 DEF ReplanStep

LEMMA PrepareType ==
    ASSUME TypeOK, HandlersConsistent, NEW h \in Handlers, PrepareStep(h)
    PROVE  TypeOK'
<1> USE DEF Goto
<1>0. HandlerConsistent(h)
  BY DEF HandlersConsistent
<1>1. CASE StartPrepare(h)
  BY <1>1, ViewType DEF StartPrepare, ReadIntent, TypeOK, Labels, store, network, answers
<1>2. CASE PrepareSnapshot(h)
  <2> USE <1>2 DEF PrepareSnapshot
  <2>1. SnapshotOf(h) \in Snapshot
    BY <1>0, CopyType DEF ReadLabels, Labels
  <2>2. CASE Leave(h)
    BY <2>2, LeaveType DEF TypeOK, store, network, answers
  <2>3. CASE ~ Leave(h)
    BY <2>1, <2>3 DEF TypeOK, TakeSnapshot, Labels, Pendings, store, network, answers
  <2> QED BY <2>2, <2>3
<1>3. CASE BindExecutor(h)
  <2>1. pending[h] \in Executors /\ seen[h] \in View
    BY <1>0, <1>3, CopyType DEF BindExecutor, HandlerConsistent, ReadyLabels, ReadLabels, Labels
  <2>2. ExistingBinding(h) \in Executors \cup {None}
    BY <2>1 DEF ExistingBinding, TypeOK, View
  <2>3. binding' \in Executors \cup {None} /\ pending' \in [Handlers -> Pendings]
    BY <1>3, <2>1, <2>2 DEF BindExecutor, TypeOK, Pendings
  <2> QED BY <1>3, <2>3 DEF BindExecutor, TypeOK, Labels, network, answers
<1>4. CASE PrepareRead(h)
  <2> USE <1>4 DEF PrepareRead
  <2>1. CASE Leave(h)
    BY <2>1, LeaveType DEF TypeOK, store, network, answers
  <2>2. CASE ~ Leave(h)
    BY <2>2, ViewType DEF TypeOK, Labels, store, network, answers
  <2> QED BY <2>1, <2>2
<1>5. CASE PrepareSimulate(h)
  <2> USE <1>5 DEF PrepareSimulate
  <2>1. CASE Leave(h)
    BY <2>1, LeaveType DEF TypeOK, store, network, answers
  <2>2. CASE ~ Leave(h)
    <3> DEFINE p == [rev |-> Revision(seen[h].chain), plan |-> Current(seen[h].chain),
                     tx |-> [auth |-> auth[h].plan, source |-> pending[h],
                             seq |-> sequence[pending[h]]]]
    <3>1. pending[h] \in Executors /\ auth[h] \in Snapshot
      BY <1>0 DEF HandlerConsistent, ReadyLabels
    <3>2. Current(seen[h].chain) \in Plan /\ Revision(seen[h].chain) \in Revisions
      BY <1>0, CopyType DEF ReadLabels, Labels
    <3>3. p \in Preparation
      BY <3>1, <3>2 DEF Preparation, Transaction, Snapshot, TypeOK
    <3>4. pending' \in [Handlers -> Pendings]
      BY <2>2, <3>3 DEF TypeOK, Pendings
    <3> QED BY <2>2, <3>4 DEF TypeOK, Labels, store, network, answers
  <2> QED BY <2>1, <2>2
<1>6. CASE PrepareRecheck(h)
  <2> USE <1>6 DEF PrepareRecheck
  <2>1. CASE Leave(h)
    BY <2>1, LeaveType DEF TypeOK, store, network, answers
  <2>2. CASE ~ Leave(h)
    BY <2>2 DEF Continue, TypeOK, Labels, store, network, answers
  <2> QED BY <2>1, <2>2
<1>7. CASE PutExecutionPreparation(h)
  <2>1. pending[h] \in Preparation
    BY <1>0, <1>7 DEF HandlerConsistent, PutExecutionPreparation, PackageLabels
  <2> QED BY <1>7, <2>1 DEF PutExecutionPreparation, TypeOK, Labels, network, answers
<1>8. CASE ReleasePackage(h)
  <2>1. pending[h] \in Preparation
    BY <1>0, <1>8 DEF HandlerConsistent, ReleasePackage
  <2> QED BY <1>8, <2>1, LeaveType DEF ReleasePackage, TypeOK, store, network
<1> QED BY <1>1, <1>2, <1>3, <1>4, <1>5, <1>6, <1>7, <1>8 DEF PrepareStep

LEMMA CancelType ==
    ASSUME TypeOK, HandlersConsistent, NEW h \in Handlers, CancelStep(h)
    PROVE  TypeOK'
<1> USE DEF Goto
<1>0. HandlerConsistent(h)
  BY DEF HandlersConsistent
<1>1. CASE StartCancel(h)
  <2>1. [rev |-> Revision(chain), plan |-> Current(chain)] \in Cancellation
    BY CurrentType DEF TypeOK, Cancellation, Revision, Revisions
  <2> QED BY <1>1, <2>1 DEF StartCancel, TypeOK, Labels, Pendings, store, network, answers
<1>2. CASE CancelIntent(h)
  <2>1. pending[h] \in Cancellation
    BY <1>0, <1>2 DEF HandlerConsistent, CancelIntent
  <2> QED BY <1>2, <2>1, LeaveType DEF CancelIntent, TypeOK, network, answers
<1> QED BY <1>1, <1>2 DEF CancelStep

LEMMA ReconcileType ==
    ASSUME TypeOK, HandlersConsistent, NEW h \in Handlers, ReconcileStep(h)
    PROVE  TypeOK'
<1> USE DEF Goto
<1>0. HandlerConsistent(h)
  BY DEF HandlersConsistent
<1>1. CASE StartReconcile(h)
  BY <1>1 DEF StartReconcile, TypeOK, Labels, Pendings, store, network, answers
<1>2. CASE ReconcileLoad(h)
  <2> USE <1>2 DEF ReconcileLoad, Verdict
  <2>1. CASE Leave(h)
    BY <2>1, LeaveType DEF TypeOK, store, network, answers
  <2>2. CASE ~ Leave(h)
    <3>1. pending[h] \in Preparation
      BY <1>0 DEF HandlerConsistent, TypeOK
    <3>2. PICK r \in landed : pending' = [pending EXCEPT ![h] =
             [rev |-> @.rev, plan |-> @.plan, tx |-> @.tx, successful |-> r.successful]]
      BY <2>2
    <3>3. [rev |-> pending[h].rev, plan |-> pending[h].plan, tx |-> pending[h].tx,
           successful |-> r.successful] \in Observation
      BY <3>1, <3>2 DEF TypeOK, Preparation, Observation
    <3>4. pending' \in [Handlers -> Pendings]
      BY <3>2, <3>3 DEF TypeOK, Pendings
    <3> QED BY <2>2, <3>4 DEF TypeOK, Labels, store, network, answers
  <2> QED BY <2>1, <2>2
<1>3. CASE PutExecutionObservation(h)
  <2>1. pending[h] \in Observation
    BY <1>0, <1>3 DEF HandlerConsistent, PutExecutionObservation
  <2> QED BY <1>3, <2>1, LeaveType DEF PutExecutionObservation, TypeOK, network, answers
<1> QED BY <1>1, <1>2, <1>3 DEF ReconcileStep

LEMMA NetworkType ==
    ASSUME TypeOK, NetworkStep
    PROVE  TypeOK'
<1>1. CASE CloseLedger
  BY <1>1 DEF CloseLedger, TypeOK, store, answers, handlers
<1>2. CASE ChangeEffects
  BY <1>2 DEF ChangeEffects, TypeOK, store, answers, handlers
<1>3. CASE RemoveSigner
  BY <1>3 DEF RemoveSigner, TypeOK, store, answers, handlers
<1>4. CASE Submit
  <2>1. PICK p \in released :
           /\ sequence' = [sequence EXCEPT ![p.tx.source] = @ + 1]
           /\ landed' = landed \cup {[tx |-> p.tx, successful |-> Enforceable(p.tx.auth)]}
    BY <1>4 DEF Submit
  <2>2. p.tx \in Transaction
    BY <2>1 DEF TypeOK, Preparation
  <2>3. Enforceable(p.tx.auth) \in BOOLEAN
    BY DEF Enforceable
  <2>4. landed' \in SUBSET [tx: Transaction, successful: BOOLEAN]
    BY <2>1, <2>2, <2>3 DEF TypeOK
  <2>5. sequence' \in [Executors -> Nat]
    BY <2>1, <2>2 DEF TypeOK, Transaction
  <2> QED BY <1>4, <2>4, <2>5 DEF Submit, TypeOK, store, answers, handlers
<1> QED BY <1>1, <1>2, <1>3, <1>4 DEF NetworkStep

LEMMA NextPreservesTypes == Inv /\ [Next]_vars => TypeOK'
<1> SUFFICES ASSUME Inv, [Next]_vars PROVE TypeOK'
  OBVIOUS
<1> USE DEF Inv
<1>1. ASSUME NEW h \in Handlers, Abandon(h) PROVE TypeOK'
  BY <1>1, LeaveType DEF Abandon, TypeOK, store, network, answers
<1>2. CASE UNCHANGED vars
  BY <1>2 DEF vars, store, network, answers, handlers, TypeOK
<1> QED
  BY <1>1, <1>2, ContributeType, ReplanType, PrepareType, CancelType, ReconcileType,
     NetworkType DEF Next

-----------------------------------------------------------------------------
\* Every step grows the store.
LEMMA NextGrows == Inv /\ [Next]_vars => StoreGrows
<1> SUFFICES ASSUME Inv, [Next]_vars PROVE StoreGrows
  OBVIOUS
<1> DEFINE Rows == <<contributions, preparations, landed, cancellation, binding>>
<1>0. TypeOK
  BY DEF Inv
<1>1. CASE UNCHANGED Rows
  BY <1>0, <1>1 DEF StoreGrows
<1>2. ASSUME NEW h \in Handlers, ContributeStep(h) PROVE StoreGrows
  <2>1. CASE PutContribution(h)
    BY <1>0, <2>1 DEF PutContribution, StoreGrows, network
  <2> QED
    BY <1>1, <1>2, <2>1 DEF ContributeStep, StartContribute, ReadIntent, ContributeSnapshot,
       ContributeRecheck, ContributeAfter, store, network
<1>3. ASSUME NEW h \in Handlers, ReplanStep(h) PROVE StoreGrows
  <2>1. CASE UpdateIntent(h)
    BY <1>0, <2>1 DEF UpdateIntent, StoreGrows, network
  <2> QED
    BY <1>1, <1>3, <2>1 DEF ReplanStep, StartReplan, ReadIntent, ReplanSnapshot, ReplanRead,
       ReplanPlan, ReplanRecheck, ReplanAfter, store, network
<1>4. ASSUME NEW h \in Handlers, PrepareStep(h) PROVE StoreGrows
  <2>1. CASE BindExecutor(h)
    <3>1. binding # None => ExistingBinding(h) # None
      BY DEF ExistingBinding
    <3> QED BY <1>0, <2>1, <3>1 DEF BindExecutor, StoreGrows, network
  <2>2. CASE PutExecutionPreparation(h)
    BY <1>0, <2>2 DEF PutExecutionPreparation, StoreGrows, network
  <2> QED
    BY <1>1, <1>4, <2>1, <2>2 DEF PrepareStep, StartPrepare, ReadIntent, PrepareSnapshot,
       PrepareRead, PrepareSimulate, PrepareRecheck, ReleasePackage, store, network
<1>5. ASSUME NEW h \in Handlers, CancelStep(h) PROVE StoreGrows
  <2>1. CASE CancelIntent(h)
    BY <1>0, <2>1 DEF CancelIntent, CancelledRow, StoreGrows, network
  <2> QED BY <1>1, <1>5, <2>1 DEF CancelStep, StartCancel, store, network
<1>6. ASSUME NEW h \in Handlers, ReconcileStep(h) PROVE StoreGrows
  BY <1>1, <1>6 DEF ReconcileStep, StartReconcile, ReconcileLoad, PutExecutionObservation,
     store, network
<1>7. CASE NetworkStep
  BY <1>0, <1>1, <1>7 DEF NetworkStep, CloseLedger, ChangeEffects, RemoveSigner, Submit, store,
     StoreGrows
<1>8. CASE UNCHANGED vars
  BY <1>1, <1>8 DEF vars, store, network
<1>9. ASSUME NEW h \in Handlers, Abandon(h) PROVE StoreGrows
  BY <1>1, <1>9 DEF Abandon, store, network
<1> QED BY <1>2, <1>3, <1>4, <1>5, <1>6, <1>7, <1>8, <1>9 DEF Next

-----------------------------------------------------------------------------
\* A step of handler h leaves the locals of the others alone.
LEMMA StepsAreLocal ==
    ASSUME TypeOK, NEW h \in Handlers, NEW g \in Handlers, g # h,
           \/ ContributeStep(h) \/ ReplanStep(h) \/ PrepareStep(h)
           \/ CancelStep(h) \/ ReconcileStep(h) \/ Abandon(h)
    PROVE  LocalsKept(g)
<1> USE DEF TypeOK, LocalsKept, Leave, Continue, Goto, handlers
<1>1. CASE ContributeStep(h)
  BY <1>1 DEF ContributeStep, StartContribute, ReadIntent, ContributeSnapshot, TakeSnapshot,
     ContributeRecheck, PutContribution, ContributeAfter
<1>2. CASE ReplanStep(h)
  BY <1>2 DEF ReplanStep, StartReplan, ReadIntent, ReplanSnapshot, TakeSnapshot, ReplanRead,
     ReplanPlan, ReplanRecheck, UpdateIntent, ReplanAfter
<1>3. CASE PrepareStep(h)
  BY <1>3 DEF PrepareStep, StartPrepare, ReadIntent, PrepareSnapshot, TakeSnapshot,
     BindExecutor, PrepareRead, PrepareSimulate, PrepareRecheck, PutExecutionPreparation,
     ReleasePackage
<1>4. CASE CancelStep(h)
  BY <1>4 DEF CancelStep, StartCancel, CancelIntent
<1>5. CASE ReconcileStep(h)
  BY <1>5 DEF ReconcileStep, StartReconcile, ReconcileLoad, PutExecutionObservation
<1>6. CASE Abandon(h)
  BY <1>6 DEF Abandon
<1> QED BY <1>1, <1>2, <1>3, <1>4, <1>5, <1>6

\* A handler that leaves claims to know nothing.
LEMMA LeaveKnowsNothing ==
    ASSUME TypeOK, NEW h \in Handlers, Leave(h)
    PROVE  HandlerConsistent(h)'
<1>1. pc'[h] = "idle"
  BY DEF TypeOK, Leave, Goto
<1> QED BY <1>1 DEF HandlerConsistent, ReadLabels, ReplanLabels, ReadyLabels, BoundLabels, PackageLabels

\* A handler that reads the row knows it.
LEMMA ReadKnows ==
    ASSUME TypeOK, NEW h \in Handlers, seen' = [seen EXCEPT ![h] = GetIntent], UNCHANGED store
    PROVE  StillBound(seen[h])'
<1>1. seen'[h] = GetIntent
  BY DEF TypeOK
<1>2. GetIntent \in View
  BY ViewType
<1> QED BY <1>1, <1>2 DEF GetIntent, StillBound, TypeOK, store

LEMMA ContributeKnows ==
    ASSUME TypeOK, TypeOK', StoreGrows, HandlersConsistent,
           NEW h \in Handlers, ContributeStep(h)
    PROVE  HandlerConsistent(h)'
<1> USE DEF Goto, ReplanLabels, ReadyLabels, BoundLabels, PackageLabels
<1>0. HandlerConsistent(h)
  BY DEF HandlersConsistent
<1>1. CASE StartContribute(h)
  <2>1. StillBound(seen[h])'
    BY <1>1, ReadKnows DEF StartContribute, ReadIntent
  <2>2. pc'[h] = "contribute_snapshot"
    BY <1>1 DEF StartContribute, ReadIntent, TypeOK
  <2> QED BY <2>1, <2>2 DEF HandlerConsistent
<1>2. CASE ContributeSnapshot(h)
  <2> USE <1>2 DEF ContributeSnapshot
  <2>1. CASE Leave(h)
    BY <2>1, LeaveKnowsNothing
  <2>2. CASE ~ Leave(h)
    <3>1. pc'[h] = "contribute_recheck" /\ seen'[h] = seen[h] /\ auth'[h] = SnapshotOf(h)
      BY <2>2 DEF TypeOK, TakeSnapshot
    <3>2. /\ SnapshotOf(h) \in Snapshot /\ Current(seen[h].chain) \in Plan
          /\ Revision(seen[h].chain) \in Revisions
      BY <1>0, CopyType DEF ReadLabels, Labels
    <3>3. StillBound(seen[h])
      BY <1>0 DEF HandlerConsistent, ReadLabels, Labels
    <3>4. StillBound(seen[h])'
      BY <3>1, <3>3, SeenBindingPersists DEF StillBound
    <3>5. PICK e \in Entries, s \in active : pending' = [pending EXCEPT ![h] =
             [rev |-> Revision(seen[h].chain), plan |-> Current(seen[h].chain),
              entry |-> e, signer |-> s]]
      BY <2>2
    <3>6. pending'[h] = [rev |-> Revision(seen[h].chain), plan |-> Current(seen[h].chain),
              entry |-> e, signer |-> s]
      BY <3>5 DEF TypeOK
    <3>7. pending'[h] \in Contribution /\ pending'[h].plan = auth'[h].plan
      BY <3>1, <3>2, <3>6 DEF Contribution, SnapshotOf, TypeOK
    <3> QED BY <3>1, <3>2, <3>4, <3>7 DEF HandlerConsistent
  <2> QED BY <2>1, <2>2
<1>3. CASE ContributeRecheck(h)
  <2> USE <1>3 DEF ContributeRecheck
  <2>1. CASE Leave(h)
    BY <2>1, LeaveKnowsNothing
  <2>2. CASE ~ Leave(h)
    <3>1. pc'[h] = "contribute_put" /\ seen'[h] = seen[h]
      BY <2>2 DEF TypeOK
    <3>2. StillBound(seen[h]) /\ pending[h] \in Contribution /\ pending[h].plan = auth[h].plan
      BY <1>0 DEF HandlerConsistent, ReadLabels, Labels
    <3>3. StillBound(seen[h])'
      BY <3>1, <3>2, SeenBindingPersists DEF StillBound
    <3>4. pending'[h] = [pending[h] EXCEPT !.rev = Revision(chain)]
      BY <2>2 DEF TypeOK
    <3>5. Revision(chain) \in Revisions
      BY DEF Revision, Revisions, TypeOK
    <3>6. [pending[h] EXCEPT !.rev = Revision(chain)] \in Contribution
      BY ONLY <3>2, <3>5 DEF Contribution
    <3> QED BY <3>1, <3>3, <3>4, <3>6 DEF HandlerConsistent
  <2> QED BY <2>1, <2>2
<1>4. CASE PutContribution(h)
  <2>1. pc'[h] = "contribute_after" /\ seen'[h] = seen[h] /\ pending'[h] = pending[h]
    BY <1>4 DEF PutContribution, TypeOK
  <2>2. StillBound(seen[h]) /\ pending[h] \in Contribution
    BY <1>0, <1>4 DEF HandlerConsistent, ReadLabels, Labels, PutContribution
  <2>3. StillBound(seen[h])'
    BY <2>1, <2>2, SeenBindingPersists DEF StillBound
  <2>4. cancellation' # {} \/ pending'[h] \in contributions'
    BY <1>4, <2>1 DEF PutContribution, CancelledRow
  <2> QED BY <2>1, <2>2, <2>3, <2>4 DEF HandlerConsistent
<1>5. CASE ContributeAfter(h)
  BY <1>5, LeaveKnowsNothing DEF ContributeAfter
<1> QED BY <1>1, <1>2, <1>3, <1>4, <1>5 DEF ContributeStep

LEMMA ReplanKnows ==
    ASSUME TypeOK, TypeOK', StoreGrows, HandlersConsistent,
           NEW h \in Handlers, ReplanStep(h)
    PROVE  HandlerConsistent(h)'
<1> USE DEF Goto, ReplanLabels, ReadyLabels, BoundLabels, PackageLabels
<1>0. HandlerConsistent(h)
  BY DEF HandlersConsistent
<1>1. CASE StartReplan(h)
  <2>1. StillBound(seen[h])'
    BY <1>1, ReadKnows DEF StartReplan, ReadIntent
  <2>2. pc'[h] = "replan_snapshot" /\ h \in Replanners
    BY <1>1 DEF StartReplan, ReadIntent, TypeOK
  <2> QED BY <2>1, <2>2 DEF HandlerConsistent
<1>2. CASE ReplanSnapshot(h)
  <2>1. pc'[h] = "replan_read" /\ seen'[h] = seen[h] /\ auth'[h] \in Snapshot
    BY <1>0, <1>2, CopyType DEF ReplanSnapshot, TakeSnapshot, TypeOK, ReadLabels, Labels
  <2>2. StillBound(seen[h]) /\ h \in Replanners
    BY <1>0, <1>2 DEF HandlerConsistent, ReadLabels, Labels, ReplanSnapshot
  <2>3. StillBound(seen[h])'
    BY <2>1, <2>2, SeenBindingPersists DEF StillBound
  <2> QED BY <2>1, <2>2, <2>3 DEF HandlerConsistent
<1>3. CASE ReplanRead(h)
  <2> USE <1>3 DEF ReplanRead
  <2>1. CASE Leave(h)
    BY <2>1, LeaveKnowsNothing
  <2>2. CASE ~ Leave(h)
    <3>1. /\ pc'[h] = "replan_plan" /\ auth'[h] = auth[h] /\ auth[h] \in Snapshot
          /\ h \in Replanners
      BY <1>0, <2>2 DEF TypeOK, HandlerConsistent
    <3>2. StillBound(seen[h])'
      BY <2>2, ReadKnows
    <3> QED BY <3>1, <3>2 DEF HandlerConsistent
  <2> QED BY <2>1, <2>2
<1>4. CASE ReplanPlan(h)
  <2> USE <1>4 DEF ReplanPlan
  <2>1. CASE Leave(h)
    BY <2>1, LeaveKnowsNothing
  <2>2. CASE ~ Leave(h)
    <3> DEFINE plan == [id |-> planned + 1, expires |-> ledger + AuthWindow, effects |-> effects]
               old == seen[h].chain
    <3>1. plan \in Plan
      BY BoundsAssumption DEF TypeOK, Plan
    <3>2. StillBound(seen[h]) /\ h \in Replanners
      BY <1>0 DEF HandlerConsistent, ReadLabels, Labels
    <3>3. pc'[h] = "replan_recheck" /\ seen'[h] = seen[h]
      BY <2>2 DEF TypeOK
    <3>4. pending'[h] = [chain |-> Append(old, plan)]
      BY <2>2 DEF TypeOK, Superseding
    <3>5. old \in Seq(Plan) /\ Len(old) \in Nat /\ Len(old) >= 1
      BY <3>2 DEF StillBound, View
    <3>6. Append(old, plan) \in Seq(Plan) /\ Len(Append(old, plan)) = Len(old) + 1
      BY <3>1, <3>5
    <3>7. StillBound(seen[h])'
      BY <3>2, <3>3, SeenBindingPersists DEF StillBound
    <3>8. pending'[h] \in [chain: Seq(Plan)] /\ Len(pending'[h].chain) >= 2
      BY <3>4, <3>5, <3>6
    <3> QED BY <3>2, <3>3, <3>7, <3>8 DEF HandlerConsistent
  <2> QED BY <2>1, <2>2
<1>5. CASE ReplanRecheck(h)
  <2> USE <1>5 DEF ReplanRecheck
  <2>1. CASE Leave(h)
    BY <2>1, LeaveKnowsNothing
  <2>2. CASE ~ Leave(h)
    <3>1. pc'[h] = "replan_write" /\ seen'[h] = seen[h] /\ pending'[h] = pending[h]
      BY <2>2 DEF TypeOK, Continue
    <3>2. StillBound(seen[h])
      BY <1>0 DEF HandlerConsistent, ReadLabels, Labels
    <3>3. StillBound(seen[h])'
      BY <3>1, <3>2, SeenBindingPersists DEF StillBound
    <3> QED BY <1>0, <3>1, <3>3 DEF HandlerConsistent
  <2> QED BY <2>1, <2>2
<1>6. CASE UpdateIntent(h)
  <2> USE <1>6 DEF UpdateIntent
  <2>1. CASE Leave(h)
    BY <2>1, LeaveKnowsNothing
  <2>2. CASE ~ Leave(h)
    <3>1. pc'[h] = "replan_after" /\ seen'[h] = seen[h]
      BY <2>2 DEF TypeOK, Continue
    <3>2. StillBound(seen[h]) /\ h \in Replanners
      BY <1>0 DEF HandlerConsistent, ReadLabels, Labels
    <3>3. StillBound(seen[h])'
      BY <3>1, <3>2, SeenBindingPersists DEF StillBound
    <3> QED BY <3>1, <3>2, <3>3 DEF HandlerConsistent
  <2> QED BY <2>1, <2>2
<1>7. CASE ReplanAfter(h)
  BY <1>7, LeaveKnowsNothing DEF ReplanAfter
<1> QED BY <1>1, <1>2, <1>3, <1>4, <1>5, <1>6, <1>7 DEF ReplanStep

\* A snapshot whose status is ready has complete authorization.
LEMMA ReadyIsAuthorized ==
    ASSUME NEW h, SnapshotOf(h).status = "authorization_ready"
    PROVE  Authorized(SnapshotOf(h).plan)
<1>1. StatusOf(seen[h]) = "authorization_ready"
  BY DEF SnapshotOf
<1>2. \A e \in Entries : EntryReady(Current(seen[h].chain), e)
  BY <1>1 DEF StatusOf
<1>3. Authorized(Current(seen[h].chain))
  BY <1>2 DEF EntryReady, SignersOf, Authorized
<1> QED BY <1>3 DEF SnapshotOf

LEMMA PrepareKnows ==
    ASSUME TypeOK, TypeOK', StoreGrows, HandlersConsistent,
           NEW h \in Handlers, PrepareStep(h)
    PROVE  HandlerConsistent(h)'
<1> USE DEF Goto, ReplanLabels, ReadyLabels, BoundLabels, PackageLabels
<1>0. HandlerConsistent(h)
  BY DEF HandlersConsistent
<1>1. CASE StartPrepare(h)
  <2>1. StillBound(seen[h])'
    BY <1>1, ReadKnows DEF StartPrepare, ReadIntent
  <2>2. pc'[h] = "prepare_snapshot"
    BY <1>1 DEF StartPrepare, ReadIntent, TypeOK
  <2> QED BY <2>1, <2>2 DEF HandlerConsistent
<1>2. CASE PrepareSnapshot(h)
  <2> USE <1>2 DEF PrepareSnapshot
  <2>1. CASE Leave(h)
    BY <2>1, LeaveKnowsNothing
  <2>2. CASE ~ Leave(h)
    <3>1. /\ pc'[h] = IF IntegrationOwned THEN "prepare_bind" ELSE "prepare_read"
          /\ seen'[h] = seen[h] /\ auth'[h] = SnapshotOf(h) /\ pending'[h] \in Executors
          /\ contributions' = contributions
          /\ SnapshotOf(h).status = "authorization_ready"
      BY <2>2 DEF TypeOK, TakeSnapshot, store
    <3>2. StillBound(seen[h]) /\ SnapshotOf(h) \in Snapshot
      BY <1>0, CopyType DEF HandlerConsistent, ReadLabels, Labels
    <3>3. StillBound(seen[h])'
      BY <3>1, <3>2, SeenBindingPersists DEF StillBound
    <3>4. Authorized(SnapshotOf(h).plan)
      BY <3>1, ReadyIsAuthorized
    <3>5. Authorized(auth[h].plan)'
      BY <3>1, <3>4 DEF Authorized
    <3>6. pc'[h] = "prepare_read" => UsesBinding(pending[h])'
      BY <3>1 DEF UsesBinding
    <3> QED BY <3>1, <3>2, <3>3, <3>5, <3>6 DEF HandlerConsistent
  <2> QED BY <2>1, <2>2
<1>3. CASE BindExecutor(h)
  <2>1. /\ pc'[h] = "prepare_read" /\ seen'[h] = seen[h] /\ auth'[h] = auth[h]
        /\ contributions' = contributions /\ cancellation' = cancellation
        /\ pending'[h] = IF ExistingBinding(h) = None THEN pending[h] ELSE ExistingBinding(h)
    BY <1>3 DEF BindExecutor, TypeOK
  <2>2. /\ StillBound(seen[h]) /\ auth[h] \in Snapshot /\ Authorized(auth[h].plan)
        /\ pending[h] \in Executors
    BY <1>0, <1>3 DEF BindExecutor, HandlerConsistent, ReadLabels, Labels
  <2>3. StillBound(seen[h])'
    BY <2>1, <2>2, SeenBindingPersists DEF StillBound
  <2>4. Authorized(auth[h].plan)'
    BY <2>1, <2>2 DEF Authorized
  <2>5. ExistingBinding(h) = binding
    BY <2>2 DEF ExistingBinding, StillBound
  <2>6. pending'[h] \in Executors
    BY <2>1, <2>2, <2>5 DEF TypeOK
  <2>7. pending'[h] = binding' \/ cancellation' # {}
    BY <1>3, <2>1, <2>5 DEF BindExecutor, CancelledRow
  <2> QED BY <2>1, <2>2, <2>3, <2>4, <2>6, <2>7 DEF HandlerConsistent, UsesBinding
<1>4. CASE PrepareRead(h)
  <2> USE <1>4 DEF PrepareRead
  <2>1. CASE Leave(h)
    BY <2>1, LeaveKnowsNothing
  <2>2. CASE ~ Leave(h)
    <3>1. /\ pc'[h] = "prepare_simulate" /\ auth'[h] = auth[h] /\ pending'[h] = pending[h]
          /\ contributions' = contributions /\ cancellation' = cancellation
          /\ binding' = binding
      BY <2>2 DEF TypeOK, store
    <3>2. /\ auth[h] \in Snapshot /\ Authorized(auth[h].plan) /\ pending[h] \in Executors
          /\ UsesBinding(pending[h])
      BY <1>0 DEF HandlerConsistent
    <3>3. StillBound(seen[h])'
      BY <2>2, ReadKnows
    <3>4. Authorized(auth[h].plan)'
      BY <3>1, <3>2 DEF Authorized
    <3> QED BY <3>1, <3>2, <3>3, <3>4 DEF HandlerConsistent, UsesBinding
  <2> QED BY <2>1, <2>2
<1>5. CASE PrepareSimulate(h)
  <2> USE <1>5 DEF PrepareSimulate
  <2>1. CASE Leave(h)
    BY <2>1, LeaveKnowsNothing
  <2>2. CASE ~ Leave(h)
    <3> DEFINE p == [rev |-> Revision(seen[h].chain), plan |-> Current(seen[h].chain),
                     tx |-> [auth |-> auth[h].plan, source |-> pending[h],
                             seq |-> sequence[pending[h]]]]
    <3>1. /\ pc'[h] = "prepare_recheck" /\ seen'[h] = seen[h] /\ pending'[h] = p
          /\ UNCHANGED <<chain, contributions, cancellation, binding>>
      BY <2>2 DEF TypeOK, store
    <3>2. /\ auth[h] \in Snapshot /\ Authorized(auth[h].plan) /\ pending[h] \in Executors
          /\ UsesBinding(pending[h]) /\ StillBound(seen[h])
      BY <1>0 DEF HandlerConsistent, ReadLabels, Labels
    <3>3. Current(seen[h].chain) \in Plan /\ Revision(seen[h].chain) \in Revisions
      BY <1>0, CopyType DEF ReadLabels, Labels
    <3>4. p \in Preparation
      BY <3>2, <3>3 DEF Preparation, Transaction, Snapshot, TypeOK
    <3>6. StillBound(seen[h])'
      BY <3>1, <3>2, SeenBindingPersists DEF StillBound
    <3>7. Authorized(pending[h].tx.auth)'
      BY <3>1, <3>2 DEF Authorized
    <3>8. UsesBinding(pending[h].tx.source)'
      BY <3>1, <3>2 DEF UsesBinding
    <3> QED BY <3>1, <3>4, <3>6, <3>7, <3>8 DEF HandlerConsistent
  <2> QED BY <2>1, <2>2
<1>6. CASE PrepareRecheck(h)
  <2> USE <1>6 DEF PrepareRecheck
  <2>1. CASE Leave(h)
    BY <2>1, LeaveKnowsNothing
  <2>2. CASE ~ Leave(h)
    <3>1. /\ pc'[h] = "prepare_put" /\ seen'[h] = seen[h] /\ pending'[h] = pending[h]
          /\ UNCHANGED <<chain, contributions, cancellation, binding>>
      BY <2>2 DEF TypeOK, Continue, store
    <3>2. StillBound(seen[h])
      BY <1>0 DEF HandlerConsistent, ReadLabels, Labels
    <3>3. StillBound(seen[h])'
      BY <3>1, <3>2, SeenBindingPersists DEF StillBound
    <3> QED BY <1>0, <3>1, <3>3 DEF HandlerConsistent, Authorized, UsesBinding
  <2> QED BY <2>1, <2>2
<1>7. CASE PutExecutionPreparation(h)
  <2>1. pc'[h] = "prepare_after" /\ seen'[h] = seen[h] /\ pending'[h] = pending[h]
    BY <1>7 DEF PutExecutionPreparation, TypeOK
  <2>2. StillBound(seen[h]) /\ pending[h] \in Preparation
    BY <1>0, <1>7 DEF HandlerConsistent, ReadLabels, Labels, PutExecutionPreparation
  <2>3. StillBound(seen[h])'
    BY <2>1, <2>2, SeenBindingPersists DEF StillBound
  <2>4. cancellation' # {} \/ pending'[h] \in preparations'
    BY <1>7, <2>1 DEF PutExecutionPreparation, CancelledRow
  <2> QED BY <2>1, <2>2, <2>3, <2>4 DEF HandlerConsistent
<1>8. CASE ReleasePackage(h)
  BY <1>8, LeaveKnowsNothing DEF ReleasePackage
<1> QED BY <1>1, <1>2, <1>3, <1>4, <1>5, <1>6, <1>7, <1>8 DEF PrepareStep

LEMMA CancelKnows ==
    ASSUME TypeOK, NEW h \in Handlers, CancelStep(h)
    PROVE  HandlerConsistent(h)'
<1>1. CASE StartCancel(h)
  <2> DEFINE c == [rev |-> Revision(chain), plan |-> Current(chain)]
  <2>1. pc'[h] = "cancel_write" /\ pending'[h] = c
    BY <1>1 DEF StartCancel, Goto, TypeOK
  <2>2. c \in Cancellation
    BY CurrentType DEF TypeOK, Cancellation, Revision, Revisions
  <2> QED
    BY <2>1, <2>2 DEF HandlerConsistent, ReadLabels, ReplanLabels, ReadyLabels, BoundLabels, PackageLabels
<1>2. CASE CancelIntent(h)
  BY <1>2, LeaveKnowsNothing DEF CancelIntent
<1> QED BY <1>1, <1>2 DEF CancelStep

LEMMA ReconcileKnows ==
    ASSUME TypeOK, HandlersConsistent, NEW h \in Handlers, ReconcileStep(h)
    PROVE  HandlerConsistent(h)'
<1> USE DEF ReadLabels, ReplanLabels, ReadyLabels, BoundLabels, PackageLabels, Goto
<1>0. HandlerConsistent(h)
  BY DEF HandlersConsistent
<1>1. CASE StartReconcile(h)
  BY <1>1 DEF StartReconcile, TypeOK, store, HandlerConsistent
<1>2. CASE ReconcileLoad(h)
  <2> USE <1>2 DEF ReconcileLoad, Verdict
  <2>1. CASE Leave(h)
    BY <2>1, LeaveKnowsNothing
  <2>2. CASE ~ Leave(h)
    <3>1. PICK r \in landed : /\ r.tx = pending[h].tx
             /\ pending' = [pending EXCEPT ![h] =
                   [rev |-> @.rev, plan |-> @.plan, tx |-> @.tx, successful |-> r.successful]]
      BY <2>2
    <3>2. pending[h] \in preparations /\ pending[h] \in Preparation
      BY <1>0 DEF HandlerConsistent, TypeOK
    <3>3. pending'[h] = [rev |-> pending[h].rev, plan |-> pending[h].plan, tx |-> pending[h].tx,
                         successful |-> r.successful]
      BY <3>1 DEF TypeOK
    <3>4. pending'[h] \in Observation
      BY <3>1, <3>2, <3>3 DEF TypeOK, Preparation, Observation
    <3>5. [rev |-> pending'[h].rev, plan |-> pending'[h].plan, tx |-> pending'[h].tx]
             \in preparations
      BY <3>2, <3>3 DEF Preparation
    <3>6. [tx |-> pending'[h].tx, successful |-> pending'[h].successful] \in landed
      BY <3>1, <3>3 DEF TypeOK
    <3>7. pc'[h] = "reconcile_put" /\ preparations' = preparations /\ landed' = landed
      BY <2>2 DEF TypeOK, store, network
    <3> QED BY <3>4, <3>5, <3>6, <3>7 DEF HandlerConsistent
  <2> QED BY <2>1, <2>2
<1>3. CASE PutExecutionObservation(h)
  BY <1>3, LeaveKnowsNothing DEF PutExecutionObservation
<1> QED BY <1>1, <1>2, <1>3 DEF ReconcileStep

\* Every step keeps every handler's knowledge true.
LEMMA NextKeepsKnowledge ==
    ASSUME Inv, [Next]_vars, TypeOK', StoreGrows
    PROVE  HandlersConsistent'
<1>0. TypeOK /\ HandlersConsistent
  BY DEF Inv
<1>1. ASSUME UNCHANGED handlers PROVE HandlersConsistent'
  BY <1>0, <1>1, OthersKeepTheirKnowledge DEF handlers, LocalsKept, HandlersConsistent
<1>2. ASSUME NEW h \in Handlers,
             \/ ContributeStep(h) \/ ReplanStep(h) \/ PrepareStep(h)
             \/ CancelStep(h) \/ ReconcileStep(h) \/ Abandon(h)
      PROVE  HandlersConsistent'
  <2>1. HandlerConsistent(h)'
    BY <1>0, <1>2, ContributeKnows, ReplanKnows, PrepareKnows, CancelKnows, ReconcileKnows,
       LeaveKnowsNothing DEF Abandon
  <2>2. ASSUME NEW g \in Handlers, g # h PROVE HandlerConsistent(g)'
    BY <1>0, <1>2, <2>2, StepsAreLocal, OthersKeepTheirKnowledge DEF HandlersConsistent
  <2> QED BY <2>1, <2>2 DEF HandlersConsistent
<1>3. NetworkStep => UNCHANGED handlers
  BY DEF NetworkStep, CloseLedger, ChangeEffects, RemoveSigner, Submit
<1> QED BY <1>1, <1>2, <1>3 DEF Next, vars, handlers

-----------------------------------------------------------------------------
\* The six store operations are the only steps that write rows.
StoreWrite(h) ==
    \/ PutContribution(h) \/ UpdateIntent(h) \/ BindExecutor(h)
    \/ PutExecutionPreparation(h) \/ CancelIntent(h) \/ PutExecutionObservation(h)

LEMMA OnlyStoreWrites ==
    ASSUME [Next]_vars
    PROVE  UNCHANGED store \/ \E h \in Handlers : StoreWrite(h)
<1>1. ASSUME NEW h \in Handlers, ContributeStep(h)
      PROVE  UNCHANGED store \/ StoreWrite(h)
  BY <1>1 DEF ContributeStep, StartContribute, ReadIntent, ContributeSnapshot,
     ContributeRecheck, ContributeAfter, StoreWrite
<1>2. ASSUME NEW h \in Handlers, ReplanStep(h)
      PROVE  UNCHANGED store \/ StoreWrite(h)
  BY <1>2 DEF ReplanStep, StartReplan, ReadIntent, ReplanSnapshot, ReplanRead, ReplanPlan,
     ReplanRecheck, ReplanAfter, StoreWrite
<1>3. ASSUME NEW h \in Handlers, PrepareStep(h)
      PROVE  UNCHANGED store \/ StoreWrite(h)
  BY <1>3 DEF PrepareStep, StartPrepare, ReadIntent, PrepareSnapshot, PrepareRead,
     PrepareSimulate, PrepareRecheck, ReleasePackage, StoreWrite
<1>4. ASSUME NEW h \in Handlers, CancelStep(h) \/ ReconcileStep(h) \/ Abandon(h)
      PROVE  UNCHANGED store \/ StoreWrite(h)
  BY <1>4 DEF CancelStep, StartCancel, ReconcileStep, StartReconcile, ReconcileLoad, Abandon,
     StoreWrite
<1>5. NetworkStep => UNCHANGED store
  BY DEF NetworkStep, CloseLedger, ChangeEffects, RemoveSigner, Submit
<1>6. UNCHANGED vars => UNCHANGED store
  BY DEF vars
<1> QED BY <1>1, <1>2, <1>3, <1>4, <1>5, <1>6 DEF Next

\* Authorization is complete in every package after a step: contributions are
\* never deleted and a new package was checked when its handler took it up.
LEMMA NextKeepsAuthorization ==
    ASSUME Inv, [Next]_vars, StoreGrows
    PROVE  PreparedAuthIsComplete'
<1>0. PreparedAuthIsComplete /\ (\A h \in Handlers : HandlerConsistent(h))
  BY DEF Inv, HandlersConsistent
<1>1. ASSUME NEW p, Authorized(p.tx.auth) PROVE Authorized(p.tx.auth)'
  <2>1. \A e \in Entries : \E Q \in Quorums : \A s \in Q : \E c \in contributions' :
           c.plan = p.tx.auth /\ c.entry = e /\ c.signer = s
    BY <1>1, AuthorizedPersists
  <2> QED BY <2>1 DEF Authorized
<1>2. ASSUME preparations' \subseteq preparations PROVE PreparedAuthIsComplete'
  BY <1>0, <1>1, <1>2 DEF PreparedAuthIsComplete
<1>3. ASSUME NEW h \in Handlers, StoreWrite(h) PROVE PreparedAuthIsComplete'
  <2>1. CASE PutExecutionPreparation(h)
    <3>1. Authorized(pending[h].tx.auth) /\ preparations' \subseteq preparations \cup {pending[h]}
      BY <1>0, <2>1 DEF PutExecutionPreparation, HandlerConsistent, PackageLabels
    <3> QED BY <1>0, <1>1, <3>1 DEF PreparedAuthIsComplete
  <2>2. CASE ~ PutExecutionPreparation(h)
    BY <1>2, <1>3, <2>2 DEF StoreWrite, PutContribution, UpdateIntent, BindExecutor,
       CancelIntent, PutExecutionObservation
  <2> QED BY <2>1, <2>2
<1>4. CASE UNCHANGED store
  BY <1>2, <1>4 DEF store
<1> QED BY <1>3, <1>4, OnlyStoreWrites

\* A package that is stored names the bound executor: the handler that stores
\* it holds either that executor or a cancelled Intent, which stores nothing.
LEMMA NextKeepsExecutor ==
    ASSUME Inv, [Next]_vars, TypeOK', StoreGrows
    PROVE  OneExecutor'
<1>0. TypeOK /\ OneExecutor /\ (\A h \in Handlers : HandlerConsistent(h))
  BY DEF Inv, HandlersConsistent
<1>1. ASSUME NEW p \in preparations, IntegrationOwned PROVE p.tx.source = binding'
  <2>1. p.tx.source \in Executors /\ p.tx.source = binding
    BY <1>0, <1>1 DEF TypeOK, Preparation, Transaction, OneExecutor
  <2> QED BY <2>1, NoneAssumption DEF StoreGrows
<1>2. ASSUME preparations' \subseteq preparations PROVE OneExecutor'
  BY <1>1, <1>2 DEF OneExecutor
<1>3. ASSUME NEW h \in Handlers, StoreWrite(h) PROVE OneExecutor'
  <2>1. CASE PutExecutionPreparation(h)
    <3>1. UsesBinding(pending[h].tx.source)
      BY <1>0, <2>1 DEF PutExecutionPreparation, HandlerConsistent, PackageLabels
    <3>2. binding' = binding
      BY <2>1 DEF PutExecutionPreparation
    <3>3. CASE CancelledRow
      BY <1>2, <2>1, <3>3 DEF PutExecutionPreparation
    <3>4. CASE ~ CancelledRow
      BY <1>1, <2>1, <3>1, <3>2, <3>4
         DEF PutExecutionPreparation, CancelledRow, OneExecutor, UsesBinding
    <3> QED BY <3>3, <3>4
  <2>2. CASE ~ PutExecutionPreparation(h)
    BY <1>2, <1>3, <2>2 DEF StoreWrite, PutContribution, UpdateIntent, BindExecutor,
       CancelIntent, PutExecutionObservation
  <2> QED BY <2>1, <2>2
<1>4. CASE UNCHANGED store
  BY <1>2, <1>4 DEF store
<1> QED BY <1>3, <1>4, OnlyStoreWrites

\* Whatever is answered as durable is durable.
LEMMA NextKeepsAnswers ==
    ASSUME Inv, [Next]_vars, StoreGrows
    PROVE  AnswersAreDurable'
<1>0. AnswersAreDurable /\ (\A h \in Handlers : HandlerConsistent(h))
  BY DEF Inv, HandlersConsistent
<1>1. ASSUME UNCHANGED answers PROVE AnswersAreDurable'
  BY <1>0, <1>1 DEF AnswersAreDurable, StoreGrows, answers
<1>2. ASSUME NEW h \in Handlers, ContributeAfter(h) PROVE AnswersAreDurable'
  <2>1. cancellation # {} \/ pending[h] \in contributions
    BY <1>0, <1>2 DEF ContributeAfter, HandlerConsistent
  <2> QED BY <1>0, <1>2, <2>1 DEF ContributeAfter, MayAnswer, AnswersAreDurable, StoreGrows
<1>3. ASSUME NEW h \in Handlers, ReleasePackage(h) PROVE AnswersAreDurable'
  <2>1. cancellation # {} \/ pending[h] \in preparations
    BY <1>0, <1>3 DEF ReleasePackage, HandlerConsistent
  <2> QED BY <1>0, <1>3, <2>1 DEF ReleasePackage, MayAnswer, AnswersAreDurable, StoreGrows
<1>4. ASSUME NEW h \in Handlers, ContributeStep(h) PROVE AnswersAreDurable'
  BY <1>1, <1>2, <1>4 DEF ContributeStep, StartContribute, ReadIntent, ContributeSnapshot,
     ContributeRecheck, PutContribution
<1>5. ASSUME NEW h \in Handlers, ReplanStep(h) PROVE AnswersAreDurable'
  BY <1>1, <1>5 DEF ReplanStep, StartReplan, ReadIntent, ReplanSnapshot, ReplanRead, ReplanPlan,
     ReplanRecheck, UpdateIntent, ReplanAfter
<1>6. ASSUME NEW h \in Handlers, PrepareStep(h) PROVE AnswersAreDurable'
  BY <1>1, <1>3, <1>6 DEF PrepareStep, StartPrepare, ReadIntent, PrepareSnapshot, BindExecutor,
     PrepareRead, PrepareSimulate, PrepareRecheck, PutExecutionPreparation
<1>7. ASSUME NEW h \in Handlers, CancelStep(h) \/ ReconcileStep(h) \/ Abandon(h)
      PROVE  AnswersAreDurable'
  BY <1>1, <1>7 DEF CancelStep, StartCancel, CancelIntent, ReconcileStep, StartReconcile,
     ReconcileLoad, PutExecutionObservation, Abandon
<1>8. NetworkStep => UNCHANGED answers
  BY DEF NetworkStep, CloseLedger, ChangeEffects, RemoveSigner, Submit
<1>9. UNCHANGED vars => UNCHANGED answers
  BY DEF vars
<1> QED BY <1>1, <1>4, <1>5, <1>6, <1>7, <1>8, <1>9 DEF Next

\* Observations stay true: ledger results are final, packages are never
\* deleted, and a transaction that has a row gets no second one.
LEMMA NextKeepsObservations ==
    ASSUME Inv, [Next]_vars, StoreGrows
    PROVE  ObservationsAreTrue'
<1>0. ObservationsAreTrue /\ (\A h \in Handlers : HandlerConsistent(h))
  BY DEF Inv, HandlersConsistent
<1>1. ASSUME observations' = observations PROVE ObservationsAreTrue'
  BY <1>0, <1>1 DEF ObservationsAreTrue, StoreGrows
<1>2. ASSUME NEW h \in Handlers, StoreWrite(h) PROVE ObservationsAreTrue'
  <2>1. CASE PutExecutionObservation(h)
    <3> DEFINE o == pending[h]
    <3>1. /\ [rev |-> o.rev, plan |-> o.plan, tx |-> o.tx] \in preparations
          /\ [tx |-> o.tx, successful |-> o.successful] \in landed
      BY <1>0, <2>1 DEF PutExecutionObservation, HandlerConsistent
    <3>2. CASE ObservedTx(o.tx)
      BY <1>1, <2>1, <3>2 DEF PutExecutionObservation
    <3>3. CASE ~ ObservedTx(o.tx)
      <4>1. observations' = observations \cup {o} /\ \A other \in observations : other.tx # o.tx
        BY <2>1, <3>3 DEF PutExecutionObservation, ObservedTx
      <4> QED BY <1>0, <3>1, <4>1 DEF ObservationsAreTrue, StoreGrows
    <3> QED BY <3>2, <3>3
  <2>2. CASE ~ PutExecutionObservation(h)
    BY <1>1, <1>2, <2>2 DEF StoreWrite, PutContribution, UpdateIntent, BindExecutor,
       PutExecutionPreparation, CancelIntent
  <2> QED BY <2>1, <2>2
<1>3. CASE UNCHANGED store
  BY <1>1, <1>3 DEF store
<1> QED BY <1>2, <1>3, OnlyStoreWrites

-----------------------------------------------------------------------------
\* The invariant is inductive.
LEMMA NextPreserves == Inv /\ [Next]_vars => Inv'
<1> SUFFICES ASSUME Inv, [Next]_vars PROVE Inv'
  OBVIOUS
<1>1. TypeOK' /\ StoreGrows
  BY NextPreservesTypes, NextGrows
<1>2. HandlersConsistent' /\ AnswersAreDurable'
  BY <1>1, NextKeepsKnowledge, NextKeepsAnswers
<1>3. PreparedAuthIsComplete' /\ OneExecutor' /\ ObservationsAreTrue'
  BY <1>1, NextKeepsAuthorization, NextKeepsExecutor, NextKeepsObservations
<1> QED BY <1>1, <1>2, <1>3 DEF Inv

\* The whole inductive invariant holds in every reachable state.
THEOREM Invariance == Spec => []Inv
BY InitEstablishes, NextPreserves, PTL DEF Spec

\* Stored rows, handlers and network are well typed in every reachable state.
THEOREM TypeCorrectness == Spec => []TypeOK
<1>1. Inv => TypeOK
  BY DEF Inv
<1> QED BY <1>1, Invariance, PTL

\* No interleaving lets a handler act on a row, a binding or an authorization
\* that was never, or is no longer, what the handler takes it for.
THEOREM Knowledge == Spec => []HandlersConsistent
<1>1. Inv => HandlersConsistent
  BY DEF Inv
<1> QED BY <1>1, Invariance, PTL

\* A contribution or package answered to a caller is stored, though the store
\* skips writes on a cancelled Intent without an error.
THEOREM AnswersStayDurable == Spec => []AnswersAreDurable
<1>1. Inv => AnswersAreDurable
  BY DEF Inv
<1> QED BY <1>1, Invariance, PTL

\* No package is stored whose AUTH a sufficient signer set did not contribute
\* for the plan the AUTH comes from, for every weight and threshold.
THEOREM PackagesAreAuthorized == Spec => []PreparedAuthIsComplete
<1>1. Inv => PreparedAuthIsComplete
  BY DEF Inv
<1> QED BY <1>1, Invariance, PTL

\* All packages of an Integration-owned Intent name the bound executor.
THEOREM PackagesShareTheExecutor == Spec => []OneExecutor
<1>1. Inv => OneExecutor
  BY DEF Inv
<1> QED BY <1>1, Invariance, PTL

\* Observations report what the ledger did with a prepared transaction.
THEOREM ObservationsStayTrue == Spec => []ObservationsAreTrue
<1>1. Inv => ObservationsAreTrue
  BY DEF Inv
<1> QED BY <1>1, Invariance, PTL

-----------------------------------------------------------------------------
\* After a cancellation no step adds a contribution, plan, executor or package
\* nor touches the cancellation: every store write looks at its table first.
THEOREM CancelledStaysClosed == Spec => CancellationCloses
<1> DEFINE Closed == cancellation # {} =>
             UNCHANGED <<chain, cancellation, binding, contributions, preparations>>
<1>1. ASSUME [Next]_vars PROVE [Closed]_store
  <2>1. ASSUME NEW h \in Handlers, StoreWrite(h) PROVE Closed
    BY <2>1 DEF StoreWrite, PutContribution, UpdateIntent, BindExecutor,
       PutExecutionPreparation, CancelIntent, PutExecutionObservation, CancelledRow
  <2> QED BY <1>1, <2>1, OnlyStoreWrites
<1> QED BY <1>1, PTL DEF Spec, CancellationCloses

\* A cancellation is never stored over a recorded success: cancelIntent looks
\* at the observations inside the transaction that inserts the row.
THEOREM SuccessStands == Spec => SuccessBeatsCancellation
<1> DEFINE Refused == cancellation' # cancellation => ~ Executed
<1>1. ASSUME [Next]_vars PROVE [Refused]_store
  <2>1. ASSUME NEW h \in Handlers, StoreWrite(h) PROVE Refused
    BY <2>1 DEF StoreWrite, PutContribution, UpdateIntent, BindExecutor, SuccessfulRow,
       PutExecutionPreparation, CancelIntent, PutExecutionObservation, Executed
  <2> QED BY <1>1, <2>1, OnlyStoreWrites
<1> QED BY <1>1, PTL DEF Spec, SuccessBeatsCancellation

\* However replans race, the revision of the Intent never falls, never skips,
\* and a new revision keeps the plan it supersedes: updateIntent compares the
\* predecessor of a revision that grows under the lock of the row.
THEOREM RevisionsStayContiguous == Spec => RevisionsAreContiguous
<1> DEFINE Contiguous ==
        /\ Revision(chain') \in {Revision(chain), Revision(chain) + 1}
        /\ Revision(chain') > Revision(chain) => chain'[Revision(chain)] = Current(chain)
<1>1. ASSUME Inv, [Next]_vars PROVE [Contiguous]_chain
  <2>1. Len(chain) \in Nat
    BY <1>1 DEF Inv, TypeOK
  <2>2. ASSUME NEW h \in Handlers, UpdateIntent(h) PROVE [Contiguous]_chain
    BY <2>1, <2>2 DEF UpdateIntent, Accepts, Revision
  <2>3. ASSUME NEW h \in Handlers, StoreWrite(h), ~ UpdateIntent(h) PROVE UNCHANGED chain
    BY <2>3 DEF StoreWrite, PutContribution, BindExecutor, PutExecutionPreparation,
       CancelIntent, PutExecutionObservation
  <2>4. UNCHANGED store => UNCHANGED chain
    BY DEF store
  <2> QED BY <1>1, <2>2, <2>3, <2>4, OnlyStoreWrites
<1> QED BY <1>1, Invariance, PTL DEF Spec, RevisionsAreContiguous

-----------------------------------------------------------------------------
(* The second part: what holds of the plans when replans do not overlap.    *)

PlanInv == PlansConsistent /\ FactsNameTheirPlan

ChainGrows == Len(chain) <= Len(chain') /\ \A r \in 1..Len(chain) : chain'[r] = chain[r]

\* A replan that read the current plan appends one revision or writes nothing.
LEMMA UpdateExtends ==
    ASSUME TypeOK, NEW h \in Handlers, HandlerConsistent(h), PlanConsistent(h),
           UpdateIntent(h), ~ CancelledRow, Accepts(pending[h].chain, chain)
    PROVE  /\ chain' = pending[h].chain /\ chain' \in Seq(Plan)
           /\ Len(chain) \in Nat \ {0} /\ Len(chain') = Len(chain) + 1
           /\ \A r \in 1..Len(chain) : chain'[r] = chain[r]
<1>1. chain' = pending[h].chain /\ chain' \in Seq(Plan)
  BY DEF UpdateIntent, HandlerConsistent
<1>2. Len(chain) \in Nat \ {0}
  BY DEF TypeOK
<1>3. Len(chain') = Len(chain) + 1 /\ \A r \in 1..Len(chain) : chain'[r] = chain[r]
  BY <1>1 DEF UpdateIntent, PlanConsistent
<1> QED BY <1>1, <1>2, <1>3

\* Only updateIntent moves the plan history.
LEMMA OnlyUpdateIntent ==
    ASSUME [Next]_vars, chain' # chain
    PROVE  \E h \in Handlers : /\ UpdateIntent(h) /\ ~ CancelledRow
                               /\ Accepts(pending[h].chain, chain)
<1>1. PICK h \in Handlers : StoreWrite(h)
  BY OnlyStoreWrites DEF store
<1>2. UpdateIntent(h)
  BY <1>1 DEF StoreWrite, PutContribution, BindExecutor, PutExecutionPreparation,
     CancelIntent, PutExecutionObservation
<1> QED BY <1>2 DEF UpdateIntent

LEMMA NextExtends ==
    ASSUME Inv, PlansConsistent, [Next]_vars
    PROVE  ChainGrows
<1>0. TypeOK /\ Len(chain) \in Nat
  BY DEF Inv, TypeOK
<1>1. CASE chain' = chain
  BY <1>0, <1>1 DEF ChainGrows
<1>2. CASE chain' # chain
  <2>1. PICK h \in Handlers : /\ UpdateIntent(h) /\ ~ CancelledRow
                              /\ Accepts(pending[h].chain, chain)
    BY <1>2, OnlyUpdateIntent
  <2>2. HandlerConsistent(h) /\ PlanConsistent(h)
    BY DEF Inv, HandlersConsistent, PlansConsistent
  <2> QED BY <1>0, <2>1, <2>2, UpdateExtends DEF ChainGrows
<1> QED BY <1>1, <1>2

\* A fact that names its plan goes on naming it.
LEMMA NamesPersist ==
    ASSUME TypeOK, TypeOK', ChainGrows, NEW f, Names(f)
    PROVE  f.rev \in DOMAIN chain' /\ chain'[f.rev] = f.plan
<1>1. DOMAIN chain = 1..Len(chain) /\ DOMAIN chain' = 1..Len(chain')
  BY DEF TypeOK
<1>2. Len(chain) \in Nat /\ Len(chain') \in Nat
  BY DEF TypeOK
<1>3. f.rev \in 1..Len(chain) /\ chain[f.rev] = f.plan
  BY <1>1 DEF Names
<1> QED BY <1>1, <1>2, <1>3 DEF ChainGrows

\* A copy of the history stays a prefix of it.
LEMMA PrefixPersists ==
    ASSUME TypeOK, TypeOK', ChainGrows, NEW c, Len(c) \in Nat, PrefixOfChain(c)
    PROVE  Len(c) <= Len(chain') /\ \A r \in 1..Len(c) : c[r] = chain'[r]
<1>1. Len(chain) \in Nat /\ Len(chain') \in Nat
  BY DEF TypeOK
<1> QED BY <1>1 DEF ChainGrows, PrefixOfChain

\* A handler that is not replanning knows no less after a replan of another.
LEMMA OthersKeepTheirPlans ==
    ASSUME TypeOK, TypeOK', ChainGrows, NEW g \in Handlers, LocalsKept(g),
           HandlerConsistent(g), PlanConsistent(g),
           chain' = chain \/ pc[g] \notin ReplanLabels
    PROVE  PlanConsistent(g)'
<1>0. pc'[g] = pc[g] /\ seen'[g] = seen[g] /\ pending'[g] = pending[g]
  BY DEF LocalsKept
<1>1. (pc[g] \in ReadLabels => PrefixOfChain(seen[g].chain))'
  <2> SUFFICES ASSUME pc[g] \in ReadLabels PROVE PrefixOfChain(seen[g].chain)'
    BY <1>0 DEF ReadLabels, Labels
  <2>1. PrefixOfChain(seen[g].chain) /\ Len(seen[g].chain) \in Nat
    BY CopyType DEF PlanConsistent
  <2>2. /\ Len(seen[g].chain) <= Len(chain')
        /\ \A r \in 1..Len(seen[g].chain) : seen[g].chain[r] = chain'[r]
    BY <2>1, PrefixPersists
  <2> QED BY <1>0, <2>2 DEF PrefixOfChain
<1>2. (pc[g] \in {"replan_plan", "replan_recheck", "replan_write"} => seen[g].chain = chain)'
  BY <1>0 DEF PlanConsistent, ReplanLabels
<1>3. (pc[g] \in {"replan_recheck", "replan_write"} =>
          /\ Len(pending[g].chain) = Len(chain) + 1
          /\ \A r \in 1..Len(chain) : pending[g].chain[r] = chain[r])'
  BY <1>0 DEF PlanConsistent, ReplanLabels
<1>4. (pc[g] \in {"contribute_put", "cancel_write"} \cup PackageLabels => Names(pending[g]))'
  <2> SUFFICES ASSUME pc[g] \in {"contribute_put", "cancel_write"} \cup PackageLabels
      PROVE  Names(pending[g])'
      BY <1>0 DEF PackageLabels
  <2>1. Names(pending[g])
    BY DEF PlanConsistent
  <2>2. pending[g].rev \in DOMAIN chain' /\ chain'[pending[g].rev] = pending[g].plan
    BY <2>1, NamesPersist
  <2> QED BY <1>0, <2>2 DEF Names
<1> QED BY <1>1, <1>2, <1>3, <1>4 DEF PlanConsistent

\* A handler that keeps its copy of the history keeps a prefix.
LEMMA CopyStaysPrefix ==
    ASSUME TypeOK, TypeOK', ChainGrows, NEW h \in Handlers, HandlerConsistent(h),
           PlanConsistent(h), pc[h] \in ReadLabels, seen'[h] = seen[h]
    PROVE  PrefixOfChain(seen[h].chain)'
<1>1. PrefixOfChain(seen[h].chain) /\ Len(seen[h].chain) \in Nat
  BY CopyType DEF PlanConsistent
<1>2. /\ Len(seen[h].chain) <= Len(chain')
      /\ \A r \in 1..Len(seen[h].chain) : seen[h].chain[r] = chain'[r]
  BY <1>1, PrefixPersists
<1> QED BY <1>2 DEF PrefixOfChain

\* A handler that reads the row has the whole history.
LEMMA ReadIsChain ==
    ASSUME TypeOK, NEW h \in Handlers, seen' = [seen EXCEPT ![h] = GetIntent], UNCHANGED store
    PROVE  seen'[h].chain = chain' /\ PrefixOfChain(seen[h].chain)'
<1>1. seen'[h] = GetIntent /\ chain' = chain
  BY DEF TypeOK, store
<1>2. seen'[h].chain = chain' /\ Len(chain) \in Nat
  BY <1>1 DEF GetIntent, TypeOK
<1> QED BY <1>1, <1>2 DEF PrefixOfChain

\* A handler that leaves holds no plan.
LEMMA LeaveHoldsNoPlan ==
    ASSUME TypeOK, NEW h \in Handlers, Leave(h)
    PROVE  PlanConsistent(h)'
<1>1. pc'[h] = "idle"
  BY DEF TypeOK, Leave, Goto
<1> QED BY <1>1 DEF PlanConsistent, ReadLabels, PackageLabels

\* The current plan of the stored history, with its revision, names itself.
LEMMA CurrentIsNamed ==
    ASSUME TypeOK, NEW f, f.rev = Revision(chain), f.plan = Current(chain)
    PROVE  Names(f)
<1>1. DOMAIN chain = 1..Len(chain) /\ Len(chain) \in Nat \ {0}
  BY DEF TypeOK
<1> QED BY <1>1 DEF Names, Revision, Current

LEMMA ContributePlans ==
    ASSUME TypeOK, TypeOK', ChainGrows, NEW h \in Handlers, HandlerConsistent(h),
           PlanConsistent(h), ContributeStep(h)
    PROVE  PlanConsistent(h)'
<1> USE DEF Goto, PackageLabels
<1>1. CASE StartContribute(h)
  <2>1. PrefixOfChain(seen[h].chain)'
    BY <1>1, ReadIsChain DEF StartContribute, ReadIntent
  <2>2. pc'[h] = "contribute_snapshot"
    BY <1>1 DEF StartContribute, ReadIntent, TypeOK
  <2> QED BY <2>1, <2>2 DEF PlanConsistent
<1>2. CASE ContributeSnapshot(h)
  <2> USE <1>2 DEF ContributeSnapshot
  <2>1. CASE Leave(h)
    BY <2>1, LeaveHoldsNoPlan
  <2>2. CASE ~ Leave(h)
    <3>1. pc'[h] = "contribute_recheck" /\ seen'[h] = seen[h]
      BY <2>2 DEF TypeOK
    <3>2. PrefixOfChain(seen[h].chain)'
      BY <3>1, CopyStaysPrefix DEF ReadLabels, Labels
    <3> QED BY <3>1, <3>2 DEF PlanConsistent
  <2> QED BY <2>1, <2>2
<1>3. CASE ContributeRecheck(h)
  <2> USE <1>3 DEF ContributeRecheck
  <2>1. CASE Leave(h)
    BY <2>1, LeaveHoldsNoPlan
  <2>2. CASE ~ Leave(h)
    <3>1. pc'[h] = "contribute_put" /\ seen'[h] = seen[h] /\ chain' = chain
      BY <2>2 DEF TypeOK, store
    <3>2. PrefixOfChain(seen[h].chain)'
      BY <3>1, CopyStaysPrefix DEF ReadLabels, Labels
    <3>3. pending[h] \in Contribution /\ pending[h].plan = auth[h].plan
      BY DEF HandlerConsistent
    <3>4. /\ pending'[h] = [pending[h] EXCEPT !.rev = Revision(chain)]
          /\ Current(chain) = auth[h].plan
      BY <2>2 DEF TypeOK, StillOnPlan
    <3>5. pending'[h].rev = Revision(chain) /\ pending'[h].plan = Current(chain)
      BY <3>3, <3>4 DEF Contribution
    <3>6. Names(pending'[h])
      BY <3>5, CurrentIsNamed
    <3>7. Names(pending[h])'
      BY <3>1, <3>6 DEF Names
    <3> QED BY <3>1, <3>2, <3>7 DEF PlanConsistent
  <2> QED BY <2>1, <2>2
<1>4. CASE PutContribution(h)
  <2>1. pc'[h] = "contribute_after" /\ seen'[h] = seen[h] /\ pc[h] = "contribute_put"
    BY <1>4 DEF PutContribution, TypeOK
  <2>2. PrefixOfChain(seen[h].chain)'
    BY <2>1, CopyStaysPrefix DEF ReadLabels, Labels
  <2> QED BY <2>1, <2>2 DEF PlanConsistent
<1>5. CASE ContributeAfter(h)
  BY <1>5, LeaveHoldsNoPlan DEF ContributeAfter
<1> QED BY <1>1, <1>2, <1>3, <1>4, <1>5 DEF ContributeStep

LEMMA ReplanPlans ==
    ASSUME TypeOK, TypeOK', ChainGrows, NEW h \in Handlers, HandlerConsistent(h),
           PlanConsistent(h), ReplanStep(h)
    PROVE  PlanConsistent(h)'
<1> USE DEF Goto, PackageLabels
<1>1. CASE StartReplan(h)
  <2>1. PrefixOfChain(seen[h].chain)'
    BY <1>1, ReadIsChain DEF StartReplan, ReadIntent
  <2>2. pc'[h] = "replan_snapshot"
    BY <1>1 DEF StartReplan, ReadIntent, TypeOK
  <2> QED BY <2>1, <2>2 DEF PlanConsistent
<1>2. CASE ReplanSnapshot(h)
  <2>1. pc[h] = "replan_snapshot" /\ pc'[h] = "replan_read" /\ seen'[h] = seen[h]
    BY <1>2 DEF ReplanSnapshot, TypeOK
  <2>2. PrefixOfChain(seen[h].chain)'
    BY <2>1, CopyStaysPrefix DEF ReadLabels, Labels
  <2> QED BY <2>1, <2>2 DEF PlanConsistent
<1>3. CASE ReplanRead(h)
  <2> USE <1>3 DEF ReplanRead
  <2>1. CASE Leave(h)
    BY <2>1, LeaveHoldsNoPlan
  <2>2. CASE ~ Leave(h)
    <3>1. pc'[h] = "replan_plan"
      BY <2>2 DEF TypeOK
    <3>2. seen'[h].chain = chain' /\ PrefixOfChain(seen[h].chain)'
      BY <2>2, ReadIsChain
    <3> QED BY <3>1, <3>2 DEF PlanConsistent
  <2> QED BY <2>1, <2>2
<1>4. CASE ReplanPlan(h)
  <2> USE <1>4 DEF ReplanPlan
  <2>1. CASE Leave(h)
    BY <2>1, LeaveHoldsNoPlan
  <2>2. CASE ~ Leave(h)
    <3> DEFINE plan == [id |-> planned + 1, expires |-> ledger + AuthWindow, effects |-> effects]
    <3>1. plan \in Plan /\ chain \in Seq(Plan) /\ Len(chain) \in Nat
      BY BoundsAssumption DEF TypeOK, Plan
    <3>2. pc'[h] = "replan_recheck" /\ seen'[h] = seen[h] /\ chain' = chain
      BY <2>2 DEF TypeOK, store
    <3>3. PrefixOfChain(seen[h].chain)'
      BY <3>2, CopyStaysPrefix DEF ReadLabels, Labels
    <3>4. seen[h].chain = chain
      BY DEF PlanConsistent
    <3>5. pending'[h].chain = Append(chain, plan)
      BY <2>2, <3>4 DEF TypeOK, Superseding
    <3>6. /\ Len(Append(chain, plan)) = Len(chain) + 1
          /\ \A r \in 1..Len(chain) : Append(chain, plan)[r] = chain[r]
      BY <3>1
    <3> HIDE DEF plan
    <3> QED BY <3>2, <3>3, <3>4, <3>5, <3>6 DEF PlanConsistent
  <2> QED BY <2>1, <2>2
<1>5. CASE ReplanRecheck(h)
  <2> USE <1>5 DEF ReplanRecheck
  <2>1. CASE Leave(h)
    BY <2>1, LeaveHoldsNoPlan
  <2>2. CASE ~ Leave(h)
    <3>1. /\ pc'[h] = "replan_write" /\ seen'[h] = seen[h] /\ pending'[h] = pending[h]
          /\ chain' = chain
      BY <2>2 DEF TypeOK, Continue, store
    <3>2. PrefixOfChain(seen[h].chain)'
      BY <3>1, CopyStaysPrefix DEF ReadLabels, Labels
    <3> QED BY <3>1, <3>2 DEF PlanConsistent
  <2> QED BY <2>1, <2>2
<1>6. CASE UpdateIntent(h)
  <2> USE <1>6 DEF UpdateIntent
  <2>1. CASE Leave(h)
    BY <2>1, LeaveHoldsNoPlan
  <2>2. CASE ~ Leave(h)
    <3>1. pc'[h] = "replan_after" /\ seen'[h] = seen[h]
      BY <2>2 DEF TypeOK, Continue
    <3>2. PrefixOfChain(seen[h].chain)'
      BY <3>1, CopyStaysPrefix DEF ReadLabels, Labels
    <3> QED BY <3>1, <3>2 DEF PlanConsistent
  <2> QED BY <2>1, <2>2
<1>7. CASE ReplanAfter(h)
  BY <1>7, LeaveHoldsNoPlan DEF ReplanAfter
<1> QED BY <1>1, <1>2, <1>3, <1>4, <1>5, <1>6, <1>7 DEF ReplanStep

LEMMA PreparePlans ==
    ASSUME TypeOK, TypeOK', ChainGrows, NEW h \in Handlers, HandlerConsistent(h),
           PlanConsistent(h), PrepareStep(h)
    PROVE  PlanConsistent(h)'
<1> USE DEF Goto, PackageLabels
<1>1. CASE StartPrepare(h)
  <2>1. PrefixOfChain(seen[h].chain)'
    BY <1>1, ReadIsChain DEF StartPrepare, ReadIntent
  <2>2. pc'[h] = "prepare_snapshot"
    BY <1>1 DEF StartPrepare, ReadIntent, TypeOK
  <2> QED BY <2>1, <2>2 DEF PlanConsistent
<1>2. CASE PrepareSnapshot(h)
  <2> USE <1>2 DEF PrepareSnapshot
  <2>1. CASE Leave(h)
    BY <2>1, LeaveHoldsNoPlan
  <2>2. CASE ~ Leave(h)
    <3>1. pc'[h] \in {"prepare_bind", "prepare_read"} /\ seen'[h] = seen[h]
      BY <2>2 DEF TypeOK
    <3>2. PrefixOfChain(seen[h].chain)'
      BY <3>1, CopyStaysPrefix DEF ReadLabels, Labels
    <3> QED BY <3>1, <3>2 DEF PlanConsistent
  <2> QED BY <2>1, <2>2
<1>3. CASE BindExecutor(h)
  <2>1. pc[h] = "prepare_bind" /\ pc'[h] = "prepare_read" /\ seen'[h] = seen[h]
    BY <1>3 DEF BindExecutor, TypeOK
  <2>2. PrefixOfChain(seen[h].chain)'
    BY <2>1, CopyStaysPrefix DEF ReadLabels, Labels
  <2> QED BY <2>1, <2>2 DEF PlanConsistent
<1>4. CASE PrepareRead(h)
  <2> USE <1>4 DEF PrepareRead
  <2>1. CASE Leave(h)
    BY <2>1, LeaveHoldsNoPlan
  <2>2. CASE ~ Leave(h)
    <3>1. pc'[h] = "prepare_simulate"
      BY <2>2 DEF TypeOK
    <3>2. PrefixOfChain(seen[h].chain)'
      BY <2>2, ReadIsChain
    <3> QED BY <3>1, <3>2 DEF PlanConsistent
  <2> QED BY <2>1, <2>2
<1>5. CASE PrepareSimulate(h)
  <2> USE <1>5 DEF PrepareSimulate
  <2>1. CASE Leave(h)
    BY <2>1, LeaveHoldsNoPlan
  <2>2. CASE ~ Leave(h)
    <3> DEFINE old == seen[h].chain
    <3>1. /\ pc'[h] = "prepare_recheck" /\ seen'[h] = seen[h] /\ chain' = chain
          /\ pending'[h].rev = Revision(old) /\ pending'[h].plan = Current(old)
      BY <2>2 DEF TypeOK, store
    <3>2. PrefixOfChain(seen[h].chain)'
      BY <3>1, CopyStaysPrefix DEF ReadLabels, Labels
    <3>3. PrefixOfChain(old) /\ Len(old) \in Nat \ {0}
      BY CopyType DEF PlanConsistent, ReadLabels, Labels
    <3>4. DOMAIN chain = 1..Len(chain) /\ Len(chain) \in Nat
      BY DEF TypeOK
    <3>5. Len(old) \in DOMAIN chain /\ chain[Len(old)] = old[Len(old)]
      BY <3>3, <3>4 DEF PrefixOfChain
    <3>6. Names(pending[h])'
      BY <3>1, <3>5 DEF Names, Revision, Current
    <3> QED BY <3>1, <3>2, <3>6 DEF PlanConsistent
  <2> QED BY <2>1, <2>2
<1>6. CASE PrepareRecheck(h)
  <2> USE <1>6 DEF PrepareRecheck
  <2>1. CASE Leave(h)
    BY <2>1, LeaveHoldsNoPlan
  <2>2. CASE ~ Leave(h)
    <3>1. /\ pc'[h] = "prepare_put" /\ seen'[h] = seen[h] /\ pending'[h] = pending[h]
          /\ chain' = chain
      BY <2>2 DEF TypeOK, Continue, store
    <3>2. PrefixOfChain(seen[h].chain)'
      BY <3>1, CopyStaysPrefix DEF ReadLabels, Labels
    <3> QED BY <3>1, <3>2 DEF PlanConsistent, Names
  <2> QED BY <2>1, <2>2
<1>7. CASE PutExecutionPreparation(h)
  <2>1. pc[h] = "prepare_put" /\ pc'[h] = "prepare_after" /\ seen'[h] = seen[h]
    BY <1>7 DEF PutExecutionPreparation, TypeOK
  <2>2. PrefixOfChain(seen[h].chain)'
    BY <2>1, CopyStaysPrefix DEF ReadLabels, Labels
  <2> QED BY <2>1, <2>2 DEF PlanConsistent
<1>8. CASE ReleasePackage(h)
  BY <1>8, LeaveHoldsNoPlan DEF ReleasePackage
<1> QED BY <1>1, <1>2, <1>3, <1>4, <1>5, <1>6, <1>7, <1>8 DEF PrepareStep

LEMMA CancelPlans ==
    ASSUME TypeOK, NEW h \in Handlers, CancelStep(h) \/ ReconcileStep(h) \/ Abandon(h)
    PROVE  PlanConsistent(h)'
<1> USE DEF Goto, PackageLabels, ReadLabels
<1>1. CASE StartCancel(h)
  <2>1. /\ pc'[h] = "cancel_write" /\ chain' = chain
        /\ pending'[h].rev = Revision(chain) /\ pending'[h].plan = Current(chain)
    BY <1>1 DEF StartCancel, TypeOK, store
  <2>2. Names(pending'[h])
    BY <2>1, CurrentIsNamed
  <2> QED BY <2>1, <2>2 DEF PlanConsistent, Names
<1>2. CASE CancelIntent(h) \/ PutExecutionObservation(h) \/ Abandon(h)
  BY <1>2, LeaveHoldsNoPlan DEF CancelIntent, PutExecutionObservation, Abandon
<1>3. CASE StartReconcile(h)
  BY <1>3 DEF StartReconcile, TypeOK, PlanConsistent
<1>4. CASE ReconcileLoad(h)
  <2>1. CASE Leave(h)
    BY <2>1, LeaveHoldsNoPlan
  <2>2. CASE ~ Leave(h)
    <3>1. pc'[h] = "reconcile_put"
      BY <1>4, <2>2 DEF ReconcileLoad, TypeOK
    <3> QED BY <3>1 DEF PlanConsistent
  <2> QED BY <2>1, <2>2
<1> QED BY <1>1, <1>2, <1>3, <1>4 DEF CancelStep, ReconcileStep

\* With serial replans every step keeps what every handler knows of the plans:
\* no handler but the one that writes is replanning.
LEMMA NextKeepsPlans ==
    ASSUME SerialReplans, Inv, PlansConsistent, [Next]_vars, TypeOK', ChainGrows
    PROVE  PlansConsistent'
<1>0. TypeOK /\ \A h \in Handlers : HandlerConsistent(h) /\ PlanConsistent(h)
  BY DEF Inv, HandlersConsistent, PlansConsistent
<1>1. ASSUME UNCHANGED handlers, chain' = chain PROVE PlansConsistent'
  BY <1>0, <1>1, OthersKeepTheirPlans DEF handlers, LocalsKept, PlansConsistent
<1>2. ASSUME NEW h \in Handlers,
             \/ ContributeStep(h) \/ ReplanStep(h) \/ PrepareStep(h)
             \/ CancelStep(h) \/ ReconcileStep(h) \/ Abandon(h)
      PROVE  PlansConsistent'
  <2>1. PlanConsistent(h)'
    BY <1>0, <1>2, ContributePlans, ReplanPlans, PreparePlans, CancelPlans
  <2>2. ASSUME NEW g \in Handlers, g # h PROVE PlanConsistent(g)'
    <3>1. LocalsKept(g)
      BY <1>0, <1>2, <2>2, StepsAreLocal
    <3>2. chain' = chain \/ pc[g] \notin ReplanLabels
      <4> SUFFICES ASSUME chain' # chain, pc[g] \in ReplanLabels PROVE FALSE
        OBVIOUS
      <4>1. PICK w \in Handlers : UpdateIntent(w)
        BY OnlyUpdateIntent
      <4>2. pc[w] \in ReplanLabels /\ pc'[w] # pc[w]
        BY <1>0, <4>1 DEF UpdateIntent, ReplanLabels, Leave, Continue, Goto, TypeOK
      <4>3. w \in Replanners /\ g \in Replanners
        BY <1>0, <4>2 DEF HandlerConsistent
      <4>4. w = g
        BY <4>3 DEF SerialReplans
      <4> QED BY <3>1, <4>2, <4>4 DEF LocalsKept
    <3> QED BY <1>0, <3>1, <3>2, OthersKeepTheirPlans
  <2> QED BY <2>1, <2>2 DEF PlansConsistent
<1>3. NetworkStep => UNCHANGED handlers /\ chain' = chain
  BY DEF NetworkStep, CloseLedger, ChangeEffects, RemoveSigner, Submit, store
<1>4. UNCHANGED vars => UNCHANGED handlers /\ chain' = chain
  BY DEF vars, store, handlers
<1> QED BY <1>1, <1>2, <1>3, <1>4 DEF Next

\* The stored facts after a step name their plans: what was stored stays put,
\* what is added was checked by the handler that adds it.
LEMMA NextKeepsFacts ==
    ASSUME Inv, PlanInv, [Next]_vars, TypeOK', ChainGrows
    PROVE  FactsNameTheirPlan'
<1>0. /\ TypeOK /\ FactsNameTheirPlan
      /\ \A h \in Handlers : HandlerConsistent(h) /\ PlanConsistent(h)
  BY DEF Inv, PlanInv, HandlersConsistent, PlansConsistent
<1> DEFINE Facts == contributions \cup preparations \cup observations \cup cancellation
<1>1. ASSUME NEW f, Names(f) PROVE f.rev \in DOMAIN chain' /\ chain'[f.rev] = f.plan
  BY <1>0, <1>1, NamesPersist
<1>2. \A f \in Facts : f.rev \in DOMAIN chain' /\ chain'[f.rev] = f.plan
  BY <1>0, <1>1 DEF FactsNameTheirPlan
<1>3. ASSUME Facts' \subseteq Facts PROVE FactsNameTheirPlan'
  BY <1>2, <1>3 DEF FactsNameTheirPlan, Names
<1>4. ASSUME NEW f, Names(f), Facts' \subseteq Facts \cup {f} PROVE FactsNameTheirPlan'
  <2>1. f.rev \in DOMAIN chain' /\ chain'[f.rev] = f.plan
    BY <1>1, <1>4
  <2> QED BY <1>2, <1>4, <2>1 DEF FactsNameTheirPlan, Names
<1>5. ASSUME NEW h \in Handlers, StoreWrite(h) PROVE FactsNameTheirPlan'
  <2>1. CASE PutContribution(h)
    <3>1. Names(pending[h]) /\ Facts' \subseteq Facts \cup {pending[h]}
      BY <1>0, <2>1 DEF PutContribution, PlanConsistent
    <3> QED BY <3>1, <1>4
  <2>2. CASE UpdateIntent(h) \/ BindExecutor(h)
    <3>1. Facts' \subseteq Facts
      BY <2>2 DEF UpdateIntent, BindExecutor
    <3> QED BY <3>1, <1>3
  <2>3. CASE PutExecutionPreparation(h)
    <3>1. Names(pending[h]) /\ Facts' \subseteq Facts \cup {pending[h]}
      BY <1>0, <2>3 DEF PutExecutionPreparation, PlanConsistent, PackageLabels
    <3> QED BY <3>1, <1>4
  <2>4. CASE CancelIntent(h)
    <3>1. Names(pending[h]) /\ Facts' \subseteq Facts \cup {pending[h]}
      BY <1>0, <2>4 DEF CancelIntent, PlanConsistent
    <3> QED BY <3>1, <1>4
  <2>5. CASE PutExecutionObservation(h)
    <3> DEFINE o == pending[h]
               p == [rev |-> o.rev, plan |-> o.plan, tx |-> o.tx]
    <3>1. p \in preparations
      BY <1>0, <2>5 DEF PutExecutionObservation, HandlerConsistent
    <3>2. Names(p)
      BY <1>0, <3>1 DEF FactsNameTheirPlan
    <3>3. Names(o)
      BY <3>2 DEF Names
    <3>4. Facts' \subseteq Facts \cup {o}
      BY <2>5 DEF PutExecutionObservation
    <3> QED BY <3>3, <3>4, <1>4
  <2> QED BY <1>5, <2>1, <2>2, <2>3, <2>4, <2>5 DEF StoreWrite
<1>6. CASE UNCHANGED store
  BY <1>3, <1>6 DEF store
<1> QED BY <1>5, <1>6, OnlyStoreWrites

LEMMA InitEstablishesPlans == Init => PlanInv
BY DEF Init, PlanInv, PlansConsistent, PlanConsistent, FactsNameTheirPlan, ReadLabels,
   PackageLabels

\* With serial replans handlers never act on a plan history that was not, and
\* facts never name a revision with a plan it does not have.
LEMMA PlanInvariance ==
    ASSUME SerialReplans
    PROVE  Spec => []PlanInv
<1>1. ASSUME Inv, PlanInv, [Next]_vars PROVE PlanInv'
  <2>1. TypeOK' /\ ChainGrows
    BY <1>1, NextPreservesTypes, NextExtends DEF PlanInv
  <2> QED BY <1>1, <2>1, NextKeepsPlans, NextKeepsFacts DEF PlanInv
<1> QED BY <1>1, InitEstablishesPlans, Invariance, PTL DEF Spec

\* When replans do not overlap, what a handler between two awaits takes for the
\* plan history is a prefix of it, and a replan always writes one more revision.
THEOREM PlanKnowledge ==
    ASSUME SerialReplans
    PROVE  Spec => []PlansConsistent
<1>1. PlanInv => PlansConsistent
  BY DEF PlanInv
<1> QED BY <1>1, PlanInvariance, PTL

\* When replans do not overlap, contributions, packages, observations and the
\* cancellation name a revision with the plan that revision has, although each
\* handler reads the plan awaits before it writes.
THEOREM FactsAreAboutTheirPlan ==
    ASSUME SerialReplans
    PROVE  Spec => []FactsNameTheirPlan
<1>1. PlanInv => FactsNameTheirPlan
  BY DEF PlanInv
<1> QED BY <1>1, PlanInvariance, PTL

\* When replans do not overlap, updateIntent rewrites or drops no revision.
THEOREM HistoryOnlyGrows ==
    ASSUME SerialReplans
    PROVE  Spec => HistoryIsAppendOnly
<1> DEFINE Appends == Len(chain) <= Len(chain') /\ SubSeq(chain', 1, Len(chain)) = chain
<1>1. ASSUME Inv, PlanInv, [Next]_vars PROVE [Appends]_chain
  <2>1. ChainGrows /\ TypeOK /\ TypeOK'
    BY <1>1, NextExtends, NextPreservesTypes DEF Inv, PlanInv
  <2>2. /\ chain \in Seq(Plan) /\ chain' \in Seq(Plan)
        /\ Len(chain) \in Nat /\ Len(chain') \in Nat /\ Len(chain) <= Len(chain')
        /\ \A r \in 1..Len(chain) : chain'[r] = chain[r]
    BY <2>1 DEF ChainGrows, TypeOK
  <2>3. SubSeq(chain', 1, Len(chain)) = chain
    BY <2>2
  <2> QED BY <2>2, <2>3
<1> QED BY <1>1, Invariance, PlanInvariance, PTL DEF Spec, HistoryIsAppendOnly

-----------------------------------------------------------------------------
\* When replans do not overlap, the store and its handlers implement the
\* abstract record of facts: every store operation is one abstract step or a
\* stutter, all else stutters.
THEOREM StoreImplementsLifecycle ==
    ASSUME SerialReplans
    PROVE  Spec => ImplementsLifecycle
<1>1. Init => Lifecycle!Init
  BY DEF Init, Lifecycle!Init
<1>2. ASSUME Inv, PlanInv, [Next]_vars PROVE [Lifecycle!Next]_(Lifecycle!vars)
  <2>0. TypeOK /\ \A h \in Handlers : HandlerConsistent(h) /\ PlanConsistent(h)
    BY <1>2 DEF Inv, PlanInv, HandlersConsistent, PlansConsistent
  <2>1. CASE UNCHANGED store
    BY <2>1 DEF store, Lifecycle!vars
  <2>2. ASSUME NEW h \in Handlers, PutContribution(h)
        PROVE  [Lifecycle!Next]_(Lifecycle!vars)
    <3>1. Names(pending[h])
      BY <2>0, <2>2 DEF PutContribution, PlanConsistent
    <3>2. CASE CancelledRow
      BY <2>2, <3>2 DEF PutContribution, Lifecycle!vars
    <3>3. CASE ~ CancelledRow
      <4>1. Lifecycle!Record
        BY <2>2, <3>1, <3>3 DEF PutContribution, CancelledRow, Lifecycle!Record,
           Lifecycle!Names, Names
      <4> QED BY <4>1 DEF Lifecycle!Next
    <3> QED BY <3>2, <3>3
  <2>3. ASSUME NEW h \in Handlers, PutExecutionPreparation(h)
        PROVE  [Lifecycle!Next]_(Lifecycle!vars)
    <3>1. Names(pending[h])
      BY <2>0, <2>3 DEF PutExecutionPreparation, PlanConsistent, PackageLabels
    <3>2. CASE CancelledRow
      BY <2>3, <3>2 DEF PutExecutionPreparation, Lifecycle!vars
    <3>3. CASE ~ CancelledRow
      <4>1. Lifecycle!Record
        BY <2>3, <3>1, <3>3 DEF PutExecutionPreparation, CancelledRow, Lifecycle!Record,
           Lifecycle!Names, Names
      <4> QED BY <4>1 DEF Lifecycle!Next
    <3> QED BY <3>2, <3>3
  <2>4. ASSUME NEW h \in Handlers, UpdateIntent(h)
        PROVE  [Lifecycle!Next]_(Lifecycle!vars)
    <3>1. CASE ~ CancelledRow /\ Accepts(pending[h].chain, chain)
      <4>1. Len(chain') = Len(chain) + 1 /\ \A r \in 1..Len(chain) : chain'[r] = chain[r]
        BY <2>0, <2>4, <3>1, UpdateExtends
      <4>2. DOMAIN chain = 1..Len(chain)
        BY <2>0 DEF TypeOK
      <4>3. Lifecycle!Revise
        BY <2>4, <3>1, <4>1, <4>2 DEF UpdateIntent, CancelledRow, Lifecycle!Revise
      <4> QED BY <4>3 DEF Lifecycle!Next
    <3>2. CASE ~ (~ CancelledRow /\ Accepts(pending[h].chain, chain))
      BY <2>4, <3>2 DEF UpdateIntent, Lifecycle!vars
    <3> QED BY <3>1, <3>2
  <2>5. ASSUME NEW h \in Handlers, BindExecutor(h)
        PROVE  [Lifecycle!Next]_(Lifecycle!vars)
    BY <2>5 DEF BindExecutor, Lifecycle!vars
  <2>6. ASSUME NEW h \in Handlers, CancelIntent(h)
        PROVE  [Lifecycle!Next]_(Lifecycle!vars)
    <3>1. Names(pending[h])
      BY <2>0, <2>6 DEF CancelIntent, PlanConsistent
    <3>2. CASE ~ CancelledRow /\ ~ SuccessfulRow
      <4>1. Lifecycle!Close
        BY <2>6, <3>1, <3>2 DEF CancelIntent, CancelledRow, SuccessfulRow, Lifecycle!Close,
           Lifecycle!Names, Names
      <4> QED BY <4>1 DEF Lifecycle!Next
    <3>3. CASE ~ (~ CancelledRow /\ ~ SuccessfulRow)
      BY <2>6, <3>3 DEF CancelIntent, Lifecycle!vars
    <3> QED BY <3>2, <3>3
  <2>7. ASSUME NEW h \in Handlers, PutExecutionObservation(h)
        PROVE  [Lifecycle!Next]_(Lifecycle!vars)
    <3>1. [rev |-> pending[h].rev, plan |-> pending[h].plan, tx |-> pending[h].tx]
             \in preparations
      BY <2>0, <2>7 DEF PutExecutionObservation, HandlerConsistent
    <3>2. CASE ObservedTx(pending[h].tx)
      BY <2>7, <3>2 DEF PutExecutionObservation, Lifecycle!vars
    <3>3. CASE ~ ObservedTx(pending[h].tx)
      <4>1. Lifecycle!Observe
        BY <2>7, <3>1, <3>3 DEF PutExecutionObservation, ObservedTx, Lifecycle!Observe
      <4> QED BY <4>1 DEF Lifecycle!Next
    <3> QED BY <3>2, <3>3
  <2> QED
    BY <1>2, <2>1, <2>2, <2>3, <2>4, <2>5, <2>6, <2>7, OnlyStoreWrites DEF StoreWrite
<1> QED
  BY <1>1, <1>2, Invariance, PlanInvariance, PTL DEF Spec, ImplementsLifecycle, Lifecycle!Spec

-----------------------------------------------------------------------------
\* The events that report the durable facts.
FactEvents ==
    {Created}
    \cup {Revised(r, chain[r]) : r \in DOMAIN chain \ {1}}
    \cup {Contributed(c) : c \in contributions}
    \cup {Prepared(p) : p \in preparations}
    \cup {Observed(o) : o \in observations}
    \cup {Cancelled : c \in cancellation}

\* The transactional outbox: facts and events are written in one transaction,
\* so when replans do not overlap no interleaving or lost request leaves a fact
\* without its event or an event without its fact.
THEOREM OutboxReportsFacts ==
    ASSUME SerialReplans
    PROVE  Spec => []OutboxMatchesFacts
<1> DEFINE Bounds == outbox \cap {Bound}
           OutboxInv == outbox = IF ~ IntegrationOwned THEN {} ELSE FactEvents \cup Bounds
<1>1. Init => OutboxInv
  BY DEF Init, FactEvents
<1>2. ASSUME Inv, PlanInv, OutboxInv, [Next]_vars PROVE OutboxInv'
  <2>0. TypeOK /\ \A h \in Handlers : HandlerConsistent(h) /\ PlanConsistent(h)
    BY <1>2 DEF Inv, PlanInv, HandlersConsistent, PlansConsistent
  <2>1. CASE UNCHANGED store
    BY <1>2, <2>1 DEF store, FactEvents
  <2>2. ASSUME ~ IntegrationOwned, NEW h \in Handlers, StoreWrite(h) PROVE OutboxInv'
    BY <1>2, <2>2 DEF StoreWrite, Enqueue, PutContribution, UpdateIntent, BindExecutor,
       PutExecutionPreparation, CancelIntent, PutExecutionObservation
  <2>3. ASSUME IntegrationOwned, NEW h \in Handlers, PutContribution(h) PROVE OutboxInv'
    BY <1>2, <2>3 DEF PutContribution, FactEvents, Enqueue
  <2>4. ASSUME IntegrationOwned, NEW h \in Handlers, UpdateIntent(h) PROVE OutboxInv'
    <3>1. CASE ~ CancelledRow /\ Accepts(pending[h].chain, chain)
      <4> DEFINE rev == Len(chain) + 1
      <4>1. /\ chain' = pending[h].chain /\ Len(chain') = rev
            /\ \A r \in 1..Len(chain) : chain'[r] = chain[r]
        BY <2>0, <2>4, <3>1, UpdateExtends
      <4>2. chain' \in Seq(Plan) /\ Len(chain) \in Nat \ {0} /\ chain \in Seq(Plan)
        <5>1. pending[h].chain \in Seq(Plan)
          BY <2>0, <2>4 DEF UpdateIntent, HandlerConsistent
        <5>2. chain \in Seq(Plan) /\ Len(chain) \in Nat \ {0}
          BY <2>0 DEF TypeOK
        <5> QED BY <4>1, <5>1, <5>2
      <4>3. DOMAIN chain' \ {1} = (DOMAIN chain \ {1}) \cup {rev}
        <5>1. DOMAIN chain' = 1..rev /\ DOMAIN chain = 1..Len(chain)
          BY <4>1, <4>2
        <5>2. Len(chain) \in Nat \ {0}
          BY <4>2
        <5> QED BY ONLY <5>1, <5>2
      <4>4. \A r \in DOMAIN chain \ {1} : chain'[r] = chain[r]
        BY <4>1, <4>2
      <4>5. {Revised(r, chain'[r]) : r \in DOMAIN chain' \ {1}}
            = {Revised(r, chain[r]) : r \in DOMAIN chain \ {1}} \cup {Revised(rev, chain'[rev])}
        BY <4>3, <4>4
      <4>6. outbox' = outbox \cup {Revised(rev, chain'[rev])}
        BY <2>4, <3>1, <4>1 DEF UpdateIntent, Enqueue, Revision, Current
      <4>7. UNCHANGED <<contributions, preparations, observations, cancellation>>
        BY <2>4 DEF UpdateIntent
      <4>8. FactEvents' = FactEvents \cup {Revised(rev, chain'[rev])}
        BY <4>5, <4>7 DEF FactEvents
      <4> QED BY <1>2, <2>4, <4>6, <4>8
    <3>2. CASE ~ (~ CancelledRow /\ Accepts(pending[h].chain, chain))
      BY <1>2, <2>4, <3>2 DEF UpdateIntent, FactEvents
    <3> QED BY <3>1, <3>2
  <2>5. ASSUME IntegrationOwned, NEW h \in Handlers, BindExecutor(h) PROVE OutboxInv'
    BY <1>2, <2>5 DEF BindExecutor, FactEvents, Enqueue
  <2>6. ASSUME IntegrationOwned, NEW h \in Handlers, PutExecutionPreparation(h)
        PROVE OutboxInv'
    BY <1>2, <2>6 DEF PutExecutionPreparation, FactEvents, Enqueue
  <2>7. ASSUME IntegrationOwned, NEW h \in Handlers, CancelIntent(h) PROVE OutboxInv'
    BY <1>2, <2>7 DEF CancelIntent, CancelledRow, FactEvents, Enqueue
  <2>8. ASSUME IntegrationOwned, NEW h \in Handlers, PutExecutionObservation(h)
        PROVE OutboxInv'
    BY <1>2, <2>8 DEF PutExecutionObservation, FactEvents, Enqueue
  <2> QED
    BY <1>2, <2>1, <2>2, <2>3, <2>4, <2>5, <2>6, <2>7, <2>8, OnlyStoreWrites DEF StoreWrite
<1>3. Inv /\ OutboxInv => OutboxMatchesFacts
  BY DEF OutboxMatchesFacts, FactEvents
<1> QED BY <1>1, <1>2, <1>3, Invariance, PlanInvariance, PTL DEF Spec
=============================================================================
