-------------------------- MODULE StorageMigration --------------------------
(***************************************************************************)
(* One Integration-owned Soroban Intent kept in blob objects, the API      *)
(* calls that work on it, and its move to PostgreSQL: backfill passes      *)
(* while the calls go on, a write freeze that a call meets only as it      *)
(* starts, passes under the freeze, and the switch of the stores.          *)
(*                                                                         *)
(* A blob object is read or written in one step and nothing spans two of   *)
(* them.  A call makes one request, and its name stands for whatever only  *)
(* it can have drawn: the plan it made, the transaction it prepared, the   *)
(* instant it wrote.  One signature reaches the threshold; the ledger's    *)
(* clock is left out, so that a plan may have expired for any reader.      *)
(***************************************************************************)
EXTENDS Integers, Sequences

CONSTANTS
    ApiCalls,   \* API requests, each made once
    Purposes,   \* the operations they may ask for
    Contributors,
    Sources,
    Origin,     \* stands for what is older: the first plan, the first facts
    Absent

ASSUME MigrationAssumption ==
    /\ Absent \notin Sources \cup ApiCalls \cup {Origin}
    /\ Origin \notin ApiCalls

\* What a call may ask for here.
Requests == {"contribute", "replan", "prepare", "cancel", "reconcile"}

Past == ApiCalls \cup {Origin}
Kinds == {"auth", "preparations", "observations"}
NoFacts == [k \in Kinds |-> {}]

VARIABLES
    root,         \* intent.json: the plans by revision, and an executor
    bindFile,     \* execution-binding.json
    cancelFile,   \* cancellation.json
    facts,        \* auth-contributions/, execution-preparations/ and -results/
    executed,     \* what the chain did with released packages
    stage, held, writing,            \* the calls
    frozen, switched,                \* MULTISIG_COORDINATION_WRITE_FREEZE, _STORAGE
    copy,                            \* the Intent in PostgreSQL, or Absent
    phase, listed, snapshot, passes, \* the operator's backfill
    \* What happened, for the properties:
    refreshed, packaged,  \* calls answered with a new plan, with a package
    rivals,               \* two calls held copies of intent.json to write back
    early,                \* calls in flight when the freeze began
    late,                 \* those of them that wrote since the last pass began
    quiet,                \* the last pass began frozen with no call in flight
    restated              \* blob writes that a copy made earlier cannot follow

blobs == <<root, bindFile, cancelFile, facts>>
calls == <<stage, held, writing>>
deployment == <<frozen, switched, early>>
backfill == <<copy, phase, listed, snapshot, passes, quiet>>
replies == <<refreshed, packaged>>
marks == <<rivals, late, restated>>
migrationVars == <<blobs, executed, calls, deployment, backfill, replies, marks>>

LatestPlan(chain) == chain[Len(chain)]
InFlight(c) == stage[c] \notin {"idle", "done"}

\* readIntent.  The two files are written once, so that a caller who stops at
\* a cancellation cannot tell three reads from one.
IntentAsRead ==
    [chain |-> root.chain,
     executor |-> IF root.executor # Absent THEN root.executor ELSE bindFile]

\* The object, or the row, a fact is kept under.
Name(k, f) ==
    CASE k = "auth" -> <<f.plan, f.signer>>
      [] k = "preparations" -> <<f.at>>
      [] k = "observations" -> <<f.tx>>

Kept(k, S, f) == \E g \in S : Name(k, g) = Name(k, f)
Ready(plan) == \E a \in facts.auth : a.plan = plan
Succeeded(S) == \E o \in S : o.ok

MoveTo(c, label) == stage' = [stage EXCEPT ![c] = label]
\* The call ends, with an answer or without.
EndCall(c) ==
    /\ MoveTo(c, "done")
    /\ held' = [held EXCEPT ![c] = Absent]
    /\ writing' = [writing EXCEPT ![c] = Absent]
Advance(c, label) == MoveTo(c, label) /\ UNCHANGED <<held, writing>>
Carry(c, label, value) ==
    /\ MoveTo(c, label)
    /\ writing' = [writing EXCEPT ![c] = value]
    /\ UNCHANGED held

Underway == phase # "idle" \/ copy # Absent
\* Every blob write: was it late, and does it restate what may be copied?
Writes(c, restates) ==
    /\ late' = IF c \in early THEN late \cup {c} ELSE late
    /\ restated' = (restated \/ (Underway /\ restates))

Holding == {"bind_write", "replan_write"}
\* A call takes the copy of intent.json that it will write back.
Hold(c) == rivals' = (rivals \/ \E d \in ApiCalls \ {c} : stage[d] \in Holding)

-----------------------------------------------------------------------------
\* createIntent, which may bind the executor; and what an Intent that is signed,
\* or that a package was made of, has besides.
CreatedIntent(x) == [chain |-> <<Origin>>, executor |-> x]
Signed ==
    [NoFacts EXCEPT !.auth =
        {[plan |-> Origin, signer |-> s, at |-> Origin] : s \in Contributors}]
Packaged(x) ==
    [Signed EXCEPT !.preparations = {[plan |-> Origin, source |-> x, at |-> Origin]}]

MigrationInit ==
    /\ \/ \E x \in Sources \cup {Absent} :
             root = CreatedIntent(x) /\ facts \in {NoFacts, Signed} /\ packaged = {}
       \/ \E x \in Sources :
             root = CreatedIntent(x) /\ facts = Packaged(x) /\ packaged = {Origin}
    /\ bindFile = Absent /\ cancelFile = Absent /\ executed = {}
    /\ stage = [c \in ApiCalls |-> "idle"]
    /\ held = [c \in ApiCalls |-> Absent]
    /\ writing = [c \in ApiCalls |-> Absent]
    /\ frozen = FALSE /\ switched = FALSE /\ early = {}
    /\ copy = Absent
    /\ phase = "idle" /\ listed = Absent
    /\ snapshot = [k \in Kinds |-> Absent]
    /\ passes = 0 /\ quiet = FALSE
    /\ refreshed = {}
    /\ rivals = FALSE /\ late = {} /\ restated = FALSE

-----------------------------------------------------------------------------
(* A call is let in, and reads the Intent. *)

\* assertCoordinationWritesEnabled.
WritesEnabled == ~ frozen

Admit(c, op) ==
    /\ stage[c] = "idle" /\ ~ switched
    /\ WritesEnabled
    /\ MoveTo(c, op)
    /\ UNCHANGED <<blobs, executed, held, writing, deployment, backfill, replies, marks>>

\* PATCH: the plan awaits a signature of this signer.
BeginContribute(c) ==
    /\ stage[c] = "contribute"
    /\ \/ /\ cancelFile = Absent /\ ~ Ready(LatestPlan(root.chain))
          /\ \E s \in Contributors : Carry(c, "contribute_check",
                [plan |-> LatestPlan(root.chain), signer |-> s, at |-> c])
       \/ EndCall(c)
    /\ UNCHANGED <<blobs, executed, deployment, backfill, replies, marks>>

ContributeCheck(c) ==
    /\ stage[c] = "contribute_check"
    /\ IF cancelFile = Absent /\ LatestPlan(root.chain) = writing[c].plan
       THEN Advance(c, "contribute_put")
       ELSE EndCall(c)
    /\ UNCHANGED <<blobs, executed, deployment, backfill, replies, marks>>

\* put with allowOverwrite: nothing but the name of the object is compared.
Overwriting(k, f) == {g \in facts[k] : Name(k, g) # Name(k, f)} \cup {f}
PutFact(k, f) == facts' = [facts EXCEPT ![k] = Overwriting(k, f)]

\* putContribution, also on an Intent cancelled in the meantime; the read
\* after it decides over the answer only.
PutAuth(c) ==
    /\ stage[c] = "contribute_put"
    /\ PutFact("auth", writing[c])
    /\ Writes(c, cancelFile # Absent \/ Kept("auth", facts.auth, writing[c]))
    /\ EndCall(c)
    /\ UNCHANGED <<root, bindFile, cancelFile, executed, deployment, backfill, replies, rivals>>

-----------------------------------------------------------------------------
(* replanExpiredSorobanIntent *)

BeginReplan(c) ==
    /\ stage[c] = "replan"
    /\ \/ /\ cancelFile = Absent
          /\ held' = [held EXCEPT ![c] = IntentAsRead]
          /\ MoveTo(c, "replan_check") /\ UNCHANGED writing
       \/ EndCall(c)
    /\ UNCHANGED <<blobs, executed, deployment, backfill, replies, marks>>

\* Fault: only the cancellation is looked at again.
OpenOnly(c) == cancelFile = Absent
PlanUnchanged(c) ==
    /\ cancelFile = Absent
    /\ LatestPlan(root.chain) = LatestPlan(held[c].chain)
    /\ Len(root.chain) = Len(held[c].chain)

ReplanCheck(c) ==
    /\ stage[c] = "replan_check"
    /\ IF PlanUnchanged(c)
       THEN Advance(c, "replan_write") /\ Hold(c)
       ELSE EndCall(c) /\ UNCHANGED rivals
    /\ UNCHANGED <<blobs, executed, deployment, backfill, replies, late, restated>>

\* updateIntent: the whole object, whatever is stored by now.
ReplanWrite(c) ==
    /\ stage[c] = "replan_write"
    /\ root' = [held[c] EXCEPT !.chain = Append(@, c)]
    /\ Writes(c, TRUE)
    /\ Advance(c, "replan_after")
    /\ UNCHANGED <<bindFile, cancelFile, facts, executed, deployment, backfill, replies,
                   rivals>>

\* The read after the write that answers with the plan, or with an error.
AnswerReplan(c) ==
    /\ stage[c] = "replan_after"
    /\ refreshed' = IF /\ cancelFile = Absent
                       /\ Len(root.chain) = Len(held[c].chain) + 1
                       /\ LatestPlan(root.chain) = c
                    THEN refreshed \cup {c} ELSE refreshed
    /\ EndCall(c)
    /\ UNCHANGED <<blobs, executed, deployment, backfill, packaged, marks>>

-----------------------------------------------------------------------------
(* resolveAndBindIntegrationSorobanExecutor, prepareSorobanIntentExecution *)

BeginPrepare(c) ==
    /\ stage[c] = "prepare"
    /\ \/ /\ cancelFile = Absent /\ Ready(LatestPlan(root.chain))
          /\ IF IntentAsRead.executor # Absent
             THEN Carry(c, "prepare_read", IntentAsRead.executor)
             ELSE \E x \in Sources : Carry(c, "bind_put", x)
       \/ EndCall(c)
    /\ UNCHANGED <<blobs, executed, deployment, backfill, replies, marks>>

\* bindExecutionPolicy: the first binding stays ...
BindPut(c) ==
    /\ stage[c] = "bind_put"
    /\ IF bindFile = Absent
       THEN /\ bindFile' = writing[c]
            /\ Writes(c, TRUE)
            /\ Advance(c, "bind_read")
       ELSE /\ Carry(c, "prepare_read", bindFile)
            /\ UNCHANGED <<bindFile, late, restated>>
    /\ UNCHANGED <<root, cancelFile, facts, executed, deployment, backfill, replies, rivals>>

\* ... and is written into the Intent, which is read for that.
BindRead(c) ==
    /\ stage[c] = "bind_read"
    /\ held' = [held EXCEPT ![c] = root]
    /\ MoveTo(c, "bind_write") /\ Hold(c)
    /\ UNCHANGED <<blobs, executed, writing, deployment, backfill, replies, late, restated>>

BindWrite(c) ==
    /\ stage[c] = "bind_write"
    /\ root' = [held[c] EXCEPT !.executor = writing[c]]
    /\ Writes(c, held[c].chain # root.chain)
    /\ Advance(c, "prepare_read")
    /\ UNCHANGED <<bindFile, cancelFile, facts, executed, deployment, backfill, replies,
                   rivals>>

PrepareReload(c) ==
    /\ stage[c] = "prepare_read"
    /\ IF cancelFile = Absent
       THEN Carry(c, "prepare_check",
                  [plan |-> LatestPlan(root.chain), source |-> writing[c], at |-> c])
       ELSE EndCall(c)
    /\ UNCHANGED <<blobs, executed, deployment, backfill, replies, marks>>

PrepareCheck(c) ==
    /\ stage[c] = "prepare_check"
    /\ IF cancelFile = Absent THEN Advance(c, "prepare_put") ELSE EndCall(c)
    /\ UNCHANGED <<blobs, executed, deployment, backfill, replies, marks>>

PutPreparation(c) ==
    /\ stage[c] = "prepare_put"
    /\ PutFact("preparations", writing[c])
    /\ Writes(c, cancelFile # Absent)
    /\ Advance(c, "prepare_after")
    /\ UNCHANGED <<root, bindFile, cancelFile, executed, deployment, backfill, replies, rivals>>

AnswerPackage(c) ==
    /\ stage[c] = "prepare_after"
    /\ packaged' = IF cancelFile = Absent THEN packaged \cup {c} ELSE packaged
    /\ EndCall(c)
    /\ UNCHANGED <<blobs, executed, deployment, backfill, refreshed, marks>>

-----------------------------------------------------------------------------
(* cancelSorobanIntent, reconcileSorobanIntentExecution *)

BeginCancel(c) ==
    /\ stage[c] = "cancel"
    /\ IF cancelFile = Absent
       THEN Carry(c, "cancel_observe", [plan |-> LatestPlan(root.chain), at |-> c])
       ELSE EndCall(c)
    /\ UNCHANGED <<blobs, executed, deployment, backfill, replies, marks>>

CancelObserve(c) ==
    /\ stage[c] = "cancel_observe"
    /\ IF Succeeded(facts.observations) THEN EndCall(c) ELSE Advance(c, "cancel_put")
    /\ UNCHANGED <<blobs, executed, deployment, backfill, replies, marks>>

\* cancelIntent: without allowOverwrite, and without a look at the results.
CancelPut(c) ==
    /\ stage[c] = "cancel_put"
    /\ IF cancelFile = Absent
       THEN cancelFile' = writing[c] /\ Writes(c, Succeeded(facts.observations))
       ELSE UNCHANGED <<cancelFile, late, restated>>
    /\ EndCall(c)
    /\ UNCHANGED <<root, bindFile, facts, executed, deployment, backfill, replies, rivals>>

BeginReconcile(c) ==
    /\ stage[c] = "reconcile"
    /\ \/ \E p \in facts.preparations, r \in executed :
            /\ r.tx = p.at
            /\ \A o \in facts.observations : o.tx # p.at
            /\ Carry(c, "reconcile_put", [tx |-> p.at, ok |-> r.ok, at |-> c])
       \/ EndCall(c)
    /\ UNCHANGED <<blobs, executed, deployment, backfill, replies, marks>>

\* Allowed after a cancellation; a success is what PostgreSQL will not let a
\* cancellation follow.
PutObservation(c) ==
    /\ stage[c] = "reconcile_put"
    /\ PutFact("observations", writing[c])
    /\ Writes(c, \/ Kept("observations", facts.observations, writing[c])
                 \/ cancelFile # Absent /\ writing[c].ok)
    /\ EndCall(c)
    /\ UNCHANGED <<root, bindFile, cancelFile, executed, deployment, backfill, replies, rivals>>

\* An error, a timeout or a crash ends a call between two steps.
AbandonCall(c) ==
    /\ InFlight(c)
    /\ EndCall(c)
    /\ UNCHANGED <<blobs, executed, deployment, backfill, replies, marks>>

\* The executor signs and submits its package.
Land ==
    /\ \E c \in packaged, ok \in BOOLEAN :
          /\ \A r \in executed : r.tx # c
          /\ executed' = executed \cup {[tx |-> c, ok |-> ok]}
    /\ UNCHANGED <<blobs, calls, deployment, backfill, replies, marks>>

-----------------------------------------------------------------------------
(* One pass of backfillCoordinationData over this Intent. *)

still == <<blobs, executed, calls, deployment, replies, rivals, restated>>

Reach(label) == phase' = label /\ UNCHANGED <<passes, quiet>>
\* The pass throws.
Mismatch == phase' = "failed" /\ passes' = 0 /\ UNCHANGED quiet

\* loadBlobSorobanIntents: intent.json first ...
BeginPass ==
    /\ phase \in {"idle", "failed"} /\ ~ switched /\ passes < 2
    /\ listed' = [chain |-> root.chain, executor |-> root.executor, cancellation |-> Absent]
    /\ snapshot' = [k \in Kinds |-> Absent]
    /\ phase' = "listing"
    /\ quiet' = (frozen /\ \A c \in ApiCalls : ~ InFlight(c))
    /\ late' = {}
    /\ UNCHANGED <<still, copy, passes>>

\* ... and then the two files beside it.
ListFiles ==
    /\ phase = "listing"
    /\ listed' = [chain |-> listed.chain,
                  executor |-> IF listed.executor # Absent THEN listed.executor ELSE bindFile,
                  cancellation |-> cancelFile]
    /\ Reach("root")
    /\ UNCHANGED <<still, late, copy, snapshot>>

\* Fault: the cancellation, which is copied later, is compared with the root.
WholeIntent ==
    /\ copy.chain = listed.chain /\ copy.executor = listed.executor
    /\ copy.cancellation = listed.cancellation
\* assertEquivalent of the roots, intentWithoutCancellation.
RootsEquivalent == copy.chain = listed.chain /\ copy.executor = listed.executor

\* The row is created without the cancellation, or must equal what was listed.
CopyRoot ==
    /\ phase = "root"
    /\ \/ /\ copy = Absent
          /\ copy' = [chain |-> listed.chain, executor |-> listed.executor,
                      cancellation |-> Absent, facts |-> NoFacts]
          /\ Reach("snapshot")
       \/ /\ copy # Absent
          /\ IF RootsEquivalent THEN Reach("snapshot") ELSE Mismatch
          /\ UNCHANGED copy
    /\ UNCHANGED <<still, late, listed, snapshot>>

\* sorobanSnapshot of the blobs: three listings side by side.
SnapshotFacts(k) ==
    /\ phase = "snapshot" /\ snapshot[k] = Absent
    /\ snapshot' = [snapshot EXCEPT ![k] = facts[k]]
    /\ Reach(IF \A j \in Kinds \ {k} : snapshot[j] # Absent THEN "facts" ELSE "snapshot")
    /\ UNCHANGED <<still, late, copy, listed>>

\* Fault: the inserts know no conflict.
Unequal(k) == snapshot[k] \ copy.facts[k]
\* Facts that ON CONFLICT DO NOTHING lets in.
Missing(k) == {f \in snapshot[k] : ~ Kept(k, copy.facts[k], f)}
Insert(k, f) == copy' = [copy EXCEPT !.facts[k] = @ \cup {f}]

\* putContribution and putExecutionPreparation skip a cancelled Intent.
Unskipped == IF copy.cancellation = Absent THEN {"auth", "preparations"} ELSE {}

CopyFact ==
    /\ phase = "facts"
    /\ \/ /\ \E k \in Unskipped : \E f \in Missing(k) : Insert(k, f)
          /\ Reach("facts")
       \/ /\ \A k \in Unskipped : Missing(k) = {}
          /\ Reach("cancellation")
          /\ UNCHANGED copy
    /\ UNCHANGED <<still, late, listed, snapshot>>

\* cancelIntent of PostgreSQL: a row that is there stays, a success refuses.
CopyCancellation ==
    /\ phase = "cancellation"
    /\ LET wanted == listed.cancellation # Absent /\ copy.cancellation = Absent
           refused == wanted /\ Succeeded(copy.facts.observations)
       IN
       /\ IF refused THEN Mismatch ELSE Reach("observations")
       /\ copy' = IF wanted /\ ~ refused
                  THEN [copy EXCEPT !.cancellation = listed.cancellation] ELSE copy
    /\ UNCHANGED <<still, late, listed, snapshot>>

CopyObservation ==
    /\ phase = "observations"
    /\ \/ /\ \E f \in Missing("observations") : Insert("observations", f)
          /\ Reach("observations")
       \/ /\ Missing("observations") = {}
          /\ Reach("verify")
          /\ UNCHANGED copy
    /\ UNCHANGED <<still, late, listed, snapshot>>

\* Fault: the facts are taken to be equal since they were just written.
WithoutFacts ==
    /\ copy.chain = listed.chain /\ copy.executor = listed.executor
    /\ copy.cancellation = listed.cancellation
\* assertEquivalent of the two snapshots.
Equivalent ==
    copy = [chain |-> listed.chain, executor |-> listed.executor,
            cancellation |-> listed.cancellation, facts |-> snapshot]

Verify ==
    /\ phase = "verify"
    /\ IF Equivalent
       THEN /\ phase' = "idle"
            /\ passes' = IF frozen THEN passes + 1 ELSE 0
            /\ UNCHANGED quiet
       ELSE Mismatch
    /\ UNCHANGED <<still, late, copy, listed, snapshot>>

\* The command is interrupted; what it copied stays.
Interrupt ==
    /\ phase \notin {"idle", "failed"}
    /\ phase' = "idle" /\ passes' = 0
    /\ UNCHANGED <<still, late, copy, listed, snapshot, quiet>>

-----------------------------------------------------------------------------
(* The deployment, as the operator configures it. *)

Freeze ==
    /\ ~ frozen /\ ~ switched /\ phase \in {"idle", "failed"}
    /\ frozen' = TRUE
    /\ early' = {c \in ApiCalls : InFlight(c)}
    /\ phase' = "idle"
    /\ UNCHANGED <<blobs, executed, calls, switched, copy, listed, snapshot, passes,
                   quiet, replies, marks>>

\* After a pass that failed.
Unfreeze ==
    /\ frozen /\ phase = "failed"
    /\ frozen' = FALSE /\ early' = {} /\ late' = {}
    /\ phase' = "idle"
    /\ UNCHANGED <<blobs, executed, calls, switched, copy, listed, snapshot, passes,
                   quiet, replies, rivals, restated>>

\* runtimeSorobanIntentStore answers with PostgreSQL from here on: after a
\* frozen pass and its repetition.
Switch ==
    /\ frozen /\ phase = "idle" /\ passes = 2
    /\ switched' = TRUE /\ frozen' = FALSE
    /\ UNCHANGED <<blobs, executed, calls, early, backfill, replies, marks>>

CallStep(c) ==
    \/ \E op \in Purposes \cap Requests : Admit(c, op)
    \/ BeginContribute(c) \/ ContributeCheck(c) \/ PutAuth(c)
    \/ BeginReplan(c) \/ ReplanCheck(c) \/ ReplanWrite(c) \/ AnswerReplan(c)
    \/ BeginPrepare(c) \/ BindPut(c) \/ BindRead(c) \/ BindWrite(c) \/ PrepareReload(c)
    \/ PrepareCheck(c) \/ PutPreparation(c) \/ AnswerPackage(c)
    \/ BeginCancel(c) \/ CancelObserve(c) \/ CancelPut(c)
    \/ BeginReconcile(c) \/ PutObservation(c)
    \/ AbandonCall(c)

PassStep ==
    \/ BeginPass \/ ListFiles \/ CopyRoot \/ (\E k \in Kinds : SnapshotFacts(k))
    \/ CopyFact \/ CopyCancellation \/ CopyObservation \/ Verify \/ Interrupt

MigrationNext ==
    (\E c \in ApiCalls : CallStep(c)) \/ Land \/ PassStep \/ Freeze \/ Unfreeze \/ Switch

MigrationSpec == MigrationInit /\ [][MigrationNext]_migrationVars

-----------------------------------------------------------------------------
(* Properties *)

\* Type correctness of the blobs, the copy and the backfill.
MigrationTypeOK ==
    /\ root.chain \in Seq(Past) /\ root.executor \in Sources \cup {Absent}
    /\ bindFile \in Sources \cup {Absent}
    /\ cancelFile \in [plan: Past, at: ApiCalls] \cup {Absent}
    /\ facts.auth \subseteq [plan: Past, signer: Contributors, at: Past]
    /\ facts.preparations \subseteq [plan: Past, source: Sources, at: Past]
    /\ facts.observations \subseteq [tx: Past, ok: BOOLEAN, at: ApiCalls]
    /\ executed \subseteq [tx: Past, ok: BOOLEAN]
    /\ copy # Absent => \A k \in Kinds : \A f \in copy.facts[k] :
          \A g \in copy.facts[k] : Name(k, f) = Name(k, g) => f = g
    /\ frozen \in BOOLEAN /\ switched \in BOOLEAN
    /\ passes \in 0..2 /\ early \subseteq ApiCalls /\ late \subseteq early
    /\ refreshed \subseteq ApiCalls /\ packaged \subseteq Past

\* Nothing is left behind at the switch but what a call wrote that was let in
\* before the freeze and was still at work during the last pass: the freeze is
\* asked for once, at the start of a call, and nothing waits for the others.
CutoverKeepsFacts ==
    switched =>
        /\ late = {} => /\ copy.chain = root.chain /\ copy.executor = IntentAsRead.executor
                        /\ copy.cancellation = cancelFile
        /\ \A k \in Kinds : \A f \in facts[k] : f \in copy.facts[k] \/ f.at \in late

\* A pass fails only if, since the first one began, the Intent was replanned or
\* bound, something was written under the name of another fact or onto a
\* cancelled Intent, or a success met a cancellation.  Passes that stopped
\* anywhere, and everything else that came in between, are made up for.
FailedPassesHaveACause == phase = "failed" => restated

\* A call answered with a refreshed plan has it in the history for good, unless
\* two calls held copies of intent.json at the same time.
AnsweredPlansAreKept ==
    rivals \/ \A c \in refreshed : \E r \in DOMAIN root.chain : root.chain[r] = c

\* postgres-cutover-runbook.md: a pass before the freeze may be repeated and
\* only shortens the final one; so a pass over frozen blobs that no call
\* touches does not fail.
PrefillOnlyShortens == phase = "failed" => ~ quiet
=============================================================================
