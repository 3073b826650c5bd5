----------------------- MODULE StorageMigrationProofs -----------------------
(***************************************************************************)
(* What holds of an Intent in blob objects and of its move to PostgreSQL,  *)
(* whatever the number of calls, signers, executors and plans.             *)
(*                                                                         *)
(* Types.  What a call holds at each await is of a kind, and carries its   *)
(* name; the copy keeps every fact once.                                   *)
(*                                                                         *)
(* Alone.  Unless two calls held copies of intent.json at once, the one    *)
(* that does holds what is stored, and what a call remembers of the plans  *)
(* is a prefix of it: no write takes a plan back.                          *)
(*                                                                         *)
(* Frozen.  Under the freeze, and after the switch, only calls let in      *)
(* before it are at work.  So a pass under the freeze has, of every fact   *)
(* but those that such calls wrote since it began, a place it still has to *)
(* read it from, or a snapshot with it, or the copy; two passes that found *)
(* no difference leave the copy complete.                                  *)
(*                                                                         *)
(* Sound.  A pass compares what it listed, what it took snapshots of and   *)
(* the copy.  While nothing was restated they agree, each being what the   *)
(* blobs hold or held and what they can still grow from (Agree).  That the *)
(* executor is bound once (Bound) and a call prepares once (Once) is what  *)
(* keeps most writes from restating.                                       *)
(***************************************************************************)
EXTENDS StorageMigration, TLAPS

(* Types.                                                                  *)

Chain == Seq(Past) \ {<<>>}
Choice == Sources \cup {Absent}
Root == [chain : Chain, executor : Choice]
Contribution == [plan : Past, signer : Contributors, at : Past]
Preparation == [plan : Past, source : Sources, at : Past]
Observation == [tx : Past, ok : BOOLEAN, at : ApiCalls]
Cancellation == [plan : Past, at : ApiCalls]
Row(k) == CASE k = "auth" -> Contribution
            [] k = "preparations" -> Preparation
            [] k = "observations" -> Observation
Typed(F) == DOMAIN F = Kinds /\ \A k \in Kinds : F[k] \subseteq Row(k)

\* Nothing is kept twice.
Unique(F) == \A k \in Kinds : \A f, g \in F[k] : Name(k, f) = Name(k, g) => f = g

\* The steps of a pass; those in which it copies; those after its snapshots.
Copying == {"snapshot", "facts", "cancellation", "observations", "verify"}
Passing == {"listing", "root"} \cup Copying
Snapped == Copying \ {"snapshot"}

Label ==
    {"idle", "done", "contribute_check", "contribute_put", "replan_check",
     "replan_write", "replan_after", "bind_put", "bind_read", "bind_write",
     "prepare_read", "prepare_check", "prepare_put", "prepare_after",
     "cancel_observe", "cancel_put", "reconcile_put"} \cup Requests

\* What call c holds at its next await.
HoldsTyped(c) ==
    /\ stage[c] \in {"replan_check", "replan_write", "replan_after", "bind_write"} =>
          held[c] \in Root
    /\ stage[c] \in {"contribute_check", "contribute_put"} =>
          writing[c] \in Contribution /\ writing[c].at = c
    /\ stage[c] \in {"bind_put", "bind_read", "bind_write", "prepare_read"} =>
          writing[c] \in Sources
    /\ stage[c] \in {"prepare_check", "prepare_put"} =>
          writing[c] \in Preparation /\ writing[c].at = c
    /\ stage[c] \in {"cancel_observe", "cancel_put"} => writing[c] \in Cancellation
    /\ stage[c] = "reconcile_put" => writing[c] \in Observation /\ writing[c].at = c

BlobsTyped ==
    /\ root \in Root /\ bindFile \in Choice /\ cancelFile \in Cancellation \cup {Absent}
    /\ Typed(facts) /\ executed \subseteq [tx : Past, ok : BOOLEAN]

CallsTyped ==
    /\ stage \in [ApiCalls -> Label] /\ DOMAIN held = ApiCalls /\ DOMAIN writing = ApiCalls
    /\ \A c \in ApiCalls : HoldsTyped(c)

CopyTyped ==
    /\ DOMAIN copy = {"chain", "executor", "cancellation", "facts"} /\ Typed(copy.facts)

PassTyped ==
    /\ phase \in Passing \cup {"idle", "failed"} /\ DOMAIN snapshot = Kinds
    /\ copy # Absent \/ phase \in Copying => CopyTyped /\ Unique(copy.facts)
    /\ phase \in {"listing", "root"} => \A k \in Kinds : snapshot[k] = Absent
    /\ phase = "snapshot" => \A k \in Kinds : snapshot[k] = Absent \/ snapshot[k] \subseteq Row(k)
    /\ phase \in Snapped => \A k \in Kinds : snapshot[k] \subseteq Row(k)

DeploymentTyped ==
    /\ frozen \in BOOLEAN /\ switched \in BOOLEAN /\ quiet \in BOOLEAN
    /\ passes \in 0 .. 2 /\ (phase \in Passing => passes \in 0 .. 1)
    /\ early \subseteq ApiCalls /\ late \subseteq early
    /\ ~frozen /\ ~switched => early = {}
    /\ refreshed \subseteq ApiCalls /\ packaged \subseteq Past
    /\ rivals \in BOOLEAN /\ restated \in BOOLEAN

Types == BlobsTyped /\ CallsTyped /\ PassTyped /\ DeploymentTyped

-----------------------------------------------------------------------------
(* Answered plans. *)

Prefix(s, t) == Len(s) <= Len(t) /\ \A i \in 1 .. Len(s) : s[i] = t[i]

Alone ==
    ~rivals =>
        /\ \A c, d \in ApiCalls : stage[c] \in Holding /\ stage[d] \in Holding => c = d
        /\ \A c \in ApiCalls : stage[c] \in {"replan_check", "replan_after"} =>
              Prefix(held[c].chain, root.chain)
        /\ \A c \in ApiCalls : stage[c] \in Holding => held[c].chain = root.chain
        /\ AnsweredPlansAreKept

-----------------------------------------------------------------------------
(* The switch. *)

\* What a pass listed is what is stored.
Listed ==
    /\ listed.chain = root.chain
    /\ phase = "listing" => listed.executor = root.executor
    /\ phase # "listing" =>
          listed.executor = IntentAsRead.executor /\ listed.cancellation = cancelFile

Complete ==
    /\ late = {} => /\ copy.chain = root.chain /\ copy.executor = IntentAsRead.executor
                    /\ copy.cancellation = cancelFile
    /\ \A k \in Kinds : \A f \in facts[k] : f \in copy.facts[k] \/ f.at \in late

Frozen ==
    /\ frozen \/ switched => \A c \in ApiCalls : InFlight(c) => c \in early
    /\ frozen => ~switched
    /\ (~frozen /\ ~switched) \/ phase = "failed" => passes = 0
    /\ switched \/ passes = 2 => passes = 2 /\ phase = "idle" /\ Complete
    /\ frozen /\ phase \in Passing =>
          /\ late = {} => Listed
          /\ \A k \in Kinds : phase \in Snapped \/ (phase = "snapshot" /\ snapshot[k] # Absent) =>
                \A f \in facts[k] : f \in snapshot[k] \/ f.at \in late

-----------------------------------------------------------------------------
(* Failed passes. *)

\* The executor, as whoever reads the Intent sees it.
Executor == IntentAsRead.executor

\* The executor was chosen at the creation, or is what the binding says; calls
\* on their way to write intent.json carry no other one.
Bound ==
    \/ /\ bindFile = Absent /\ root.executor # Absent
       /\ \A c \in ApiCalls :
             /\ stage[c] \notin {"bind_put", "bind_read", "bind_write"}
             /\ stage[c] \in {"replan_check", "replan_write"} =>
                   held[c].executor = root.executor
    \/ /\ root.executor \in {Absent, bindFile}
       /\ \A c \in ApiCalls :
             /\ stage[c] \in {"replan_check", "replan_write", "bind_write"} =>
                   held[c].executor \in {Absent, bindFile}
             /\ stage[c] \in {"bind_read", "bind_write"} =>
                   writing[c] = bindFile /\ bindFile # Absent

\* Every call prepares once.
Once ==
    \A p \in facts["preparations"] : p.at \in ApiCalls => stage[p.at] \in {"prepare_after", "done"}

\* Rows and snapshots are what they say, and nothing besides.
Whole(row) ==
    row = [chain |-> row.chain, executor |-> row.executor,
           cancellation |-> row.cancellation, facts |-> [k \in Kinds |-> row.facts[k]]]

Shaped ==
    /\ snapshot = [k \in Kinds |-> snapshot[k]]
    /\ copy # Absent \/ phase \in Copying => Whole(copy)

\* Kinds that PostgreSQL takes no more of once the Intent is cancelled.
Signing == {"auth", "preparations"}

\* What the blobs say of the copy,
CopyFollows ==
    /\ copy.chain = root.chain /\ copy.executor = Executor
    /\ copy.cancellation \in {Absent, cancelFile}
    /\ \A k \in Kinds : copy.facts[k] \subseteq facts[k]
    /\ copy.cancellation # Absent => \A k \in Signing : facts[k] \subseteq copy.facts[k]
    /\ copy.cancellation = Absent /\ cancelFile # Absent =>
          ~Succeeded(copy.facts["observations"])

\* of what a pass listed,
ListedFollows ==
    /\ listed.chain = root.chain /\ listed.executor = Executor
    /\ listed.cancellation \in {Absent, cancelFile}
    /\ copy # Absent /\ copy.cancellation # Absent => listed.cancellation # Absent
    /\ listed.cancellation = Absent /\ cancelFile # Absent => ~Succeeded(facts["observations"])

\* and of its snapshot of the facts of a kind.
SnapshotFollows(k) ==
    /\ copy.facts[k] \subseteq snapshot[k] /\ snapshot[k] \subseteq facts[k]
    /\ listed.cancellation # Absent /\ k # "observations" => snapshot[k] = facts[k]

\* While nothing was restated, the copy, what a pass listed and what it took
\* snapshots of are what the blobs hold or held; and what a pass has done so
\* far is what the next steps of it ask for.
Agree ==
    ~restated =>
        /\ phase # "failed"
        /\ copy # Absent \/ phase \in Copying => CopyFollows
        /\ phase = "listing" =>
              /\ listed.chain = root.chain
              /\ Executor = IF listed.executor # Absent THEN listed.executor ELSE bindFile
        /\ phase \in {"root"} \cup Copying => ListedFollows
        /\ \A k \in Kinds : phase \in Snapped \/ (phase = "snapshot" /\ snapshot[k] # Absent) =>
              SnapshotFollows(k)
        /\ phase \in {"cancellation", "observations", "verify"} =>
              \A k \in Signing : snapshot[k] \subseteq copy.facts[k]
        /\ phase \in {"observations", "verify"} => copy.cancellation = listed.cancellation
        /\ phase = "verify" => snapshot["observations"] \subseteq copy.facts["observations"]

Sound == Unique(facts) /\ Bound /\ Once /\ Shaped /\ Agree

-----------------------------------------------------------------------------
(* Steps of calls.                                                         *)

\* The labels, one by one.
LEMMA Labels ==
    /\ Label = {"idle", "done", "contribute_check", "contribute_put", "replan_check",
                "replan_write", "replan_after", "bind_put", "bind_read", "bind_write",
                "prepare_read", "prepare_check", "prepare_put", "prepare_after",
                "cancel_observe", "cancel_put", "reconcile_put",
                "contribute", "replan", "prepare", "cancel", "reconcile"}
    /\ \A c : InFlight(c) <=> stage[c] # "idle" /\ stage[c] # "done"
BY DEF Label, Requests, InFlight

\* The locals of a call that leaves.
LEMMA Left ==
    ASSUME CallsTyped, NEW c \in ApiCalls, EndCall(c)
    PROVE  /\ stage' = [stage EXCEPT ![c] = "done"] /\ stage' \in [ApiCalls -> Label]
           /\ held' = [held EXCEPT ![c] = Absent] /\ writing' = [writing EXCEPT ![c] = Absent]
           /\ stage'[c] = "done" /\ HoldsTyped(c)'
BY Labels DEF CallsTyped, EndCall, MoveTo, HoldsTyped

\* A call goes on to another label.
LEMMA Gone ==
    ASSUME CallsTyped, NEW c \in ApiCalls, NEW label \in Label, MoveTo(c, label)
    PROVE  /\ stage' = [stage EXCEPT ![c] = label]
           /\ stage' \in [ApiCalls -> Label] /\ stage'[c] = label
BY DEF CallsTyped, MoveTo

\* What other calls see of a step.
Elsewhere(c) ==
    /\ stage' \in [ApiCalls -> Label] /\ DOMAIN held' = ApiCalls /\ DOMAIN writing' = ApiCalls
    /\ \A d \in ApiCalls \ {c} :
          stage'[d] = stage[d] /\ held'[d] = held[d] /\ writing'[d] = writing[d]
    /\ UNCHANGED <<deployment, backfill>>

\* A step of one call leaves the others, the copy and the deployment alone.
LEMMA OthersRest ==
    ASSUME CallsTyped, NEW c \in ApiCalls, CallStep(c)
    PROVE  Elsewhere(c)
<1>1. UNCHANGED <<deployment, backfill>>
  BY DEF CallStep, Admit, BeginContribute, ContributeCheck, PutAuth, BeginReplan,
     ReplanCheck, ReplanWrite, AnswerReplan, BeginPrepare, BindPut, BindRead, BindWrite,
     PrepareReload, PrepareCheck, PutPreparation, AnswerPackage, BeginCancel,
     CancelObserve, CancelPut, BeginReconcile, PutObservation, AbandonCall
<1>2. /\ \E label \in Label : stage' = [stage EXCEPT ![c] = label]
      /\ UNCHANGED held \/ \E v : held' = [held EXCEPT ![c] = v]
      /\ UNCHANGED writing \/ \E v : writing' = [writing EXCEPT ![c] = v]
  BY Labels DEF CallStep, Admit, BeginContribute, ContributeCheck, PutAuth, BeginReplan,
     ReplanCheck, ReplanWrite, AnswerReplan, BeginPrepare, BindPut, BindRead, BindWrite,
     PrepareReload, PrepareCheck, PutPreparation, AnswerPackage, BeginCancel,
     CancelObserve, CancelPut, BeginReconcile, PutObservation, AbandonCall, EndCall, Advance,
     Carry, MoveTo, Requests
<1> QED BY <1>1, <1>2 DEF Elsewhere, CallsTyped

\* What an intent.json holds, before and after it is written back.
LEMMA Plans ==
    ASSUME NEW r \in Root
    PROVE  /\ r.chain \in Seq(Past) /\ r.chain # <<>> /\ Len(r.chain) \in Nat \ {0}
           /\ LatestPlan(r.chain) \in Past /\ r.executor \in Choice
           /\ \A c \in ApiCalls :
                 /\ [r EXCEPT !.chain = Append(@, c)] =
                       [chain |-> Append(r.chain, c), executor |-> r.executor]
                 /\ Append(r.chain, c) \in Chain
           /\ \A x : [r EXCEPT !.executor = x] = [chain |-> r.chain, executor |-> x]
<1>1. r.chain \in Seq(Past) /\ r.chain # <<>> /\ r.executor \in Choice
  BY DEF Root, Chain
<1>2. Len(r.chain) \in Nat \ {0} /\ LatestPlan(r.chain) \in Past
  BY <1>1 DEF LatestPlan
<1>3. r = [chain |-> r.chain, executor |-> r.executor]
  BY DEF Root
<1>4. ASSUME NEW c \in ApiCalls PROVE Append(r.chain, c) \in Chain
  <2>1. c \in Past
    BY DEF Past
  <2>2. Append(r.chain, c) \in Seq(Past) /\ Len(Append(r.chain, c)) = Len(r.chain) + 1
    BY <1>1, <2>1
  <2>3. Len(<<>>) = 0
    OBVIOUS
  <2> QED BY <1>2, <2>2, <2>3 DEF Chain
<1>5. ASSUME NEW c
      PROVE  [r EXCEPT !.chain = Append(@, c)] =
                [chain |-> Append(r.chain, c), executor |-> r.executor]
  BY <1>3
<1>6. ASSUME NEW x PROVE [r EXCEPT !.executor = x] = [chain |-> r.chain, executor |-> x]
  BY <1>3
<1> QED BY <1>1, <1>2, <1>4, <1>5, <1>6

\* The Intent a caller reads.
LEMMA Read ==
    ASSUME BlobsTyped
    PROVE  IntentAsRead \in Root /\ IntentAsRead.chain = root.chain /\ Executor \in Choice
BY DEF BlobsTyped, IntentAsRead, Executor, Root, Choice

\* What a call holds at its next await.
LEMMA CallHolds ==
    ASSUME BlobsTyped, CallsTyped, NEW c \in ApiCalls, CallStep(c)
    PROVE  HoldsTyped(c)'
<1> USE Labels
<1>0. LatestPlan(root.chain) \in Past /\ root \in Root /\ c \in Past /\ HoldsTyped(c)
  BY Plans DEF BlobsTyped, CallsTyped, Past
<1>1. CASE EndCall(c)
  BY <1>1, Left
<1>2. ASSUME NEW op \in Requests, Admit(c, op) PROVE HoldsTyped(c)'
  BY <1>2 DEF Admit, MoveTo, CallsTyped, HoldsTyped, Requests
<1>3. CASE BeginContribute(c) \/ ContributeCheck(c)
  BY <1>0, <1>1, <1>3 DEF BeginContribute, ContributeCheck, Carry, Advance, MoveTo, CallsTyped,
     HoldsTyped, Contribution
<1>4. CASE \/ PutAuth(c) \/ AnswerReplan(c) \/ AnswerPackage(c)
           \/ CancelPut(c) \/ PutObservation(c) \/ AbandonCall(c)
  BY <1>1, <1>4 DEF PutAuth, AnswerReplan, AnswerPackage, CancelPut,
     PutObservation, AbandonCall
<1>5. CASE BeginReplan(c)
  BY <1>0, <1>1, <1>5, Read DEF BeginReplan, MoveTo, CallsTyped, HoldsTyped
<1>6. CASE ReplanCheck(c) \/ ReplanWrite(c)
  BY <1>0, <1>1, <1>6 DEF ReplanCheck, ReplanWrite, Advance, MoveTo, CallsTyped, HoldsTyped
<1>7. CASE BeginPrepare(c)
  BY <1>0, <1>1, <1>7, Read DEF BeginPrepare, Carry, MoveTo, CallsTyped, HoldsTyped, Executor,
     Choice
<1>8. CASE BindPut(c)
  BY <1>0, <1>8 DEF BindPut, Carry, Advance, MoveTo, CallsTyped, HoldsTyped, BlobsTyped, Choice
<1>9. CASE BindRead(c) \/ BindWrite(c)
  BY <1>0, <1>9 DEF BindRead, BindWrite, Carry, Advance, MoveTo, CallsTyped, HoldsTyped
<1>10. CASE PrepareReload(c) \/ PrepareCheck(c) \/ PutPreparation(c)
  BY <1>0, <1>1, <1>10 DEF PrepareReload, PrepareCheck, PutPreparation, Carry, Advance,
     MoveTo, CallsTyped, HoldsTyped, Preparation
<1>11. CASE BeginCancel(c) \/ CancelObserve(c)
  BY <1>0, <1>1, <1>11 DEF BeginCancel, CancelObserve, Carry, Advance, MoveTo, CallsTyped,
     HoldsTyped, Cancellation
<1>12. CASE BeginReconcile(c)
  <2>1. ASSUME NEW p \in facts.preparations, NEW r \in executed,
               Carry(c, "reconcile_put", [tx |-> p.at, ok |-> r.ok, at |-> c])
        PROVE  HoldsTyped(c)'
    <3>1. p.at \in Past /\ r.ok \in BOOLEAN
      <4>1. facts["preparations"] \subseteq Preparation
        BY DEF BlobsTyped, Typed, Kinds, Row
      <4> QED BY <4>1 DEF BlobsTyped, Preparation
    <3> QED BY <2>1, <3>1 DEF Carry, MoveTo, CallsTyped, HoldsTyped, Observation
  <2> QED BY <1>1, <1>12, <2>1 DEF BeginReconcile
<1> QED BY <1>2, <1>3, <1>4, <1>5, <1>6, <1>7, <1>8, <1>9, <1>10, <1>11, <1>12 DEF CallStep

\* An object put under its name replaces at most the one of that name.
LEMMA Stored ==
    ASSUME Typed(facts), NEW k \in Kinds, NEW f \in Row(k), PutFact(k, f)
    PROVE  /\ Typed(facts') /\ \A j \in Kinds \ {k} : facts'[j] = facts[j]
           /\ facts'[k] = {g \in facts[k] : Name(k, g) # Name(k, f)} \cup {f}
           /\ Unique(facts) => Unique(facts')
           /\ ~Kept(k, facts[k], f) => facts'[k] = facts[k] \cup {f}
<1>1. /\ DOMAIN facts' = Kinds /\ \A j \in Kinds \ {k} : facts'[j] = facts[j]
      /\ facts'[k] = {g \in facts[k] : Name(k, g) # Name(k, f)} \cup {f}
  BY DEF Typed, PutFact, Overwriting
<1>2. Typed(facts')
  BY <1>1 DEF Typed
<1>3. ASSUME Unique(facts) PROVE Unique(facts')
  BY <1>1, <1>3 DEF Unique
<1>4. ASSUME ~Kept(k, facts[k], f) PROVE facts'[k] = facts[k] \cup {f}
  BY <1>1, <1>4 DEF Kept
<1> QED BY <1>1, <1>2, <1>3, <1>4

\* The steps that change a blob object.
FactWrite(c) ==
    \/ PutAuth(c) /\ writing[c] \in Contribution
    \/ PutPreparation(c) /\ writing[c] \in Preparation
    \/ PutObservation(c) /\ writing[c] \in Observation

BlobWrite(c) ==
    \/ FactWrite(c) /\ writing[c].at = c
    \/ ReplanWrite(c) /\ held[c] \in Root
    \/ BindPut(c) /\ bindFile = Absent /\ writing[c] \in Sources
    \/ BindWrite(c) /\ held[c] \in Root /\ writing[c] \in Sources
    \/ CancelPut(c) /\ cancelFile = Absent /\ writing[c] \in Cancellation

\* Every other step of a call leaves the blobs alone.
LEMMA Writers ==
    ASSUME CallsTyped, NEW c \in ApiCalls, CallStep(c)
    PROVE  \/ UNCHANGED <<blobs, late, restated>>
           \/ BlobWrite(c)
<1>1. HoldsTyped(c)
  BY DEF CallsTyped
<1>2. CASE PutAuth(c) \/ PutPreparation(c) \/ PutObservation(c)
  BY <1>1, <1>2 DEF HoldsTyped, BlobWrite, FactWrite, PutAuth, PutPreparation,
     PutObservation
<1>3. CASE ReplanWrite(c) \/ BindWrite(c)
  BY <1>1, <1>3 DEF HoldsTyped, BlobWrite, ReplanWrite, BindWrite
<1>4. CASE BindPut(c) \/ CancelPut(c)
  BY <1>1, <1>4 DEF HoldsTyped, BlobWrite, BindPut, CancelPut, blobs
<1>5. CASE UNCHANGED <<blobs, late, restated>>
  BY <1>5
<1> QED BY <1>2, <1>3, <1>4, <1>5 DEF CallStep, Admit, BeginContribute, ContributeCheck,
     BeginReplan, ReplanCheck, AnswerReplan, BeginPrepare, BindRead, PrepareReload, PrepareCheck,
     AnswerPackage, BeginCancel, CancelObserve, BeginReconcile, AbandonCall, marks

\* A fact is stored as what it is.
LEMMA FactWriteStores ==
    ASSUME BlobsTyped, NEW c \in ApiCalls, FactWrite(c)
    PROVE  /\ \E k \in Kinds : writing[c] \in Row(k) /\ PutFact(k, writing[c])
           /\ UNCHANGED <<root, bindFile, cancelFile, executed>>
<1>1. "auth" \in Kinds /\ "preparations" \in Kinds /\ "observations" \in Kinds
  BY DEF Kinds
<1>2. /\ Row("auth") = Contribution /\ Row("preparations") = Preparation
      /\ Row("observations") = Observation
  BY DEF Row
<1> QED BY <1>1, <1>2 DEF FactWrite, PutAuth, PutPreparation,
     PutObservation

\* Every object keeps its type, and no fact is kept twice.
LEMMA BlobsStayTyped ==
    ASSUME BlobsTyped, CallsTyped, NEW c \in ApiCalls, CallStep(c)
    PROVE  BlobsTyped' /\ (Unique(facts) => Unique(facts'))
<1>1. executed' = executed
  BY DEF CallStep, Admit, BeginContribute, ContributeCheck, PutAuth, BeginReplan,
     ReplanCheck, ReplanWrite, AnswerReplan, BeginPrepare, BindPut, BindRead, BindWrite,
     PrepareReload, PrepareCheck, PutPreparation, AnswerPackage, BeginCancel,
     CancelObserve, CancelPut, BeginReconcile, PutObservation, AbandonCall
<1>2. CASE UNCHANGED <<blobs, late, restated>>
  BY <1>1, <1>2 DEF BlobsTyped, blobs
<1>3. CASE FactWrite(c)
  <2>1. PICK k \in Kinds : writing[c] \in Row(k) /\ PutFact(k, writing[c])
    BY <1>3, FactWriteStores
  <2>2. UNCHANGED <<root, bindFile, cancelFile>>
    BY <1>3, FactWriteStores
  <2>3. Typed(facts') /\ (Unique(facts) => Unique(facts'))
    BY <2>1, Stored DEF BlobsTyped
  <2> QED BY <1>1, <2>2, <2>3 DEF BlobsTyped
<1>4. CASE ReplanWrite(c) /\ held[c] \in Root
  <2>1. root' \in Root
    BY <1>4, Plans DEF ReplanWrite, Root
  <2> QED BY <1>1, <1>4, <2>1 DEF ReplanWrite, BlobsTyped
<1>5. CASE BindWrite(c) /\ held[c] \in Root /\ writing[c] \in Sources
  <2>1. root' \in Root
    BY <1>5, Plans DEF BindWrite, Root, Chain, Choice
  <2> QED BY <1>1, <1>5, <2>1 DEF BindWrite, BlobsTyped
<1>6. CASE BindPut(c) /\ bindFile = Absent /\ writing[c] \in Sources
  BY <1>1, <1>6 DEF BindPut, BlobsTyped, Choice
<1>7. CASE CancelPut(c) /\ cancelFile = Absent /\ writing[c] \in Cancellation
  BY <1>1, <1>7 DEF CancelPut, BlobsTyped
<1> QED BY Writers, <1>2, <1>3, <1>4, <1>5, <1>6, <1>7 DEF BlobWrite

\* What is known of calls that were late, answered, or held copies at once.
LEMMA MarksStayTyped ==
    ASSUME BlobsTyped, CallsTyped, DeploymentTyped, NEW c \in ApiCalls, CallStep(c)
    PROVE  DeploymentTyped'
<1>1. UNCHANGED <<frozen, switched, early, quiet, passes>>
  BY OthersRest DEF Elsewhere, deployment, backfill
<1>0. phase' = phase
  BY OthersRest DEF Elsewhere, deployment, backfill
<1>2. late' = late \/ (c \in early /\ late' = late \cup {c})
  BY Writers DEF BlobWrite, FactWrite, PutAuth, PutPreparation,
     PutObservation, ReplanWrite, BindPut, BindWrite, CancelPut, Writes
<1>3. /\ refreshed' \in {refreshed, refreshed \cup {c}}
      /\ packaged' \in {packaged, packaged \cup {c}}
  BY DEF CallStep, Admit, BeginContribute, ContributeCheck, PutAuth, BeginReplan,
     ReplanCheck, ReplanWrite, AnswerReplan, BeginPrepare, BindPut, BindRead, BindWrite,
     PrepareReload, PrepareCheck, PutPreparation, AnswerPackage, BeginCancel,
     CancelObserve, CancelPut, BeginReconcile, PutObservation, AbandonCall, replies
<1>4. rivals' \in BOOLEAN
  BY DEF CallStep, Admit, BeginContribute, ContributeCheck, PutAuth, BeginReplan,
     ReplanCheck, ReplanWrite, AnswerReplan, BeginPrepare, BindPut, BindRead, BindWrite,
     PrepareReload, PrepareCheck, PutPreparation, AnswerPackage, BeginCancel,
     CancelObserve, CancelPut, BeginReconcile, PutObservation, AbandonCall, marks, Hold,
     DeploymentTyped
<1>5. restated' \in BOOLEAN
  BY Writers DEF BlobWrite, FactWrite, PutAuth, PutPreparation,
     PutObservation, ReplanWrite, BindPut, BindWrite, CancelPut, Writes, DeploymentTyped
<1> QED BY <1>0, <1>1, <1>2, <1>3, <1>4, <1>5 DEF DeploymentTyped, Past

-----------------------------------------------------------------------------
(* Steps of a pass, and of the operator.                                   *)

\* The phases, one by one.
LEMMA Phases ==
    /\ Copying = {"snapshot", "facts", "cancellation", "observations", "verify"}
    /\ Passing = {"listing", "root", "snapshot", "facts", "cancellation", "observations",
                  "verify"}
    /\ Snapped = {"facts", "cancellation", "observations", "verify"}
BY DEF Copying, Passing, Snapped

\* One row is copied.
LEMMA Inserted ==
    ASSUME CopyTyped, Unique(copy.facts), NEW k \in Kinds, NEW f \in Row(k),
           ~Kept(k, copy.facts[k], f), Insert(k, f)
    PROVE  /\ CopyTyped' /\ Unique(copy.facts)'
           /\ copy'.chain = copy.chain /\ copy'.executor = copy.executor
           /\ copy'.cancellation = copy.cancellation
           /\ copy'.facts[k] = copy.facts[k] \cup {f}
           /\ \A j \in Kinds \ {k} : copy'.facts[j] = copy.facts[j]
<1> DEFINE C == copy.facts
<1>1. copy' = [copy EXCEPT !["facts"] = [C EXCEPT ![k] = C[k] \cup {f}]]
  BY DEF Insert
<1>2. /\ DOMAIN copy' = {"chain", "executor", "cancellation", "facts"}
      /\ copy'.facts = [C EXCEPT ![k] = C[k] \cup {f}]
      /\ copy'.chain = copy.chain /\ copy'.executor = copy.executor
      /\ copy'.cancellation = copy.cancellation
  BY <1>1 DEF CopyTyped
<1>3. /\ DOMAIN copy'.facts = Kinds /\ copy'.facts[k] = C[k] \cup {f}
      /\ \A j \in Kinds \ {k} : copy'.facts[j] = C[j]
  BY <1>2 DEF CopyTyped, Typed
<1>4. Typed(copy'.facts)
  BY <1>3 DEF CopyTyped, Typed
<1>5. Unique(copy'.facts)
  <2>1. ASSUME NEW j \in Kinds, NEW g \in copy'.facts[j], NEW h \in copy'.facts[j],
               Name(j, g) = Name(j, h)
        PROVE  g = h
    <3>1. CASE g \in C[j] /\ h \in C[j]
      BY <2>1, <3>1 DEF Unique
    <3>2. CASE g \notin C[j] \/ h \notin C[j]
      <4>1. j = k
        BY <3>2, <1>3
      <4>2. \A x \in C[k] : Name(k, x) # Name(k, f)
        BY DEF Kept
      <4> QED BY <2>1, <3>2, <4>1, <4>2, <1>3
    <3> QED BY <3>1, <3>2
  <2> QED BY <2>1 DEF Unique
<1> QED BY <1>2, <1>3, <1>4, <1>5 DEF CopyTyped

\* The row of an Intent that is not there yet.
LEMMA NewRow ==
    ASSUME copy' = [chain |-> listed.chain, executor |-> listed.executor,
                    cancellation |-> Absent, facts |-> NoFacts]
    PROVE  /\ CopyTyped' /\ Unique(copy.facts)'
           /\ copy'.chain = listed.chain /\ copy'.executor = listed.executor
           /\ copy'.cancellation = Absent /\ \A k \in Kinds : copy'.facts[k] = {}
<1>1. /\ DOMAIN copy' = {"chain", "executor", "cancellation", "facts"}
      /\ copy'.chain = listed.chain /\ copy'.executor = listed.executor
      /\ copy'.cancellation = Absent /\ copy'.facts = NoFacts
  OBVIOUS
<1>2. DOMAIN NoFacts = Kinds /\ \A k \in Kinds : NoFacts[k] = {}
  BY DEF NoFacts
<1> QED BY <1>1, <1>2 DEF CopyTyped, Typed, Unique

\* The row of an Intent that is cancelled.
LEMMA Cancelled ==
    ASSUME CopyTyped, Unique(copy.facts),
           copy' = [copy EXCEPT !.cancellation = listed.cancellation]
    PROVE  /\ CopyTyped' /\ Unique(copy.facts)'
           /\ copy'.chain = copy.chain /\ copy'.executor = copy.executor
           /\ copy'.cancellation = listed.cancellation /\ copy'.facts = copy.facts
<1>1. /\ DOMAIN copy' = {"chain", "executor", "cancellation", "facts"}
      /\ copy'.chain = copy.chain /\ copy'.executor = copy.executor
      /\ copy'.cancellation = listed.cancellation /\ copy'.facts = copy.facts
  BY DEF CopyTyped
<1> QED BY <1>1 DEF CopyTyped

\* The listing of one kind of facts.
LEMMA Snapshots ==
    ASSUME DOMAIN snapshot = Kinds, NEW k \in Kinds, SnapshotFacts(k)
    PROVE  /\ DOMAIN snapshot' = Kinds /\ snapshot'[k] = facts[k]
           /\ \A j \in Kinds \ {k} : snapshot'[j] = snapshot[j]
           /\ phase = "snapshot" /\ phase' \in {"facts", "snapshot"}
           /\ phase' = "facts" => \A j \in Kinds \ {k} : snapshot[j] # Absent
           /\ snapshot[k] = Absent
BY DEF SnapshotFacts, Reach

\* Blobs, calls and answers are not the pass's.
LEMMA PassFrame ==
    ASSUME PassStep
    PROVE  UNCHANGED <<still, frozen, switched, early>>
BY DEF PassStep, BeginPass, ListFiles, CopyRoot, SnapshotFacts, CopyFact, CopyCancellation,
   CopyObservation, Verify, Interrupt, still, deployment

\* The copy stays of its kind, and without a fact twice.
LEMMA PassStaysTyped ==
    ASSUME BlobsTyped, PassTyped, PassStep
    PROVE  PassTyped'
<1> USE Phases
<1>0. ASSUME copy' = copy
      PROVE  copy # Absent \/ phase \in Copying => CopyTyped' /\ Unique(copy.facts)'
  BY <1>0 DEF PassTyped, CopyTyped
<1>1. CASE BeginPass
  <2>1. /\ phase' = "listing" /\ copy' = copy /\ DOMAIN snapshot' = Kinds
        /\ \A k \in Kinds : snapshot'[k] = Absent
    BY <1>1 DEF BeginPass
  <2> QED BY <1>0, <2>1 DEF PassTyped
<1>2. CASE ListFiles
  <2>1. phase = "listing" /\ phase' = "root" /\ copy' = copy /\ snapshot' = snapshot
    BY <1>2 DEF ListFiles, Reach
  <2> QED BY <1>0, <2>1 DEF PassTyped
<1>3. CASE CopyRoot
  <2>1. phase' \in {"snapshot", "failed"} /\ snapshot' = snapshot /\ phase = "root"
    BY <1>3 DEF CopyRoot, Reach, Mismatch
  <2>2. CopyTyped' /\ Unique(copy.facts)'
    <3>1. CASE copy # Absent /\ copy' = copy
      BY <1>0, <3>1
    <3> QED BY <1>3, <3>1, NewRow DEF CopyRoot
  <2> QED BY <2>1, <2>2 DEF PassTyped
<1>4. ASSUME NEW k \in Kinds, SnapshotFacts(k) PROVE PassTyped'
  <2>1. DOMAIN snapshot = Kinds
    BY DEF PassTyped
  <2>2. copy' = copy
    BY <1>4 DEF SnapshotFacts
  <2>3. facts[k] \subseteq Row(k)
    BY DEF BlobsTyped, Typed
  <2>4. \A j \in Kinds : snapshot'[j] = Absent \/ snapshot'[j] \subseteq Row(j)
    BY <1>4, <2>1, <2>3, Snapshots DEF PassTyped
  <2>5. phase' = "facts" => \A j \in Kinds : snapshot'[j] \subseteq Row(j)
    BY <1>4, <2>1, <2>3, Snapshots DEF PassTyped
  <2> QED BY <1>0, <1>4, <2>1, <2>2, <2>4, <2>5, Snapshots DEF PassTyped
<1>5. ASSUME NEW k \in Kinds, NEW f \in Missing(k), Insert(k, f),
             phase' = phase, phase \in Snapped, snapshot' = snapshot
      PROVE  PassTyped'
  <2>1. f \in Row(k) /\ ~Kept(k, copy.facts[k], f) /\ CopyTyped /\ Unique(copy.facts)
    BY <1>5 DEF Missing, PassTyped
  <2>2. CopyTyped' /\ Unique(copy.facts)'
    BY <1>5, <2>1, Inserted
  <2> QED BY <1>5, <2>2 DEF PassTyped
<1>6. ASSUME phase \in Snapped, phase' \in Snapped \cup {"idle", "failed"},
             snapshot' = snapshot, copy' = copy
      PROVE  PassTyped'
  BY <1>0, <1>6 DEF PassTyped
<1>7. CASE CopyFact
  <2>1. Unskipped \subseteq Kinds
    BY DEF Unskipped, Kinds
  <2> QED BY <1>5, <1>6, <1>7, <2>1 DEF CopyFact, Reach
<1>8. CASE CopyCancellation
  <2>1. phase = "cancellation" /\ phase' \in {"observations", "failed"} /\ snapshot' = snapshot
    BY <1>8 DEF CopyCancellation, Reach, Mismatch
  <2>2. ASSUME copy' = [copy EXCEPT !.cancellation = listed.cancellation]
        PROVE  PassTyped'
    <3>1. CopyTyped /\ Unique(copy.facts)
      BY <2>1 DEF PassTyped
    <3> QED BY <2>1, <2>2, <3>1, Cancelled DEF PassTyped
  <2> QED BY <1>6, <1>8, <2>1, <2>2 DEF CopyCancellation
<1>9. CASE CopyObservation
  BY <1>5, <1>6, <1>9 DEF CopyObservation, Reach, Kinds
<1>10. CASE Verify
  BY <1>6, <1>10 DEF Verify, Mismatch
<1>11. CASE Interrupt
  <2>1. phase' = "idle" /\ UNCHANGED <<copy, snapshot>>
    BY <1>11 DEF Interrupt
  <2> QED BY <1>0, <2>1 DEF PassTyped
<1> QED BY <1>1, <1>2, <1>3, <1>4, <1>7, <1>8, <1>9, <1>10, <1>11 DEF PassStep

\* A pass counts no further than to two.
LEMMA PassStepStaysTyped ==
    ASSUME DeploymentTyped, PassStep
    PROVE  DeploymentTyped'
<1> USE Phases DEF DeploymentTyped
<1>1. UNCHANGED <<frozen, switched, early, refreshed, packaged, rivals, restated>>
  BY PassFrame DEF still, replies
<1>2. CASE BeginPass
  BY <1>1, <1>2 DEF BeginPass
<1>3. CASE Verify
  BY <1>1, <1>3 DEF Verify, Mismatch
<1>4. CASE ListFiles \/ CopyRoot \/ CopyFact \/ CopyCancellation \/ CopyObservation \/ Interrupt
  BY <1>1, <1>4 DEF ListFiles, CopyRoot, CopyFact, CopyCancellation, CopyObservation, Interrupt,
     Reach, Mismatch
<1>5. ASSUME NEW k \in Kinds, SnapshotFacts(k) PROVE DeploymentTyped'
  BY <1>1, <1>5 DEF SnapshotFacts, Reach
<1> QED BY <1>2, <1>3, <1>4, <1>5 DEF PassStep

\* The operator changes neither blobs nor copy.
LEMMA OperatorStaysTyped ==
    ASSUME Types, Freeze \/ Unfreeze \/ Switch
    PROVE  Types'
<1> USE Phases DEF DeploymentTyped
<1>1. UNCHANGED <<blobs, executed, calls, copy, listed, snapshot>>
  BY DEF Freeze, Unfreeze, Switch, backfill
<1>2. BlobsTyped' /\ CallsTyped'
  BY <1>1 DEF Types, BlobsTyped, CallsTyped, HoldsTyped, blobs, calls
<1>3. phase' \notin Passing
  BY DEF Freeze, Unfreeze, Switch, backfill
<1>4. PassTyped'
  <2>1. /\ phase' \in {"idle", "failed"}
        /\ copy # Absent \/ phase \in Copying => CopyTyped /\ Unique(copy.facts)
    BY DEF Freeze, Unfreeze, Switch, backfill, Types, PassTyped
  <2>2. copy # Absent => CopyTyped' /\ Unique(copy.facts)'
    BY <1>1, <2>1 DEF CopyTyped
  <2> QED BY <1>1, <2>1, <2>2 DEF Types, PassTyped
<1>5. DeploymentTyped'
  BY <1>3 DEF Freeze, Unfreeze, Switch, Types, replies, marks, backfill
<1> QED BY <1>2, <1>4, <1>5 DEF Types

\* Types is inductive.
LEMMA StepsKeepTypes ==
    ASSUME Types, [MigrationNext]_migrationVars
    PROVE  Types'
<1>1. ASSUME NEW c \in ApiCalls, CallStep(c) PROVE Types'
  <2>1. BlobsTyped /\ CallsTyped /\ DeploymentTyped /\ PassTyped
    BY DEF Types
  <2>2. BlobsTyped' /\ DeploymentTyped'
    BY <1>1, <2>1, BlobsStayTyped, MarksStayTyped
  <2>3. Elsewhere(c) /\ HoldsTyped(c)'
    BY <1>1, <2>1, OthersRest, CallHolds
  <2>4. ASSUME NEW d \in ApiCalls \ {c} PROVE HoldsTyped(d)'
    BY <2>1, <2>3 DEF Elsewhere, CallsTyped, HoldsTyped
  <2>5. CallsTyped'
    BY <2>3, <2>4 DEF Elsewhere, CallsTyped
  <2>6. PassTyped'
    BY <2>1, <2>3 DEF Elsewhere, backfill, PassTyped, CopyTyped
  <2> QED BY <2>2, <2>5, <2>6 DEF Types
<1>2. CASE Land
  <2>1. \E c \in packaged, ok \in BOOLEAN : executed' = executed \cup {[tx |-> c, ok |-> ok]}
    BY <1>2 DEF Land
  <2>2. BlobsTyped'
    BY <1>2, <2>1 DEF Land, blobs, Types, BlobsTyped, DeploymentTyped
  <2>3. CallsTyped'
    BY <1>2 DEF Land, calls, Types, CallsTyped, HoldsTyped
  <2>4. PassTyped' /\ DeploymentTyped'
    BY <1>2 DEF Land, deployment, backfill, replies, marks, Types, PassTyped, CopyTyped,
       DeploymentTyped
  <2> QED BY <2>2, <2>3, <2>4 DEF Types
<1>3. CASE PassStep
  <2>1. UNCHANGED <<blobs, executed, calls>>
    BY <1>3, PassFrame DEF still
  <2>2. BlobsTyped' /\ CallsTyped'
    BY <2>1 DEF Types, BlobsTyped, CallsTyped, HoldsTyped, blobs, calls
  <2> QED BY <1>3, <2>2, PassStaysTyped, PassStepStaysTyped DEF Types
<1>4. CASE UNCHANGED migrationVars
  <2>1. BlobsTyped' /\ CallsTyped'
    BY <1>4 DEF migrationVars, calls, blobs, Types, BlobsTyped, CallsTyped, HoldsTyped
  <2>2. PassTyped' /\ DeploymentTyped'
    BY <1>4 DEF migrationVars, deployment, backfill, replies, marks, Types, PassTyped,
       CopyTyped,
       DeploymentTyped
  <2> QED BY <2>1, <2>2 DEF Types
<1> QED BY <1>1, <1>2, <1>3, <1>4, OperatorStaysTyped DEF MigrationNext

\* An Intent as it is created, or once a package was made of it.
LEMMA FirstTypes ==
    ASSUME MigrationInit
    PROVE  Types /\ Unique(facts)
<1>1. Origin \in Past /\ <<Origin>> \in Chain
  <2>1. <<Origin>> \in Seq(Past) /\ Len(<<Origin>>) = 1 /\ Len(<<>>) = 0
    BY DEF Past
  <2> QED BY <2>1 DEF Past, Chain
<1>2. /\ DOMAIN NoFacts = Kinds /\ \A k \in Kinds : NoFacts[k] = {}
      /\ DOMAIN Signed = Kinds /\ Signed["preparations"] = {} /\ Signed["observations"] = {}
      /\ Signed["auth"] = {[plan |-> Origin, signer |-> s, at |-> Origin] : s \in Contributors}
  BY DEF NoFacts, Signed, Kinds
<1>3. ASSUME NEW x \in Sources
      PROVE  /\ DOMAIN Packaged(x) = Kinds /\ Packaged(x)["auth"] = Signed["auth"]
             /\ Packaged(x)["observations"] = {}
             /\ Packaged(x)["preparations"] = {[plan |-> Origin, source |-> x, at |-> Origin]}
  BY <1>2 DEF Packaged, Kinds
<1>4. Typed(NoFacts) /\ Unique(NoFacts)
  BY <1>2 DEF Typed, Unique
<1>5. Typed(Signed) /\ Unique(Signed)
  BY <1>1, <1>2 DEF Typed, Unique, Kinds, Row, Contribution, Name
<1>6. ASSUME NEW x \in Sources PROVE Typed(Packaged(x)) /\ Unique(Packaged(x))
  BY <1>1, <1>2, <1>3 DEF Typed, Unique, Kinds, Row, Contribution, Preparation, Name
<1>7. Typed(facts) /\ Unique(facts)
  BY <1>4, <1>5, <1>6 DEF MigrationInit
<1>8. root \in Root
  BY <1>1 DEF MigrationInit, CreatedIntent, Root, Choice
<1>9. BlobsTyped
  BY <1>7, <1>8 DEF MigrationInit, BlobsTyped, Choice
<1>10. CallsTyped
  BY Labels DEF MigrationInit, CallsTyped, HoldsTyped
<1>11. PassTyped
  BY Phases DEF MigrationInit, PassTyped
<1>12. DeploymentTyped
  <2>1. packaged \subseteq Past
    BY <1>1 DEF MigrationInit
  <2>2. /\ frozen = FALSE /\ switched = FALSE /\ quiet = FALSE /\ rivals = FALSE
        /\ restated = FALSE
        /\ early = {} /\ late = {} /\ refreshed = {} /\ phase = "idle" /\ passes = 0
    BY DEF MigrationInit
  <2>3. 0 \in 0 .. 2
    OBVIOUS
  <2> QED BY <2>1, <2>2, <2>3, Phases DEF DeploymentTyped
<1> QED BY <1>7, <1>9, <1>10, <1>11, <1>12 DEF Types

\* The blobs, the copy and what is known of the deployment keep their types,
\* and no fact is copied twice.
THEOREM MigrationTypesKept == MigrationSpec => []MigrationTypeOK
<1>1. MigrationInit => Types
  BY FirstTypes
<1>2. Types /\ [MigrationNext]_migrationVars => Types'
  BY StepsKeepTypes
<1>3. Types => MigrationTypeOK
  <2> SUFFICES ASSUME Types PROVE MigrationTypeOK
    OBVIOUS
  <2>1. root.chain \in Seq(Past) /\ root.executor \in Sources \cup {Absent}
    BY DEF Types, BlobsTyped, Root, Chain, Choice
  <2>2. /\ facts.auth \subseteq Contribution /\ facts.preparations \subseteq Preparation
        /\ facts.observations \subseteq Observation
    BY DEF Types, BlobsTyped, Typed, Kinds, Row
  <2>3. copy # Absent => \A k \in Kinds : \A f \in copy.facts[k] :
          \A g \in copy.facts[k] : Name(k, f) = Name(k, g) => f = g
    BY DEF Types, PassTyped, Unique
  <2> QED BY <2>1, <2>2, <2>3 DEF Types, MigrationTypeOK, BlobsTyped, DeploymentTyped, Choice,
       Contribution, Preparation, Observation, Cancellation
<1> QED BY <1>1, <1>2, <1>3, PTL DEF MigrationSpec

-----------------------------------------------------------------------------
(* Plans that were answered.                                               *)

\* A history as long as the one it continues is that one.
LEMMA SameChain ==
    ASSUME NEW s \in Seq(Past), NEW t \in Seq(Past), Prefix(s, t), Len(s) = Len(t)
    PROVE  s = t
BY DEF Prefix

\* A further plan leaves the plans before it.
LEMMA ChainGrows ==
    ASSUME NEW s \in Seq(Past), NEW t \in Seq(Past), NEW c \in Past
    PROVE  Prefix(s, s) /\ (Prefix(s, t) => Prefix(s, Append(t, c)))
BY DEF Prefix

Answered(chain) == \A c \in refreshed : \E r \in DOMAIN chain : chain[r] = c

\* Calls that neither read nor write the root leave all this alone.
LEMMA AloneElsewhere ==
    ASSUME Alone, CallsTyped, NEW c \in ApiCalls, Elsewhere(c),
           root' = root, refreshed' = refreshed,
           rivals' = rivals, held' = held \/ stage'[c] = "done",
           stage'[c] \notin {"replan_check", "replan_write", "replan_after", "bind_write"}
    PROVE  Alone'
BY DEF Alone, Elsewhere, Holding, AnsweredPlansAreKept

\* What calls remember of the plans while no two hold intent.json.
LEMMA AloneStays ==
    ASSUME Types, Alone, NEW c \in ApiCalls, CallStep(c)
    PROVE  Alone'
<1> DEFINE chain == root.chain
<1>0. /\ BlobsTyped /\ CallsTyped /\ HoldsTyped(c) /\ Elsewhere(c)
      /\ chain \in Seq(Past) /\ Len(chain) \in Nat \ {0} /\ c \in Past
      /\ \A d \in ApiCalls : held[d] \in Root => held[d].chain \in Seq(Past)
  BY OthersRest, Plans DEF Types, CallsTyped, BlobsTyped, Past
<1>1. CASE BeginReplan(c) /\ stage'[c] = "replan_check"
  <2>1. /\ held'[c].chain = chain /\ UNCHANGED <<root, refreshed, rivals>>
    BY <1>0, <1>1, Read DEF BeginReplan, EndCall, MoveTo, CallsTyped, blobs, replies, marks
  <2>2. Prefix(held'[c].chain, chain)
    BY <1>0, <2>1, ChainGrows
  <2> QED BY <1>0, <1>1, <2>1, <2>2 DEF Alone, Elsewhere, Holding, AnsweredPlansAreKept
<1>2. CASE ReplanCheck(c) /\ PlanUnchanged(c)
  <2>1. /\ stage[c] = "replan_check" /\ stage'[c] = "replan_write" /\ held' = held
        /\ UNCHANGED <<root, refreshed>>
        /\ rivals' = (rivals \/ \E d \in ApiCalls \ {c} : stage[d] \in Holding)
    BY <1>0, <1>2 DEF ReplanCheck, Advance, MoveTo, CallsTyped, blobs, replies, Hold
  <2>2. ~rivals => held[c].chain = chain
    <3>1. held[c].chain \in Seq(Past) /\ Len(chain) = Len(held[c].chain)
      BY <1>0, <1>2, <2>1 DEF HoldsTyped, PlanUnchanged
    <3> QED BY <1>0, <2>1, <3>1, SameChain DEF Alone
  <2> QED BY <1>0, <2>1, <2>2 DEF Alone, Elsewhere, Holding, AnsweredPlansAreKept
<1>3. CASE ReplanWrite(c)
  <2>1. /\ stage[c] = "replan_write" /\ stage'[c] = "replan_after" /\ held' = held
        /\ UNCHANGED <<refreshed, rivals>> /\ held[c] \in Root
        /\ root' = [held[c] EXCEPT !.chain = Append(@, c)]
    BY <1>0, <1>3 DEF ReplanWrite, Advance, MoveTo, CallsTyped, replies, HoldsTyped
  <2>2. SUFFICES ASSUME ~rivals PROVE Alone'
    BY <2>1 DEF Alone
  <2>3. root'.chain = Append(chain, c)
    BY <2>1, <2>2, Plans DEF Alone, Holding
  <2>4. \A d \in ApiCalls : d # c => stage[d] \notin Holding
    BY <2>1, <2>2 DEF Alone, Holding
  <2>5. ASSUME NEW d \in ApiCalls, stage'[d] \in {"replan_check", "replan_after"}
        PROVE  Prefix(held'[d].chain, root'.chain)
    <3>1. Prefix(held[d].chain, chain) /\ held[d].chain \in Seq(Past)
      <4>1. CASE d = c
        BY <1>0, <2>1, <2>2, <4>1, ChainGrows DEF Alone, Holding
      <4>2. CASE d # c
        BY <1>0, <2>2, <2>5, <4>2 DEF Alone, Elsewhere, CallsTyped, HoldsTyped
      <4> QED BY <4>1, <4>2
    <3> QED BY <1>0, <2>1, <2>3, <3>1, ChainGrows
  <2>6. \A x \in refreshed : \E r \in DOMAIN Append(chain, c) : Append(chain, c)[r] = x
    <3>1. ASSUME NEW x \in refreshed
          PROVE  \E r \in DOMAIN Append(chain, c) : Append(chain, c)[r] = x
      <4>1. PICK r \in DOMAIN chain : chain[r] = x
        BY <2>2 DEF Alone, AnsweredPlansAreKept
      <4>2. r \in DOMAIN Append(chain, c) /\ Append(chain, c)[r] = x
        BY <1>0, <4>1
      <4> QED BY <4>2
    <3> QED BY <3>1
  <2>7. \A d \in ApiCalls : stage'[d] \notin Holding
    BY <1>0, <2>1, <2>4 DEF Elsewhere, Holding
  <2> QED BY <2>1, <2>3, <2>5, <2>6, <2>7 DEF Alone, AnsweredPlansAreKept
<1>4. CASE BindRead(c)
  <2>1. /\ stage'[c] = "bind_write" /\ held'[c] = root /\ UNCHANGED <<root, refreshed>>
        /\ rivals' = (rivals \/ \E d \in ApiCalls \ {c} : stage[d] \in Holding)
    BY <1>0, <1>4 DEF BindRead, MoveTo, CallsTyped, blobs, replies, Hold
  <2> QED BY <1>0, <2>1 DEF Alone, Elsewhere, Holding, AnsweredPlansAreKept
<1>5. CASE BindWrite(c)
  <2>1. /\ stage[c] = "bind_write" /\ stage'[c] = "prepare_read" /\ held' = held /\ held[c] \in Root
        /\ root' = [held[c] EXCEPT !.executor = writing[c]] /\ UNCHANGED <<refreshed, rivals>>
    BY <1>0, <1>5 DEF BindWrite, Advance, MoveTo, CallsTyped, replies, HoldsTyped
  <2>2. ~rivals => root'.chain = chain
    BY <2>1, Plans DEF Alone, Holding
  <2> QED BY <1>0, <2>1, <2>2 DEF Alone, Elsewhere, Holding, AnsweredPlansAreKept
<1>6. CASE AnswerReplan(c)
  <2>1. /\ stage'[c] = "done" /\ UNCHANGED <<root, rivals>>
        /\ refreshed' = refreshed \/ (refreshed' = refreshed \cup {c} /\ LatestPlan(chain) = c)
    BY <1>0, <1>6, Left DEF AnswerReplan, blobs, marks
  <2>2. LatestPlan(chain) = c => \E r \in DOMAIN chain : chain[r] = c
    BY <1>0 DEF LatestPlan
  <2> QED BY <1>0, <2>1, <2>2 DEF Alone, Elsewhere, Holding, AnsweredPlansAreKept
<1>7. ASSUME UNCHANGED <<root, refreshed, rivals>>, held' = held \/ stage'[c] = "done",
             stage'[c] \notin {"replan_check", "replan_write", "replan_after", "bind_write"}
      PROVE  Alone'
  BY <1>0, <1>7, AloneElsewhere
<1>8. CASE EndCall(c) /\ UNCHANGED <<root, refreshed, rivals>>
  BY <1>0, <1>7, <1>8, Left
<1>9. ASSUME NEW op \in Requests, Admit(c, op) PROVE Alone'
  BY <1>0, <1>7, <1>9 DEF Admit, MoveTo, blobs, replies, marks, CallsTyped, Requests
<1>10. CASE BeginContribute(c) \/ ContributeCheck(c) \/ PutAuth(c)
  BY <1>0, <1>7, <1>8, <1>10 DEF BeginContribute, ContributeCheck, PutAuth, Carry,
     Advance, MoveTo, CallsTyped, blobs, replies, marks
<1>11. CASE BeginReplan(c) \/ ReplanCheck(c)
  BY <1>0, <1>1, <1>2, <1>8, <1>11 DEF BeginReplan, ReplanCheck, MoveTo, CallsTyped, blobs,
     replies,
     marks
<1>12. CASE BeginPrepare(c) \/ BindPut(c)
  BY <1>0, <1>7, <1>8, <1>12 DEF BeginPrepare, BindPut, Carry, Advance, MoveTo, CallsTyped,
     blobs,
     replies, marks
<1>13. CASE PrepareReload(c) \/ PrepareCheck(c) \/ PutPreparation(c)
  BY <1>0, <1>7, <1>8, <1>13 DEF PrepareReload, PrepareCheck, PutPreparation, Carry,
     Advance, MoveTo, CallsTyped, blobs, replies, marks
<1>14. CASE AnswerPackage(c) \/ PutObservation(c) \/ AbandonCall(c)
  BY <1>8, <1>14 DEF AnswerPackage, PutObservation, AbandonCall, blobs, replies, marks
<1>15. CASE BeginCancel(c) \/ CancelObserve(c) \/ CancelPut(c)
  BY <1>0, <1>7, <1>8, <1>15 DEF BeginCancel, CancelObserve, CancelPut, Carry, Advance, MoveTo,
     CallsTyped, blobs,
     replies, marks
<1>16. CASE BeginReconcile(c)
  BY <1>0, <1>7, <1>8, <1>16 DEF BeginReconcile, Carry, MoveTo, CallsTyped, blobs, replies,
     marks
<1> QED BY <1>3, <1>4, <1>5, <1>6, <1>9, <1>10, <1>11, <1>12, <1>13, <1>14, <1>15, <1>16
     DEF CallStep

\* A call answered with a refreshed plan has it in the history for good, unless
\* two calls held copies of intent.json at once.
THEOREM RefreshedPlansStay == MigrationSpec => []AnsweredPlansAreKept
<1>1. MigrationInit => Types /\ Alone
  BY FirstTypes DEF MigrationInit, Alone, Holding, AnsweredPlansAreKept
<1>2. ASSUME Types, Alone, [MigrationNext]_migrationVars PROVE Alone'
  <2>1. CASE UNCHANGED <<root, calls, refreshed, rivals>>
    BY <1>2, <2>1 DEF Alone, calls, AnsweredPlansAreKept
  <2>2. CASE PassStep
    BY <2>1, <2>2, PassFrame DEF still, blobs, replies
  <2> QED BY <1>2, <2>1, <2>2, AloneStays DEF MigrationNext, Land, Freeze, Unfreeze, Switch,
       migrationVars, blobs, replies, marks
<1>3. Types /\ Alone /\ [MigrationNext]_migrationVars => Types' /\ Alone'
  BY <1>2, StepsKeepTypes
<1>4. Alone => AnsweredPlansAreKept
  BY DEF Alone, AnsweredPlansAreKept
<1> QED BY <1>1, <1>3, <1>4, PTL DEF MigrationSpec

-----------------------------------------------------------------------------
(* The switch.                                                             *)

\* Once writes are frozen, only calls that were let in before make a step.
LEMMA LetInBefore ==
    ASSUME NEW c \in ApiCalls, CallStep(c), frozen \/ switched
    PROVE  InFlight(c)
BY Labels DEF CallStep, Admit, WritesEnabled, BeginContribute, ContributeCheck, PutAuth,
   BeginReplan, ReplanCheck, ReplanWrite, AnswerReplan, BeginPrepare, BindPut, BindRead, BindWrite,
   PrepareReload, PrepareCheck, PutPreparation, AnswerPackage, BeginCancel, CancelObserve,
   CancelPut, BeginReconcile, PutObservation, AbandonCall

\* A write of a call adds no fact but its own.
LEMMA OwnFacts ==
    ASSUME BlobsTyped, NEW c \in ApiCalls, BlobWrite(c)
    PROVE  /\ \A k \in Kinds : \A f \in facts'[k] : f \in facts[k] \/ f.at = c
           /\ late' = IF c \in early THEN late \cup {c} ELSE late
<1>1. CASE FactWrite(c) /\ writing[c].at = c
  <2>1. PICK k \in Kinds : writing[c] \in Row(k) /\ PutFact(k, writing[c])
    BY <1>1, FactWriteStores
  <2>2. /\ \A j \in Kinds \ {k} : facts'[j] = facts[j]
        /\ facts'[k] = {g \in facts[k] : Name(k, g) # Name(k, writing[c])} \cup {writing[c]}
    BY <2>1, Stored DEF BlobsTyped
  <2> QED BY <1>1, <2>1, <2>2 DEF FactWrite, PutAuth, PutPreparation,
       PutObservation, Writes
<1>2. CASE \/ ReplanWrite(c) \/ BindWrite(c)
           \/ BindPut(c) /\ bindFile = Absent
           \/ CancelPut(c) /\ cancelFile = Absent
  BY <1>2 DEF ReplanWrite, BindPut, BindWrite, CancelPut, Writes
<1> QED BY <1>1, <1>2 DEF BlobWrite

\* What a call writes under the freeze is late.
LEMMA CallsKeepTheFreeze ==
    ASSUME Types, Frozen, NEW c \in ApiCalls, CallStep(c)
    PROVE  Frozen'
<1>0. /\ BlobsTyped /\ CallsTyped /\ Elsewhere(c)
      /\ UNCHANGED <<frozen, switched, early, copy, phase, listed, snapshot, passes, quiet>>
  BY OthersRest DEF Types, Elsewhere, deployment, backfill
<1>1. CASE ~frozen /\ ~switched
  BY <1>0, <1>1 DEF Frozen
<1>2. CASE frozen \/ switched
  <2>1. c \in early
    BY <1>2, LetInBefore DEF Frozen
  <2>2. \A d \in ApiCalls : InFlight(d)' => d \in early'
    BY <1>0, <1>2, <2>1 DEF Frozen, Elsewhere, InFlight
  <2>3. CASE UNCHANGED <<blobs, late, restated>>
    <3>1. UNCHANGED <<root, bindFile, cancelFile, facts, late>>
      BY <2>3 DEF blobs
    <3> QED BY <1>0, <2>2, <3>1 DEF Frozen, Complete, Listed, IntentAsRead
  <2>4. CASE BlobWrite(c)
    <3>1. /\ \A k \in Kinds : \A f \in facts'[k] : f \in facts[k] \/ f.at \in late'
          /\ late \subseteq late' /\ late' # {}
      BY <1>0, <2>1, <2>4, OwnFacts
    <3>2. Complete => Complete'
      BY <1>0, <3>1 DEF Complete
    <3>3. ASSUME NEW k \in Kinds, \A f \in facts[k] : f \in snapshot[k] \/ f.at \in late
          PROVE  \A f \in facts'[k] : f \in snapshot'[k] \/ f.at \in late'
      BY <1>0, <3>1, <3>3
    <3> QED BY <1>0, <2>2, <3>1, <3>2, <3>3 DEF Frozen
  <2> QED BY <1>0, <2>3, <2>4, Writers
<1> QED BY <1>1, <1>2

\* A pass under the freeze misses nothing but what is late.
LEMMA PassesKeepTheFreeze ==
    ASSUME Types, Frozen, PassStep
    PROVE  Frozen'
<1> USE Phases
<1>0. /\ UNCHANGED <<root, bindFile, cancelFile, facts, stage, frozen, switched, early>>
      /\ DOMAIN snapshot = Kinds /\ passes \in 0 .. 2 /\ phase \in Passing \cup {"idle", "failed"}
      /\ phase \in Passing => passes \in 0 .. 1
  BY PassFrame DEF still, blobs, calls, Types, PassTyped, DeploymentTyped
<1>1. \A d \in ApiCalls : InFlight(d)' <=> InFlight(d)
  BY <1>0 DEF InFlight
<1>2. CASE BeginPass
  <2>1. /\ passes' = passes /\ passes # 2 /\ phase' = "listing" /\ late' = {} /\ ~switched
        /\ listed'.chain = root.chain /\ listed'.executor = root.executor
    BY <1>0, <1>2 DEF BeginPass
  <2> QED BY <1>0, <1>1, <2>1 DEF Frozen, Listed
<1>3. CASE ~BeginPass
  <2>1. late' = late /\ phase \in Passing
    BY <1>0, <1>3 DEF PassStep, ListFiles, CopyRoot, SnapshotFacts, CopyFact, CopyCancellation,
       CopyObservation, Verify, Interrupt
  <2>2. ~switched /\ passes # 2 /\ passes \in 0 .. 1
    BY <1>0, <2>1 DEF Frozen
  <2>3. CASE ListFiles
    <3>1. /\ phase = "listing" /\ phase' = "root" /\ passes' = passes
          /\ listed'.chain = listed.chain /\ listed'.cancellation = cancelFile
          /\ listed'.executor = IF listed.executor # Absent THEN listed.executor ELSE bindFile
      BY <2>3 DEF ListFiles, Reach
    <3> QED BY <1>0, <1>1, <2>1, <2>2, <3>1 DEF Frozen, Listed, IntentAsRead
  <2>4. ASSUME phase \in Passing \ {"listing"}, phase' \in Passing \ {"listing"},
               passes' = passes, listed' = listed, snapshot' = snapshot,
               phase' \in Snapped => phase \in Snapped,
               phase' = "snapshot" => phase \in {"root", "snapshot"},
               phase = "root" => \A k \in Kinds : snapshot[k] = Absent
        PROVE  Frozen'
    <3>1. Listed => Listed'
      BY <1>0, <2>4 DEF Listed, IntentAsRead
    <3> QED BY <1>0, <1>1, <2>1, <2>2, <2>4, <3>1 DEF Frozen
  <2>5. ASSUME phase' \in {"idle", "failed"}, passes' = 0
        PROVE  Frozen'
    BY <1>0, <1>1, <2>2, <2>5 DEF Frozen
  <2>6. ASSUME NEW k \in Kinds, SnapshotFacts(k) PROVE Frozen'
    <3>1. /\ snapshot'[k] = facts[k] /\ \A j \in Kinds \ {k} : snapshot'[j] = snapshot[j]
          /\ phase = "snapshot" /\ phase' \in {"facts", "snapshot"} /\ snapshot[k] = Absent
          /\ phase' = "facts" => \A j \in Kinds \ {k} : snapshot[j] # Absent
      BY <1>0, <2>6, Snapshots
    <3>2. passes' = passes /\ listed' = listed
      BY <2>6 DEF SnapshotFacts, Reach
    <3>3. Listed => Listed'
      BY <1>0, <3>1, <3>2 DEF Listed, IntentAsRead
    <3> QED BY <1>0, <1>1, <2>1, <2>2, <3>1, <3>2, <3>3 DEF Frozen
  <2>7. CASE CopyRoot \/ CopyFact \/ CopyCancellation \/ CopyObservation
    <3>1. /\ phase \in Passing \ {"listing"} /\ phase' \in (Passing \ {"listing"}) \cup {"failed"}
          /\ phase' = "failed" => passes' = 0
          /\ phase' # "failed" => passes' = passes
          /\ listed' = listed /\ snapshot' = snapshot
          /\ phase' \in Snapped => phase \in Snapped
          /\ phase' = "snapshot" => phase \in {"root", "snapshot"}
      BY <2>7 DEF CopyRoot, CopyFact, CopyCancellation, CopyObservation, Reach, Mismatch
    <3>2. phase = "root" => \A k \in Kinds : snapshot[k] = Absent
      BY DEF Types, PassTyped
    <3> QED BY <2>4, <2>5, <3>1, <3>2
  <2>8. CASE Interrupt
    BY <2>5, <2>8 DEF Interrupt
  <2>9. CASE Verify
    <3>1. CASE ~Equivalent \/ ~frozen
      BY <2>5, <2>9, <3>1 DEF Verify, Mismatch
    <3>2. CASE Equivalent /\ frozen
      <4>1. /\ copy.chain = listed.chain /\ copy.executor = listed.executor
            /\ copy.cancellation = listed.cancellation /\ copy.facts = snapshot
        BY <3>2 DEF Equivalent
      <4>2. /\ phase = "verify" /\ phase' = "idle" /\ passes' = passes + 1
            /\ UNCHANGED <<copy, listed, snapshot>>
        BY <2>9, <3>2 DEF Verify
      <4>3. late = {} => Listed
        BY <3>2, <4>2 DEF Frozen
      <4>4. \A k \in Kinds : \A f \in facts[k] : f \in snapshot[k] \/ f.at \in late
        BY <3>2, <4>2 DEF Frozen
      <4>5. Complete'
        BY <1>0, <2>1, <4>1, <4>2, <4>3, <4>4 DEF Complete, Listed, IntentAsRead
      <4>6. frozen' /\ ~switched' /\ phase' = "idle" /\ phase' \notin Passing
        BY <1>0, <2>2, <3>2, <4>2
      <4>7. \A d \in ApiCalls : InFlight(d)' => d \in early'
        BY <1>0, <1>1, <3>2 DEF Frozen
      <4> QED BY <4>5, <4>6, <4>7 DEF Frozen
    <3> QED BY <3>1, <3>2
  <2> QED BY <1>3, <2>3, <2>6, <2>7, <2>8, <2>9 DEF PassStep
<1> QED BY <1>2, <1>3

\* The freeze begins with a count from zero, and the switch with two passes.
LEMMA OperatorKeepsTheFreeze ==
    ASSUME Types, Frozen, Freeze \/ Unfreeze \/ Switch
    PROVE  Frozen'
<1> USE Phases
<1>0. /\ UNCHANGED <<root, bindFile, cancelFile, facts, stage, copy, passes>>
      /\ phase \in {"idle", "failed"}
  BY DEF Freeze, Unfreeze, Switch, blobs, calls, backfill
<1>1. (\A d \in ApiCalls : InFlight(d)' <=> InFlight(d)) /\ (Complete /\ late' = late => Complete')
  BY <1>0 DEF InFlight, Complete, IntentAsRead
<1>2. CASE Freeze
  <2>1. /\ passes = 0 /\ frozen' /\ ~switched' /\ phase' = "idle"
        /\ early' = {c \in ApiCalls : InFlight(c)}
    BY <1>2 DEF Freeze, Frozen
  <2> QED BY <1>0, <1>1, <2>1 DEF Frozen
<1>3. CASE Unfreeze
  <2>1. passes = 0 /\ ~frozen' /\ ~switched' /\ phase' = "idle"
    BY <1>3 DEF Unfreeze, Frozen
  <2> QED BY <1>0, <2>1 DEF Frozen
<1>4. CASE Switch
  <2>1. /\ passes = 2 /\ ~frozen' /\ switched' /\ phase' = "idle" /\ early' = early
        /\ late' = late /\ Complete /\ frozen
    BY <1>4 DEF Switch, Frozen, marks, backfill
  <2> QED BY <1>0, <1>1, <2>1 DEF Frozen
<1> QED BY <1>2, <1>3, <1>4

\* Nothing is left behind at the switch but what a call wrote that was let in
\* before the freeze and was still at work during the last pass.
THEOREM SwitchLosesNothing == MigrationSpec => []CutoverKeepsFacts
<1>1. MigrationInit => Types /\ Frozen
  <2> SUFFICES ASSUME MigrationInit PROVE Types /\ Frozen
    OBVIOUS
  <2>1. frozen = FALSE /\ switched = FALSE /\ phase = "idle" /\ passes = 0
    BY DEF MigrationInit
  <2> QED BY <2>1, FirstTypes, Phases DEF Frozen
<1>2. ASSUME Types, Frozen, [MigrationNext]_migrationVars PROVE Frozen'
  <2>1. CASE UNCHANGED <<blobs, calls, deployment, backfill, marks>>
    <3>1. /\ UNCHANGED <<root, bindFile, cancelFile, facts, stage, frozen, switched, early>>
          /\ UNCHANGED <<copy, phase, listed, snapshot, passes, late>>
      BY <2>1 DEF blobs, calls, deployment, backfill, marks
    <3> QED BY <1>2, <3>1 DEF Frozen, Complete, Listed, IntentAsRead, InFlight
  <2> QED BY <1>2, <2>1, CallsKeepTheFreeze, PassesKeepTheFreeze, OperatorKeepsTheFreeze
       DEF MigrationNext, Land, migrationVars
<1>3. Types /\ Frozen /\ [MigrationNext]_migrationVars => Types' /\ Frozen'
  BY <1>2, StepsKeepTypes
<1>4. Frozen => CutoverKeepsFacts
  BY DEF Frozen, Complete, CutoverKeepsFacts
<1> QED BY <1>1, <1>3, <1>4, PTL DEF MigrationSpec

-----------------------------------------------------------------------------
(* Failed passes.                                                          *)

\* Nothing but these steps binds an executor or carries one.
LEMMA BoundElsewhere ==
    ASSUME Bound, CallsTyped, NEW c \in ApiCalls, Elsewhere(c), root' = root,
           bindFile' = bindFile,
           stage'[c] \notin {"bind_read", "bind_write", "bind_put", "replan_check"},
           stage'[c] = "replan_write" => held' = held /\ stage[c] = "replan_check"
    PROVE  Bound'
BY DEF Bound, Elsewhere

\* The executor is bound once, whatever is written back.
LEMMA BoundStays ==
    ASSUME Types, Bound, NEW c \in ApiCalls, CallStep(c)
    PROVE  Bound'
<1>0. /\ BlobsTyped /\ CallsTyped /\ HoldsTyped(c) /\ Elsewhere(c) /\ Absent \notin Sources
  BY OthersRest, MigrationAssumption DEF Types, CallsTyped
<1>1. CASE BeginReplan(c) /\ stage'[c] = "replan_check"
  <2>1. held'[c] = IntentAsRead /\ UNCHANGED <<root, bindFile>>
    BY <1>0, <1>1 DEF BeginReplan, EndCall, MoveTo, CallsTyped, blobs
  <2> QED BY <1>0, <1>1, <2>1 DEF Bound, Elsewhere, IntentAsRead
<1>2. CASE ReplanWrite(c)
  <2>1. /\ stage[c] = "replan_write" /\ stage'[c] = "replan_after"
        /\ root'.executor = held[c].executor /\ bindFile' = bindFile
    BY <1>0, <1>2, Plans DEF ReplanWrite, Advance, MoveTo, CallsTyped, HoldsTyped
  <2> QED BY <1>0, <2>1 DEF Bound, Elsewhere
<1>3. CASE BeginPrepare(c) /\ stage'[c] = "bind_put"
  <2>1. IntentAsRead.executor = Absent /\ UNCHANGED <<root, bindFile>>
    BY <1>0, <1>3 DEF BeginPrepare, Carry, EndCall, MoveTo, CallsTyped, blobs
  <2> QED BY <1>0, <1>3, <2>1 DEF Bound, Elsewhere, IntentAsRead
<1>4. CASE BindPut(c) /\ bindFile = Absent
  <2>1. /\ stage[c] = "bind_put" /\ stage'[c] = "bind_read" /\ root' = root
        /\ bindFile' = writing[c] /\ writing' = writing
        /\ writing[c] \in Sources
    BY <1>0, <1>4 DEF BindPut, Advance, MoveTo, CallsTyped, HoldsTyped
  <2> QED BY <1>0, <1>4, <2>1 DEF Bound, Elsewhere
<1>5. CASE BindRead(c)
  <2>1. /\ stage[c] = "bind_read" /\ stage'[c] = "bind_write" /\ held'[c] = root
        /\ writing' = writing /\ UNCHANGED <<root, bindFile>>
    BY <1>0, <1>5 DEF BindRead, MoveTo, CallsTyped, blobs
  <2> QED BY <1>0, <2>1 DEF Bound, Elsewhere
<1>6. CASE BindWrite(c)
  <2>1. /\ stage[c] = "bind_write" /\ stage'[c] = "prepare_read" /\ root'.executor = writing[c]
        /\ bindFile' = bindFile
    BY <1>0, <1>6, Plans DEF BindWrite, Advance, MoveTo, CallsTyped, HoldsTyped
  <2> QED BY <1>0, <2>1 DEF Bound, Elsewhere
<1>7. ASSUME UNCHANGED <<root, bindFile>>,
             stage'[c] \notin {"bind_read", "bind_write", "bind_put", "replan_check"},
             stage'[c] = "replan_write" => held' = held /\ stage[c] = "replan_check"
      PROVE  Bound'
  BY <1>0, <1>7, BoundElsewhere
<1>8. CASE EndCall(c) /\ UNCHANGED <<root, bindFile>>
  BY <1>0, <1>7, <1>8, Left
<1>9. ASSUME NEW op \in Requests, Admit(c, op) PROVE Bound'
  BY <1>0, <1>7, <1>9 DEF Admit, MoveTo, blobs, CallsTyped, Requests
<1>10. CASE BeginContribute(c) \/ ContributeCheck(c) \/ PutAuth(c)
  BY <1>0, <1>7, <1>8, <1>10 DEF BeginContribute, ContributeCheck, PutAuth, Carry,
     Advance, MoveTo, CallsTyped, blobs
<1>11. CASE BeginReplan(c) \/ ReplanCheck(c)
  BY <1>0, <1>1, <1>7, <1>8, <1>11 DEF BeginReplan, ReplanCheck, Advance, MoveTo,
     CallsTyped, blobs
<1>12. CASE BeginPrepare(c) \/ BindPut(c)
  BY <1>0, <1>3, <1>4, <1>7, <1>8, <1>12 DEF BeginPrepare, BindPut, Carry, MoveTo,
     CallsTyped, blobs
<1>13. CASE PrepareReload(c) \/ PrepareCheck(c) \/ PutPreparation(c)
  BY <1>0, <1>7, <1>8, <1>13 DEF PrepareReload, PrepareCheck, PutPreparation, Carry,
     Advance, MoveTo, CallsTyped, blobs
<1>14. CASE AnswerReplan(c) \/ AnswerPackage(c) \/ PutObservation(c) \/ AbandonCall(c)
  BY <1>8, <1>14 DEF AnswerReplan, AnswerPackage, PutObservation, AbandonCall, blobs
<1>15. CASE BeginCancel(c) \/ CancelObserve(c) \/ CancelPut(c)
  BY <1>0, <1>7, <1>8, <1>15 DEF BeginCancel, CancelObserve, CancelPut, Carry, Advance, MoveTo,
     CallsTyped, blobs
<1>16. CASE BeginReconcile(c)
  BY <1>0, <1>7, <1>8, <1>16 DEF BeginReconcile, Carry, MoveTo, CallsTyped, blobs
<1> QED BY <1>2, <1>5, <1>6, <1>9, <1>10, <1>11, <1>12, <1>13, <1>14, <1>15, <1>16 DEF CallStep

\* A package is stored by the call it is named after, which then leaves.
LEMMA OnceStays ==
    ASSUME Types, Once, NEW c \in ApiCalls, CallStep(c)
    PROVE  Once'
<1>0. /\ BlobsTyped /\ CallsTyped /\ HoldsTyped(c) /\ Elsewhere(c)
  BY OthersRest DEF Types, CallsTyped
<1>1. stage[c] \in {"prepare_after", "done"} => stage'[c] \in {"prepare_after", "done"}
  BY <1>0, Left DEF CallStep, Admit, BeginContribute, ContributeCheck, PutAuth,
     BeginReplan, ReplanCheck, ReplanWrite, AnswerReplan, BeginPrepare, BindPut, BindRead,
     BindWrite, PrepareReload, PrepareCheck, PutPreparation, AnswerPackage, BeginCancel,
     CancelObserve, CancelPut, BeginReconcile, PutObservation, AbandonCall, Requests
<1>2. \A p \in facts'["preparations"] :
         p \in facts["preparations"] \/ (p.at = c /\ stage'[c] = "prepare_after")
  <2>1. CASE PutPreparation(c)
    <3>1. /\ stage'[c] = "prepare_after" /\ writing[c] \in Preparation /\ writing[c].at = c
          /\ PutFact("preparations", writing[c])
      BY <1>0, <2>1 DEF PutPreparation, Advance, MoveTo, CallsTyped, HoldsTyped
    <3>2. facts'["preparations"] \subseteq facts["preparations"] \cup {writing[c]}
      BY <1>0, <3>1, Stored DEF BlobsTyped, Kinds, Row
    <3> QED BY <3>1, <3>2
  <2>2. CASE PutAuth(c)
    <3>1. PutFact("auth", writing[c]) /\ writing[c] \in Contribution
      BY <1>0, <2>2 DEF PutAuth, HoldsTyped
    <3> QED BY <1>0, <3>1, Stored DEF BlobsTyped, Kinds, Row
  <2>3. CASE PutObservation(c)
    <3>1. PutFact("observations", writing[c]) /\ writing[c] \in Observation
      BY <1>0, <2>3 DEF PutObservation, HoldsTyped
    <3> QED BY <1>0, <3>1, Stored DEF BlobsTyped, Kinds, Row
  <2>4. CASE facts' = facts
    BY <2>4
  <2> QED BY <1>0, <2>1, <2>2, <2>3, <2>4, Writers DEF BlobWrite, FactWrite, ReplanWrite,
     BindPut,
       BindWrite, CancelPut, blobs
<1> QED BY <1>0, <1>1, <1>2 DEF Once, Elsewhere

\* A write that a copy made earlier can follow.
Gentle ==
    /\ root'.chain = root.chain /\ Executor' = Executor /\ bindFile' = bindFile
    /\ \A k \in Kinds : facts[k] \subseteq facts'[k]
    /\ \/ cancelFile' = cancelFile
       \/ cancelFile = Absent /\ facts' = facts /\ ~Succeeded(facts["observations"])
    /\ cancelFile # Absent =>
          /\ \A k \in Signing : facts'[k] = facts[k]
          /\ Succeeded(facts'["observations"]) => Succeeded(facts["observations"])

\* Such a write leaves the copy behind, and nothing it contradicts.
LEMMA GentleFollowed ==
    ASSUME Gentle, Agree, restated' = restated, UNCHANGED backfill
    PROVE  Agree'
<1> USE Phases DEF CopyFollows, ListedFollows, SnapshotFollows, Signing
<1>1. SUFFICES ASSUME ~restated PROVE Agree'
  BY DEF Agree
<1>2. /\ UNCHANGED <<copy, phase, listed, snapshot>>
      /\ Kinds = {"auth", "preparations", "observations"}
  BY DEF backfill, Kinds
<1>3. /\ root'.chain = root.chain /\ Executor' = Executor /\ bindFile' = bindFile
      /\ \A k \in Kinds : facts[k] \subseteq facts'[k]
      /\ cancelFile # Absent => cancelFile' = cancelFile
  BY DEF Gentle
<1>4. ASSUME copy # Absent \/ phase \in Copying
      PROVE  /\ copy.chain = root'.chain /\ copy.executor = Executor'
             /\ copy.cancellation \in {Absent, cancelFile'}
             /\ \A k \in Kinds : copy.facts[k] \subseteq facts'[k]
             /\ copy.cancellation # Absent => \A k \in Signing : facts'[k] \subseteq copy.facts[k]
             /\ copy.cancellation = Absent /\ cancelFile' # Absent =>
                  ~Succeeded(copy.facts["observations"])
  <2>1. /\ copy.chain = root.chain /\ copy.executor = Executor
        /\ copy.cancellation \in {Absent, cancelFile}
        /\ \A k \in Kinds : copy.facts[k] \subseteq facts[k]
        /\ copy.cancellation # Absent => \A k \in Signing : facts[k] \subseteq copy.facts[k]
        /\ copy.cancellation = Absent /\ cancelFile # Absent =>
             ~Succeeded(copy.facts["observations"])
    BY <1>1, <1>4 DEF Agree
  <2>2. copy.cancellation = Absent /\ cancelFile' # Absent => ~Succeeded(copy.facts["observations"])
    BY <1>2, <2>1 DEF Gentle, Succeeded
  <2>3. copy.cancellation # Absent => \A k \in Signing : facts'[k] \subseteq copy.facts[k]
    BY <2>1 DEF Gentle
  <2> QED BY <1>2, <1>3, <2>1, <2>2, <2>3
<1>5. ASSUME phase \in {"root"} \cup Copying
      PROVE  /\ listed.chain = root'.chain /\ listed.executor = Executor'
             /\ listed.cancellation \in {Absent, cancelFile'}
             /\ copy # Absent /\ copy.cancellation # Absent => listed.cancellation # Absent
             /\ listed.cancellation = Absent /\ cancelFile' # Absent =>
                  ~Succeeded(facts'["observations"])
  <2>1. /\ listed.chain = root.chain /\ listed.executor = Executor
        /\ listed.cancellation \in {Absent, cancelFile}
        /\ copy # Absent /\ copy.cancellation # Absent => listed.cancellation # Absent
        /\ listed.cancellation = Absent /\ cancelFile # Absent => ~Succeeded(facts["observations"])
    BY <1>1, <1>5 DEF Agree
  <2>2. listed.cancellation = Absent /\ cancelFile' # Absent => ~Succeeded(facts'["observations"])
    BY <2>1 DEF Gentle
  <2> QED BY <1>3, <2>1, <2>2
<1>6. ASSUME NEW k \in Kinds, phase \in Snapped \/ (phase = "snapshot" /\ snapshot[k] # Absent)
      PROVE  /\ copy.facts[k] \subseteq snapshot[k] /\ snapshot[k] \subseteq facts'[k]
             /\ listed.cancellation # Absent /\ k # "observations" => snapshot[k] = facts'[k]
  <2>1. /\ copy.facts[k] \subseteq snapshot[k] /\ snapshot[k] \subseteq facts[k]
        /\ listed.cancellation # Absent /\ k # "observations" => snapshot[k] = facts[k]
    BY <1>1, <1>6 DEF Agree
  <2>2. listed.cancellation \in {Absent, cancelFile}
    BY <1>1, <1>6 DEF Agree
  <2> QED BY <1>2, <1>3, <2>1, <2>2 DEF Gentle
<1>7. /\ phase # "failed"
      /\ phase = "listing" =>
            /\ listed.chain = root'.chain
            /\ Executor' = IF listed.executor # Absent THEN listed.executor ELSE bindFile'
      /\ phase \in {"cancellation", "observations", "verify"} =>
            \A k \in Signing : snapshot[k] \subseteq copy.facts[k]
      /\ phase \in {"observations", "verify"} => copy.cancellation = listed.cancellation
      /\ phase = "verify" => snapshot["observations"] \subseteq copy.facts["observations"]
  BY <1>1, <1>3 DEF Agree
<1> QED BY <1>2, <1>4, <1>5, <1>6, <1>7 DEF Agree

\* What the calls write while a copy is there, or being made, and what does not
\* count as restating it.
LEMMA WritesAreGentle ==
    ASSUME Types, Bound, Once, NEW c \in ApiCalls, BlobWrite(c),
           Underway, ~restated'
    PROVE  Gentle /\ restated' = restated
<1> USE DEF Signing
<1>0. /\ BlobsTyped /\ CallsTyped /\ HoldsTyped(c) /\ Absent \notin Sources
      /\ restated \in BOOLEAN
      /\ Kinds = {"auth", "preparations", "observations"}
  BY MigrationAssumption DEF Types, CallsTyped, DeploymentTyped, Kinds
<1>1. ASSUME NEW restates, Writes(c, restates) PROVE restated' = restated /\ ~restates
  BY <1>0, <1>1 DEF Writes
<1>2. ASSUME UNCHANGED <<root, bindFile, cancelFile>>,
             NEW k \in Kinds, writing[c] \in Row(k), PutFact(k, writing[c]),
             ~Kept(k, facts[k], writing[c]),
             cancelFile # Absent => k = "observations" /\ ~writing[c].ok
      PROVE  Gentle
  <2>1. Executor' = Executor
    BY <1>2 DEF Executor, IntentAsRead
  <2>2. facts'[k] = facts[k] \cup {writing[c]} /\ \A j \in Kinds \ {k} : facts'[j] = facts[j]
    BY <1>0, <1>2, Stored DEF BlobsTyped
  <2> QED BY <1>0, <1>2, <2>1, <2>2 DEF Gentle, Succeeded
<1>3. CASE PutAuth(c) /\ writing[c] \in Contribution
  <2>1. /\ cancelFile = Absent /\ ~Kept("auth", facts["auth"], writing[c]) /\ restated' = restated
        /\ UNCHANGED <<root, bindFile, cancelFile>> /\ PutFact("auth", writing[c])
    BY <1>1, <1>3 DEF PutAuth
  <2> QED BY <1>0, <1>2, <1>3, <2>1 DEF Row
<1>4. CASE PutPreparation(c) /\ writing[c] \in Preparation /\ writing[c].at = c
  <2>1. /\ cancelFile = Absent /\ restated' = restated /\ stage[c] = "prepare_put"
        /\ UNCHANGED <<root, bindFile, cancelFile>> /\ PutFact("preparations", writing[c])
    BY <1>1, <1>4 DEF PutPreparation
  <2>2. ~Kept("preparations", facts["preparations"], writing[c])
    <3>1. \A g \in facts["preparations"] : g.at # c
      BY <2>1 DEF Once
    <3> QED BY <1>4, <3>1 DEF Kept, Name
  <2> QED BY <1>0, <1>2, <1>4, <2>1, <2>2 DEF Row
<1>5. CASE PutObservation(c) /\ writing[c] \in Observation
  <2>1. /\ ~Kept("observations", facts["observations"], writing[c]) /\ restated' = restated
        /\ cancelFile # Absent => ~writing[c].ok
        /\ UNCHANGED <<root, bindFile, cancelFile>> /\ PutFact("observations", writing[c])
    BY <1>1, <1>5 DEF PutObservation
  <2> QED BY <1>0, <1>2, <1>5, <2>1 DEF Row
<1>6. CASE ReplanWrite(c) \/ (BindPut(c) /\ bindFile = Absent)
  BY <1>1, <1>6 DEF ReplanWrite, BindPut
<1>7. CASE BindWrite(c) /\ held[c] \in Root
  <2>1. /\ held[c].chain = root.chain /\ restated' = restated /\ stage[c] = "bind_write"
        /\ UNCHANGED <<bindFile, cancelFile, facts>>
        /\ root' = [chain |-> root.chain, executor |-> writing[c]]
    BY <1>1, <1>7, Plans DEF BindWrite
  <2>2. bindFile # Absent /\ writing[c] = bindFile /\ root.executor \in {Absent, bindFile}
    BY <2>1 DEF Bound
  <2>3. Executor' = Executor
    BY <2>1, <2>2 DEF Executor, IntentAsRead
  <2> QED BY <2>1, <2>3 DEF Gentle
<1>8. CASE CancelPut(c) /\ cancelFile = Absent
  <2>1. /\ ~Succeeded(facts["observations"]) /\ restated' = restated
        /\ UNCHANGED <<root, bindFile, facts>>
    BY <1>1, <1>8 DEF CancelPut
  <2> QED BY <1>8, <2>1 DEF Gentle, Executor, IntentAsRead
<1> QED BY <1>3, <1>4, <1>5, <1>6, <1>7, <1>8 DEF BlobWrite, FactWrite

\* Whatever the calls do, the copy can follow or is known to be restated.
LEMMA CallsKeepTheCopy ==
    ASSUME Types, Sound, NEW c \in ApiCalls, CallStep(c)
    PROVE  Agree'
<1> USE Phases
<1>0. CallsTyped /\ Elsewhere(c) /\ UNCHANGED backfill
  BY OthersRest DEF Types, Elsewhere
<1>1. CASE UNCHANGED <<blobs, late, restated>>
  <2>1. Gentle
    BY <1>1 DEF blobs, Gentle, Executor, IntentAsRead
  <2> QED BY <1>0, <1>1, <2>1, GentleFollowed DEF Sound
<1>2. CASE BlobWrite(c) /\ ~Underway
  <2>1. phase' = "idle" /\ copy' = Absent
    BY <1>0, <1>2 DEF Underway, backfill
  <2> QED BY <2>1 DEF Agree
<1>3. CASE BlobWrite(c) /\ Underway /\ ~restated'
  BY <1>0, <1>3, WritesAreGentle, GentleFollowed DEF Sound
<1>4. CASE restated'
  BY <1>4 DEF Agree
<1> QED BY <1>0, <1>1, <1>2, <1>3, <1>4, Writers

\* Whatever a pass writes keeps the shape of a row.
LEMMA PassesKeepTheShape ==
    ASSUME Types, Shaped, PassStep
    PROVE  Shaped'
<1> USE Phases DEF Whole
<1>1. snapshot' = [k \in Kinds |-> snapshot'[k]]
  <2>1. snapshot' = snapshot => snapshot' = [k \in Kinds |-> snapshot'[k]]
    BY DEF Shaped
  <2>2. ASSUME NEW j \in Kinds, snapshot' = [snapshot EXCEPT ![j] = facts[j]]
        PROVE  snapshot' = [k \in Kinds |-> snapshot'[k]]
    BY <2>2 DEF Shaped
  <2>3. BeginPass => snapshot' = [k \in Kinds |-> snapshot'[k]]
    BY DEF BeginPass
  <2> QED BY <2>1, <2>2, <2>3 DEF PassStep, ListFiles, CopyRoot, SnapshotFacts, CopyFact,
       CopyCancellation, CopyObservation, Verify, Interrupt
<1>2. CASE CopyRoot /\ copy' = [chain |-> listed.chain, executor |-> listed.executor,
                                cancellation |-> Absent, facts |-> NoFacts]
  <2>1. NoFacts = [k \in Kinds |-> NoFacts[k]]
    BY DEF NoFacts
  <2> QED BY <1>1, <1>2, <2>1 DEF Shaped
<1>3. ASSUME copy' = copy, phase' \in Copying => phase \in Copying \/ copy # Absent
      PROVE  Shaped'
  BY <1>1, <1>3 DEF Shaped
<1>4. ASSUME NEW j \in Kinds, NEW f, Insert(j, f), phase \in Copying
      PROVE  Shaped'
  <2>1. Whole(copy)
    BY <1>4 DEF Shaped
  <2> DEFINE C == [k \in Kinds |-> copy.facts[k]]
  <2>2. copy' = [chain |-> copy.chain, executor |-> copy.executor,
                 cancellation |-> copy.cancellation,
                 facts |-> [C EXCEPT ![j] = @ \cup {f}]]
    BY <1>4, <2>1 DEF Insert
  <2>3. [C EXCEPT ![j] = @ \cup {f}] = [k \in Kinds |-> [C EXCEPT ![j] = @ \cup {f}][k]]
    OBVIOUS
  <2>4. Whole(copy')
    BY <2>2, <2>3
  <2> QED BY <1>1, <2>4 DEF Shaped
<1>5. CASE copy' = [copy EXCEPT !.cancellation = listed.cancellation] /\ phase \in Copying
  <2>1. Whole(copy)
    BY <1>5 DEF Shaped
  <2>2. Whole(copy')
    BY <1>5, <2>1
  <2> QED BY <1>1, <2>2 DEF Shaped
<1>6. CASE BeginPass \/ ListFiles \/ Verify \/ Interrupt
  BY <1>3, <1>6 DEF BeginPass, ListFiles, Verify, Interrupt, Reach, Mismatch
<1>7. CASE CopyRoot
  BY <1>2, <1>3, <1>7 DEF CopyRoot, Reach, Mismatch
<1>8. ASSUME NEW k \in Kinds, SnapshotFacts(k) PROVE Shaped'
  BY <1>3, <1>8 DEF SnapshotFacts
<1>9. CASE CopyFact
  <2>1. Unskipped \subseteq Kinds
    BY DEF Unskipped, Kinds
  <2> QED BY <1>3, <1>4, <1>9, <2>1 DEF CopyFact
<1>10. CASE CopyCancellation
  BY <1>3, <1>5, <1>10 DEF CopyCancellation
<1>11. CASE CopyObservation
  BY <1>3, <1>4, <1>11 DEF CopyObservation, Kinds
<1> QED BY <1>6, <1>7, <1>8, <1>9, <1>10, <1>11 DEF PassStep

\* What was snapshot and is no longer missing is in the copy.
LEMMA NoneMissing ==
    ASSUME Unique(facts), NEW k \in Kinds, snapshot[k] \subseteq facts[k],
           copy.facts[k] \subseteq facts[k], Missing(k) = {}
    PROVE  snapshot[k] \subseteq copy.facts[k]
BY DEF Missing, Kept, Unique

\* A pass whose inputs are to be followed never finds a difference.
LEMMA PassesKeepTheCopy ==
    ASSUME Types, Sound, PassStep
    PROVE  Agree'
<1> USE Phases DEF CopyFollows, ListedFollows, SnapshotFollows, Signing
<1>0. /\ UNCHANGED <<root, bindFile, cancelFile, facts, restated>> /\ Executor' = Executor
      /\ DOMAIN snapshot = Kinds /\ Kinds = {"auth", "preparations", "observations"}
      /\ Unique(facts) /\ Agree
      /\ copy # Absent \/ phase \in Copying => CopyTyped /\ Unique(copy.facts)
  BY PassFrame DEF still, blobs, Types, PassTyped, Executor, IntentAsRead, Kinds, Sound
<1>1. SUFFICES ASSUME ~restated PROVE Agree'
  BY <1>0 DEF Agree
<1>2. CASE BeginPass
  <2>1. /\ phase' = "listing" /\ copy' = copy /\ phase \in {"idle", "failed"}
        /\ listed'.chain = root.chain /\ listed'.executor = root.executor
    BY <1>2 DEF BeginPass
  <2> QED BY <1>0, <1>1, <2>1 DEF Agree, Executor, IntentAsRead
<1>3. CASE ListFiles
  <2>1. /\ phase = "listing" /\ phase' = "root" /\ copy' = copy
        /\ listed'.chain = listed.chain /\ listed'.cancellation = cancelFile
        /\ listed'.executor = IF listed.executor # Absent THEN listed.executor ELSE bindFile
    BY <1>3 DEF ListFiles, Reach
  <2> QED BY <1>0, <1>1, <2>1 DEF Agree
<1>4. CASE CopyRoot
  <2>1. phase = "root" /\ UNCHANGED <<listed,
                                      snapshot>> /\ \A k \in Kinds : snapshot[k] = Absent
    BY <1>4 DEF CopyRoot, Types, PassTyped
  <2>2. CASE /\ phase' = "snapshot"
             /\ copy' = [chain |-> listed.chain, executor |-> listed.executor,
                         cancellation |-> Absent, facts |-> NoFacts]
    <3>1. /\ copy'.chain = listed.chain /\ copy'.executor = listed.executor
          /\ copy'.cancellation = Absent /\ \A k \in Kinds : copy'.facts[k] = {}
      BY <2>2, NewRow
    <3>2. ~Succeeded(copy'.facts["observations"])
      BY <1>0, <3>1 DEF Succeeded
    <3> QED BY <1>0, <1>1, <2>1, <2>2, <3>1, <3>2 DEF Agree
  <2>3. CASE copy # Absent /\ copy' = copy
    <3>1. RootsEquivalent
      BY <1>0, <1>1, <2>1, <2>3 DEF Agree, RootsEquivalent
    <3>2. phase' = "snapshot"
      BY <1>4, <2>3, <3>1 DEF CopyRoot, Reach
    <3> QED BY <1>0, <1>1, <2>1, <2>3, <3>2 DEF Agree
  <2> QED BY <1>4, <2>2, <2>3 DEF CopyRoot, Reach
<1>5. ASSUME NEW k \in Kinds, SnapshotFacts(k) PROVE Agree'
  <2>1. /\ snapshot'[k] = facts[k] /\ \A j \in Kinds \ {k} : snapshot'[j] = snapshot[j]
        /\ phase = "snapshot" /\ phase' \in {"facts", "snapshot"} /\ snapshot[k] = Absent
        /\ phase' = "facts" => \A j \in Kinds \ {k} : snapshot[j] # Absent
    BY <1>0, <1>5, Snapshots
  <2>2. copy' = copy /\ listed' = listed
    BY <1>5 DEF SnapshotFacts
  <2>3. ASSUME NEW j \in Kinds,
         phase' \in Snapped \/ (phase' = "snapshot" /\ snapshot'[j] # Absent)
        PROVE  /\ copy.facts[j] \subseteq snapshot'[j] /\ snapshot'[j] \subseteq facts[j]
               /\ listed.cancellation # Absent /\ j # "observations" => snapshot'[j] = facts[j]
    <3>1. CASE j = k
      BY <1>0, <1>1, <2>1, <3>1 DEF Agree
    <3>2. CASE j # k
      BY <1>0, <1>1, <2>1, <2>3, <3>2 DEF Agree
    <3> QED BY <3>1, <3>2
  <2> QED BY <1>0, <1>1, <2>1, <2>2, <2>3 DEF Agree
<1>6. CASE CopyFact
  <2>1. /\ phase = "facts" /\ UNCHANGED <<listed, snapshot>>
        /\ Unskipped \subseteq Signing
    BY <1>6 DEF CopyFact, Unskipped
  <2>2. ASSUME NEW k \in Unskipped, NEW f \in Missing(k), Insert(k, f), phase' = "facts"
        PROVE  Agree'
    <3>1. /\ k \in Signing /\ k \in Kinds /\ copy.cancellation = Absent
          /\ f \in snapshot[k] /\ ~Kept(k, copy.facts[k], f)
      BY <1>0, <2>1, <2>2 DEF Unskipped, Missing
    <3>2. f \in Row(k)
      BY <2>1, <3>1 DEF Types, PassTyped
    <3>3. /\ copy'.chain = copy.chain /\ copy'.executor = copy.executor
          /\ copy'.cancellation = copy.cancellation
          /\ copy'.facts[k] = copy.facts[k] \cup {f}
          /\ \A j \in Kinds \ {k} : copy'.facts[j] = copy.facts[j]
      BY <1>0, <2>1, <2>2, <3>1, <3>2, Inserted
    <3> QED BY <1>0, <1>1, <2>1, <2>2, <3>1, <3>3 DEF Agree
  <2>3. CASE (\A k \in Unskipped : Missing(k) = {}) /\ copy' = copy /\ phase' = "cancellation"
    <3>1. ASSUME NEW k \in Signing PROVE snapshot[k] \subseteq copy.facts[k]
      <4>1. k \in Kinds /\ snapshot[k] \subseteq facts[k] /\ copy.facts[k] \subseteq facts[k]
        BY <1>0, <1>1, <2>1 DEF Agree
      <4>2. CASE copy.cancellation = Absent
        BY <1>0, <2>3, <4>1, <4>2, NoneMissing DEF Unskipped
      <4>3. CASE copy.cancellation # Absent
        BY <1>0, <1>1, <2>1, <4>1, <4>3 DEF Agree
      <4> QED BY <4>2, <4>3
    <3> QED BY <1>0, <1>1, <2>1, <2>3, <3>1 DEF Agree
  <2> QED BY <1>6, <2>2, <2>3 DEF CopyFact, Reach
<1>7. CASE CopyCancellation
  <2>1. phase = "cancellation" /\ UNCHANGED <<listed, snapshot>>
    BY <1>7 DEF CopyCancellation
  <2>2. /\ listed.cancellation \in {Absent, cancelFile}
        /\ copy.cancellation \in {Absent, cancelFile}
        /\ copy.cancellation = Absent /\ cancelFile # Absent =>
             ~Succeeded(copy.facts["observations"])
        /\ \A k \in Signing : snapshot[k] \subseteq copy.facts[k]
        /\ listed.cancellation # Absent => \A k \in Signing : snapshot[k] = facts[k]
    BY <1>0, <1>1, <2>1 DEF Agree
  <2>3. copy # Absent /\ copy.cancellation # Absent => listed.cancellation # Absent
    BY <1>0, <1>1, <2>1 DEF Agree
  <2>4. CASE listed.cancellation # Absent /\ copy.cancellation = Absent
    <3>1. phase' = "observations" /\ copy' = [copy EXCEPT !.cancellation = listed.cancellation]
      BY <1>7, <2>2, <2>4 DEF CopyCancellation, Reach
    <3>2. /\ copy'.chain = copy.chain /\ copy'.executor = copy.executor
          /\ copy'.cancellation = listed.cancellation /\ copy'.facts = copy.facts
      BY <1>0, <2>1, <3>1, Cancelled
    <3> QED BY <1>0, <1>1, <2>1, <2>2, <2>4, <3>1, <3>2 DEF Agree
  <2>5. CASE ~(listed.cancellation # Absent /\ copy.cancellation = Absent)
    <3>1. phase' = "observations" /\ copy' = copy
      BY <1>7, <2>5 DEF CopyCancellation, Reach
    <3> QED BY <1>0, <1>1, <2>1, <2>2, <2>3, <2>5, <3>1 DEF Agree
  <2> QED BY <2>4, <2>5
<1>8. CASE CopyObservation
  <2>1. phase = "observations" /\ UNCHANGED <<listed, snapshot>> /\ "observations" \in Kinds
    BY <1>0, <1>8 DEF CopyObservation
  <2>2. ASSUME NEW f \in Missing("observations"), Insert("observations", f),
               phase' = "observations"
        PROVE  Agree'
    <3>1. f \in snapshot["observations"] /\ ~Kept("observations", copy.facts["observations"], f)
      BY <2>2 DEF Missing
    <3>2. f \in Row("observations")
      BY <2>1, <3>1 DEF Types, PassTyped
    <3>3. /\ copy'.chain = copy.chain /\ copy'.executor = copy.executor
          /\ copy'.cancellation = copy.cancellation
          /\ copy'.facts["observations"] = copy.facts["observations"] \cup {f}
          /\ \A j \in Kinds \ {"observations"} : copy'.facts[j] = copy.facts[j]
      BY <1>0, <2>1, <2>2, <3>1, <3>2, Inserted
    <3>4. /\ copy.facts["observations"] \subseteq snapshot["observations"]
          /\ snapshot["observations"] \subseteq facts["observations"]
          /\ copy.cancellation = listed.cancellation
          /\ listed.cancellation = Absent /\ cancelFile # Absent =>
                ~Succeeded(facts["observations"])
      BY <1>0, <1>1, <2>1 DEF Agree
    <3>5. copy.cancellation = Absent /\ cancelFile # Absent =>
             ~Succeeded(copy'.facts["observations"])
      BY <3>1, <3>3, <3>4 DEF Succeeded
    <3> QED BY <1>0, <1>1, <2>1, <2>2, <3>1, <3>3, <3>4, <3>5 DEF Agree
  <2>3. CASE Missing("observations") = {} /\ copy' = copy /\ phase' = "verify"
    <3>1. snapshot["observations"] \subseteq copy.facts["observations"]
      BY <1>0, <1>1, <2>1, <2>3, NoneMissing DEF Agree
    <3> QED BY <1>0, <1>1, <2>1, <2>3, <3>1 DEF Agree
  <2> QED BY <1>8, <2>2, <2>3 DEF CopyObservation, Reach
<1>9. CASE Verify
  <2>1. phase = "verify" /\ copy' = copy
    BY <1>9 DEF Verify
  <2>2. Equivalent
    <3>1. /\ copy.chain = listed.chain /\ copy.executor = listed.executor
          /\ copy.cancellation = listed.cancellation
      BY <1>0, <1>1, <2>1 DEF Agree
    <3>2. \A k \in Kinds : copy.facts[k] = snapshot[k]
      BY <1>0, <1>1, <2>1 DEF Agree
    <3>3. /\ snapshot = [k \in Kinds |-> snapshot[k]]
          /\ copy = [chain |-> copy.chain, executor |-> copy.executor,
                     cancellation |-> copy.cancellation,
                     facts |-> [k \in Kinds |-> copy.facts[k]]]
      BY <2>1 DEF Sound, Shaped, Whole
    <3> QED BY <3>1, <3>2, <3>3 DEF Equivalent
  <2>3. phase' = "idle"
    BY <1>9, <2>2 DEF Verify
  <2> QED BY <1>0, <1>1, <2>1, <2>3 DEF Agree
<1>10. CASE Interrupt
  <2>1. phase' = "idle" /\ copy' = copy /\ phase \in Passing
    BY <1>10 DEF Interrupt, Types, PassTyped
  <2> QED BY <1>0, <1>1, <2>1 DEF Agree
<1> QED BY <1>2, <1>3, <1>4, <1>5, <1>6, <1>7, <1>8, <1>9, <1>10 DEF PassStep

\* A pass fails only if, since the first one began, the Intent was replanned or
\* bound, something was written under the name of another fact or onto a
\* cancelled Intent, or a success met a cancellation.
THEOREM FailuresHaveACause == MigrationSpec => []FailedPassesHaveACause
<1>1. MigrationInit => Types /\ Sound
  <2> SUFFICES ASSUME MigrationInit PROVE Types /\ Sound
    OBVIOUS
  <2>1. phase = "idle" /\ copy = Absent /\ bindFile = Absent /\ \A c \in ApiCalls : stage[c] = "idle"
    BY DEF MigrationInit
  <2>2. Agree
    BY <2>1, Phases DEF Agree
  <2>3. Bound
    BY <2>1 DEF Bound
  <2>4. \A p \in facts["preparations"] : p.at = Origin
    <3>1. NoFacts["preparations"] = {} /\ Signed["preparations"] = {}
      BY DEF NoFacts, Signed, Kinds
    <3>2. ASSUME NEW x \in Sources
          PROVE  Packaged(x)["preparations"] = {[plan |-> Origin, source |-> x, at |-> Origin]}
      BY DEF Packaged, NoFacts, Signed, Kinds
    <3> QED BY <3>1, <3>2 DEF MigrationInit
  <2>5. Once
    BY <2>4, MigrationAssumption DEF Once
  <2>6. Shaped
    BY <2>1, Phases DEF MigrationInit, Shaped
  <2> QED BY <2>2, <2>3, <2>5, <2>6, FirstTypes DEF Sound
<1>2. ASSUME Types, Sound, [MigrationNext]_migrationVars PROVE Sound'
  <2>1. CASE /\ UNCHANGED <<blobs, calls, copy, listed, snapshot, restated>>
             /\ phase' = phase \/ phase' = "idle"
    <3>1. UNCHANGED <<root, bindFile, cancelFile, facts, stage, held, writing>>
      BY <2>1 DEF blobs, calls
    <3>2. Unique(facts)' /\ Bound' /\ Once'
      BY <1>2, <3>1 DEF Sound, Bound, Once
    <3>3. Shaped' /\ Agree'
      BY <1>2, <2>1, <3>1, Phases DEF Sound, Shaped, Whole, Agree, CopyFollows, ListedFollows,
         SnapshotFollows, Executor, IntentAsRead
    <3> QED BY <3>2, <3>3 DEF Sound
  <2>2. ASSUME NEW c \in ApiCalls, CallStep(c) PROVE Sound'
    <3>1. Unique(facts)'
      BY <1>2, <2>2, BlobsStayTyped DEF Types, Sound
    <3>2. Shaped'
      BY <1>2, <2>2, OthersRest DEF Types, Sound, Shaped, Elsewhere, backfill
    <3> QED BY <1>2, <2>2, <3>1, <3>2, BoundStays, OnceStays, CallsKeepTheCopy DEF Sound
  <2>3. CASE PassStep
    <3>1. UNCHANGED <<root, bindFile, facts, stage, held, writing>>
      BY <2>3, PassFrame DEF still, blobs, calls
    <3>2. Unique(facts)' /\ Bound' /\ Once'
      BY <1>2, <3>1 DEF Sound, Bound, Once
    <3> QED BY <1>2, <2>3, <3>2, PassesKeepTheShape, PassesKeepTheCopy DEF Sound
  <2> QED BY <1>2, <2>1, <2>2, <2>3 DEF MigrationNext, Land, Freeze, Unfreeze, Switch,
       migrationVars, backfill, marks
<1>3. Types /\ Sound /\ [MigrationNext]_migrationVars => Types' /\ Sound'
  BY <1>2, StepsKeepTypes
<1>4. Sound => FailedPassesHaveACause
  BY DEF Sound, Agree, FailedPassesHaveACause
<1> QED BY <1>1, <1>3, <1>4, PTL DEF MigrationSpec
=============================================================================
