-------------------------- MODULE IntentLifecycle --------------------------
(***************************************************************************)
(* What the durable coordination of one Soroban Intent promises, without   *)
(* handlers, locks or network: an append-only record of plan revisions and *)
(* of facts about them, closed once by a cancellation that a recorded      *)
(* success excludes, while ledger results may still arrive afterwards.     *)
(***************************************************************************)
EXTENDS Integers, Sequences

VARIABLES plans, evidence, results, closed

vars == <<plans, evidence, results, closed>>

Names(f) == f.rev \in DOMAIN plans /\ plans[f.rev] = f.plan

Init ==
    /\ Len(plans) = 1
    /\ evidence = {} /\ results = {} /\ closed = {}

\* A replan appends one revision.
Revise ==
    /\ closed = {}
    /\ Len(plans') = Len(plans) + 1
    /\ \A r \in DOMAIN plans : plans'[r] = plans[r]
    /\ UNCHANGED <<evidence, results, closed>>

\* A contribution or an execution package is recorded under its revision.
Record ==
    /\ closed = {}
    /\ \E f \in evidence' : Names(f) /\ evidence' = evidence \cup {f}
    /\ UNCHANGED <<plans, results, closed>>

\* The ledger's verdict on a recorded package, once per transaction.
Observe ==
    /\ \E o \in results' :
          /\ [rev |-> o.rev, plan |-> o.plan, tx |-> o.tx] \in evidence
          /\ \A other \in results : other.tx # o.tx
          /\ results' = results \cup {o}
    /\ UNCHANGED <<plans, evidence, closed>>

Close ==
    /\ closed = {}
    /\ \A o \in results : ~ o.successful
    /\ \E c \in closed' : Names(c) /\ closed' = {c}
    /\ UNCHANGED <<plans, evidence, results>>

Next == Revise \/ Record \/ Observe \/ Close

Spec == Init /\ [][Next]_vars
=============================================================================
