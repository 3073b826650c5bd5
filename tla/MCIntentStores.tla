-------------------------- MODULE MCIntentStores --------------------------
(***************************************************************************)
(* A small instance of an Intent in PostgreSQL (SorobanIntent), and one of *)
(* an Intent in blobs on its way there (StorageMigration), side by side:   *)
(* no request works on both, so that their interleavings would add nothing.*)
(***************************************************************************)
EXTENDS MCSorobanIntent, StorageMigration

CONSTANTS c1, c2, o

VARIABLE part    \* which of the two this behaviour is about

\* The part that does not move stays in one of its initial states.
StoresInit ==
    /\ Init /\ MigrationInit
    /\ \/ part = "postgres" /\ root.executor = Absent /\ facts = NoFacts
       \/ part = "blob" /\ binding = None

\* Calls in blobs are made once, and the move ends with the switch.
Ended == part = "blob" /\ switched /\ UNCHANGED <<part, vars, migrationVars>>

StoresNext ==
    \/ part = "postgres" /\ Next /\ UNCHANGED <<part, migrationVars>>
    \/ part = "blob" /\ MigrationNext /\ UNCHANGED <<part, vars>>
    \/ Ended

StoresSpec == StoresInit /\ [][StoresNext]_<<part, vars, migrationVars>>

InterchangeableRequests == Interchangeable \cup Permutations(ApiCalls)
=============================================================================
