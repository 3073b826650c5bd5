------------------------- MODULE MCSorobanIntent -------------------------
(* Small instances of SorobanIntent for TLC. *)
EXTENDS SorobanIntent, TLC

CONSTANTS h1, h2, s1, s2, s3, x1, x2, calm, moved

\* Signers, executors, effects structures, requests that may replan and
\* requests that may not are interchangeable.
Interchangeable ==
    Permutations(Signers) \cup Permutations(Executors) \cup Permutations(Structures)
    \cup Permutations(Replanners) \cup Permutations(Handlers \ Replanners)
=============================================================================
