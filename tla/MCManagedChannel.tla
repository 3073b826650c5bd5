-------------------------- MODULE MCManagedChannel --------------------------
(* Two calls and two Requests for TLC; both Requests try the channels in    *)
(* the same order.                                                          *)
EXTENDS ManagedChannel, TLC
CONSTANTS j1, j2, r1, r2
Interchangeable == Permutations(Jobs) \cup Permutations(Requests)
SameOrder == [r \in Requests |-> Baseline - 1]
=============================================================================
