------------------------ MODULE MCStorageMigration ------------------------
(* A small instance of StorageMigration for TLC. *)
EXTENDS StorageMigration, TLC

CONSTANTS c1, c2, s1, x1, o

InterchangeableCalls == Permutations(ApiCalls)
=============================================================================
