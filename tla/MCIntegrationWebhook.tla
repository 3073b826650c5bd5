------------------------ MODULE MCIntegrationWebhook ------------------------
(* Two dispatchers for TLC.                                                 *)
EXTENDS IntegrationWebhook, TLC
CONSTANTS d1, d2
Interchangeable == Permutations(Dispatchers)
=============================================================================
