--------------------------- MODULE MCChannelPool ---------------------------
(***************************************************************************)
(* Small instances of ManagedChannel and ChannelCreator, checked side by   *)
(* side: of the calls that provision a channel, the leases see only that   *)
(* the account is there in the end, so their interleavings would add       *)
(* nothing.                                                                *)
(***************************************************************************)
EXTENDS MCManagedChannel, ChannelCreator

CONSTANTS p1, p2, a1

VARIABLE part    \* which of the two this behaviour is about

PoolInit ==
    /\ part \in {"leases", "creator"}
    /\ Init /\ CreatorInit

PoolNext ==
    \/ part = "leases" /\ Next /\ UNCHANGED <<part, creatorVars>>
    \/ part = "creator" /\ CreatorNext /\ UNCHANGED <<part, vars>>

PoolSpec == PoolInit /\ [][PoolNext]_<<part, vars, creatorVars>>

InterchangeableCalls == Interchangeable \cup Permutations(Provisions)
=============================================================================
