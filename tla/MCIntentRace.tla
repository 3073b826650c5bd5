--------------------------- MODULE MCIntentRace ---------------------------
(***************************************************************************)
(* Two instances of SorobanIntent side by side, for properties that hold   *)
(* however replans overlap.  The constants of the module they extend stand *)
(* for both.                                                               *)
(***************************************************************************)
EXTENDS MCSorobanIntent

VARIABLE part    \* which of the two this behaviour is about

\* One signer, who may be removed, and effects that move.
Race == INSTANCE SorobanIntent WITH
    Signers <- {s1}, Quorums <- {{s1}}, Operations <- {"contribute", "replan", "rotate"}

\* Several signers are needed for a package.
Threshold == INSTANCE SorobanIntent WITH
    Structures <- {calm}, MaxPlans <- 2, Operations <- {"contribute", "replan", "prepare"}

RaceInit ==
    \/ part = "race" /\ Race!Init
    \/ part = "threshold" /\ Threshold!Init

RaceNext ==
    \/ part = "race" /\ Race!Next /\ UNCHANGED part
    \/ part = "threshold" /\ Threshold!Next /\ UNCHANGED part

RaceSpec == RaceInit /\ [][RaceNext]_<<part, vars>>

\* Any two of three equal signers reach the threshold.
TwoOfThree == {{s1, s2}, {s1, s3}, {s2, s3}}

\* Only one signer occurs in the race and only one structure in the threshold,
\* so that there is nothing there to exchange it with.
InterchangeableRequests ==
    Permutations(Handlers) \cup Permutations(Structures) \cup Permutations(Signers)
=============================================================================
