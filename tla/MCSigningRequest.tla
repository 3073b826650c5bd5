-------------------------- MODULE MCSigningRequest --------------------------
(* Small instances of SigningRequest for TLC. *)
EXTENDS SigningRequest, TLC

CONSTANTS c1, c2, a, b

\* Valid while the ledger's time is at most 2.
UntilTwo == [seq |-> 1, relaxed |-> FALSE, minSeq |-> 0, minTime |-> 0, maxTime |-> 2,
             minLedger |-> 0, maxLedger |-> 0, minAge |-> 0, minGap |-> 0]
UntilTwoOnly == {UntilTwo}

\* The key a alone reaches the threshold, b is one short.
Policy(wa, wb) ==
    [weight |-> (a :> wa @@ b :> wb), low |-> 1, operation |-> 2]
Full == Policy(2, 1)
WithoutB == Policy(2, 0)
FullOrReduced == {Full, WithoutB}
OnlyFull == {Full}

Empty == {<<>>}
Singles == {<<a>>, <<b>>}

AnyCall == Permutations(Calls)
=============================================================================
