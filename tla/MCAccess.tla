------------------------------ MODULE MCAccess ------------------------------
(***************************************************************************)
(* Small instances of the parts that decide who gets in, and of a record   *)
(* kept beside them: AgentAccess, BrowserAuthorization, WalletUnlock,      *)
(* IntegrationAdmin and TreasuryBox.  They share no state, so that their   *)
(* interleavings would add nothing: a behaviour is about one of them.      *)
(***************************************************************************)
EXTENDS AgentAccess, BrowserAuthorization, WalletUnlock, IntegrationAdmin, TreasuryBox, TLC

CONSTANTS c1, c2, w1, k1, k2, p, q, s1, s2, b1

VARIABLE part

agentRests == UNCHANGED vars
browserRests == UNCHANGED browserVars
unlockRests == UNCHANGED unlockVars
adminRests == UNCHANGED adminVars
treasuryRests == UNCHANGED treasuryVars

\* A part that rests stays in one of its initial states.
AccessInit ==
    /\ part \in {"agent", "browser", "unlock", "admin", "treasury"}
    /\ Init /\ BrowserInit /\ UnlockInit /\ AdminInit /\ TreasuryInit
    /\ part # "agent" => storageMode = CHOOSE mode \in StorageModes : TRUE
    /\ part # "unlock" => exclusive
    /\ part # "admin" => bootstrap = Missing

AccessNext ==
    /\ UNCHANGED part
    /\ \/ /\ part = "agent" /\ Next
          /\ browserRests /\ unlockRests /\ adminRests /\ treasuryRests
       \/ /\ part = "browser" /\ BrowserNext
          /\ agentRests /\ unlockRests /\ adminRests /\ treasuryRests
       \/ /\ part = "unlock" /\ UnlockNext
          /\ agentRests /\ browserRests /\ adminRests /\ treasuryRests
       \/ /\ part = "admin" /\ AdminNext
          /\ agentRests /\ browserRests /\ unlockRests /\ treasuryRests
       \/ /\ part = "treasury" /\ TreasuryNext
          /\ agentRests /\ browserRests /\ unlockRests /\ adminRests

AccessSpec ==
    AccessInit /\ [][AccessNext]_<<part, vars, browserVars, unlockVars, adminVars, treasuryVars>>

Interchangeable ==
    Permutations(Calls) \cup Permutations(Credentials) \cup Permutations(Payloads)
    \cup Permutations(Signers)
=============================================================================
