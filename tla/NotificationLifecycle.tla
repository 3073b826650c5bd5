----------------------- MODULE NotificationLifecycle -----------------------
(***************************************************************************)
(* What a person who asked for a signature is promised about the e-mails:  *)
(* the state shown for each of them moves from queued to accepted or       *)
(* failed, and on to what the provider reports of its delivery; it never   *)
(* claims what the provider has not done, and never starts over.           *)
(***************************************************************************)
CONSTANT Events

VARIABLES
    shown,       \* what the Proposal shows of each e-mail
    accepted     \* e-mails the provider has taken

vars == <<shown, accepted>>

Reported == {"delivered", "bounced"}

Init ==
    /\ shown = [e \in Events |-> "none"]
    /\ accepted = {}

Becomes(e, from, to) == shown[e] \in from /\ shown' = [shown EXCEPT ![e] = to]

Queue(e) == Becomes(e, {"none"}, "queued") /\ UNCHANGED accepted

\* The provider may take an e-mail whose request was given up.
Accept(e) ==
    /\ shown[e] # "none"
    /\ accepted' = accepted \cup {e}
    /\ UNCHANGED shown

Confirm(e) ==
    /\ e \in accepted
    /\ Becomes(e, {"queued"}, "provider_accepted")
    /\ UNCHANGED accepted

Fail(e) == Becomes(e, {"queued"}, "failed") /\ UNCHANGED accepted

Report(e) ==
    /\ e \in accepted
    /\ \E state \in Reported : Becomes(e, {"provider_accepted"} \cup Reported, state)
    /\ UNCHANGED accepted

Next == \E e \in Events : Queue(e) \/ Accept(e) \/ Confirm(e) \/ Fail(e) \/ Report(e)

Spec == Init /\ [][Next]_vars
=============================================================================
