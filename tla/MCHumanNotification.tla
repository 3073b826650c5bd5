------------------------ MODULE MCHumanNotification ------------------------
(* Model values for the instances of HumanNotification that TLC checks.    *)
EXTENDS HumanNotification

CONSTANTS c1, p, q, r, d1, d2
=============================================================================
