---------------------------- MODULE MCSessionCache ----------------------------
(* Three toggles and an inbound message of one owner.                       *)
EXTENDS SessionCache

CONSTANTS t1, t2, t3, c1

MCToggles == {t1, t2, t3}
MCChecks == {c1}
=============================================================================
