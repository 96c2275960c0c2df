---------------------------- MODULE MCOwnerClients ----------------------------
(* OwnerClients for TLC: a block and two phone submissions of one owner; the    *)
(* second number is that of another account.                                    *)
EXTENDS OwnerClients

CONSTANTS b1, p1, p2, k1, k2

MCCalls == {b1, p1, p2}
MCPhoned == {p1, p2}
MCAccounts == {k1, k2}
MCAccountOf == [c \in MCCalls |-> k1]
MCPhoneOf == [c \in MCPhoned |-> IF c = p1 THEN k1 ELSE k2]
=============================================================================
