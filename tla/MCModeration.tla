---------------------------- MODULE MCModeration ----------------------------
(* Small worlds for the moderation pipeline.                                *)
EXTENDS Moderation

CONSTANTS u1, u2, u3, u4, u5, alice, bob, spammer, m1, m2, m3, m4

\* One owner, one sender, four messages; u5 is a second delivery of m1.
StrikeUpdates == {u1, u2, u3, u4, u5}
OneOwner == [u \in Updates |-> alice]
OneSender == [u \in Updates |-> spammer]
FourMessages == [u \in Updates |->
  CASE u = u2 -> m2 [] u = u3 -> m3 [] u = u4 -> m4 [] OTHER -> m1]

\* Three bursts: u1 and u2, whose gap is exactly the window, then u3, then u4
\* and the second delivery of m1, a gap of one more than the window each.
Bursts == [u \in Updates |->
  CASE u = u1 -> 0 [] u = u2 -> 5 [] u = u3 -> 11 [] OTHER -> 17]

\* With Window = 0 the times do not matter: the updates come in any order.
AnyTime == [u \in Updates |-> 0]

\* Three messages to alice and, from the same sender, one to bob.
CrossUpdates == {u1, u2, u3, u4}
TwoOwners == [u \in Updates |-> IF u = u4 THEN bob ELSE alice]
=============================================================================
