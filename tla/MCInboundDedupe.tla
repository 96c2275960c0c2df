---------------------------- MODULE MCInboundDedupe ----------------------------
(* InboundDedupe for TLC: five messages, two of which are twins of different *)
(* owners, a cache of two keys that is pruned at every third claim, and a    *)
(* claim that lasts two ticks.                                               *)
EXTENDS InboundDedupe, TLC

CONSTANTS m1, m2, m3, m4, m5, k1, k2, k3, k4

MCMessages == {m1, m2, m3, m4, m5}
MCKeys == {k1, k2, k3, k4}
MCKeyOf == (m1 :> k1) @@ (m2 :> k1) @@ (m3 :> k2) @@ (m4 :> k3) @@ (m5 :> k4)

\* Picked is SelectSeq, which the provers know nothing of.
ASSUME \A n \in 0..4 : \A order \in [1..n -> MCKeys], kept \in SUBSET MCKeys :
         Picked(order, {i \in 1..n : order[i] \in kept})
           = SelectSeq(order, LAMBDA k : k \in kept)

MCSymmetry == Permutations({m1, m2})
=============================================================================
