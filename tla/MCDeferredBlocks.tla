--------------------------- MODULE MCDeferredBlocks ---------------------------
(* Two senders: one with two blocks, one with one; three phone submissions.  *)
EXTENDS DeferredBlocks, TLC

CONSTANTS b1, b2, b3, p1, p2, p3, s1, s2

MCBlocks == {b1, b2, b3}
MCPhones == {p1, p2, p3}
MCSenders == {s1, s2}
MCSenderOf == (b1 :> s1) @@ (b2 :> s1) @@ (b3 :> s2)
MCSymmetry == {q @@ r : q \in Permutations({b1, b2}), r \in Permutations(MCPhones)}
=============================================================================
