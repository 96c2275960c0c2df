-------------------------- MODULE MCBlockOnboarding --------------------------
(* One owner with three blocks and up to three phone submissions.           *)
EXTENDS BlockOnboarding, TLC

CONSTANTS b1, b2, b3, p1, p2, p3

MCBlocks == {b1, b2, b3}
MCPhones == {p1, p2, p3}
MCSymmetry == Permutations(MCBlocks) \cup Permutations(MCPhones)
=============================================================================
