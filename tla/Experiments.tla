----------------------------- MODULE Experiments -----------------------------
(***************************************************************************)
(* Which variant of a message a sender gets (experiment-loader.ts and      *)
(* experiment-service.ts).  A manifest is a sequence of variants, records  *)
(* with their weight and whether they come with a block text and a medium. *)
(***************************************************************************)
EXTENDS Naturals, Sequences, SequencesExt

\* The prefix of the hashed key that is common to the tiers.
MODERATION_FLOW == "moderation_flow_2026_05"

\* loadExperimentFromDir keeps the variants that have a weight.
Enabled(manifest) == SelectSeq(manifest, LAMBDA v : v.weight > 0)

\* validateEnabledVariants: there is one, and all or none have a block text.
\* An experiment that does not load keeps the program from starting.
Loads(manifest) ==
  LET vs == Enabled(manifest)
  IN  /\ vs # <<>>
      /\ \A i, j \in DOMAIN vs : vs[i].blockFile = vs[j].blockFile

Weights(manifest) ==
  LET vs == Enabled(manifest) IN [i \in DOMAIN vs |-> vs[i].weight]

WeightUpTo(weights, i) == FoldLeft(LAMBDA sum, w : sum + w, 0, SubSeq(weights, 1, i))

\* pickWeightedForBucket: the place of the first variant whose share ends
\* after the bucket, or of the first of all.
Pick(weights, bucket) ==
  LET after == {i \in DOMAIN weights : bucket < WeightUpTo(weights, i)}
  IN  IF after = {} THEN 1 ELSE CHOOSE i \in after : \A j \in after : i <= j

\* hashToBucket and pickWeightedForBucket
PickFor(number, weights) ==
  Pick(weights, number % WeightUpTo(weights, Len(weights)))

\* MUTANT of AssignTier: assign, which hashes under the experiment's own id.
AssignTier_OwnKey(hash, experiment, manifest) ==
  PickFor(hash[experiment], Weights(manifest))

\* assignModerationTier: the hash of the sender under the tiers' prefix.
AssignTier(hash, experiment, manifest) ==
  PickFor(hash[MODERATION_FLOW], Weights(manifest))
=============================================================================
