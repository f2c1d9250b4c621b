--------------------------- MODULE MCGeminiChecks ---------------------------
(* Reviews for TLC: two batches of one check.                                *)
EXTENDS GeminiChecks, TLC

OneCheck == [j \in Job |-> "ethos"]

Symmetry == Permutations(Run) \cup Permutations(Job)
=============================================================================
