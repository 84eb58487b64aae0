------------------------- MODULE EnrichmentGroupsMC -------------------------
(* Small instances of EnrichmentGroups, and the mutants of its definitions. *)
EXTENDS EnrichmentGroups, TLC

CONSTANTS g1, g2, w1, w2, w3

Alike == Permutations(Runs) \cup Permutations(Groups)
=============================================================================
