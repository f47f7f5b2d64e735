---------------------------- MODULE MCSiteCache ----------------------------
(* The site cache for model checking: four artifacts compete for two slots. *)
EXTENDS SiteCache, TLC

Symmetry == Permutations(Artifacts) \cup Permutations(Readers)
=============================================================================
