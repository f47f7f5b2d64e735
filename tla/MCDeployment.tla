---------------------------- MODULE MCDeployment ----------------------------
(* The deployment lifecycle, its invariant and its refinement, for TLC. *)
EXTENDS PublicationRefinement, DeploymentInvariant
=============================================================================
