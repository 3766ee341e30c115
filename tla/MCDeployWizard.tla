---------------------------- MODULE MCDeployWizard ----------------------------
(***************************************************************************)
(* The deploy wizard for TLC, on its own.                                  *)
(***************************************************************************)
EXTENDS DeployWizard

Symmetry == Permutations(Requests)
=============================================================================
