------------------------------ MODULE MCStorage ------------------------------
(* Instances of Storage for TLC. *)
EXTENDS Storage

Symmetry == Permutations(Requests) \cup Permutations(Filed)
               \cup Permutations(Keys \ Filed)
=============================================================================
