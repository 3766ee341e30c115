----------------------------- MODULE MCFullTest -----------------------------
(* Instances of FullTest for TLC: two runs carry no order. *)
EXTENDS FullTest, TLC

Symmetry == Permutations(Requests)
=============================================================================
