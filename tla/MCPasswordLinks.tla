-------------------------- MODULE MCPasswordLinks --------------------------
(* Instances of PasswordLinks for TLC.  Usernames, tokens and requests carry *)
(* no order and no meaning of their own, but for the names that are taken.    *)
EXTENDS PasswordLinks, TLC

Symmetry == Permutations(Names \ Taken) \cup Permutations(Tokens) \cup Permutations(Requests)
=============================================================================
