----------------------------- MODULE MCTickets -----------------------------
(* Instances of Tickets for TLC.  Ids, keys, clients and requests carry no  *)
(* order and no meaning of their own, so any of them may be swapped.        *)
EXTENDS Tickets, TLC

Symmetry == Permutations(Ids) \cup Permutations(Keys)
                \cup Permutations(Clients) \cup Permutations(Requests)
=============================================================================
