------------------------------- MODULE Tables -------------------------------
(***************************************************************************)
(* A table of the database, or a set of handlers in flight: a function     *)
(* from the keys that exist to their rows.                                 *)
(***************************************************************************)
EXTENDS Functions

None == "none"                        \* null, in whatever column

Nothing == [x \in {} |-> None]        \* an empty table

Drop(f, x) == Restrict(f, DOMAIN f \ {x})

Put(f, x, v) == [y \in DOMAIN f \cup {x} |-> IF y = x THEN v ELSE f[y]]
=============================================================================
