----------------------------- MODULE StatusFlow -----------------------------
(***************************************************************************)
(* The pure rules of src/lib/scope.ts about the status of a ticket: the    *)
(* order it moves in, the end states, and what assertTransition lets pass. *)
(***************************************************************************)

\* The order a request moves in, and the state off it.
FLOW == <<"Requested", "Accepted", "Printing", "Delivery", "Done">>

Statuses == {"Requested", "Accepted", "Printing", "Delivery", "Done", "Declined"}

isTerminal(status) == status \in {"Done", "Declined"}

\* nextStatus, as a function on the statuses that have one; the code answers
\* null for the others.
SkippingNext == [Requested |-> "Printing", Accepted |-> "Printing",
                 Printing |-> "Delivery", Delivery |-> "Done"]

nextStatus == [Requested |-> "Accepted", Accepted |-> "Printing",
               Printing |-> "Delivery", Delivery |-> "Done"]

\* assertTransition for the printer owner; nobody else passes it.
assertTransition(from, to) ==
    IF to = "Declined" THEN from = "Requested"
    ELSE from \in DOMAIN nextStatus /\ nextStatus[from] = to
=============================================================================
