----------------------------- MODULE FeatureFlow -----------------------------
(***************************************************************************)
(* The rules of src/lib/scope.ts about the status of a feature request:    *)
(* written apart from a print's, of the same shape.                        *)
(***************************************************************************)

FEATURE_FLOW == <<"Requested", "Accepted", "InProgress", "Shipped", "Done">>

FeatureStatuses ==
    {"Requested", "Accepted", "InProgress", "Shipped", "Done", "Declined"}

\* As a function on the statuses that have a next one; the code answers null
\* for the others.
nextFeatureStatus == [Requested |-> "Accepted", Accepted |-> "InProgress",
                      InProgress |-> "Shipped", Shipped |-> "Done"]

\* assertFeatureTransition for the owner; nobody else passes it.
assertFeatureTransition(from, to) ==
    IF to = "Declined" THEN from = "Requested"
    ELSE from \in DOMAIN nextFeatureStatus /\ nextFeatureStatus[from] = to
=============================================================================
