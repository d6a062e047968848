--------------------------- MODULE MCHelmRelease ---------------------------
(***************************************************************************)
(* An instance of HelmRelease for TLC.                                     *)
(***************************************************************************)
EXTENDS HelmRelease

\* Edits, failures, a reset, deletions and re-creations.
BudgetUpdate == [create |-> 3, edit |-> 1, reset |-> 1, delete |-> 2, abort |-> 1,
                 timeout |-> 1, fault |-> 1, upgrade |-> 0]
=============================================================================
