------------------------------ MODULE MCAwsRds ------------------------------
(***************************************************************************)
(* An instance of AwsRds for TLC.                                          *)
(***************************************************************************)
EXTENDS AwsRds

AllSpecs == [version : Versions, class : Classes]

\* An edit and a reset among failures, a time-out, an upgrade, deletions and a re-creation.
BudgetUpdate == [create |-> 2, edit |-> 1, reset |-> 1, delete |-> 2, abort |-> 1,
                 timeout |-> 1, fault |-> 1, upgrade |-> 1]
=============================================================================
