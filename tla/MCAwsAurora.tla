---------------------------- MODULE MCAwsAurora ----------------------------
(***************************************************************************)
(* An instance of AwsAurora for TLC.                                       *)
(***************************************************************************)
EXTENDS AwsAurora

AllSpecs == [version : Versions, class : Classes]

Only(b) == [k \in Kinds |-> IF k \in DOMAIN b THEN b[k] ELSE 0]

\* A reset and an edit among failures, time-outs, a deletion and a re-creation.
BudgetUpdate == Only([create |-> 2, edit |-> 1, reset |-> 1, delete |-> 1, abort |-> 1,
                      timeout |-> 1, fault |-> 1, upgrade |-> 1])
=============================================================================
