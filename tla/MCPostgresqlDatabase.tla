------------------------ MODULE MCPostgresqlDatabase ------------------------
(***************************************************************************)
(* Instances of PostgresqlDatabase for TLC.                                *)
(***************************************************************************)
EXTENDS PostgresqlDatabase

OneServer  == {"s1"}
OneSecret  == {"a"}
TwoSecrets == {"a", "b"}
OneSpec    == {[server |-> "s1", secret |-> "a"]}
TwoNames   == {[server |-> "s1", secret |-> n] : n \in TwoSecrets}

BothLabels == {ResetPassword, "restart"}
ResetOnly  == {ResetPassword}

Only(b) == [k \in Kinds |-> IF k \in DOMAIN b THEN b[k] ELSE 0]

\* Two requests to reset, among failures, a deletion and a rotation of the admin password.
BudgetReset == Only([create |-> 2, label |-> 2, remove |-> 1, delete |-> 1, abort |-> 2,
                     rotate |-> 2])
\* Everything once, with swallowed errors and another name for the secret.
BudgetLiveness == Only([create |-> 1, edit |-> 1, label |-> 1, delete |-> 1, abort |-> 1,
                        restart |-> 1, fault |-> 1, drop_server |-> 1])
=============================================================================
