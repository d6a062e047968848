------------------------- MODULE MCPostgresqlServer -------------------------
(***************************************************************************)
(* Instances of PostgresqlServer for TLC.                                  *)
(***************************************************************************)
EXTENDS PostgresqlServer

Helm == "helmbitnami"
Rds  == "awsrds"

ServerSpec(v, b, s, ok) == [ver |-> v, backend |-> b, secret |-> s, validOn |-> ok]

OneBackend  == {Helm}
TwoBackends == {Helm, Rds}
OneSecret   == {"a"}

\* Two contents of the spec; with a third one the backend refuses; with a choice between
\* two backends, and one they refuse.
TwoSpecs     == {ServerSpec(1, Unset, "a", {Helm}), ServerSpec(2, Unset, "a", {Helm})}
InvalidSpec  == TwoSpecs \cup {ServerSpec(3, Unset, "a", {})}
MoveBackend  == {ServerSpec(1, Unset, "a", TwoBackends), ServerSpec(2, Rds, "a", TwoBackends),
                 ServerSpec(3, Unset, "a", {})}

ResetOnly == {ResetPassword}

Only(b) == [k \in Kinds |-> IF k \in DOMAIN b THEN b[k] ELSE 0]

\* Two requests to reset, two edits and a change of the default, among
\* failures, a deletion and a re-creation.
BudgetReset == Only([create |-> 2, edit |-> 2, label |-> 2, delete |-> 1, abort |-> 1,
                     restart |-> 1])
\* No labels: the spec changes while attempts fail and errors are swallowed.
BudgetLiveness == Only([create |-> 2, edit |-> 2, remove |-> 1, delete |-> 1, abort |-> 1,
                        restart |-> 1, fault |-> 1])
\* A small one for the counterexample.
BudgetOnce == Only([create |-> 1, edit |-> 1, label |-> 1, abort |-> 1])
=============================================================================
