------------------------ MODULE MCServerAndDatabase ------------------------
(***************************************************************************)
(* An instance of ServerAndDatabase for TLC.                               *)
(***************************************************************************)
EXTENDS ServerAndDatabase

Helm       == "helmbitnami"
OneBackend == {Helm}
OneServer  == {"server"}
OneSecret  == {"a"}
OneSpec    == {[server |-> "server", secret |-> "a"]}
SOneSpec   == {[ver |-> 1, backend |-> Unset, secret |-> "a", validOn |-> {Helm}]}
ResetOnly  == {ResetPassword}

\* S!Kinds, by its elements.
ServerKinds == Kinds \ {"rotate", "drop_server"}

\* The server is reset, deleted and created again while the database is created and
\* deleted, which breaks off at any point.
ServerBudget   == [k \in ServerKinds |-> CASE k = "create" -> 2
                                           [] k \in {"label", "delete"} -> 1
                                           [] OTHER -> 0]
DatabaseBudget == [k \in Kinds |-> IF k \in {"create", "delete", "abort"} THEN 1 ELSE 0]
=============================================================================
