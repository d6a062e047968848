------------------------- MODULE ServerAndDatabase -------------------------
(***************************************************************************)
(* One operator process that handles a PostgreSQLDatabase object and, at   *)
(* the same time, the PostgreSQLServer object it refers to.  Where         *)
(* PostgresqlDatabase has an environment that starts, rotates and drops    *)
(* servers, this module has the server handlers themselves; what belongs   *)
(* to them has the prefix s_ or S.                                         *)
(***************************************************************************)
EXTENDS PostgresqlDatabase

CONSTANTS
    Backends, BackendNames, Defaults,              \* as in PostgresqlServer
    SSecretNames, SSpecs, SLabels, SFaults, SBudget \* the same, for the server object

VARIABLES
    s_object, s_secrets, s_tmp_secret, live, applied, s_handler, default_backend,
    s_generated, s_budget, s_compromised \* as in PostgresqlServer

S == INSTANCE PostgresqlServer WITH
    SecretNames <- SSecretNames, Specs <- SSpecs, Labels <- SLabels, Faults <- SFaults,
    Budget <- SBudget,
    object <- s_object, secrets <- s_secrets, tmp_secret <- s_tmp_secret,
    handler <- s_handler, generated <- s_generated, budget <- s_budget,
    compromised <- s_compromised

s_vars == <<s_object, s_secrets, s_tmp_secret, live, applied, s_handler, default_backend,
            s_generated, s_budget, s_compromised>>
all    == <<vars, s_vars>>

\* One server, one backend, and what PostgresqlServer assumes of its constants.
ASSUME CompositionAssumption ==
    /\ \E s \in Servers : Servers = {s}
    /\ \E b \in Backends : Backends = {b}
    /\ SSpecs \subseteq [ver : Nat \ {0}, backend : BackendNames \cup {Unset},
                         secret : SSecretNames, validOn : SUBSET Backends]
    /\ Backends \subseteq BackendNames /\ Unset \notin BackendNames
    /\ Defaults \subseteq Backends
    /\ NoLabel \notin SLabels
    /\ SFaults \subseteq {"get_secret", "delete_secret", "server_exists"}
    /\ SBudget \in [S!Kinds -> Nat]

TheBackend == CHOOSE b \in Backends : TRUE

\* The server as the handlers of the database see it (_wait_for_server).
View ==
    [s \in Servers |->
        [object   |-> s_object.exists,
         up       |-> live[TheBackend] # 0,
         password |-> live[TheBackend],
         secret   |-> IF s_object.exists THEN s_secrets[s_object.spec.secret] ELSE 0]]
-----------------------------------------------------------------------------
BothInit == Init /\ S!Init

\* What runs in a server is lost with it.
WhileUp(inside, nothing) == [s \in Servers |-> IF server'[s].up THEN inside[s] ELSE nothing]

FollowServer ==
    /\ server' = View'
    /\ database' = WhileUp(database, "absent")
    /\ role' = WhileUp(role, 0) /\ grants' = WhileUp(grants, {})
    /\ UNCHANGED <<object, kubernetes, handler, generated, budget, compromised>>

\* The handlers of the server break off in the runs of PostgresqlServer; here that would
\* only make the database wait longer.
ServerHandlers == S!Operator /\ FollowServer
ServerUsers    == S!User /\ FollowServer

DatabaseHandlers == (Operator \/ Abort) /\ UNCHANGED s_vars
DatabaseUsers    == User /\ UNCHANGED s_vars

BothNext == ServerHandlers \/ ServerUsers \/ DatabaseHandlers \/ DatabaseUsers

BothSpec == BothInit /\ [][BothNext]_all

\* kopf gets round to both objects.
FairBothSpec ==
    BothSpec /\ WF_all(ServerHandlers) /\ WF_all(Operator /\ UNCHANGED s_vars)
-----------------------------------------------------------------------------
(* Properties *)

\* A finished database is usable and closed to others, although its server may have been
\* reset or deleted between any two calls of the handler, which reads the admin secret
\* once (postgresql_database.py:115-127).
DatabaseIsUsable == FinishedIsUsable

\* When the database object is gone its database is gone, although its server may be
\* reset, being deleted or gone while that happens (postgresql_database.py:86-98).
NothingInside == NoDatabaseLeft

\* A database converges with its server, which is not assumed to be ready: it has to be
\* brought there by its own handlers.  The deletion of a database comes to an end,
\* whatever happens to its server meanwhile.
DatabaseConverges ==
    /\ object.exists ~> \/ Settled \/ object.deleting \/ ~object.exists
                        \/ ~s_object.exists \/ s_object.deleting
    /\ object.deleting ~> ~object.exists
=============================================================================
