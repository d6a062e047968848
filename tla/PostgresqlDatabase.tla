------------------------- MODULE PostgresqlDatabase -------------------------
(***************************************************************************)
(* handlers/postgresql_database.py: the handlers of one PostgreSQLDatabase *)
(* object, with backends/pgclient.py and the database methods of the       *)
(* backends.  As in PostgresqlServer every call is an action.              *)
(*                                                                         *)
(* The servers are the environment.  They take the steps the credential    *)
(* contract allows (CredentialContract, which PostgresqlServer implements):*)
(* start, withdraw the admin secret, change the admin password, publish,   *)
(* go away.                                                                *)
(***************************************************************************)
EXTENDS Integers, Kopf, ReconcileHelpers

CONSTANTS
    Backend,     \* "helm", "aws" or "azure": how the backend reaches a database
    GrantsIn,    \* "own" or "admin": the database whose schema public the role is
                 \* granted, the one create_or_update_user connects to
    DeleteFake,  \* the option database_delete_fake of the azure backends
    Servers,     \* names of server objects
    SecretNames, \* values of spec.credentialsSecret
    Specs,       \* specs a user may write
    Labels,      \* values of the label operator/action a user may set
    Faults,      \* calls whose failure the code swallows, and that may fail
    Budget       \* how often each outside event may happen

Unset == "unset"

Kinds == {"create", "edit", "label", "remove", "delete", "abort", "restart", "fault",
          "rotate", "drop_server"}

ASSUME DatabaseAssumption ==
    /\ Backend \in {"helm", "aws", "azure"}
    /\ GrantsIn \in {"own", "admin"}
    /\ DeleteFake \in BOOLEAN
    /\ Specs \subseteq [server : Servers, secret : SecretNames]
    /\ NoLabel \notin Labels
    /\ Faults \subseteq {"get_secret", "delete_secret", "get_object", "server_exists"}
    /\ Budget \in [Kinds -> Nat]

VARIABLES
    object,      \* the custom object in kubernetes, with kopf's annotations
    secrets,     \* credentials secrets in the object's namespace
    tmp_secret,  \* the secret _tmp_secret(namespace, name) in the operator's namespace
    server,      \* the servers: custom object, server in the backend, its password
                 \* and the published admin secret
    database,    \* per server: the database dbname
    role,        \* per server: password of the role dbname, 0 if there is none
    grants,      \* per server: where the role holds privileges, see Privileges
    handler,     \* the handler invocation in progress, its local variables
    generated,   \* passwords generated so far
    budget,      \* what is left of Budget
    compromised  \* history: the last request to reset the password

vars == <<object, secrets, tmp_secret, server, database, role, grants, handler, generated,
          budget, compromised>>

kubernetes == <<secrets, tmp_secret>>
postgres   == <<database, role, grants>>
user       == <<server, budget, compromised>>
-----------------------------------------------------------------------------
NoSpec    == [server |-> Unset, secret |-> Unset]
NoObject  == [exists |-> FALSE, deleting |-> FALSE, spec |-> NoSpec, label |-> NoLabel,
              deployment |-> Unset, handled |-> {}, unfinished |-> FALSE, resume |-> FALSE]
Idle      == [pc |-> "idle", spec |-> NoSpec, label |-> NoLabel, admin |-> 0, found |-> FALSE,
              credentials |-> FALSE, password |-> 0, newly |-> FALSE]
NoServer  == [object |-> FALSE, up |-> FALSE, password |-> 0, secret |-> 0]
NoRequest == [password |-> 0, leftover |-> 0, first |-> FALSE]

Init ==
    /\ object = NoObject
    /\ secrets = [n \in SecretNames |-> 0]
    /\ tmp_secret = 0
    /\ server = [s \in Servers |-> NoServer]
    /\ database = [s \in Servers |-> "absent"]
    /\ role = [s \in Servers |-> 0]
    /\ grants = [s \in Servers |-> {}]
    /\ handler = Idle
    /\ generated = 0
    /\ budget = Budget
    /\ compromised = NoRequest

At(pc)      == handler.pc = pc
Goto(pc)    == handler' = [handler EXCEPT !.pc = pc]
Spend(kind) == budget[kind] > 0 /\ budget' = [budget EXCEPT ![kind] = @ - 1]
MayFail(call) == call \in Faults /\ Spend("fault")

\* The handler goes on from one place to the next; Quiet when nothing else changes.
Step(from, next) == At(from) /\ Goto(next)
Quiet(from, next) == Step(from, next) /\ UNCHANGED <<object, kubernetes, postgres, generated, user>>

\* The server the attempt works on.
Srv == handler.spec.server

\* PostgresSQLClient: a connection with the admin credentials read earlier.
Connected == server[Srv].up /\ handler.admin = server[Srv].password

\* k8s.delete_secret swallows every error: the secret may stay.
delete_secret(n) ==
    \/ secrets' = [secrets EXCEPT ![n] = 0] /\ UNCHANGED budget
    \/ MayFail("delete_secret") /\ UNCHANGED secrets

\* k8s.create_or_update_secret. When its look at the secret fails it creates one that
\* exists: an exception, see Abort.
create_or_update_secret(n) == secrets' = [secrets EXCEPT ![n] = handler.password]

\* create_or_update_database and delete_database: the azure backends ask the cloud,
\* the others connect. An aurora server has to be available.
Reachable == server[Srv].up /\ (Backend = "azure" \/ Connected)

\* The attempt ends with an exception or a TemporaryError and nothing else changes.
Fail == handler' = Idle /\ UNCHANGED <<object, kubernetes, postgres, generated, user>>
-----------------------------------------------------------------------------
(* postgresql_database_manage *)

\* The diff ends with the removal of the control label: return at once.
SkipControlLabel ==
    /\ At("idle")
    /\ NeedsHandling(object)
    /\ Ignores(Diff(object), TRUE)
    /\ object' = Handled(object, Essence(object))
    /\ UNCHANGED <<kubernetes, postgres, handler, generated, user>>

BeginManage ==
    /\ At("idle")
    /\ NeedsHandling(object)
    /\ Ignores(Diff(object), FALSE)
    /\ handler' = [Idle EXCEPT !.pc = "wait", !.spec = object.spec, !.label = object.label]
    /\ object' = [object EXCEPT !.unfinished = TRUE]
    /\ UNCHANGED <<kubernetes, postgres, generated, user>>

ServerReady(s) == server[s].object /\ server[s].up /\ server[s].secret # 0

\* _wait_for_server: the server object, the server, and its admin secret.
WaitForServer ==
    /\ At("wait")
    /\ ServerReady(Srv)
    /\ handler' = [handler EXCEPT !.pc = "read", !.admin = server[Srv].secret]
    /\ UNCHANGED <<object, kubernetes, postgres, generated, user>>

\* One of them is missing, or reading it fails: a TemporaryError.
ServerNotReady ==
    /\ At("wait")
    /\ \/ ~ServerReady(Srv) /\ UNCHANGED budget
       \/ MayFail("get_object") \/ MayFail("server_exists") \/ MayFail("get_secret")
    /\ handler' = Idle
    /\ UNCHANGED <<object, kubernetes, postgres, generated, server, compromised>>

\* get_secret answers None for a missing secret and for every error.
ReadCredentials ==
    /\ At("read")
    /\ \/ /\ handler' = [handler EXCEPT !.pc = "password",
                                        !.credentials = secrets[handler.spec.secret] # 0,
                                        !.password = secrets[handler.spec.secret]]
          /\ UNCHANGED budget
       \/ MayFail("get_secret") /\ Goto("password")
    /\ UNCHANGED <<object, kubernetes, postgres, generated, server, compromised>>

\* determine_resource_password finds the password in one of the two secrets.
UseStoredPassword ==
    /\ At("password")
    /\ StoredPassword(handler.password, tmp_secret) # 0
    /\ handler' = [handler EXCEPT !.pc = "working",
                                  !.password = StoredPassword(@, tmp_secret)]
    /\ UNCHANGED <<object, kubernetes, postgres, generated, user>>

\* determine_resource_password makes a new one and keeps it in the temporary secret.
GeneratePassword ==
    /\ At("password")
    /\ StoredPassword(handler.password, tmp_secret) = 0
    /\ generated' = generated + 1
    /\ tmp_secret' = generated'
    /\ handler' = [handler EXCEPT !.pc = "working", !.password = generated']
    /\ UNCHANGED <<object, secrets, postgres, user>>

StatusWorking ==
    /\ Step("working", "create_database")
    /\ object' = [object EXCEPT !.deployment = "working"]
    /\ UNCHANGED <<kubernetes, postgres, generated, user>>

\* Mistake: nothing more to do for a database that exists.
CreateDatabase_ReturnsEarly ==
    /\ At("create_database")
    /\ Reachable
    /\ IF database[Srv] = "absent"
       THEN database' = [database EXCEPT ![Srv] = "open"] /\ Goto("restrict")
       ELSE UNCHANGED database /\ Goto("create_user")
    /\ UNCHANGED <<object, kubernetes, role, grants, generated, user>>

\* create_or_update_database, first half: CREATE DATABASE unless it is there. The
\* azure backends ask the cloud for it, the others connect.
CreateDatabase ==
    /\ Step("create_database", "restrict")
    /\ Reachable
    /\ database' = IF database[Srv] = "absent" THEN [database EXCEPT ![Srv] = "open"]
                   ELSE database
    /\ UNCHANGED <<object, kubernetes, role, grants, generated, user>>

\* Second half: REVOKE ALL PRIVILEGES ... FROM PUBLIC, in the same session; only
\* the azure backends connect here.
CanRestrict == server[Srv].up /\ database[Srv] # "absent" /\ (Backend = "azure" => Connected)

RestrictDatabase ==
    /\ Step("restrict", "create_user")
    /\ CanRestrict
    /\ database' = [database EXCEPT ![Srv] = "restricted"]
    /\ UNCHANGED <<object, kubernetes, role, grants, generated, user>>

\* Mistake: CREATE ROLE without a look whether the role exists.
CreateUser_NotIdempotent ==
    /\ At("create_user")
    /\ Connected
    /\ database[Srv] # "absent"
    /\ role[Srv] = 0
    /\ role' = [role EXCEPT ![Srv] = handler.password]
    /\ handler' = [handler EXCEPT !.pc = "grant_database", !.newly = TRUE]
    /\ UNCHANGED <<object, kubernetes, database, grants, generated, user>>

\* Mistake: a role that exists is taken to have its privileges.
CreateUser_GrantsNewOnly ==
    /\ At("create_user")
    /\ Connected
    /\ database[Srv] # "absent"
    /\ role' = IF role[Srv] = 0 THEN [role EXCEPT ![Srv] = handler.password] ELSE role
    /\ handler' = [handler EXCEPT !.pc = IF role[Srv] = 0 THEN "grant_database" ELSE "label",
                                  !.newly = (role[Srv] = 0)]
    /\ UNCHANGED <<object, kubernetes, database, grants, generated, user>>

\* create_or_update_user: CREATE ROLE unless it is there; an existing role keeps
\* its password.
CreateUser ==
    /\ At("create_user")
    /\ Connected
    /\ database[Srv] # "absent"
    /\ role' = IF role[Srv] = 0 THEN [role EXCEPT ![Srv] = handler.password] ELSE role
    /\ handler' = [handler EXCEPT !.pc = "grant_database", !.newly = (role[Srv] = 0)]
    /\ UNCHANGED <<object, kubernetes, database, grants, generated, user>>

\* Then, in the same session, GRANT on the database and GRANT on a schema public. Each
\* statement is committed at once.
CanGrant == server[Srv].up /\ database[Srv] # "absent" /\ role[Srv] # 0

Grant(where) ==
    /\ CanGrant
    /\ grants' = [grants EXCEPT ![Srv] = @ \cup {where}]
    /\ UNCHANGED <<object, kubernetes, database, role, generated, user>>

GrantDatabase == Step("grant_database", "grant_schema") /\ Grant("database")
GrantSchema   == Step("grant_schema", "label") /\ Grant(GrantsIn)

\* process_action_label: no control label.
NoCommand == Quiet("label", "recover") /\ handler.label = NoLabel

UnknownCommand == Quiet("label", "unlabel") /\ handler.label \notin {NoLabel, ResetPassword}

\* Mistake: the published secret stays until the new one is written.
ResetWithdraw_KeepsSecret ==
    /\ At("label")
    /\ handler.label = ResetPassword
    /\ handler.credentials
    /\ generated' = generated + 1
    /\ handler' = [handler EXCEPT !.pc = "stash", !.password = generated']
    /\ UNCHANGED <<object, kubernetes, postgres, user>>

\* Mistake: no `nonlocal password', the handler goes on with the old one.
ResetWithdraw_SamePassword ==
    /\ Step("label", "stash")
    /\ handler.label = ResetPassword
    /\ handler.credentials
    /\ generated' = generated + 1
    /\ delete_secret(handler.spec.secret)
    /\ UNCHANGED <<object, tmp_secret, postgres, server, compromised>>

\* action_reset_password: a new password, and the published one is withdrawn ...
ResetWithdraw ==
    /\ At("label")
    /\ handler.label = ResetPassword
    /\ handler.credentials
    /\ generated' = generated + 1
    /\ handler' = [handler EXCEPT !.pc = "stash", !.password = generated']
    /\ delete_secret(handler.spec.secret)
    /\ UNCHANGED <<object, tmp_secret, postgres, server, compromised>>

\* ... and kept in the temporary secret, which must not exist: create_secret.
ResetStash ==
    /\ At("stash")
    /\ tmp_secret = 0
    /\ tmp_secret' = handler.password
    /\ handler' = [handler EXCEPT !.pc = "update_password", !.credentials = FALSE]
    /\ UNCHANGED <<object, secrets, postgres, generated, user>>

StashConflict ==
    /\ At("stash")
    /\ tmp_secret # 0
    /\ Fail

\* Without credentials the password at hand is set again.
ResetSamePassword ==
    /\ Quiet("label", "update_password")
    /\ handler.label = ResetPassword
    /\ ~handler.credentials

\* update_user_password: ALTER USER, from a reset or to recover the credentials.
AlterUser(next) ==
    /\ Connected
    /\ role[Srv] # 0
    /\ role' = [role EXCEPT ![Srv] = handler.password]
    /\ Goto(next)
    /\ UNCHANGED <<object, kubernetes, database, grants, generated, user>>

UpdatePassword == At("update_password") /\ AlterUser("unlabel")

\* process_action_label takes the label off, whatever its value is by now.
Unlabel ==
    /\ Step("unlabel", "recover")
    /\ object' = [object EXCEPT !.label = NoLabel]
    /\ UNCHANGED <<kubernetes, postgres, generated, user>>

MustRecover == ~handler.newly /\ ~handler.credentials

\* "Secret with credentials was deleted, so need to reset the password".
RecoverPassword == At("recover") /\ MustRecover /\ AlterUser("publish")

\* Mistake: the role of an earlier attempt is taken to have today's password.
NothingToRecover_Ever == Quiet("recover", "publish")

NothingToRecover == Quiet("recover", "publish") /\ ~MustRecover

Publish ==
    /\ Step("publish", "drop")
    /\ IF handler.credentials /\ ~handler.newly THEN UNCHANGED secrets
       ELSE create_or_update_secret(handler.spec.secret)
    /\ UNCHANGED <<object, tmp_secret, postgres, generated, user>>

DropTmp ==
    /\ Step("drop", "finish")
    /\ \/ tmp_secret' = 0 /\ UNCHANGED budget
       \/ MayFail("delete_secret") /\ UNCHANGED tmp_secret
    /\ UNCHANGED <<object, secrets, postgres, generated, server, compromised>>

StatusFinished ==
    /\ Step("finish", "return")
    /\ object' = [object EXCEPT !.deployment = "finished"]
    /\ UNCHANGED <<kubernetes, postgres, generated, user>>

\* The handler returns and kopf records the success.
Return ==
    /\ At("return")
    /\ object' = Handled(object, Essence(handler))
    /\ handler' = Idle
    /\ UNCHANGED <<kubernetes, postgres, generated, user>>
-----------------------------------------------------------------------------
(* postgresql_database_delete *)

BeginDelete ==
    /\ At("idle")
    /\ object.exists
    /\ object.deleting
    /\ handler' = [Idle EXCEPT !.pc = "lookup", !.spec = object.spec, !.label = object.label]
    /\ UNCHANGED <<object, kubernetes, postgres, generated, user>>

\* The server, and the admin credentials if its object and its secret can be read.
LookUpServer ==
    /\ At("lookup")
    /\ \E found \in BOOLEAN, admin \in {0, server[Srv].secret} :
          /\ handler' = [handler EXCEPT !.pc = "exists", !.found = found, !.admin = admin]
          /\ \/ /\ found = server[Srv].up
                /\ admin = IF server[Srv].object THEN server[Srv].secret ELSE 0
                /\ UNCHANGED budget
             \/ ~found /\ MayFail("server_exists")
             \/ /\ found = server[Srv].up /\ admin = 0
                /\ MayFail("get_object") \/ MayFail("get_secret")
    /\ UNCHANGED <<object, kubernetes, postgres, generated, server, compromised>>

\* Mistake: without credentials every backend answers that there is no database.
DatabaseExists_NoWithoutAdmin(answer) ==
    IF ~handler.found \/ handler.admin = 0 THEN ~answer
    ELSE IF Backend = "azure" THEN answer = (database[Srv] # "absent")
    ELSE Connected /\ answer = (database[Srv] # "absent")

\* database_exists: azure asks the cloud (nothing found on a server that is gone),
\* aws answers None without credentials, everything else needs a connection.
DatabaseExists(answer) ==
    IF ~handler.found THEN ~answer
    ELSE IF Backend = "azure" THEN answer = (database[Srv] # "absent")
    ELSE IF Backend = "aws" /\ handler.admin = 0 THEN ~answer
    ELSE Connected /\ answer = (database[Srv] # "absent")

FindDatabase == Quiet("exists", "delete_database") /\ DatabaseExists(TRUE)

\* Mistake: a database that is gone already is an error.
NoDatabaseToDelete_Raises == Quiet("exists", "delete_secret") /\ ~handler.found

\* "Database does not exist. Not doing anything"
NoDatabaseToDelete == Quiet("exists", "delete_secret") /\ DatabaseExists(FALSE)

\* DROP DATABASE takes the privileges on the database and in it along.
DeleteDatabase ==
    /\ Step("delete_database", "delete_user")
    /\ Reachable
    /\ IF DeleteFake THEN UNCHANGED <<database, grants>>
       ELSE /\ database' = [database EXCEPT ![Srv] = "absent"]
            /\ grants' = [grants EXCEPT ![Srv] = @ \ {"database", "own"}]
    /\ UNCHANGED <<object, kubernetes, role, generated, user>>

\* DROP ROLE is refused while the role holds privileges in any database.
DeleteUser ==
    /\ Step("delete_user", "delete_secret")
    /\ Connected
    /\ role[Srv] # 0 => grants[Srv] = {}
    /\ role' = [role EXCEPT ![Srv] = 0]
    /\ UNCHANGED <<object, kubernetes, database, grants, generated, user>>

DeleteCredentials ==
    /\ Step("delete_secret", "release")
    /\ delete_secret(handler.spec.secret)
    /\ UNCHANGED <<object, tmp_secret, postgres, generated, server, compromised>>

\* kopf takes its finalizer off and the object is gone.
Release ==
    /\ At("release")
    /\ object' = NoObject
    /\ handler' = Idle
    /\ UNCHANGED <<kubernetes, postgres, generated, user>>

\* A call to the server raises: it is gone, the admin password read before is not
\* the one in force any more, or what the statement needs is not there.
ServerRefuses ==
    /\ \/ /\ At("create_database") \/ At("delete_database")
          /\ ~Reachable
       \/ At("restrict") /\ ~CanRestrict
       \/ /\ At("create_user")
          /\ ~Connected \/ database[Srv] = "absent"
       \/ /\ At("grant_database") \/ At("grant_schema")
          /\ ~CanGrant
       \/ /\ At("update_password") \/ (At("recover") /\ MustRecover)
          /\ ~Connected \/ role[Srv] = 0
       \/ /\ At("exists")
          /\ ~DatabaseExists(TRUE) /\ ~DatabaseExists(FALSE)
       \/ /\ At("delete_user")
          /\ ~Connected \/ (role[Srv] # 0 /\ grants[Srv] # {})
    /\ Fail
-----------------------------------------------------------------------------
(* An exception from any other call, a crash of the operator *)

Abort ==
    /\ ~At("idle")
    /\ Spend("abort")
    /\ handler' = Idle
    /\ UNCHANGED <<object, kubernetes, postgres, generated, server, compromised>>

Restart ==
    /\ Spend("restart")
    /\ handler' = Idle
    /\ object' = Resumed(object)
    /\ UNCHANGED <<kubernetes, postgres, generated, server, compromised>>
-----------------------------------------------------------------------------
(* The servers *)

\* A server is created for its object, with a new admin password.
CreateServer(s) ==
    /\ ~server[s].object
    /\ generated' = generated + 1
    /\ server' = [server EXCEPT ![s] = [object |-> TRUE, up |-> TRUE,
                                        password |-> generated', secret |-> 0]]
    /\ UNCHANGED <<object, kubernetes, postgres, handler, budget, compromised>>

PublishAdmin(s) ==
    /\ server[s].up
    /\ server[s].secret = 0
    /\ server' = [server EXCEPT ![s].secret = server[s].password]
    /\ UNCHANGED <<object, kubernetes, postgres, handler, generated, budget, compromised>>

\* The reset of the admin password withdraws the secret first ...
WithdrawAdmin(s) ==
    /\ server[s].secret # 0
    /\ Spend("rotate")
    /\ server' = [server EXCEPT ![s].secret = 0]
    /\ UNCHANGED <<object, kubernetes, postgres, handler, generated, compromised>>

\* ... and changes the password while none is published.
ChangeAdmin(s) ==
    /\ server[s].up
    /\ server[s].secret = 0
    /\ Spend("rotate")
    /\ generated' = generated + 1
    /\ server' = [server EXCEPT ![s].password = generated']
    /\ UNCHANGED <<object, kubernetes, postgres, handler, compromised>>

\* The server is deleted with everything in it, then its secret and its object.
DropServer(s) ==
    /\ server[s].up
    /\ Spend("drop_server")
    /\ server' = [server EXCEPT ![s].up = FALSE, ![s].password = 0]
    /\ database' = [database EXCEPT ![s] = "absent"]
    /\ role' = [role EXCEPT ![s] = 0]
    /\ grants' = [grants EXCEPT ![s] = {}]
    /\ UNCHANGED <<object, kubernetes, handler, generated, compromised>>

ForgetServer(s) ==
    /\ server[s].object
    /\ ~server[s].up
    /\ server' = [server EXCEPT ![s] = NoServer]
    /\ UNCHANGED <<object, kubernetes, postgres, handler, generated, budget, compromised>>
-----------------------------------------------------------------------------
(* The users of the cluster *)

CreateObject(s) ==
    /\ ~object.exists
    /\ Spend("create")
    /\ object' = [NoObject EXCEPT !.exists = TRUE, !.spec = s]
    /\ compromised' = NoRequest
    /\ UNCHANGED <<kubernetes, postgres, handler, generated, server>>

EditSpec(s) ==
    /\ object.exists
    /\ object.spec # s
    /\ Spend("edit")
    /\ object' = [object EXCEPT !.spec = s]
    /\ UNCHANGED <<kubernetes, postgres, handler, generated, server, compromised>>

\* No earlier command is on the object, in a handler, or in what kopf remembers.
NoLabelAtWork ==
    /\ object.label = NoLabel
    /\ handler.label = NoLabel
    /\ \A e \in object.handled : e.label = NoLabel

\* A request to reset the password, or another value of the label.
SetLabel(l) ==
    /\ object.exists
    /\ object.label # l
    /\ Spend("label")
    /\ object' = [object EXCEPT !.label = l]
    /\ compromised' = IF l = ResetPassword
                      THEN [password |-> secrets[object.spec.secret], leftover |-> tmp_secret,
                            first |-> NoLabelAtWork]
                      ELSE NoRequest
    /\ UNCHANGED <<kubernetes, postgres, handler, generated, server>>

RemoveCredentials(n) ==
    /\ secrets[n] # 0
    /\ Spend("remove")
    /\ secrets' = [secrets EXCEPT ![n] = 0]
    /\ UNCHANGED <<object, tmp_secret, postgres, handler, generated, server, compromised>>

DeleteObject ==
    /\ object.exists
    /\ ~object.deleting
    /\ Spend("delete")
    /\ object' = [object EXCEPT !.deleting = TRUE]
    /\ UNCHANGED <<kubernetes, postgres, handler, generated, server, compromised>>
-----------------------------------------------------------------------------
Manage ==
    \/ SkipControlLabel \/ BeginManage \/ WaitForServer \/ ServerNotReady
    \/ ReadCredentials \/ UseStoredPassword \/ GeneratePassword \/ StatusWorking
    \/ CreateDatabase \/ RestrictDatabase \/ CreateUser \/ GrantDatabase \/ GrantSchema
    \/ NoCommand \/ UnknownCommand \/ ResetWithdraw \/ ResetStash \/ StashConflict
    \/ ResetSamePassword \/ UpdatePassword \/ Unlabel
    \/ RecoverPassword \/ NothingToRecover \/ Publish \/ DropTmp \/ StatusFinished \/ Return

Delete ==
    \/ BeginDelete \/ LookUpServer \/ FindDatabase \/ NoDatabaseToDelete
    \/ DeleteDatabase \/ DeleteUser \/ DeleteCredentials \/ Release

Operator == Manage \/ Delete \/ ServerRefuses

ServerStep(s) ==
    \/ CreateServer(s) \/ PublishAdmin(s) \/ WithdrawAdmin(s) \/ ChangeAdmin(s)
    \/ DropServer(s) \/ ForgetServer(s)

User ==
    \/ \E s \in Specs : CreateObject(s) \/ EditSpec(s)
    \/ \E l \in Labels : SetLabel(l)
    \/ \E n \in SecretNames : RemoveCredentials(n)
    \/ DeleteObject

Next == Operator \/ Abort \/ Restart \/ (\E s \in Servers : ServerStep(s)) \/ User

Spec == Init /\ [][Next]_vars

\* kopf gets round to every object and every retry. A server that was created
\* publishes its credentials in the end: PostgresqlServer's liveness.
FairSpec == Spec /\ WF_vars(Operator)
                 /\ \A s \in Servers : WF_vars(CreateServer(s)) /\ WF_vars(PublishAdmin(s))
-----------------------------------------------------------------------------
(* Properties *)

SpecType  == Specs \cup {NoSpec}
LabelType == Labels \cup {NoLabel}
ObjectType ==
    [exists : BOOLEAN, deleting : BOOLEAN, spec : SpecType, label : LabelType,
     deployment : {Unset, "working", "finished"},
     handled : SUBSET [spec : SpecType, label : LabelType],
     unfinished : BOOLEAN, resume : BOOLEAN]
HandlerType ==
    [pc : {"idle", "wait", "read", "password", "working", "create_database", "restrict",
           "create_user", "grant_database", "grant_schema", "label", "stash",
           "update_password", "unlabel", "recover", "publish", "drop", "finish", "return",
           "lookup", "exists", "delete_database", "delete_user", "delete_secret", "release"},
     spec : SpecType, label : LabelType, admin : Nat, found : BOOLEAN,
     credentials : BOOLEAN, password : Nat, newly : BOOLEAN]

\* On the database, on the schema public in it, on the schema public of the admin database.
Privileges == {"database", "own", "admin"}

\* The type invariant of the database module.
TypeOK ==
    /\ object \in ObjectType
    /\ secrets \in [SecretNames -> Nat]
    /\ tmp_secret \in Nat
    /\ server \in [Servers -> [object : BOOLEAN, up : BOOLEAN, password : Nat, secret : Nat]]
    /\ database \in [Servers -> {"absent", "open", "restricted"}]
    /\ role \in [Servers -> Nat]
    /\ grants \in [Servers -> SUBSET Privileges]
    /\ handler \in HandlerType
    /\ generated \in Nat
    /\ budget \in [Kinds -> Nat]
    /\ compromised \in [password : Nat, leftover : Nat, first : BOOLEAN]

Settled == At("idle") /\ object.exists /\ ~object.deleting /\ ~NeedsHandling(object)

\* A client that reads the credentials secret can log in to the database, in the
\* middle of a reset or of a recovery too (README.md:316): a published password is
\* the one of the role on every server that has the role.
PublishedIsLive ==
    \A n \in SecretNames, s \in Servers :
        secrets[n] # 0 => role[s] \in {0, secrets[n]}

\* No user removed a secret and no failure was swallowed so far.
Untouched == budget["remove"] = Budget["remove"] /\ budget["fault"] = Budget["fault"]

\* No edit was lost in the shadow of a label (ServerLostEdit shows how that happens).
NoEditLost == budget["edit"] = Budget["edit"] \/ budget["label"] = Budget["label"]

\* A database that is finished is usable, its role with all its privileges, and closed to
\* everybody else (pgclient.py:33-46, README.md:316), as long as its server lives: also
\* when attempts broke off between any two of the statements.
FinishedIsUsable ==
    Settled /\ object.deployment = "finished" /\ Untouched /\ NoEditLost
    /\ database[object.spec.server] # "absent" =>
        /\ database[object.spec.server] = "restricted"
        /\ secrets[object.spec.secret] # 0
        /\ secrets[object.spec.secret] = role[object.spec.server]
        /\ {"database", GrantsIn} \subseteq grants[object.spec.server]

\* When the object is gone its database is gone (postgresql_database.py:91-94), also
\* when the admin password was rotated while the deletion was at work.
NoDatabaseLeft == \A s \in Servers : database[s] # "absent" => object.exists

ResetDone == Settled /\ object.label = NoLabel /\ compromised.password # 0

OutOfUse(password) == \A s \in Servers : role[s] # password

\* A password whose reset was asked for is out of use once the operator has taken
\* the label off and is done - provided that, at the time of the request, no earlier
\* command was being worked off and the temporary secret did not hold that same
\* password (another one in it makes the attempt fail, and is set by the next).
ResetRotates ==
    ResetDone /\ compromised.first /\ compromised.leftover # compromised.password
        => OutOfUse(compromised.password)

\* The role's credentials keep the contract, step by step.
TheSecret == CHOOSE n \in SecretNames : TRUE
Contract  == INSTANCE CredentialContract WITH
    Places <- Servers, live <- role, published <- secrets[TheSecret]
KeepsContract == Contract!Spec

\* Once the server is ready and stays so, the object is handled in the end, and
\* every deletion comes to an end.
Converges ==
    object.exists ~> \/ Settled \/ object.deleting \/ ~object.exists
                     \/ ~ServerReady(object.spec.server)
DeletionCompletes == object.deleting ~> ~object.exists
=============================================================================
