-------------------------- MODULE PostgresqlServer --------------------------
(***************************************************************************)
(* handlers/postgresql_server.py: the handlers of one PostgreSQLServer     *)
(* object, the secrets they write and the server they drive through a      *)
(* backend.  Every call the handlers make to kubernetes or to a backend is *)
(* an action of its own, so that an exception, a crash or an edit by the   *)
(* user can come between any two of them.                                  *)
(*                                                                         *)
(* Passwords are numbers in the order they were generated; 0 is none.  The *)
(* backend is abstracted to the password (`live') and the spec version     *)
(* (`applied') of the server it runs, 0 when it runs none.                 *)
(***************************************************************************)
EXTENDS Integers, Kopf, ReconcileHelpers

CONSTANTS
    Backends,     \* the backends routing.py knows
    BackendNames, \* what users write in spec.backend, known or not
    SecretNames,  \* values of spec.credentialsSecret
    Specs,        \* specs a user may write
    Labels,       \* values of the label operator/action a user may set
    Defaults,     \* values of the option backend over the operator's restarts
    Faults,       \* calls whose failure the code swallows, and that may fail
    Budget        \* how often each outside event may happen

Unset == "unset"   \* spec.backend or status.backend is missing

Kinds == {"create", "edit", "label", "remove", "delete", "abort", "restart", "fault"}

\* ver stands for the content of the spec; validOn is the set of backends
\* whose server_spec_valid accepts it.
ASSUME ServerAssumption ==
    /\ Specs \subseteq [ver : Nat \ {0}, backend : BackendNames \cup {Unset},
                        secret : SecretNames, validOn : SUBSET Backends]
    /\ Backends \subseteq BackendNames
    /\ Unset \notin BackendNames
    /\ Defaults \subseteq Backends
    /\ NoLabel \notin Labels
    /\ Faults \subseteq {"get_secret", "delete_secret", "server_exists"}
    /\ Budget \in [Kinds -> Nat]

VARIABLES
    object,          \* the custom object in kubernetes, with kopf's annotations
    secrets,         \* credentials secrets in the object's namespace
    tmp_secret,      \* the secret _tmp_secret(namespace, name) in the operator's namespace
    live,            \* per backend: admin password of the server it runs
    applied,         \* per backend: version of the spec the server was brought to
    handler,         \* the handler invocation in progress, its local variables
    default_backend, \* the option backend
    generated,       \* passwords generated so far
    budget,          \* what is left of Budget
    compromised      \* history: the password a reset was last asked for (0 if
                     \* none), what the temporary secret held at that moment, and
                     \* whether no earlier command was being worked off

vars == <<object, secrets, tmp_secret, live, applied, handler, default_backend,
          generated, budget, compromised>>

world == <<secrets, tmp_secret, live, applied>>  \* what outlives the operator
user  == <<budget, compromised, default_backend>>
-----------------------------------------------------------------------------
NoSpec   == [ver |-> 0, backend |-> Unset, secret |-> Unset, validOn |-> {}]
NoObject == [exists |-> FALSE, deleting |-> FALSE, spec |-> NoSpec, label |-> NoLabel,
             backend |-> Unset, deployment |-> Unset,
             handled |-> {}, unfinished |-> FALSE, resume |-> FALSE]
Idle     == [pc |-> "idle", spec |-> NoSpec, label |-> NoLabel, backend |-> Unset,
             credentials |-> FALSE, password |-> 0]

NoRequest == [password |-> 0, leftover |-> 0, first |-> FALSE]

Init ==
    /\ object = NoObject
    /\ secrets = [n \in SecretNames |-> 0]
    /\ tmp_secret = 0
    /\ live = [b \in Backends |-> 0]
    /\ applied = [b \in Backends |-> 0]
    /\ handler = Idle
    /\ default_backend \in Defaults
    /\ generated = 0
    /\ budget = Budget
    /\ compromised = NoRequest

\* routing.postgres_backend: an unknown name means the default of the moment.
postgres_backend(name) == IF name \in Backends THEN name ELSE default_backend

\* status.backend, else spec.backend, else the default.
backend_name(o) ==
    IF o.backend # Unset THEN o.backend
    ELSE IF o.spec.backend # Unset THEN o.spec.backend ELSE default_backend

server_spec_valid(s, b) == b \in s.validOn

At(pc)      == handler.pc = pc
Goto(pc)    == handler' = [handler EXCEPT !.pc = pc]
Spend(kind) == budget[kind] > 0 /\ budget' = [budget EXCEPT ![kind] = @ - 1]
MayFail(call) == call \in Faults /\ Spend("fault")

\* The handler goes on from one place to the next; Quiet when nothing else changes.
Step(from, next) == At(from) /\ Goto(next)
Quiet(from, next) == Step(from, next) /\ UNCHANGED <<object, world, generated, user>>

\* k8s.delete_secret swallows every error: the secret may stay.
delete_secret(n) ==
    \/ secrets' = [secrets EXCEPT ![n] = 0] /\ UNCHANGED budget
    \/ MayFail("delete_secret") /\ UNCHANGED secrets

\* k8s.create_or_update_secret. When its look at the secret fails it creates one that
\* exists: an exception, see Abort.
create_or_update_secret(n) == secrets' = [secrets EXCEPT ![n] = handler.password]
-----------------------------------------------------------------------------
(* postgresql_server_handler *)

Begin(name, next) ==
    handler' = [Idle EXCEPT !.pc = next, !.spec = object.spec,
                            !.label = object.label, !.backend = name]

\* The diff ends with the removal of the control label: return at once.
SkipControlLabel ==
    /\ At("idle")
    /\ NeedsHandling(object)
    /\ Ignores(Diff(object), TRUE)
    /\ object' = Handled(object, Essence(object))
    /\ UNCHANGED <<world, handler, generated, user>>

\* Mistake: an invalid spec raises a TemporaryError.
RejectSpec_Retries ==
    /\ At("idle")
    /\ NeedsHandling(object)
    /\ Ignores(Diff(object), FALSE)
    /\ ~server_spec_valid(object.spec, postgres_backend(backend_name(object)))
    /\ object' = [object EXCEPT !.deployment = "failed"]
    /\ UNCHANGED <<world, handler, generated, user>>

\* Validation failed: status "failed" and a PermanentError, never retried.
RejectSpec ==
    /\ At("idle")
    /\ NeedsHandling(object)
    /\ Ignores(Diff(object), FALSE)
    /\ ~server_spec_valid(object.spec, postgres_backend(backend_name(object)))
    /\ object' = [Handled(object, Essence(object)) EXCEPT !.deployment = "failed"]
    /\ UNCHANGED <<world, handler, generated, user>>

BeginHandling ==
    /\ At("idle")
    /\ NeedsHandling(object)
    /\ Ignores(Diff(object), FALSE)
    /\ server_spec_valid(object.spec, postgres_backend(backend_name(object)))
    /\ Begin(backend_name(object), "read")
    /\ object' = [object EXCEPT !.unfinished = TRUE]
    /\ UNCHANGED <<world, generated, user>>

\* get_secret answers None for a missing secret and for every error.
ReadCredentials ==
    /\ At("read")
    /\ \/ /\ handler' = [handler EXCEPT !.pc = "password",
                                        !.credentials = secrets[handler.spec.secret] # 0,
                                        !.password = secrets[handler.spec.secret]]
          /\ UNCHANGED budget
       \/ MayFail("get_secret") /\ Goto("password")
    /\ UNCHANGED <<object, world, generated, default_backend, compromised>>

\* determine_resource_password finds the password in one of the two secrets.
UseStoredPassword ==
    /\ At("password")
    /\ StoredPassword(handler.password, tmp_secret) # 0
    /\ handler' = [handler EXCEPT !.pc = "label",
                                  !.password = StoredPassword(@, tmp_secret)]
    /\ UNCHANGED <<object, world, generated, user>>

\* determine_resource_password makes a new one and keeps it in the temporary secret.
GeneratePassword ==
    /\ At("password")
    /\ StoredPassword(handler.password, tmp_secret) = 0
    /\ generated' = generated + 1
    /\ tmp_secret' = generated'
    /\ handler' = [handler EXCEPT !.pc = "label", !.password = generated']
    /\ UNCHANGED <<object, secrets, live, applied, user>>

\* process_action_label: no control label.
NoCommand == Quiet("label", "working") /\ handler.label = NoLabel

\* Mistake: the published secret stays until the new one is written.
ResetWithdraw_KeepsSecret ==
    /\ At("label")
    /\ handler.label = ResetPassword
    /\ handler.credentials
    /\ generated' = generated + 1
    /\ handler' = [handler EXCEPT !.pc = "stash", !.password = generated']
    /\ UNCHANGED <<object, world, user>>

\* Mistake: no `nonlocal password', the handler goes on with the old one.
ResetWithdraw_SamePassword ==
    /\ Step("label", "stash")
    /\ handler.label = ResetPassword
    /\ handler.credentials
    /\ generated' = generated + 1
    /\ delete_secret(handler.spec.secret)
    /\ UNCHANGED <<object, tmp_secret, live, applied, default_backend, compromised>>

\* action_reset_password: a new password, and the published one is withdrawn ...
ResetWithdraw ==
    /\ At("label")
    /\ handler.label = ResetPassword
    /\ handler.credentials
    /\ generated' = generated + 1
    /\ handler' = [handler EXCEPT !.pc = "stash", !.password = generated']
    /\ delete_secret(handler.spec.secret)
    /\ UNCHANGED <<object, tmp_secret, live, applied, default_backend, compromised>>

\* ... and kept in the temporary secret until the server has it.
ResetStash ==
    /\ At("stash")
    /\ tmp_secret' = handler.password
    /\ handler' = [handler EXCEPT !.pc = "unlabel", !.credentials = FALSE]
    /\ UNCHANGED <<object, secrets, live, applied, generated, user>>

\* Without credentials there is nothing to reset; an unknown command does nothing.
SkipCommand ==
    /\ Quiet("label", "unlabel")
    /\ handler.label # NoLabel
    /\ handler.label = ResetPassword => ~handler.credentials

\* process_action_label takes the label off, whatever its value is by now.
Unlabel ==
    /\ Step("unlabel", "working")
    /\ object' = [object EXCEPT !.label = NoLabel]
    /\ UNCHANGED <<world, generated, user>>

\* Mistake: the status does not name the backend before the server is created.
StatusWorking_Unbound ==
    /\ Step("working", "apply")
    /\ object' = [object EXCEPT !.deployment = "working"]
    /\ UNCHANGED <<world, generated, user>>

\* Status "working"; from here on the object is bound to its backend.
StatusWorking ==
    /\ Step("working", "apply")
    /\ object' = [object EXCEPT !.deployment = "working", !.backend = handler.backend]
    /\ UNCHANGED <<world, generated, user>>

\* Mistake: an existing server is left as it is.
ApplyServer_CreatesOnly ==
    /\ Step("apply", "publish")
    /\ LET b == postgres_backend(handler.backend)
       IN  IF live[b] = 0
           THEN /\ applied' = [applied EXCEPT ![b] = handler.spec.ver]
                /\ live' = [live EXCEPT ![b] = handler.password]
           ELSE UNCHANGED <<live, applied>>
    /\ UNCHANGED <<object, secrets, tmp_secret, generated, user>>

\* backend.create_or_update_server, with admin_password_changed = not credentials.
\* A new server gets the password. On an existing one the backends set it when
\* it changed; the helm backends pass it in any case.
ApplyServer ==
    /\ Step("apply", "publish")
    /\ LET b == postgres_backend(handler.backend)
       IN  /\ applied' = [applied EXCEPT ![b] = handler.spec.ver]
           /\ \/ live' = [live EXCEPT ![b] = handler.password]
              \/ handler.credentials /\ live[b] # 0 /\ UNCHANGED live
    /\ UNCHANGED <<object, secrets, tmp_secret, generated, user>>

\* Mistake: the condition is the wrong way round.
Publish_Inverted ==
    /\ Step("publish", "drop")
    /\ IF handler.credentials THEN create_or_update_secret(handler.spec.secret)
       ELSE UNCHANGED secrets
    /\ UNCHANGED <<object, tmp_secret, live, applied, generated, user>>

Publish ==
    /\ Step("publish", "drop")
    /\ IF handler.credentials THEN UNCHANGED secrets
       ELSE create_or_update_secret(handler.spec.secret)
    /\ UNCHANGED <<object, tmp_secret, live, applied, generated, user>>

DropTmp ==
    /\ Step("drop", "finish")
    /\ \/ tmp_secret' = 0 /\ UNCHANGED budget
       \/ MayFail("delete_secret") /\ UNCHANGED tmp_secret
    /\ UNCHANGED <<object, secrets, live, applied, generated, default_backend, compromised>>

StatusFinished ==
    /\ Step("finish", "return")
    /\ object' = [object EXCEPT !.deployment = "finished", !.backend = handler.backend]
    /\ UNCHANGED <<world, generated, user>>

\* The handler returns and kopf records the success.
Return ==
    /\ At("return")
    /\ object' = Handled(object, Essence(handler))
    /\ handler' = Idle
    /\ UNCHANGED <<world, generated, user>>
-----------------------------------------------------------------------------
(* postgresql_server_delete *)

BeginDelete ==
    /\ At("idle")
    /\ object.exists
    /\ object.deleting
    /\ Begin(backend_name(object), "delete")
    /\ UNCHANGED <<object, world, generated, user>>

DeleteServer ==
    /\ Step("delete", "delete_secret")
    /\ LET b == postgres_backend(handler.backend)
       IN  /\ live[b] # 0
           /\ live' = [live EXCEPT ![b] = 0]
           /\ applied' = [applied EXCEPT ![b] = 0]
    /\ UNCHANGED <<object, secrets, tmp_secret, generated, user>>

\* Mistake: a server that is gone already is an error.
NoServerToDelete_Raises ==
    /\ Step("delete", "delete_secret")
    /\ MayFail("server_exists")
    /\ UNCHANGED <<object, world, generated, default_backend, compromised>>

\* "Server does not exist. Not doing anything": also when the backend's
\* server_exists turns an error into the answer no.
NoServerToDelete ==
    /\ Step("delete", "delete_secret")
    /\ \/ live[postgres_backend(handler.backend)] = 0 /\ UNCHANGED budget
       \/ MayFail("server_exists")
    /\ UNCHANGED <<object, world, generated, default_backend, compromised>>

DeleteCredentials ==
    /\ Step("delete_secret", "release")
    /\ delete_secret(handler.spec.secret)
    /\ UNCHANGED <<object, tmp_secret, live, applied, generated, default_backend, compromised>>

\* kopf takes its finalizer off and the object is gone.
Release ==
    /\ At("release")
    /\ object' = NoObject
    /\ handler' = Idle
    /\ UNCHANGED <<world, generated, user>>
-----------------------------------------------------------------------------
(* An exception or a TemporaryError, from any call of a handler; kopf calls *)
(* the handler again after a back-off.                                      *)
Abort ==
    /\ ~At("idle")
    /\ Spend("abort")
    /\ handler' = Idle
    /\ UNCHANGED <<object, world, generated, default_backend, compromised>>

\* The operator stops at any point and starts again, perhaps with another default.
Restart ==
    /\ Spend("restart")
    /\ handler' = Idle
    /\ object' = Resumed(object)
    /\ default_backend' \in Defaults
    /\ UNCHANGED <<world, generated, compromised>>
-----------------------------------------------------------------------------
(* The users of the cluster *)

CreateObject(s) ==
    /\ ~object.exists
    /\ Spend("create")
    /\ object' = [NoObject EXCEPT !.exists = TRUE, !.spec = s]
    /\ compromised' = NoRequest
    /\ UNCHANGED <<world, handler, generated, default_backend>>

EditSpec(s) ==
    /\ object.exists
    /\ object.spec # s
    /\ Spend("edit")
    /\ object' = [object EXCEPT !.spec = s]
    /\ UNCHANGED <<world, handler, generated, default_backend, compromised>>

\* No earlier command is on the object, in a handler, or in what kopf remembers.
NoLabelAtWork ==
    /\ object.label = NoLabel
    /\ handler.label = NoLabel
    /\ \A e \in object.handled : e.label = NoLabel

\* A request to reset the password, or another value of the label.
SetLabel(l) ==
    /\ object.exists
    /\ object.label # l
    /\ Spend("label")
    /\ object' = [object EXCEPT !.label = l]
    /\ compromised' = IF l = ResetPassword
                      THEN [password |-> secrets[object.spec.secret], leftover |-> tmp_secret,
                            first |-> NoLabelAtWork]
                      ELSE NoRequest
    /\ UNCHANGED <<world, handler, generated, default_backend>>

RemoveCredentials(n) ==
    /\ secrets[n] # 0
    /\ Spend("remove")
    /\ secrets' = [secrets EXCEPT ![n] = 0]
    /\ UNCHANGED <<object, tmp_secret, live, applied, handler, generated,
                   default_backend, compromised>>

DeleteObject ==
    /\ object.exists
    /\ ~object.deleting
    /\ Spend("delete")
    /\ object' = [object EXCEPT !.deleting = TRUE]
    /\ UNCHANGED <<world, handler, generated, default_backend, compromised>>
-----------------------------------------------------------------------------
Operator ==
    \/ SkipControlLabel \/ RejectSpec \/ BeginHandling
    \/ ReadCredentials \/ UseStoredPassword \/ GeneratePassword
    \/ NoCommand \/ ResetWithdraw \/ ResetStash \/ SkipCommand \/ Unlabel
    \/ StatusWorking \/ ApplyServer \/ Publish \/ DropTmp \/ StatusFinished \/ Return
    \/ BeginDelete \/ DeleteServer \/ NoServerToDelete \/ DeleteCredentials \/ Release

User ==
    \/ \E s \in Specs : CreateObject(s) \/ EditSpec(s)
    \/ \E l \in Labels : SetLabel(l)
    \/ \E n \in SecretNames : RemoveCredentials(n)
    \/ DeleteObject

Next == Operator \/ Abort \/ Restart \/ User

Spec == Init /\ [][Next]_vars

\* kopf gets round to every object and every retry; what users do and the
\* failures owe nothing.
FairSpec == Spec /\ WF_vars(Operator)
-----------------------------------------------------------------------------
(* Properties *)

SpecType  == Specs \cup {NoSpec}
LabelType == Labels \cup {NoLabel}
ObjectType ==
    [exists : BOOLEAN, deleting : BOOLEAN, spec : SpecType, label : LabelType,
     backend : BackendNames \cup {Unset}, deployment : {Unset, "working", "finished", "failed"},
     handled : SUBSET [spec : SpecType, label : LabelType],
     unfinished : BOOLEAN, resume : BOOLEAN]
HandlerType ==
    [pc : {"idle", "read", "password", "label", "stash", "unlabel", "working", "apply",
           "publish", "drop", "finish", "return", "delete", "delete_secret", "release"},
     spec : SpecType, label : LabelType, backend : BackendNames \cup {Unset},
     credentials : BOOLEAN, password : Nat]

\* The type invariant of the server module.
TypeOK ==
    /\ object \in ObjectType
    /\ secrets \in [SecretNames -> Nat]
    /\ tmp_secret \in Nat
    /\ live \in [Backends -> Nat]
    /\ applied \in [Backends -> Nat]
    /\ handler \in HandlerType
    /\ default_backend \in Defaults
    /\ generated \in Nat
    /\ budget \in [Kinds -> Nat]
    /\ compromised \in [password : Nat, leftover : Nat, first : BOOLEAN]

\* A client that reads a credentials secret can log in to the server, whatever
\* the handler is in the middle of: a published password is the one of every
\* server that runs for this object (README.md:316). The order of the steps of a
\* reset - withdraw, change, publish - is there for this.
PublishedIsLive ==
    \A n \in SecretNames, b \in Backends :
        secrets[n] # 0 => live[b] \in {0, secrets[n]}

\* A server is never orphaned: it belongs to an existing object that is bound to
\* its backend, through edits of spec.backend, changes of the default, crashes and
\* the deletion (postgresql_server.py:28-31, 59, 76-86).
NoOrphan ==
    \A b \in Backends :
        live[b] # 0 => object.exists /\ postgres_backend(object.backend) = b

Settled == At("idle") /\ object.exists /\ ~object.deleting /\ ~NeedsHandling(object)

\* When the operator is done with the object and says so, the server has the spec
\* the user sees, also when the spec was edited while a handler was at work or
\* attempts failed (postgresql_server.py:61, 71).
FinishedIsApplied ==
    Settled /\ object.deployment = "finished" =>
        applied[postgres_backend(object.backend)] = object.spec.ver

\* No user removed a secret and no failure was swallowed so far.
Untouched == budget["remove"] = Budget["remove"] /\ budget["fault"] = Budget["fault"]

\* What the operator calls finished is usable: the secret the spec names holds the
\* password of the server (README.md:316), through failed attempts, restarts and edits.
FinishedIsUsable ==
    Settled /\ object.deployment = "finished" /\ Untouched =>
        /\ secrets[object.spec.secret] # 0
        /\ secrets[object.spec.secret] = live[postgres_backend(object.backend)]

OutOfUse(password) == \A b \in Backends : live[b] # password

ResetDone ==
    Settled /\ object.deployment = "finished" /\ object.label = NoLabel /\ compromised.password # 0

\* A password whose reset was asked for is out of use once the operator has taken
\* the label off, is done and says so, through failed attempts, crashes and specs that are
\* refused (after one of those it may be done and say "failed" or "working", with the old
\* password in use and no label left) - provided that, at the time of the request, no
\* earlier command was being worked off and the temporary secret did not hold that same
\* password.
ResetRotates ==
    ResetDone /\ compromised.first /\ compromised.leftover # compromised.password
        => OutOfUse(compromised.password)

\* The server's credentials keep the contract, step by step: each call of a handler
\* is one allowed step of the abstract protocol or changes nothing it can see.
TheSecret == CHOOSE n \in SecretNames : TRUE
Contract  == INSTANCE CredentialContract WITH Places <- Backends, published <- secrets[TheSecret]
KeepsContract == Contract!Spec

\* Every object is handled in the end, and every deletion comes to an end.
Converges == object.exists ~> Settled \/ ~object.exists
DeletionCompletes == object.deleting ~> ~object.exists
=============================================================================
