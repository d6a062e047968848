---------------------------- MODULE ServerCaller ----------------------------
(***************************************************************************)
(* What the handlers of handlers/postgresql_server.py do around a call of  *)
(* a backend, shortened to what matters to the backend: they call again    *)
(* until a call succeeds, publish the password then, and say               *)
(* admin_password_changed as long as nothing is published; a deletion asks *)
(* server_exists first and removes the secret last.  PostgresqlServer has  *)
(* the handlers in full and a backend in one step; the modules of the      *)
(* backends extend this one and have the backend in full.                  *)
(***************************************************************************)
EXTENDS Integers

CONSTANTS
    Specs,  \* specs a user may write; what a spec is is up to the backend
    NoSpec, \* stands for no spec
    Faults, \* calls whose failure the code swallows, and that may fail
    Budget  \* how often each outside event may happen

Kinds == {"create", "edit", "reset", "delete", "abort", "timeout", "fault", "upgrade"}

ASSUME CallerAssumption == NoSpec \notin Specs /\ Budget \in [Kinds -> Nat]

VARIABLES
    object,    \* what the PostgreSQLServer object asks for; done: handled with success
    password,  \* the password the handler works with, from either secret
    published, \* the password in the credentials secret, 0 if there is none
    call,      \* the call in progress
    budget     \* what is left of Budget

resource == <<object, password, published>>
-----------------------------------------------------------------------------
NoObject == [exists |-> FALSE, deleting |-> FALSE, done |-> FALSE, spec |-> NoSpec]
NoCall   == [pc |-> "idle", spec |-> NoSpec, changed |-> FALSE]

CallerInit ==
    /\ object = NoObject
    /\ password = 0 /\ published = 0
    /\ call = NoCall
    /\ budget = Budget

At(pc)        == call.pc = pc
Spend(kind)   == budget[kind] > 0 /\ budget' = [budget EXCEPT ![kind] = @ - 1]
MayFail(name) == name \in Faults /\ Spend("fault")

\* The call goes on from one place to the next: Step, and Move when nothing fails.
Step(from, next) ==
    At(from) /\ call' = [call EXCEPT !.pc = next] /\ UNCHANGED resource
Move(from, next) == Step(from, next) /\ UNCHANGED budget

\* It raises; the handler will be called again.
Raise == call' = NoCall /\ UNCHANGED <<resource, budget>>

\* Any other exception, or a crash.
Break(kind) == ~At("idle") /\ Spend(kind) /\ call' = NoCall /\ UNCHANGED resource
-----------------------------------------------------------------------------
(* create_or_update_server is called, and returns *)

Begin(next) ==
    /\ At("idle")
    /\ object.exists /\ ~object.deleting /\ ~object.done
    /\ call' = [pc |-> next, spec |-> object.spec, changed |-> (published = 0)]
    /\ UNCHANGED <<resource, budget>>

\* The handler publishes the connection data.
Finish(from) ==
    /\ At(from)
    /\ published' = IF call.changed THEN password ELSE published
    /\ object' = [object EXCEPT !.done = (object.spec = call.spec)]
    /\ call' = NoCall
    /\ UNCHANGED <<password, budget>>
-----------------------------------------------------------------------------
(* postgresql_server_delete with the answer of server_exists *)

BeginDelete(found) ==
    /\ At("idle")
    /\ object.exists /\ object.deleting
    /\ call' = [NoCall EXCEPT !.pc = IF found THEN "delete" ELSE "delete_secret"]
    /\ UNCHANGED resource

\* k8s.delete_secret swallows every error.
DeleteCredentials ==
    /\ At("delete_secret")
    /\ call' = [call EXCEPT !.pc = "release"]
    /\ \/ published' = 0 /\ UNCHANGED budget
       \/ MayFail("delete_secret") /\ UNCHANGED published
    /\ UNCHANGED <<object, password>>

\* kopf takes its finalizer off and the object is gone.
Release ==
    /\ At("release")
    /\ object' = NoObject
    /\ call' = NoCall
    /\ UNCHANGED <<password, published, budget>>
-----------------------------------------------------------------------------
(* The users *)

CreateObject(s) ==
    /\ ~object.exists
    /\ Spend("create")
    /\ object' = [NoObject EXCEPT !.exists = TRUE, !.spec = s]
    /\ password' = IF published # 0 THEN published ELSE password + 1
    /\ UNCHANGED <<published, call>>

EditSpec(s) ==
    /\ object.exists /\ object.spec # s
    /\ Spend("edit")
    /\ object' = [object EXCEPT !.spec = s, !.done = FALSE]
    /\ UNCHANGED <<password, published, call>>

\* The handler worked off a request to reset the password, up to its call.
Reset ==
    /\ At("idle") /\ object.exists /\ ~object.deleting /\ published # 0
    /\ Spend("reset")
    /\ password' = password + 1
    /\ published' = 0
    /\ object' = [object EXCEPT !.done = FALSE]
    /\ UNCHANGED call

DeleteObject ==
    /\ object.exists /\ ~object.deleting
    /\ Spend("delete")
    /\ object' = [object EXCEPT !.deleting = TRUE]
    /\ UNCHANGED <<password, published, call>>

User == (\E s \in Specs : CreateObject(s) \/ EditSpec(s)) \/ Reset \/ DeleteObject
-----------------------------------------------------------------------------
\* The type of the caller's state, with the places of a backend's calls.
CallerType(places) ==
    /\ object \in [exists : BOOLEAN, deleting : BOOLEAN, done : BOOLEAN,
                   spec : Specs \cup {NoSpec}]
    /\ password \in Nat /\ published \in Nat
    /\ call \in [pc : places \cup {"idle", "delete", "delete_secret", "release"},
                 spec : Specs \cup {NoSpec}, changed : BOOLEAN]
    /\ budget \in [Kinds -> Nat]

\* The operator says the object is finished and has nothing to do for it.
Settled == object.exists /\ object.done /\ ~object.deleting /\ At("idle")
=============================================================================
