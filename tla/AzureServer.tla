----------------------------- MODULE AzureServer -----------------------------
(***************************************************************************)
(* What the two azure backends have in common: a server that is looked up, *)
(* created or updated, locked, marked as deleted or deleted, and a loop    *)
(* that makes the rules of one kind those that are wanted.                 *)
(*                                                                         *)
(* A call to the cloud waits for its result (poller.result()), so each is  *)
(* one action.                                                             *)
(***************************************************************************)
EXTENDS ServerCaller, RuleLoop, Sequences

CONSTANTS
    RuleKinds,         \* kinds of rules
    RuleNames, Ranges, \* what a rule says
    ExtraRules,        \* the firewall rules that allow_azure_services adds, a sequence
    Options            \* configurations: public, locks, fake, ...

Rules     == RuleRecords(RuleNames, Ranges)
RulesType == RuleTables(RuleNames, Ranges)

ASSUME AzureAssumption ==
    /\ ExtraRules \in Seq(Rules)
    /\ \A s \in Specs : s.size \in Nat \ {0} /\ s.rules \in Seq(Rules)
    /\ \A o \in Options : {o.public, o.locks, o.fake} \subseteq BOOLEAN

VARIABLES
    options,  \* the configuration the operator runs with
    server,   \* the server in the cloud; marked: its tag marked-for-deletion
    seen,     \* the call in progress has found a server
    rules,    \* per kind the rules of the server, a function from their names
    existing, \* the rules the call has listed and not yet come across
    todo      \* the rules it still has to go through

azure == <<options, server, seen>>
ruled == <<rules, existing, todo>>
-----------------------------------------------------------------------------
NoServer == [exists |-> FALSE, size |-> 0, password |-> 0, marked |-> FALSE, locked |-> FALSE]

AzureInit ==
    /\ CallerInit
    /\ options \in Options
    /\ server = NoServer /\ seen = FALSE
    /\ rules = [k \in RuleKinds |-> NoRules] /\ existing = NoRules /\ todo = <<>>

\* A bare except: any error counts as a server that is not there.
Look(from, next) ==
    /\ Step(from, next)
    /\ \/ seen' = server.exists /\ UNCHANGED budget
       \/ seen' = FALSE /\ MayFail("servers_get")
    /\ UNCHANGED <<options, server, ruled>>

\* The parameters sent replace the tags, and with them the mark. Whether the cloud
\* takes the creation of a server that exists is left open, see Refuses.
Bring(from, next, needed) ==
    /\ Move(from, next)
    /\ seen => server.exists
    /\ server' = IF seen => needed
                 THEN [server EXCEPT !.exists = TRUE, !.size = call.spec.size,
                                     !.password = password, !.marked = FALSE]
                 ELSE server
    /\ UNCHANGED <<options, seen, ruled>>

Lock(from, next) ==
    /\ Move(from, next)
    /\ server' = [server EXCEPT !.locked = @ \/ options.locks]
    /\ UNCHANGED <<options, seen, ruled>>

\* "Set tag to mark server as deleted"
Mark ==
    /\ Move("delete", "delete_secret")
    /\ options.fake
    /\ server' = [server EXCEPT !.marked = TRUE]
    /\ UNCHANGED <<options, seen, ruled>>

Remove(from) ==
    /\ Move(from, "delete_secret")
    /\ ~options.fake
    /\ ~server.locked
    /\ server' = NoServer
    /\ rules' = [k \in RuleKinds |-> NoRules]
    /\ UNCHANGED <<options, seen, existing, todo>>

\* A locked server is not deleted, one that exists perhaps not created.
Refuses(create, delete) ==
    \/ At(delete) /\ ~options.fake /\ server.locked
    \/ At(create) /\ ~seen /\ server.exists

\* README.md:171: "you have to do that yourself".
RemoveLock ==
    /\ object.deleting /\ server.locked
    /\ server' = [server EXCEPT !.locked = FALSE]
    /\ UNCHANGED <<resource, call, budget, options, seen, ruled>>
-----------------------------------------------------------------------------
(* The rules of one kind; the place of a call in the loop is named for it. *)

ListRules(from, kind, wanted) ==
    /\ Move(from, kind)
    /\ existing' = rules[kind] /\ todo' = wanted
    /\ UNCHANGED <<azure, rules>>

\* The next of the wanted rules: "Rule is the same, skip update", or it is written.
SetRule(kind) ==
    /\ Move(kind, kind)
    /\ todo # <<>>
    /\ LET r == Head(todo)
       IN  /\ rules' = IF r.name \in DOMAIN existing /\ existing[r.name] = r.range THEN rules
                       ELSE [rules EXCEPT ![kind] = With(@, r)]
           /\ existing' = Without(existing, r.name)
    /\ todo' = Tail(todo)
    /\ UNCHANGED azure

\* What is left of the existing rules is deleted.
DeleteRule(kind, n) ==
    /\ Move(kind, kind)
    /\ todo = <<>>
    /\ n \in DOMAIN existing
    /\ rules' = [rules EXCEPT ![kind] = Without(@, n)]
    /\ existing' = Without(existing, n)
    /\ UNCHANGED <<azure, todo>>

SyncRules(kind) == SetRule(kind) \/ \E n \in RuleNames : DeleteRule(kind, n)

RulesDone(kind, next) ==
    Move(kind, next) /\ todo = <<>> /\ existing = NoRules /\ UNCHANGED <<azure, ruled>>
-----------------------------------------------------------------------------
\* The type of what the azure backends share.
AzureType(places) ==
    /\ CallerType(places)
    /\ options \in Options
    /\ server \in [exists : BOOLEAN, size : Nat, password : Nat, marked : BOOLEAN,
                   locked : BOOLEAN]
    /\ seen \in BOOLEAN
    /\ rules \in [RuleKinds -> RulesType] /\ existing \in RulesType /\ todo \in Seq(Rules)
=============================================================================
