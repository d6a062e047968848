---------------------------- MODULE AzureSingle ----------------------------
(***************************************************************************)
(* backends/azure_postgresql.py: create_or_update_server, server_exists    *)
(* and delete_server of one single server, with its vnet and firewall      *)
(* rules, its private endpoint and the record of it in the private DNS,    *)
(* its preloaded extensions, its lock and the mark of a fake deletion.     *)
(* The operator may be restarted with other options.                       *)
(***************************************************************************)
EXTENDS AzureServer

CONSTANTS
    Extensions, \* what spec.extensions may name
    Readable    \* ranges given as start_ip and end_ip, not as the documented startIp and endIp

ASSUME SingleAssumption ==
    /\ RuleKinds = {"vnet", "firewall"}
    /\ Readable \subseteq Ranges
    /\ \A s \in Specs : s.extensions \subseteq Extensions
    /\ \A o \in Options : /\ o.endpoint \in BOOLEAN /\ o.cleanup \in BOOLEAN
                          /\ o.vnets \in Seq(Rules) /\ o.rules \in Seq(Rules)
    /\ Faults \subseteq {"servers_get", "delete_secret"}

VARIABLES
    public,   \* public_network_access of the server
    endpoint, \* there is a private endpoint ...
    record,   \* ... and a DNS record of it
    preload,  \* the extensions in shared_preload_libraries ...
    in_force  \* ... and those of the last start of the server

vars == <<object, password, published, call, budget, options, server, seen, rules, existing,
          todo, public, endpoint, record, preload, in_force>>
private   == <<public, endpoint, record>>
preloaded == <<preload, in_force>>
-----------------------------------------------------------------------------
Init ==
    /\ AzureInit
    /\ public = FALSE /\ endpoint = FALSE /\ record = FALSE
    /\ preload = {} /\ in_force = {}

\* The end of a call, good or bad: what it had read is forgotten.
Forget == seen' = FALSE /\ existing' = NoRules /\ todo' = <<>>
Kept   == UNCHANGED <<options, server, rules, private, preloaded>>
-----------------------------------------------------------------------------
(* create_or_update_server *)

Call == Begin("read") /\ UNCHANGED <<azure, ruled, private, preloaded>>

\* Mistake: no look at the cloud, every attempt begins without a server.
ReadServer_Skipped == Move("read", "server") /\ UNCHANGED <<azure, ruled, private, preloaded>>

ReadServer == Look("read", "server") /\ UNCHANGED <<private, preloaded>>

\* Mistake: the password is sent only when something else is.
NeedsUpdate_ForgetsPassword ==
    server.size # call.spec.size \/ public # options.public \/ server.marked

\* compare(): all the tags, and with them the mark, have to be those wanted.
NeedsUpdate ==
    \/ server.size # call.spec.size \/ public # options.public
    \/ server.marked \/ call.changed

BringServer ==
    /\ Bring("server", "lock", NeedsUpdate)
    /\ public' = options.public
    /\ UNCHANGED <<endpoint, record, preloaded>>

LockServer ==
    /\ Lock("lock", IF options.public THEN "list_vnets" ELSE "endpoint")
    /\ UNCHANGED <<private, preloaded>>

ListVnets ==
    ListRules("list_vnets", "vnet", options.vnets) /\ UNCHANGED <<private, preloaded>>

SyncVnets == SyncRules("vnet") /\ UNCHANGED <<private, preloaded>>

EndVnets == RulesDone("vnet", "list_rules") /\ UNCHANGED <<private, preloaded>>

\* The rules of the configuration come first; the last is in the form the code reads.
WantedRules(spec) == options.rules \o spec.rules \o ExtraRules

ListFirewall ==
    ListRules("list_rules", "firewall", WantedRules(call.spec)) /\ UNCHANGED <<private, preloaded>>

\* Mistake: an existing rule of the name is taken for the same.
SyncFirewall_ByName ==
    /\ Move("firewall", "firewall")
    /\ todo # <<>> /\ Head(todo).range \in Readable
    /\ LET r == Head(todo)
       IN  /\ rules' = IF r.name \in DOMAIN rules["firewall"] THEN rules
                       ELSE [rules EXCEPT !["firewall"] = With(@, r)]
           /\ existing' = Without(existing, r.name)
    /\ todo' = Tail(todo)
    /\ UNCHANGED <<azure, private, preloaded>>

SyncFirewall ==
    /\ todo # <<>> => Head(todo).range \in Readable
    /\ SyncRules("firewall")
    /\ UNCHANGED <<private, preloaded>>

\* A rule of the configuration as in README.md:71-74, or of a spec as in the CRD, has
\* startIp instead of start_ip: a KeyError.
RuleUnreadable ==
    /\ At("firewall") /\ todo # <<>> /\ Head(todo).range \notin Readable
    /\ Raise /\ Forget /\ Kept

EndFirewall == RulesDone("firewall", "endpoint") /\ UNCHANGED <<private, preloaded>>

CreateEndpoint ==
    /\ Move("endpoint", IF options.endpoint THEN "record" ELSE "extensions")
    /\ endpoint' = (endpoint \/ options.endpoint)
    /\ UNCHANGED <<azure, ruled, public, record, preloaded>>

CreateRecord ==
    /\ Move("record", "extensions")
    /\ record' = TRUE
    /\ UNCHANGED <<azure, ruled, public, endpoint, preloaded>>

\* Mistake: an empty value is split into one extension without a name.
PutExtensions_SplitsEmpty ==
    /\ Move("extensions", IF call.spec.extensions = preload THEN "return" ELSE "restart")
    /\ preload' = IF call.spec.extensions = {} THEN {""} ELSE call.spec.extensions
    /\ UNCHANGED <<azure, ruled, private, in_force>>

\* "Updating list of extensions": the server is restarted only if it differs.
PutExtensions ==
    /\ Move("extensions", IF call.spec.extensions = preload THEN "return" ELSE "restart")
    /\ preload' = call.spec.extensions
    /\ UNCHANGED <<azure, ruled, private, in_force>>

RestartServer ==
    /\ Move("restart", "return")
    /\ in_force' = preload
    /\ UNCHANGED <<azure, ruled, private, preload>>

Return == Finish("return") /\ Forget /\ Kept
-----------------------------------------------------------------------------
(* server_exists and delete_server *)

\* Only a server that is not found is one that is not there.
FindServer ==
    BeginDelete(server.exists) /\ UNCHANGED <<budget, azure, ruled, private, preloaded>>

MarkServer == Mark /\ UNCHANGED <<private, preloaded>>

\* The server is asked for last. What is not there may be deleted.  Whether there is an
\* endpoint to delete is read from create_private_endpoint outside of `network' (cleanup),
\* not from the documented option that has it created.
DeleteEndpoint ==
    /\ Move("delete", IF options.cleanup THEN "delete_record" ELSE "delete_server")
    /\ ~options.fake
    /\ endpoint' = (endpoint /\ ~options.cleanup)
    /\ UNCHANGED <<azure, ruled, public, record, preloaded>>

DeleteRecord ==
    /\ Move("delete_record", "delete_server")
    /\ record' = FALSE
    /\ UNCHANGED <<azure, ruled, public, endpoint, preloaded>>

DeleteServer ==
    /\ Remove("delete_server")
    /\ preload' = {} /\ in_force' = {}
    /\ UNCHANGED private

EndDelete == (DeleteCredentials \/ Release) /\ UNCHANGED <<azure, ruled, private, preloaded>>

CloudRefuses == Refuses("server", "delete_server") /\ Raise /\ Forget /\ Kept

Abort == Break("abort") /\ Forget /\ Kept

\* The operator is restarted with other options and, with handler_on_resume, takes
\* every object up again.
Reconfigure(o) ==
    /\ o # options
    /\ Spend("abort")
    /\ options' = o
    /\ object' = [object EXCEPT !.done = FALSE]
    /\ call' = NoCall
    /\ Forget
    /\ UNCHANGED <<password, published, server, rules, private, preloaded>>
-----------------------------------------------------------------------------
Operator ==
    \/ Call \/ ReadServer \/ BringServer \/ LockServer
    \/ ListVnets \/ SyncVnets \/ EndVnets
    \/ ListFirewall \/ SyncFirewall \/ RuleUnreadable \/ EndFirewall
    \/ CreateEndpoint \/ CreateRecord \/ PutExtensions \/ RestartServer \/ Return
    \/ FindServer \/ MarkServer \/ DeleteEndpoint \/ DeleteRecord \/ DeleteServer \/ EndDelete
    \/ CloudRefuses

Administrator == RemoveLock /\ UNCHANGED <<private, preloaded>>

Next ==
    \/ Operator \/ Abort \/ Administrator
    \/ \E o \in Options : Reconfigure(o)
    \/ User /\ UNCHANGED <<azure, ruled, private, preloaded>>

Spec == Init /\ [][Next]_vars

\* kopf calls again after every failure, and the administrator removes the lock.
FairSpec == Spec /\ WF_vars(Operator) /\ WF_vars(Administrator)
-----------------------------------------------------------------------------
(* Properties *)

\* The type invariant of the single-server module.
TypeOK ==
    /\ AzureType({"read", "server", "lock", "list_vnets", "vnet", "list_rules", "firewall",
                  "endpoint", "record", "extensions", "restart", "return", "delete_record",
                  "delete_server"})
    /\ {public, endpoint, record} \subseteq BOOLEAN
    /\ preload \subseteq Extensions /\ in_force \subseteq Extensions

\* What the operator calls finished has the rules, the endpoint and the extensions of the
\* options and the spec in force, although they are brought about one call at a time by
\* attempts that break off, under options and specs that changed meanwhile
\* (azure_postgresql.py:161-255).  The extensions are in force, unless an attempt broke
\* off: the next one finds the list up to date and does not restart (:247-255).  And the
\* server does not carry the mark of a deletion, also when its credentials outlived one
\* (:112, README.md:59).
FinishedIsConfigured ==
    Settled =>
        /\ server.exists /\ server.size = object.spec.size /\ public = options.public
        /\ options.public => /\ rules["vnet"] = Wanted(options.vnets)
                             /\ rules["firewall"] = Wanted(WantedRules(object.spec))
        /\ options.endpoint => endpoint /\ record
        /\ preload = object.spec.extensions
        /\ budget["abort"] = Budget["abort"] => in_force = preload
        /\ ~server.marked

\* The backend keeps the credentials contract the handlers rely on: the password of the
\* server changes only while none is published, and one that is published is in force -
\* after a fake deletion whose credentials stayed, a look that failed and restarts with
\* other options, any of which has the server updated or not (azure_postgresql.py:102-161).
Contract == INSTANCE CredentialContract WITH
    Places <- {"server"}, live <- [p \in {"server"} |-> server.password]
KeepsContract == Contract!Spec

\* No attempt gets past the firewall rules of a public server if one of them is as
\* documented, in the configuration (README.md:71-74) or in the spec (RuleUnreadable).
NeverReads(spec) ==
    /\ options.public
    /\ \E i \in DOMAIN WantedRules(spec) : WantedRules(spec)[i].range \notin Readable

\* Every object is handled in the end, except while the operator never reads its rules
\* (azure_postgresql.py:194-200).  A deletion ends once the lock is removed, also when a
\* call sets it again.
Converges ==
    /\ object.exists ~> \/ Settled \/ object.deleting \/ ~object.exists
                        \/ NeverReads(object.spec)
    /\ object.deleting ~> ~object.exists
=============================================================================
