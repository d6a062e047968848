---------------------------- MODULE AzureFlexible ----------------------------
(***************************************************************************)
(* backends/azure_postgresqlflexible.py: create_or_update_server,          *)
(* server_exists and delete_server of one flexible server, with its        *)
(* firewall rules, its configuration, its lock and the mark of a fake      *)
(* deletion.                                                               *)
(***************************************************************************)
EXTENDS AzureServer

CONSTANTS
    ConfigRules, \* the firewall rules of the configuration, a sequence
    Extensions,  \* extensions of a server, with the two every server gets
    Always,      \* pg_cron and pg_stat_statements
    Preloads,    \* PRELOAD_LIST
    Parameters   \* server parameters; their values are numbers, 0 the default

ASSUME FlexibleAssumption ==
    /\ RuleKinds = {"firewall"} /\ ConfigRules \in Seq(Rules)
    /\ Always \subseteq Extensions /\ Preloads \subseteq Extensions
    /\ \A s \in Specs : /\ s.extensions \subseteq Extensions
                        /\ DOMAIN s.parameters \subseteq Parameters
                        /\ \A p \in DOMAIN s.parameters : s.parameters[p] \in Nat
    /\ Faults \subseteq {"servers_get", "delete_secret"}

VARIABLES
    config,   \* the configuration of the server as stored ...
    in_force, \* ... and as of its last restart
    left,     \* parameters the call has still to go through
    restart   \* should_restart

vars == <<object, password, published, call, budget, options, server, seen, rules, existing,
          todo, config, in_force, left, restart>>
configured == <<config, in_force, left, restart>>
-----------------------------------------------------------------------------
Defaults == [preload |-> {}, allowed |-> {}, parameters |-> [p \in Parameters |-> 0]]

Init ==
    /\ AzureInit
    /\ config = Defaults /\ in_force = Defaults /\ left = {} /\ restart = FALSE

\* A new call, or the end of one, forgets what the call before had read.
Forget == seen' = FALSE /\ existing' = NoRules /\ todo' = <<>> /\ left' = {} /\ restart' = FALSE
Kept   == UNCHANGED <<options, server, rules, config, in_force>>

\* What the configuration of a server should be.
AllExtensions(spec)     == spec.extensions \cup Always
PreloadExtensions(spec) == AllExtensions(spec) \cap Preloads
Parameter(spec, p)      == IF p \in DOMAIN spec.parameters THEN spec.parameters[p] ELSE 0
WantedRules(spec)       == ConfigRules \o spec.rules \o ExtraRules
-----------------------------------------------------------------------------
(* create_or_update_server *)

Call == Begin("read") /\ UNCHANGED <<azure, ruled, configured>>

\* Mistake: no look at the cloud, every attempt begins without a server.
ReadServer_Skipped == Move("read", "server") /\ UNCHANGED <<azure, ruled, configured>>

ReadServer == Look("read", "server") /\ UNCHANGED configured

\* Mistake: the password is sent only when something else is.
NeedsUpdate_ForgetsPassword == server.size # call.spec.size

\* Of the tags only the wanted ones are compared: the mark makes no difference.
NeedsUpdate == server.size # call.spec.size \/ call.changed

BringServer == Bring("server", "lock", NeedsUpdate) /\ UNCHANGED configured

LockServer ==
    /\ Lock("lock", IF options.public THEN "list_rules" ELSE "preload")
    /\ UNCHANGED configured

ListWantedRules ==
    ListRules("list_rules", "firewall", WantedRules(call.spec)) /\ UNCHANGED configured

\* Mistake: what is left of the existing rules goes before the wanted ones are written.
SetRules_DeletesFirst ==
    /\ \/ SetRule("firewall")
       \/ \E n \in DOMAIN existing :
             /\ Move("firewall", "firewall")
             /\ rules' = [rules EXCEPT !["firewall"] = Without(@, n)]
             /\ existing' = Without(existing, n)
             /\ UNCHANGED <<azure, todo>>
    /\ UNCHANGED configured

SetRules == SyncRules("firewall") /\ UNCHANGED configured

EndRules == RulesDone("firewall", "preload") /\ UNCHANGED configured

\* One configuration is put if it differs, and asks for a restart.
Put(new) ==
    /\ config' = new
    /\ restart' = (restart \/ new # config)
    /\ UNCHANGED <<azure, ruled, in_force>>

SetPreload ==
    /\ Move("preload", "extensions")
    /\ Put([config EXCEPT !.preload = PreloadExtensions(call.spec)])
    /\ UNCHANGED left

SetExtensions ==
    /\ Move("extensions", "parameters")
    /\ Put([config EXCEPT !.allowed = AllExtensions(call.spec)])
    /\ left' = Parameters

\* Mistake: a parameter the spec does not name any more keeps its value.
SetParameter_NoReset(p) ==
    /\ Move("parameters", "parameters")
    /\ p \in left
    /\ Put(IF p \in DOMAIN call.spec.parameters
           THEN [config EXCEPT !.parameters[p] = call.spec.parameters[p]] ELSE config)
    /\ left' = left \ {p}

\* Each parameter is set to what the spec says, or reset to its default.
SetParameter(p) ==
    /\ Move("parameters", "parameters")
    /\ p \in left
    /\ Put([config EXCEPT !.parameters[p] = Parameter(call.spec, p)])
    /\ left' = left \ {p}

RestartServer ==
    /\ Move("parameters", "return")
    /\ left = {}
    /\ in_force' = IF restart THEN config ELSE in_force
    /\ UNCHANGED <<azure, ruled, config, left, restart>>

Return == Finish("return") /\ Forget /\ Kept
-----------------------------------------------------------------------------
(* server_exists and delete_server *)

FindServer == BeginDelete(server.exists) /\ UNCHANGED <<budget, azure, ruled, configured>>

MarkServer == Mark /\ UNCHANGED configured

\* Mistake: the answer that the server is locked is swallowed.
DeleteServer_IgnoresLock ==
    /\ Move("delete", "delete_secret")
    /\ ~options.fake
    /\ server' = IF server.locked THEN server ELSE NoServer
    /\ UNCHANGED <<options, seen, ruled, configured>>

DeleteServer ==
    /\ Remove("delete")
    /\ config' = Defaults /\ in_force' = Defaults
    /\ UNCHANGED <<left, restart>>

EndDelete == (DeleteCredentials \/ Release) /\ UNCHANGED <<azure, ruled, configured>>

CloudRefuses == Refuses("server", "delete") /\ Raise /\ Forget /\ Kept

Abort == Break("abort") /\ Forget /\ Kept
-----------------------------------------------------------------------------
Operator ==
    \/ Call \/ ReadServer \/ BringServer \/ LockServer
    \/ ListWantedRules \/ SetRules \/ EndRules
    \/ SetPreload \/ SetExtensions \/ (\E p \in Parameters : SetParameter(p))
    \/ RestartServer \/ Return
    \/ FindServer \/ MarkServer \/ DeleteServer \/ EndDelete \/ CloudRefuses

Administrator == RemoveLock /\ UNCHANGED configured

Next == Operator \/ Abort \/ Administrator \/ (User /\ UNCHANGED <<azure, ruled, configured>>)

Spec == Init /\ [][Next]_vars

\* kopf calls again after every failure, and the administrator removes the lock.
FairSpec == Spec /\ WF_vars(Operator) /\ WF_vars(Administrator)
-----------------------------------------------------------------------------
(* Properties *)

ConfigType == [preload : SUBSET Extensions, allowed : SUBSET Extensions,
               parameters : [Parameters -> Nat]]

\* The type invariant of the flexible-server module.
TypeOK ==
    /\ AzureType({"read", "server", "lock", "list_rules", "firewall", "preload", "extensions",
                  "parameters", "return"})
    /\ config \in ConfigType /\ in_force \in ConfigType
    /\ left \subseteq Parameters /\ restart \in BOOLEAN

\* What the operator calls finished has the firewall rules, the extensions and the
\* parameters of the spec the user sees and nothing besides, although they are brought
\* about one call at a time by attempts that break off, with a spec edited meanwhile
\* and names used twice (azure_postgresqlflexible.py:168-263).  The configuration is in
\* force, unless an attempt broke off: that a restart is due is known only to the attempt
\* that changed it (:217, 265).  And the server does not carry the mark of a deletion
\* (README.md:59), unless its credentials outlived one: then there is nothing to change,
\* as the mark is not compared (:122-127).
FinishedIsConfigured ==
    Settled =>
        /\ server.exists /\ server.size = object.spec.size
        /\ rules["firewall"] = IF options.public THEN Wanted(WantedRules(object.spec)) ELSE NoRules
        /\ config = [preload |-> PreloadExtensions(object.spec),
                     allowed |-> AllExtensions(object.spec),
                     parameters |-> [p \in Parameters |-> Parameter(object.spec, p)]]
        /\ budget["abort"] = Budget["abort"] => in_force = config
        /\ budget["fault"] = Budget["fault"] => ~server.marked

\* A rule that is wanted is never taken away on the way: a client it lets in is not
\* locked out by an update (azure_postgresqlflexible.py:180-189).
WantedRulesStay ==
    [][At("firewall") =>
         \A n \in DOMAIN rules["firewall"] \cap DOMAIN Wanted(WantedRules(call.spec)) :
             n \in DOMAIN rules'["firewall"]]_vars

\* A deletion that is not fake leaves no server behind (README.md:171).
NoServerLeft == ~options.fake /\ server.exists => object.exists

\* The backend keeps the credentials contract the handlers rely on.
Contract == INSTANCE CredentialContract WITH
    Places <- {"server"}, live <- [p \in {"server"} |-> server.password]
KeepsContract == Contract!Spec

\* Every object is handled in the end; a deletion ends once the lock is removed, also
\* when a call that was under way sets it again.
Converges ==
    /\ object.exists ~> Settled \/ object.deleting \/ ~object.exists
    /\ object.deleting ~> ~object.exists
=============================================================================
