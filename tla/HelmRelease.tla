---------------------------- MODULE HelmRelease ----------------------------
(***************************************************************************)
(* backends/helm_postgres.py and backends/helm_yugabyte.py with            *)
(* util/helm.py: the helm release of one server and the volumes its chart  *)
(* claims.                                                                 *)
(*                                                                         *)
(* Helm and the charts are external (the Dockerfile has their versions): a *)
(* release whose upgrade or removal was killed stays pending, is not       *)
(* listed any more and is not upgraded any more; a volume outlives its     *)
(* release and keeps the password it was initialised with, whatever        *)
(* password a later upgrade passes.                                        *)
(***************************************************************************)
EXTENDS ServerCaller

ASSUME HelmAssumption == Faults \subseteq {"helm_list", "delete_pvc", "delete_secret"}

VARIABLES
    backend, \* which of the two
    cleanup, \* its option pvc_cleanup
    release, \* status of the release and the spec in its values
    volumes, \* the password each volume was initialised with, 0 if there is none
    claims   \* the volumes list_pvcs has found and the call has still to delete

vars    == <<object, password, published, call, budget, backend, cleanup, release, volumes,
             claims>>
setup   == <<backend, cleanup>>
cluster == <<release, volumes>>
-----------------------------------------------------------------------------
Names      == {"data", "datadir-yb-master", "datadir-yb-tserver"}
NoRelease  == [status |-> "absent", spec |-> NoSpec]

Init ==
    /\ CallerInit
    /\ backend \in {"helmbitnami", "helmyugabyte"} /\ cleanup \in BOOLEAN
    /\ release = NoRelease /\ volumes = [v \in Names |-> 0] /\ claims = {}

\* helm list, which shows what is deployed or failed; an error of it is a no.
check_installed(answer) ==
    \/ answer = (release.status \in {"deployed", "failed"}) /\ UNCHANGED budget
    \/ answer = FALSE /\ MayFail("helm_list")
-----------------------------------------------------------------------------
(* create_or_update_server *)

Call == Begin("upgrade") /\ UNCHANGED <<setup, cluster, claims>>

\* helm upgrade --install --wait, until it waits: the pods start on the volumes.
install_upgrade(pods) ==
    /\ Move("upgrade", "wait")
    /\ release.status # "pending"
    /\ release' = [status |-> "pending", spec |-> call.spec]
    /\ volumes' = [v \in Names |-> IF v \in pods /\ volumes[v] = 0 THEN password ELSE volumes[v]]
    /\ UNCHANGED <<setup, claims>>

\* Mistake: helm install, which takes no name that is in use.
UpgradeBitnami_InstallOnly ==
    backend = "helmbitnami" /\ release = NoRelease /\ install_upgrade({"data"})

UpgradeBitnami == backend = "helmbitnami" /\ install_upgrade({"data"})

UpgradeYugabyte ==
    backend = "helmyugabyte" /\ install_upgrade({"datadir-yb-master", "datadir-yb-tserver"})

EndUpgrade ==
    /\ Move("wait", "return")
    /\ release' = [release EXCEPT !.status = "deployed"]
    /\ UNCHANGED <<setup, volumes, claims>>

\* The pods are not ready in time: an exit status, and check_returncode raises.
UpgradeFails ==
    /\ At("wait")
    /\ Break("timeout")
    /\ release' = [release EXCEPT !.status = "failed"]
    /\ UNCHANGED <<setup, volumes, claims>>

Return == Finish("return") /\ UNCHANGED <<setup, cluster, claims>>
-----------------------------------------------------------------------------
(* server_exists and delete_server *)

\* Mistake: a release that failed does not count.
FindServer_DeployedOnly ==
    /\ BeginDelete(release.status = "deployed")
    /\ UNCHANGED <<budget, setup, cluster, claims>>

FindServer ==
    /\ \E found \in BOOLEAN : check_installed(found) /\ BeginDelete(found)
    /\ UNCHANGED <<setup, cluster, claims>>

uninstall ==
    /\ Move("delete", "uninstall")
    /\ release # NoRelease
    /\ release' = [release EXCEPT !.status = "pending"]
    /\ UNCHANGED <<setup, volumes, claims>>

\* list_pvcs: the volumes of this server in its namespace that match the pattern.
ListClaims(pattern) == claims' = IF cleanup THEN {v \in pattern : volumes[v] # 0} ELSE {}

Uninstalled(listed) ==
    /\ Move("uninstall", "cleanup")
    /\ release' = NoRelease
    /\ listed
    /\ UNCHANGED <<setup, volumes>>

\* Mistake: the option is read under another name.
EndUninstallBitnami_NoCleanup == backend = "helmbitnami" /\ Uninstalled(claims' = {})

EndUninstallBitnami == backend = "helmbitnami" /\ Uninstalled(ListClaims({"data"}))

EndUninstallYugabyte ==
    /\ backend = "helmyugabyte"
    /\ Uninstalled(ListClaims({"datadir-yb-master", "datadir-yb-tserver"}))

\* Any error is swallowed.
delete_pvc(v) ==
    /\ Step("cleanup", "cleanup")
    /\ v \in claims
    /\ claims' = claims \ {v}
    /\ \/ volumes' = [volumes EXCEPT ![v] = 0] /\ UNCHANGED budget
       \/ MayFail("delete_pvc") /\ UNCHANGED volumes
    /\ UNCHANGED <<setup, release>>

EndCleanup ==
    Move("cleanup", "delete_secret") /\ claims = {} /\ UNCHANGED <<setup, cluster, claims>>

EndDelete == (DeleteCredentials \/ Release) /\ UNCHANGED <<setup, cluster, claims>>

\* "another operation is in progress", "release: not found"
HelmRefuses ==
    /\ \/ At("upgrade") /\ release.status = "pending"
       \/ At("delete") /\ release = NoRelease
    /\ Raise
    /\ UNCHANGED <<setup, cluster, claims>>

\* A crash takes helm with it.
Abort == Break("abort") /\ claims' = {} /\ UNCHANGED <<setup, cluster>>
-----------------------------------------------------------------------------
Operator ==
    \/ Call \/ UpgradeBitnami \/ UpgradeYugabyte \/ EndUpgrade \/ Return
    \/ FindServer \/ uninstall \/ EndUninstallBitnami \/ EndUninstallYugabyte
    \/ (\E v \in Names : delete_pvc(v)) \/ EndCleanup \/ EndDelete
    \/ HelmRefuses

Next ==
    \/ Operator \/ UpgradeFails \/ Abort
    \/ User /\ UNCHANGED <<setup, cluster, claims>>

Spec == Init /\ [][Next]_vars

\* kopf calls again after every failure, and helm comes to an end.
FairSpec == Spec /\ WF_vars(Operator)
-----------------------------------------------------------------------------
(* Properties *)

\* The type invariant of the helm module.
TypeOK ==
    /\ CallerType({"upgrade", "wait", "return", "uninstall", "cleanup"})
    /\ backend \in {"helmbitnami", "helmyugabyte"} /\ cleanup \in BOOLEAN
    /\ release \in [status : {"absent", "pending", "deployed", "failed"},
                    spec : Specs \cup {NoSpec}]
    /\ volumes \in [Names -> Nat] /\ claims \subseteq Names

\* Nothing broke off and no error was swallowed so far.
Undisturbed == \A kind \in {"abort", "fault"} : budget[kind] = Budget[kind]

\* README.md:141: when the object is gone so are the release and, with pvc_cleanup, its
\* volumes - unless an attempt broke off: the next one does not find the release and
\* leaves the volumes alone (helm_postgres.py:56-60).
NothingLeft ==
    ~object.exists /\ Undisturbed =>
        release = NoRelease /\ (cleanup => \A v \in Names : volumes[v] = 0)

\* What the operator calls finished is deployed with the spec the user sees, after
\* upgrades that failed, were killed or met an edit (util/helm.py:19-23).  And the
\* published password is the one the volumes were initialised with, also when the server
\* was deleted and came back - if the volumes are cleaned up and no reset was asked for:
\* the charts do not change it (helm_postgres.py:28-46).
FinishedIsUsable ==
    Settled =>
        /\ release = [status |-> "deployed", spec |-> object.spec]
        /\ cleanup /\ Undisturbed /\ budget["reset"] = Budget["reset"] =>
               \A v \in Names : volumes[v] \in {0, published}

\* A release that nothing is at work on any more, and that helm will not upgrade.
Stuck == release.status = "pending" /\ call.pc \notin {"wait", "uninstall"}

\* Every object is handled in the end, unless its release is stuck, and every deletion
\* comes to an end (helm_postgres.py:56-60).
Converges ==
    /\ object.exists ~> Settled \/ object.deleting \/ ~object.exists \/ Stuck
    /\ object.deleting ~> ~object.exists
=============================================================================
