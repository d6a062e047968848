----------------------------- MODULE AwsAurora -----------------------------
(***************************************************************************)
(* backends/aws_aurora.py: create_or_update_server, server_exists and      *)
(* delete_server of one server, a cluster with one primary instance, with  *)
(* the clock of the cloud running on between any two calls.                *)
(*                                                                         *)
(* The cloud is external: a cluster and an instance take their time to be  *)
(* created, modified and deleted; a change of the master password is in    *)
(* force when the modification is over; a change of the instance class     *)
(* waits for the maintenance window, as it is not asked for immediately.   *)
(***************************************************************************)
EXTENDS ServerCaller

CONSTANTS
    Versions,           \* engine versions, numbers above 0
    Classes,            \* instance classes, numbers above 0
    DeletionProtection  \* the option deletion_protection

ASSUME AuroraAssumption ==
    /\ Versions \subseteq Nat \ {0} /\ Classes \subseteq Nat \ {0}
    /\ Specs \subseteq [version : Versions, class : Classes]
    /\ DeletionProtection \in BOOLEAN
    /\ Faults \subseteq {"describe_db_clusters", "describe_db_instances", "delete_secret"}

VARIABLES
    cluster, \* the cluster in the cloud
    primary, \* its primary instance
    seen     \* both, as the call in progress has read them

vars  == <<object, password, published, call, budget, cluster, primary, seen>>
cloud == <<cluster, primary>>
-----------------------------------------------------------------------------
NoCluster  == [status |-> "absent", endpoint |-> FALSE, version |-> 0, password |-> 0,
               next |-> <<0, 0>>]
NoInstance == [status |-> "absent", class |-> 0, next |-> 0]
Nothing    == [cluster |-> NoCluster, primary |-> NoInstance]

Init == CallerInit /\ cluster = NoCluster /\ primary = NoInstance /\ seen = Nothing

Steady(thing) == thing.status \notin {"absent", "deleting"}
Fail          == Raise /\ seen' = Nothing /\ UNCHANGED cloud

\* _get_cluster and _get_server answer None for every error.
get_cluster(answer) ==
    \/ answer = cluster /\ UNCHANGED budget
    \/ answer = NoCluster /\ MayFail("describe_db_clusters")
get_server(answer) ==
    \/ answer = primary /\ UNCHANGED budget
    \/ answer = NoInstance /\ MayFail("describe_db_instances")
-----------------------------------------------------------------------------
(* create_or_update_server *)

Call == Begin("read_cluster") /\ UNCHANGED <<cloud, seen>>

\* Mistake: no look at the cloud, every attempt begins with an empty one.
ReadCluster_Skipped == Move("read_cluster", "read_primary") /\ UNCHANGED <<cloud, seen>>

ReadCluster ==
    /\ Step("read_cluster", "read_primary")
    /\ \E c \in {cluster, NoCluster} : get_cluster(c) /\ seen' = [seen EXCEPT !.cluster = c]
    /\ UNCHANGED cloud

ReadPrimary ==
    /\ Step("read_primary", "cluster")
    /\ \E i \in {primary, NoInstance} : get_server(i) /\ seen' = [seen EXCEPT !.primary = i]
    /\ UNCHANGED cloud

CreateCluster ==
    /\ Move("cluster", "wait_endpoint")
    /\ seen.cluster = NoCluster
    /\ cluster = NoCluster
    /\ cluster' = [NoCluster EXCEPT !.status = "creating", !.version = call.spec.version,
                                    !.password = password]
    /\ UNCHANGED <<primary, seen>>

\* "Only modify if cluster is available": a TemporaryError.
ClusterNotAvailable ==
    /\ At("cluster")
    /\ seen.cluster.status \notin {"absent", "available"}
    /\ Fail

\* The state of the primary instance is looked up as "Status", which its
\* description does not have: with any primary a new version is refused.
VersionRefused ==
    seen.cluster.version # call.spec.version /\ seen.primary # NoInstance

CannotUpdateVersion ==
    /\ At("cluster")
    /\ seen.cluster.status = "available"
    /\ VersionRefused
    /\ Fail

ModifyCluster ==
    /\ Move("cluster", "wait_endpoint")
    /\ seen.cluster.status = "available"
    /\ ~VersionRefused
    /\ cluster.status = "available"
    /\ cluster' = [cluster EXCEPT
          !.status = "modifying",
          !.next = <<IF seen.cluster.version # call.spec.version THEN call.spec.version
                     ELSE cluster.version,
                     IF call.changed THEN password ELSE cluster.password>>]
    /\ UNCHANGED <<primary, seen>>

WaitForEndpoint ==
    Move("wait_endpoint", "wait_cluster") /\ cluster.endpoint /\ UNCHANGED <<cloud, seen>>

\* Mistake: the endpoint is taken for a sign that the cluster is available.
WaitForCluster_Skipped == Move("wait_cluster", "primary") /\ UNCHANGED <<cloud, seen>>

WaitForCluster ==
    /\ Move("wait_cluster", "primary")
    /\ cluster.status = "available"
    /\ UNCHANGED <<cloud, seen>>

\* Whether there is a primary was read before the cluster was waited for.
CreatePrimary ==
    /\ Move("primary", "wait_primary")
    /\ seen.primary = NoInstance
    /\ primary = NoInstance
    /\ Steady(cluster)
    /\ primary' = [status |-> "creating", class |-> call.spec.class, next |-> call.spec.class]
    /\ UNCHANGED <<cluster, seen>>

\* It is read again; without ApplyImmediately its class changes later.
UpdatePrimary ==
    /\ Move("primary", "wait_primary")
    /\ seen.primary # NoInstance
    /\ primary.class # call.spec.class
    /\ primary.status = "available"
    /\ primary' = [primary EXCEPT !.next = call.spec.class]
    /\ UNCHANGED <<cluster, seen>>

\* "Primary instance already up-to-date"
PrimaryUpToDate ==
    /\ Move("primary", "wait_primary")
    /\ seen.primary # NoInstance /\ primary # NoInstance
    /\ primary.class = call.spec.class
    /\ UNCHANGED <<cloud, seen>>

\* None has no get; an instance that is not available is a TemporaryError.
PrimaryNotReady ==
    /\ At("primary")
    /\ seen.primary # NoInstance
    /\ \/ primary = NoInstance
       \/ primary.class # call.spec.class /\ primary.status # "available"
    /\ Fail

\* Mistake: an answer to the last call is enough, the instance is not waited for.
Return_Early == Finish("wait_primary") /\ seen' = Nothing /\ UNCHANGED cloud

Return ==
    /\ Finish("wait_primary")
    /\ primary.status = "available"
    /\ seen' = Nothing
    /\ UNCHANGED cloud

\* Each of the three waits gives up after ten minutes.
TimedOut ==
    /\ \/ At("wait_endpoint") /\ ~cluster.endpoint
       \/ At("wait_cluster") /\ cluster.status # "available"
       \/ At("wait_primary") /\ primary.status # "available"
    /\ Break("timeout")
    /\ seen' = Nothing
    /\ UNCHANGED cloud

\* It always does on an instance that an earlier deletion took away meanwhile.
PrimaryLost == At("wait_primary") /\ ~Steady(primary) /\ Fail
-----------------------------------------------------------------------------
(* server_exists and delete_server *)

FindServer ==
    /\ \E c \in {cluster, NoCluster} : get_cluster(c) /\ BeginDelete(c # NoCluster)
    /\ UNCHANGED <<cloud, seen>>

\* "First delete primary instance"
DeletePrimary ==
    /\ Move("delete", "delete_cluster")
    /\ Steady(primary)
    /\ primary' = [primary EXCEPT !.status = "deleting"]
    /\ UNCHANGED <<cluster, seen>>

\* Mistake: the cluster is not deleted when its primary is.
DeleteCluster_Forgotten == Move("delete_cluster", "delete_secret") /\ UNCHANGED <<cloud, seen>>

\* "Then delete cluster"
DeleteCluster ==
    /\ Move("delete_cluster", "delete_secret")
    /\ ~DeletionProtection
    /\ Steady(cluster)
    /\ ~Steady(primary)
    /\ cluster' = [cluster EXCEPT !.status = "deleting"]
    /\ UNCHANGED <<primary, seen>>

EndDelete == (DeleteCredentials \/ Release) /\ UNCHANGED <<cloud, seen>>

\* What exists cannot be created, what is gone or busy not modified or deleted.
CloudRefuses ==
    /\ \/ At("cluster") /\ seen.cluster = NoCluster /\ cluster # NoCluster
       \/ At("cluster") /\ seen.cluster.status = "available" /\ cluster.status # "available"
       \/ At("primary") /\ seen.primary = NoInstance /\ (primary # NoInstance \/ ~Steady(cluster))
       \/ At("delete") /\ ~Steady(primary)
       \/ At("delete_cluster") /\ (DeletionProtection \/ ~Steady(cluster) \/ Steady(primary))
    /\ Fail

Abort == Break("abort") /\ seen' = Nothing /\ UNCHANGED cloud
-----------------------------------------------------------------------------
(* The cloud *)

Elsewhere == UNCHANGED <<resource, call, seen>>

EndpointAssigned ==
    /\ cluster.status = "creating" /\ ~cluster.endpoint
    /\ cluster' = [cluster EXCEPT !.endpoint = TRUE]
    /\ Elsewhere /\ UNCHANGED <<primary, budget>>

ClusterAvailable ==
    /\ \/ /\ cluster.status = "creating" /\ cluster.endpoint
          /\ cluster' = [cluster EXCEPT !.status = "available"]
       \/ /\ cluster.status = "modifying"
          /\ cluster' = [cluster EXCEPT !.status = "available", !.version = cluster.next[1],
                                        !.password = cluster.next[2], !.next = <<0, 0>>]
    /\ Elsewhere /\ UNCHANGED <<primary, budget>>

ClusterGone ==
    /\ cluster.status = "deleting" /\ primary = NoInstance
    /\ cluster' = NoCluster
    /\ Elsewhere /\ UNCHANGED <<primary, budget>>

PrimaryAvailable ==
    /\ primary.status = "creating"
    /\ primary' = [primary EXCEPT !.status = "available"]
    /\ Elsewhere /\ UNCHANGED <<cluster, budget>>

MaintenanceWindow ==
    /\ primary.status = "available" /\ primary.class # primary.next
    /\ primary' = [primary EXCEPT !.class = primary.next]
    /\ Elsewhere /\ UNCHANGED <<cluster, budget>>

PrimaryGone ==
    /\ primary.status = "deleting"
    /\ primary' = NoInstance
    /\ Elsewhere /\ UNCHANGED <<cluster, budget>>

\* AutoMinorVersionUpgrade
MinorUpgrade(v) ==
    /\ cluster.status = "available" /\ v > cluster.version
    /\ Spend("upgrade")
    /\ cluster' = [cluster EXCEPT !.version = v]
    /\ Elsewhere /\ UNCHANGED primary
-----------------------------------------------------------------------------
Operator ==
    \/ Call \/ ReadCluster \/ ReadPrimary
    \/ CreateCluster \/ ClusterNotAvailable \/ CannotUpdateVersion \/ ModifyCluster
    \/ WaitForEndpoint \/ WaitForCluster
    \/ CreatePrimary \/ UpdatePrimary \/ PrimaryUpToDate \/ PrimaryNotReady \/ Return
    \/ PrimaryLost
    \/ FindServer \/ DeletePrimary \/ DeleteCluster \/ EndDelete \/ CloudRefuses

ClusterProgress == EndpointAssigned \/ ClusterAvailable \/ ClusterGone
PrimaryProgress == PrimaryAvailable \/ PrimaryGone

Next ==
    \/ Operator \/ TimedOut \/ Abort
    \/ ClusterProgress \/ PrimaryProgress \/ MaintenanceWindow
    \/ \E v \in Versions : MinorUpgrade(v)
    \/ User /\ UNCHANGED <<cloud, seen>>

Spec == Init /\ [][Next]_vars

\* kopf calls again after every failure, and what the cloud has begun with the
\* cluster or the instance it finishes, whatever happens to the other.
FairSpec ==
    /\ Spec /\ WF_vars(Operator)
    /\ WF_vars(ClusterProgress) /\ WF_vars(PrimaryProgress) /\ WF_vars(MaintenanceWindow)
-----------------------------------------------------------------------------
(* Properties *)

ClusterType ==
    [status : {"absent", "creating", "available", "modifying", "deleting"}, endpoint : BOOLEAN,
     version : Versions \cup {0}, password : Nat, next : (Versions \cup {0}) \X Nat]
InstanceType ==
    [status : {"absent", "creating", "available", "deleting"},
     class : Classes \cup {0}, next : Classes \cup {0}]

\* The type invariant of the aurora module.
TypeOK ==
    /\ CallerType({"read_cluster", "read_primary", "cluster", "wait_endpoint", "wait_cluster",
                   "primary", "wait_primary", "delete_cluster"})
    /\ cluster \in ClusterType /\ primary \in InstanceType
    /\ seen \in [cluster : ClusterType, primary : InstanceType]

\* The backend keeps the credentials contract the handlers rely on: a password is
\* published when the modification that brings it is over, not when it is asked for
\* (aws_aurora.py:139-147), whatever fails or times out on the way.
Contract == INSTANCE CredentialContract WITH
    Places <- {"cluster"}, live <- [p \in {"cluster"} |-> cluster.password]
KeepsContract == Contract!Spec

\* What the operator calls finished is a cluster that serves through its primary
\* instance with the published password, also when attempts broke off between the
\* two, saw one of them as missing or met a deletion (aws_aurora.py:127-193).
FinishedIsReady ==
    Settled => /\ cluster.endpoint
               /\ cluster.status = "available" /\ primary.status = "available"
               /\ published # 0 /\ published = cluster.password

\* When the object is gone so are the instance and the cluster, or they are going -
\* unless an error was taken for a missing cluster (aws_aurora.py:39-40).
NothingLeft ==
    ~object.exists /\ budget["fault"] = Budget["fault"] => ~Steady(cluster) /\ ~Steady(primary)

\* Every object is handled in the end, with what its spec says by then, as long as
\* there is a primary instance of the version the spec asks for: another version is
\* refused for ever (VersionRefused), also after an automatic upgrade.  And every deletion
\* comes to an end (aws_aurora.py:197-209), unless the cluster has lost its instance, or
\* never had one: an attempt that deletes the instance first is refused.
Converges ==
    /\ object.exists ~> \/ Settled \/ object.deleting \/ ~object.exists
                        \/ cluster.version \notin {0, object.spec.version}
    /\ object.deleting ~> \/ ~object.exists
                          \/ At("idle") /\ Steady(cluster) /\ ~Steady(primary)
=============================================================================
