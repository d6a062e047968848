--------------------------- MODULE AwsAuroraProofs ---------------------------
(***************************************************************************)
(* Theorems about AwsAurora, for all versions, classes and specs, and      *)
(* every bound on what users, failures and the cloud do.                   *)
(***************************************************************************)
EXTENDS AwsAurora, BackendLemmas

Working == {"read_cluster", "read_primary", "cluster", "wait_endpoint", "wait_cluster",
            "primary", "wait_primary"}
Places  == Working \cup {"delete_cluster"}

CloudType ==
    /\ cluster \in ClusterType /\ primary \in InstanceType
    /\ seen \in [cluster : ClusterType, primary : InstanceType]

\* The password the cluster has once it is available.
Coming == IF cluster.status = "modifying" THEN cluster.next[2] ELSE cluster.password

\* Only a cluster that stays has a primary that stays, and only one with an endpoint becomes
\* available; the published password is the one of the cluster, also after a modification
\* that is under way; a call that waits has brought the password it is going to publish, and
\* a call past the cluster found it available; a deletion that saw no failure left nothing.
CloudInv ==
    /\ Steady(primary) => Steady(cluster)
    /\ cluster.status \in {"available", "modifying"} => cluster.endpoint
    /\ published # 0 => cluster.password \in {0, published}
    /\ published # 0 /\ Steady(cluster) => cluster.password = published /\ Coming = published
    /\ call.pc \in {"wait_endpoint", "wait_cluster", "primary", "wait_primary"} =>
           /\ Steady(cluster)
           /\ Coming = IF call.changed THEN password ELSE published
    /\ call.pc \in {"primary", "wait_primary"} => cluster.status = "available"
    /\ object.done /\ ~object.deleting =>
           /\ cluster.status = "available" /\ primary.status = "available"
           /\ published # 0
    /\ budget["fault"] = Budget["fault"]
       /\ (~object.exists \/ call.pc \in {"delete_secret", "release"}) =>
           ~Steady(cluster)

AuroraInv == CallerInv(Places, Working) /\ CloudType /\ CloudInv

LEMMA ApartPlaces == Apart(Places, Working)
BY DEF Apart, Places, Working, Ends

LEMMA SpecFields ==
    ASSUME NEW s \in Specs
    PROVE  s.version \in Versions /\ s.class \in Classes
BY AuroraAssumption

LEMMA NothingType ==
    /\ NoCluster \in ClusterType /\ NoInstance \in InstanceType
    /\ Nothing \in [cluster : ClusterType, primary : InstanceType]
BY DEF NoCluster, NoInstance, Nothing, ClusterType, InstanceType

LEMMA InitAurora == Init => AuroraInv
<1> SUFFICES ASSUME Init PROVE AuroraInv
  OBVIOUS
<1>1. CallerInv(Places, Working)
  BY ApartPlaces, CallerInitially DEF Init
<1>2. CloudType
  BY NothingType DEF Init, CloudType
<1>3. CloudInv
  BY DEF Init, CallerInit, NoObject, NoCall, NoCluster, NoInstance, CloudInv, Coming, Steady
<1> QED
  BY <1>1, <1>2, <1>3 DEF AuroraInv

\* The steps after which cluster and instance are as before, and nothing is published,
\* brought or finished that was not.
LEMMA CloudStays ==
    ASSUME AuroraInv, CallerInv(Places, Working)', Frugal, CloudType',
           UNCHANGED cloud,
           published' \in {0, published},
           object'.done /\ ~object'.deleting => object' = object /\ published' = published,
           call'.pc \in {"wait_endpoint", "wait_cluster", "primary", "wait_primary"} =>
               call' = call /\ UNCHANGED <<password, published>>,
           ~object'.exists \/ call'.pc \in {"delete_secret", "release"} =>
               \/ ~object.exists \/ call.pc \in {"delete_secret", "release"}
               \/ budget'["fault"] # Budget["fault"] \/ ~Steady(cluster)
    PROVE  AuroraInv'
<1>1. budget'["fault"] = Budget["fault"] => budget["fault"] = Budget["fault"]
  BY WholeBefore DEF AuroraInv, Kinds
<1>2. UNCHANGED <<cluster, primary>>
  BY DEF cloud
<1> QED
  BY <1>1, <1>2 DEF AuroraInv, CloudInv, Steady, Coming

\* Steps of the cloud.
LEMMA CloudKeeps ==
    ASSUME AuroraInv,
           \/ ClusterProgress \/ PrimaryProgress \/ MaintenanceWindow
           \/ \E v \in Versions : MinorUpgrade(v)
    PROVE  AuroraInv'
<1> USE DEF Elsewhere
<1>1. budget \in [Kinds -> Nat]
  BY DEF AuroraInv, CallerInv, CallerType
<1>2. Frugal /\ UNCHANGED <<resource, call, seen>>
  <2>1. CASE ClusterProgress \/ PrimaryProgress \/ MaintenanceWindow
    BY <1>1, <2>1, KeepIsFrugal
       DEF ClusterProgress, EndpointAssigned, ClusterAvailable, ClusterGone,
           PrimaryProgress, PrimaryAvailable, PrimaryGone, MaintenanceWindow
  <2>2. ASSUME NEW v \in Versions, MinorUpgrade(v)
        PROVE  Frugal /\ UNCHANGED <<resource, call, seen>>
    BY <1>1, <2>2, SpendIsFrugal DEF MinorUpgrade, Kinds
  <2> QED
    BY <2>1, <2>2
<1>3. CallerInv(Places, Working)'
  BY <1>2, ApartPlaces, CallerStays DEF AuroraInv
<1>4. budget'["fault"] = Budget["fault"] => budget["fault"] = Budget["fault"]
  BY <1>2, WholeBefore DEF AuroraInv, Kinds
<1>5. UNCHANGED <<object, password, published, call, seen>>
  BY <1>2 DEF resource
<1>6. CloudType /\ CloudInv
  BY DEF AuroraInv
<1> SUFFICES CloudType' /\ CloudInv'
  BY <1>3 DEF AuroraInv
<1> USE DEF CloudType, ClusterType, InstanceType
<1>7. CASE EndpointAssigned
  BY <1>4, <1>5, <1>6, <1>7 DEF EndpointAssigned, CloudInv, Steady, Coming
<1>8. CASE ClusterAvailable
  <2>1. CASE /\ cluster.status = "creating" /\ cluster.endpoint
             /\ cluster' = [cluster EXCEPT !.status = "available"]
    BY <1>4, <1>5, <1>6, <1>8, <2>1 DEF ClusterAvailable, CloudInv, Steady, Coming
  <2>2. CASE /\ cluster.status = "modifying"
             /\ cluster' = [cluster EXCEPT !.status = "available", !.version = cluster.next[1],
                                           !.password = cluster.next[2], !.next = <<0, 0>>]
    <3>1. /\ cluster'.status = "available" /\ cluster'.endpoint = cluster.endpoint
          /\ cluster'.password = cluster.next[2] /\ primary' = primary
      BY <1>6, <1>8, <2>2 DEF ClusterAvailable
    <3>2. CloudType'
      <4>1. cluster.next[1] \in Versions \cup {0} /\ cluster.next[2] \in Nat
        BY <1>6
      <4>2. cluster' = [status |-> "available", endpoint |-> cluster.endpoint,
                        version |-> cluster.next[1], password |-> cluster.next[2],
                        next |-> <<0, 0>>]
        BY <1>6, <2>2
      <4>3. cluster' \in ClusterType
        BY <1>6, <4>1, <4>2
      <4> QED
        BY <1>5, <1>6, <3>1, <4>3
    <3>3. Steady(cluster) /\ Steady(cluster)' /\ Steady(primary)' = Steady(primary)
          /\ Coming' = Coming /\ Coming = cluster'.password
      BY <2>2, <3>1 DEF Steady, Coming
    <3>4. CloudInv'
      BY <1>4, <1>5, <1>6, <2>2, <3>1, <3>3 DEF CloudInv
    <3> QED
      BY <3>2, <3>4
  <2> QED
    BY <1>8, <2>1, <2>2 DEF ClusterAvailable
<1>9. CASE ClusterGone
  <2>1. /\ cluster' = NoCluster /\ cluster.status = "deleting" /\ primary' = primary
        /\ primary = NoInstance
    BY <1>9 DEF ClusterGone
  <2>2. CloudType'
    BY <1>5, <1>6, <2>1, NothingType
  <2>3. CloudInv'
    BY <1>4, <1>5, <1>6, <2>1 DEF CloudInv, Steady, Coming, NoCluster, NoInstance
  <2> QED
    BY <2>2, <2>3
<1>10. CASE PrimaryAvailable
  BY <1>4, <1>5, <1>6, <1>10 DEF PrimaryAvailable, CloudInv, Steady, Coming
<1>11. CASE PrimaryGone
  <2>1. primary' = NoInstance /\ primary.status = "deleting" /\ cluster' = cluster
    BY <1>11 DEF PrimaryGone
  <2>2. CloudType'
    BY <1>5, <1>6, <2>1, NothingType
  <2>3. CloudInv'
    BY <1>4, <1>5, <1>6, <2>1 DEF CloudInv, Steady, Coming, NoInstance
  <2> QED
    BY <2>2, <2>3
<1>12. CASE MaintenanceWindow
  BY <1>4, <1>5, <1>6, <1>12 DEF MaintenanceWindow, CloudInv, Steady, Coming
<1>13. ASSUME NEW v \in Versions, MinorUpgrade(v) PROVE CloudType' /\ CloudInv'
  BY <1>4, <1>5, <1>6, <1>13 DEF MinorUpgrade, CloudInv, Steady, Coming
<1> QED
  BY <1>7, <1>8, <1>9, <1>10, <1>11, <1>12, <1>13 DEF ClusterProgress, PrimaryProgress

\* Calls that end without a result, in the operator and around it.
LEMMA BreaksKeep ==
    ASSUME AuroraInv, call' = NoCall, UNCHANGED resource, Frugal, UNCHANGED cloud,
           seen' = Nothing
    PROVE  AuroraInv'
<1>1. CallerInv(Places, Working)'
  BY ApartPlaces, CallerBreaks DEF AuroraInv
<1>2. CloudType'
  BY NothingType DEF AuroraInv, CloudType, cloud
<1>3. call'.pc = "idle" /\ UNCHANGED <<object, password, published>>
  BY DEF NoCall, resource
<1> QED
  BY <1>1, <1>2, <1>3, CloudStays

LEMMA UsersKeep ==
    ASSUME AuroraInv, User, UNCHANGED <<cloud, seen>>
    PROVE  AuroraInv'
<1>1. CallerInv(Places, Working)' /\ Frugal
  BY ApartPlaces, UsersAct DEF AuroraInv
<1>2. CloudType'
  BY DEF AuroraInv, CloudType, cloud
<1>3. CallerInv(Places, Working)
  BY DEF AuroraInv
<1>4. /\ published' \in {0, published}
      /\ object'.done /\ ~object'.deleting => object' = object /\ published' = published
      /\ call'.pc \in {"wait_endpoint", "wait_cluster", "primary", "wait_primary"} =>
             call' = call /\ UNCHANGED <<password, published>>
      /\ ~object'.exists \/ call'.pc \in {"delete_secret", "release"} =>
             ~object.exists \/ call.pc \in {"delete_secret", "release"}
  <2>1. ASSUME NEW s \in Specs, CreateObject(s) PROVE <1>4!:
    BY <1>3, <2>1 DEF CreateObject, NoObject, CallerInv, At
  <2>2. ASSUME NEW s \in Specs, EditSpec(s) PROVE <1>4!:
    BY <1>3, <2>2 DEF EditSpec, CallerInv, CallerType
  <2>3. CASE Reset
    BY <1>3, <2>3 DEF Reset, CallerInv, CallerType, At
  <2>4. CASE DeleteObject
    BY <1>3, <2>4 DEF DeleteObject, CallerInv, CallerType
  <2> QED
    BY <2>1, <2>2, <2>3, <2>4 DEF User
<1> QED
  BY <1>1, <1>2, <1>4, CloudStays

\* The calls of create_or_update_server that bring something about or wait.
LEMMA WorkingKeeps ==
    ASSUME AuroraInv,
           \/ CreateCluster \/ ModifyCluster \/ WaitForEndpoint \/ WaitForCluster
           \/ CreatePrimary \/ UpdatePrimary \/ PrimaryUpToDate
    PROVE  AuroraInv'
<1> DEFINE Waits == {"wait_endpoint", "wait_cluster", "primary", "wait_primary"}
<1>1. CallerInv(Places, Working) /\ CloudType /\ CloudInv /\ budget \in [Kinds -> Nat]
  BY DEF AuroraInv, CallerInv, CallerType
<1>2. PICK from \in Working, next \in Waits :
          Step(from, next) /\ UNCHANGED <<budget, seen>>
  BY DEF CreateCluster, ModifyCluster, WaitForEndpoint, WaitForCluster, CreatePrimary,
         UpdatePrimary, PrimaryUpToDate, Move, Working
<1>3. CallerInv(Places, Working)'
  <2>1. Frugal
    BY <1>1, <1>2, KeepIsFrugal
  <2> QED
    BY <1>1, <1>2, <2>1, ApartPlaces, CallerSteps DEF Places, Working
<1>4. /\ UNCHANGED <<object, password, published, seen, budget>>
      /\ call' = [call EXCEPT !.pc = next] /\ call.pc \in Working
  BY <1>2 DEF Step, At, resource
<1>5. call' \in [pc : Waits, spec : {call.spec}, changed : {call.changed}]
  BY <1>1, <1>4 DEF CallerInv, CallerType
<1>6. /\ object.exists /\ ~object.done /\ call.spec \in Specs /\ password \in Nat \ {0}
      /\ call.changed = (published = 0) /\ (published # 0 => published = password)
  BY <1>1, <1>4 DEF CallerInv, CallerType, At, Working
<1>7. call.spec.version \in Versions /\ call.spec.class \in Classes
  BY <1>6, SpecFields
<1> SUFFICES CloudType' /\ CloudInv'
  BY <1>3 DEF AuroraInv
<1>8. CASE CreateCluster
  <2>1. /\ cluster' = [NoCluster EXCEPT !.status = "creating", !.version = call.spec.version,
                                       !.password = password]
        /\ primary' = primary /\ cluster = NoCluster /\ call'.pc = "wait_endpoint"
    BY <1>4, <1>5, <1>8 DEF CreateCluster, Move, Step
  <2>2. /\ cluster' \in ClusterType /\ cluster'.status = "creating"
        /\ cluster'.password = password
    BY <1>6, <1>7, <2>1 DEF NoCluster, ClusterType
  <2>3. Coming' = password /\ Steady(cluster)' /\ ~Steady(cluster)
    BY <2>1, <2>2 DEF Coming, Steady, NoCluster
  <2> QED
    BY <1>1, <1>4, <1>5, <1>6, <2>1, <2>2, <2>3 DEF CloudType, CloudInv, Steady
<1>9. CASE ModifyCluster
  <2> DEFINE new == <<IF seen.cluster.version # call.spec.version THEN call.spec.version
                      ELSE cluster.version,
                      IF call.changed THEN password ELSE cluster.password>>
  <2>1. /\ cluster' = [cluster EXCEPT !.status = "modifying", !.next = new]
        /\ primary' = primary /\ cluster.status = "available" /\ call'.pc = "wait_endpoint"
    BY <1>4, <1>5, <1>9 DEF ModifyCluster, Move, Step
  <2>2. new \in (Versions \cup {0}) \X Nat
    BY <1>1, <1>6, <1>7 DEF CloudType, ClusterType
  <2>3. /\ cluster' \in ClusterType /\ cluster'.status = "modifying"
        /\ cluster'.next[2] = IF call.changed THEN password ELSE cluster.password
        /\ cluster'.password = cluster.password /\ cluster'.endpoint = cluster.endpoint
    BY <1>1, <2>1, <2>2 DEF CloudType, ClusterType
  <2>4. /\ Coming' = IF call.changed THEN password ELSE cluster.password
        /\ Steady(cluster)' /\ Steady(cluster)
    BY <2>1, <2>3 DEF Coming, Steady
  <2>5. published # 0 => cluster.password = published
    BY <1>1, <2>4 DEF CloudInv
  <2> QED
    BY <1>1, <1>4, <1>5, <1>6, <2>1, <2>3, <2>4, <2>5 DEF CloudType, CloudInv, Steady
<1>10. CASE WaitForEndpoint \/ WaitForCluster \/ PrimaryUpToDate
  <2>1. UNCHANGED <<cluster, primary>>
    BY <1>10 DEF WaitForEndpoint, WaitForCluster, PrimaryUpToDate, cloud
  <2>2. /\ call.pc \in Waits
        /\ call'.pc \in {"primary", "wait_primary"} => cluster.status = "available"
    BY <1>1, <1>4, <1>5, <1>10
       DEF WaitForEndpoint, WaitForCluster, PrimaryUpToDate, Move, Step, At, CloudInv
  <2> QED
    BY <1>1, <1>4, <1>5, <1>6, <2>1, <2>2 DEF CloudType, CloudInv, Steady, Coming
<1>11. CASE CreatePrimary
  <2>1. /\ primary' = [status |-> "creating", class |-> call.spec.class,
                       next |-> call.spec.class]
        /\ cluster' = cluster /\ Steady(cluster) /\ call.pc = "primary"
    BY <1>11 DEF CreatePrimary, Move, Step, At
  <2>2. primary' \in InstanceType
    BY <1>7, <2>1 DEF InstanceType
  <2> QED
    BY <1>1, <1>4, <1>5, <1>6, <2>1, <2>2 DEF CloudType, CloudInv, Steady, Coming
<1>12. CASE UpdatePrimary
  <2>1. /\ primary' = [primary EXCEPT !.next = call.spec.class]
        /\ cluster' = cluster /\ call.pc = "primary"
    BY <1>12 DEF UpdatePrimary, Move, Step, At
  <2>2. primary' \in InstanceType /\ primary'.status = primary.status
    BY <1>1, <1>7, <2>1 DEF InstanceType, CloudType
  <2> QED
    BY <1>1, <1>4, <1>5, <1>6, <2>1, <2>2 DEF CloudType, CloudInv, Steady, Coming
<1> QED
  BY <1>8, <1>9, <1>10, <1>11, <1>12

\* The steps of a deletion.
LEMMA DeletingKeeps ==
    ASSUME AuroraInv, FindServer \/ DeletePrimary \/ DeleteCluster \/ EndDelete
    PROVE  AuroraInv'
<1>1. CallerInv(Places, Working) /\ CloudType /\ CloudInv /\ budget \in [Kinds -> Nat]
  BY DEF AuroraInv, CallerInv, CallerType
<1>2. CASE FindServer
  <2>1. PICK c \in {cluster, NoCluster} : get_cluster(c) /\ BeginDelete(c # NoCluster)
    BY <1>2 DEF FindServer
  <2>2. Frugal
    BY <1>1, <2>1, SpendIsFrugal, KeepIsFrugal DEF get_cluster, MayFail, Kinds
  <2>3. CallerInv(Places, Working)'
    BY <1>1, <2>1, <2>2, ApartPlaces, CallerFinds
  <2>4. /\ call'.pc = (IF c # NoCluster THEN "delete" ELSE "delete_secret")
        /\ UNCHANGED <<object, password, published>> /\ UNCHANGED <<cloud, seen>>
        /\ object.exists
    BY <1>2, <2>1 DEF FindServer, BeginDelete, NoCall, resource
  <2>5. c = NoCluster => budget'["fault"] # Budget["fault"] \/ ~Steady(cluster)
    <3>1. CASE c = cluster
      BY <3>1 DEF Steady, NoCluster
    <3>2. CASE c # cluster
      BY <1>1, <2>1, <3>2, SpentIsNotWhole DEF get_cluster, MayFail, Kinds
    <3> QED
      BY <3>1, <3>2
  <2>6. CloudType'
    BY <1>1, <2>4 DEF CloudType, cloud
  <2> QED
    BY <1>1, <2>2, <2>3, <2>4, <2>5, <2>6, CloudStays
<1>3. CASE DeletePrimary
  <2>1. Frugal /\ Step("delete", "delete_cluster")
    BY <1>1, <1>3, KeepIsFrugal DEF DeletePrimary, Move
  <2>2. CallerInv(Places, Working)'
    BY <1>1, <2>1, ApartPlaces, CallerSteps DEF Places, Working, Ends
  <2>3. /\ call'.pc = "delete_cluster" /\ object.exists /\ object.deleting
        /\ UNCHANGED <<object, password, published, seen, budget, cluster>>
        /\ primary' = [primary EXCEPT !.status = "deleting"]
    BY <1>1, <1>3, <2>1
       DEF Step, At, resource, DeletePrimary, Move, CallerInv, CallerType, Ends
  <2>4. primary' \in InstanceType /\ primary'.status = "deleting"
    BY <1>1, <2>3 DEF CloudType, InstanceType
  <2>5. CloudInv'
    BY <1>1, <2>3, <2>4 DEF CloudInv, Steady, Coming
  <2> QED
    BY <1>1, <2>2, <2>3, <2>4, <2>5 DEF AuroraInv, CloudType
<1>4. CASE DeleteCluster
  <2>1. Frugal /\ Step("delete_cluster", "delete_secret")
    BY <1>1, <1>4, KeepIsFrugal DEF DeleteCluster, Move
  <2>2. CallerInv(Places, Working)'
    BY <1>1, <2>1, ApartPlaces, CallerSteps DEF Places, Working, Ends
  <2>3. /\ call'.pc = "delete_secret" /\ object.deleting /\ ~Steady(primary)
        /\ UNCHANGED <<object, password, published, seen, budget, primary>>
        /\ cluster' = [cluster EXCEPT !.status = "deleting"]
    BY <1>1, <1>4, <2>1
       DEF Step, At, resource, DeleteCluster, Move, CallerInv, CallerType, Places, Working
  <2>4. /\ cluster' \in ClusterType /\ cluster'.status = "deleting"
        /\ cluster'.password = cluster.password
    BY <1>1, <2>3 DEF CloudType, ClusterType
  <2>5. CloudInv'
    BY <1>1, <2>3, <2>4 DEF CloudInv, Steady
  <2> QED
    BY <1>1, <2>2, <2>3, <2>4, <2>5 DEF AuroraInv, CloudType
<1>5. CASE EndDelete
  <2>1. CallerInv(Places, Working)' /\ Frugal
    BY <1>1, <1>5, ApartPlaces, CallerEnds DEF EndDelete
  <2>2. UNCHANGED cloud /\ CloudType'
    BY <1>1, <1>5 DEF EndDelete, CloudType, cloud
  <2>3. CASE DeleteCredentials
    <3>1. /\ call.pc = "delete_secret" /\ call'.pc = "release"
          /\ object' = object /\ published' \in {0, published} /\ object.deleting
      BY <1>1, <2>3 DEF DeleteCredentials, At, CallerInv, CallerType, Ends
    <3> QED
      BY <1>1, <2>1, <2>2, <3>1, CloudStays
  <2>4. CASE Release
    <3>1. /\ call.pc = "release" /\ call'.pc = "idle" /\ published' = published
          /\ ~object'.exists /\ ~object'.done
      BY <2>4 DEF Release, At, NoObject, NoCall
    <3> QED
      BY <1>1, <2>1, <2>2, <3>1, CloudStays
  <2> QED
    BY <1>5, <2>3, <2>4 DEF EndDelete
<1> QED
  BY <1>2, <1>3, <1>4, <1>5

\* The operator's own steps.
LEMMA OperatorKeeps ==
    ASSUME AuroraInv, Operator
    PROVE  AuroraInv'
<1>1. CallerInv(Places, Working) /\ CloudType /\ CloudInv /\ budget \in [Kinds -> Nat]
  BY DEF AuroraInv, CallerInv, CallerType
<1>2. CASE Call
  <2>1. CallerInv(Places, Working)' /\ Frugal
    BY <1>1, <1>2, ApartPlaces, CallerBegins, KeepIsFrugal DEF Call, Begin, Working
  <2>2. /\ call'.pc = "read_cluster" /\ UNCHANGED <<object, password, published>>
        /\ UNCHANGED <<cloud, seen>>
    BY <1>2 DEF Call, Begin, resource
  <2>3. CloudType'
    BY <1>1, <2>2 DEF CloudType, cloud
  <2> QED
    BY <1>1, <2>1, <2>2, <2>3, CloudStays DEF CallerInv
<1>3. CASE ReadCluster \/ ReadPrimary
  <2>1. PICK from \in {"read_cluster", "read_primary"}, next \in {"read_primary", "cluster"} :
            Step(from, next)
    BY <1>3 DEF ReadCluster, ReadPrimary
  <2>2. Frugal
    BY <1>1, <1>3, SpendIsFrugal, KeepIsFrugal
       DEF ReadCluster, ReadPrimary, get_cluster, get_server, MayFail, Kinds
  <2>3. CallerInv(Places, Working)'
    BY <1>1, <2>1, <2>2, ApartPlaces, CallerSteps DEF Places, Working
  <2>4. /\ call'.pc = next /\ UNCHANGED <<object, password, published>>
        /\ UNCHANGED cloud /\ object.exists
    BY <1>1, <1>3, <2>1
       DEF Step, At, resource, ReadCluster, ReadPrimary, CallerInv, CallerType
  <2>5. CloudType'
    BY <1>1, <1>3, <2>4, NothingType DEF CloudType, cloud, ReadCluster, ReadPrimary
  <2> QED
    BY <1>1, <2>2, <2>3, <2>4, <2>5, CloudStays
<1>4. CASE \/ CreateCluster \/ ModifyCluster \/ WaitForEndpoint \/ WaitForCluster
           \/ CreatePrimary \/ UpdatePrimary \/ PrimaryUpToDate
  BY <1>4, WorkingKeeps
<1>5. CASE \/ ClusterNotAvailable \/ CannotUpdateVersion \/ PrimaryNotReady
           \/ PrimaryLost \/ CloudRefuses
  <2>1. Fail
    BY <1>5 DEF ClusterNotAvailable, CannotUpdateVersion, PrimaryNotReady, PrimaryLost,
                CloudRefuses
  <2> QED
    BY <1>1, <2>1, KeepIsFrugal, BreaksKeep DEF Fail, Raise
<1>6. CASE Return
  <2>1. CallerInv(Places, Working)' /\ Frugal
    BY <1>1, <1>6, ApartPlaces, CallerFinishes, KeepIsFrugal DEF Return, Finish, Working
  <2>2. /\ call.pc = "wait_primary" /\ call' = NoCall /\ primary.status = "available"
        /\ published' = (IF call.changed THEN password ELSE published)
        /\ object' = [object EXCEPT !.done = (object.spec = call.spec)]
        /\ seen' = Nothing /\ UNCHANGED <<password, budget, cluster, primary>>
    BY <1>6 DEF Return, Finish, At, cloud
  <2>3. /\ object.exists /\ password # 0 /\ call.changed = (published = 0)
        /\ cluster.status = "available" /\ Coming = published' /\ Coming' = Coming
    BY <1>1, <2>2 DEF CallerInv, CloudInv, At, Working, Coming
  <2>4. cluster.password = published' /\ published' # 0
    BY <2>2, <2>3 DEF Coming
  <2>5. object'.exists /\ call'.pc = "idle"
    BY <1>1, <2>2, <2>3 DEF CallerInv, CallerType, NoCall
  <2>6. CloudType'
    BY <1>1, <2>2, NothingType DEF CloudType
  <2>7. CloudInv'
    BY <1>1, <2>2, <2>3, <2>4, <2>5 DEF CloudInv, Steady
  <2> QED
    BY <2>1, <2>6, <2>7 DEF AuroraInv
<1>7. CASE FindServer \/ DeletePrimary \/ DeleteCluster \/ EndDelete
  BY <1>7, DeletingKeeps
<1> QED
  BY <1>2, <1>3, <1>4, <1>5, <1>6, <1>7 DEF Operator

LEMMA AuroraStep == AuroraInv /\ [Next]_vars => AuroraInv'
<1> SUFFICES ASSUME AuroraInv, [Next]_vars PROVE AuroraInv'
  OBVIOUS
<1>0. budget \in [Kinds -> Nat]
  BY DEF AuroraInv, CallerInv, CallerType
<1>1. CASE Operator
  BY <1>1, OperatorKeeps
<1>2. CASE TimedOut \/ Abort
  <2>1. UNCHANGED resource /\ call' = NoCall /\ UNCHANGED cloud /\ seen' = Nothing /\ Frugal
    BY <1>0, <1>2, SpendIsFrugal DEF TimedOut, Abort, Break, Kinds
  <2> QED
    BY <2>1, BreaksKeep
<1>3. CASE \/ ClusterProgress \/ PrimaryProgress \/ MaintenanceWindow
           \/ \E v \in Versions : MinorUpgrade(v)
  BY <1>3, CloudKeeps
<1>4. CASE User /\ UNCHANGED <<cloud, seen>>
  BY <1>4, UsersKeep
<1>5. CASE UNCHANGED vars
  BY <1>5 DEF vars, AuroraInv, CallerInv, CallerType, CloudType, CloudInv, Steady, Coming, At
<1> QED
  BY <1>1, <1>2, <1>3, <1>4, <1>5 DEF Next

\* The inductive invariant holds in every state; what follows are its consequences.
THEOREM AuroraInvariant == Spec => []AuroraInv
BY InitAurora, AuroraStep, PTL DEF Spec

\* Every variable has its type (TypeOK).
THEOREM TypeCorrect == Spec => []TypeOK
<1>1. AuroraInv => TypeOK
  BY DEF AuroraInv, CallerInv, CallerType, CloudType, TypeOK, Places, Working
<1> QED
  BY <1>1, AuroraInvariant, PTL

\* A finished object has a cluster that serves through its primary with the published
\* password, whatever broke off, timed out, was missed or deleted before
\* (aws_aurora.py:127-193).
THEOREM FinishedAlwaysReady == Spec => []FinishedIsReady
<1>1. AuroraInv => FinishedIsReady
  BY DEF AuroraInv, CloudInv, FinishedIsReady, Settled, Coming, Steady
<1> QED
  BY <1>1, AuroraInvariant, PTL

\* A deletion that saw no failure of a look at the cloud leaves neither the cluster nor its
\* instance (aws_aurora.py:39-40, 195-214).
THEOREM NothingEverLeft == Spec => []NothingLeft
<1>1. AuroraInv => NothingLeft
  BY DEF AuroraInv, CloudInv, NothingLeft
<1> QED
  BY <1>1, AuroraInvariant, PTL
-----------------------------------------------------------------------------
(* The backend implements the credential contract. *)

live == [p \in {"cluster"} |-> cluster.password]

\* What a step may do to the password in force and to the published one.
LEMMA ContractSteps ==
    ASSUME \/ cluster'.password = cluster.password /\ published' \in {0, published}
           \/ /\ cluster'.password \in Nat /\ published \in {0, cluster'.password}
              /\ published' = published
           \/ cluster'.password = 0 /\ published' = published
           \/ /\ cluster'.password = cluster.password /\ cluster.password # 0
              /\ published' = cluster.password
    PROVE  [Contract!Next]_<<live, published>>
<1> USE DEF live
<1>1. CASE cluster'.password = cluster.password /\ published' \in {0, published}
  BY <1>1 DEF Contract!Next, Contract!Withdraw
<1>2. CASE /\ cluster'.password \in Nat /\ published \in {0, cluster'.password}
           /\ published' = published
  <2>1. Contract!Apply("cluster")
    BY <1>2 DEF Contract!Apply
  <2> QED
    BY <2>1 DEF Contract!Next
<1>3. CASE cluster'.password = 0 /\ published' = published
  <2>1. Contract!Remove("cluster")
    BY <1>3 DEF Contract!Remove
  <2> QED
    BY <2>1 DEF Contract!Next
<1>4. CASE /\ cluster'.password = cluster.password /\ cluster.password # 0
           /\ published' = cluster.password
  <2>1. Contract!Publish("cluster")
    BY <1>4 DEF Contract!Publish
  <2> QED
    BY <2>1 DEF Contract!Next
<1> QED
  BY <1>1, <1>2, <1>3, <1>4

LEMMA ContractStep ==
    ASSUME AuroraInv, [Next]_vars
    PROVE  [Contract!Next]_<<live, published>>
<1>1. CallerInv(Places, Working) /\ CloudType /\ CloudInv /\ AuroraInv'
  BY AuroraStep DEF AuroraInv
<1>2. CASE CreateCluster
  <2>1. /\ cluster'.password = password /\ published' = published /\ password \in Nat
        /\ published \in {0, password}
    BY <1>1, <1>2 DEF CreateCluster, Move, Step, resource, NoCluster, CallerInv, CallerType
  <2> QED
    BY <2>1, ContractSteps
<1>3. CASE ClusterAvailable
  <2>1. published' = published
    BY <1>3 DEF ClusterAvailable, Elsewhere, resource
  <2>2. cluster'.password \in Nat /\ published \in {0, cluster'.password}
    BY <1>1, <1>3, <2>1
       DEF ClusterAvailable, CloudType, ClusterType, AuroraInv, CloudInv, Steady
  <2> QED
    BY <2>1, <2>2, ContractSteps
<1>4. CASE ClusterGone
  <2>1. cluster'.password = 0 /\ published' = published
    BY <1>4 DEF ClusterGone, Elsewhere, resource, NoCluster
  <2> QED
    BY <2>1, ContractSteps
<1>5. CASE Return
  <2>1. /\ call.pc = "wait_primary" /\ cluster' = cluster
        /\ published' = IF call.changed THEN password ELSE published
    BY <1>5 DEF Return, Finish, At, cloud
  <2>2. /\ cluster.password = (IF call.changed THEN password ELSE published)
        /\ password # 0 /\ call.changed = (published = 0)
    BY <1>1, <2>1 DEF CloudInv, CallerInv, Coming, Working, At
  <2>3. cluster.password # 0 /\ published' = cluster.password
    BY <2>1, <2>2
  <2> QED
    BY <2>1, <2>3, ContractSteps
<1>6. CASE Call \/ ReadCluster \/ ReadPrimary \/ WaitForEndpoint \/ WaitForCluster
  <2>1. UNCHANGED <<cluster, published>>
    BY <1>6 DEF Call, Begin, ReadCluster, ReadPrimary, WaitForEndpoint, WaitForCluster, Move,
                Step, resource, cloud
  <2> QED
    BY <2>1, ContractSteps
<1>7. CASE \/ ClusterNotAvailable \/ CannotUpdateVersion \/ PrimaryNotReady \/ PrimaryLost
           \/ CloudRefuses \/ TimedOut \/ Abort
  <2>1. UNCHANGED <<cluster, published>>
    BY <1>7 DEF ClusterNotAvailable, CannotUpdateVersion, PrimaryNotReady, PrimaryLost,
                CloudRefuses, TimedOut, Abort, Fail, Raise, Break, resource, cloud
  <2> QED
    BY <2>1, ContractSteps
<1>8. CASE \/ ModifyCluster \/ CreatePrimary \/ UpdatePrimary \/ PrimaryUpToDate
           \/ DeletePrimary \/ DeleteCluster \/ FindServer
  <2>1. published' = published
    BY <1>8 DEF ModifyCluster, CreatePrimary, UpdatePrimary, PrimaryUpToDate, DeletePrimary,
                DeleteCluster, FindServer, BeginDelete, Move, Step, resource
  <2>2. cluster'.password = cluster.password
    BY <1>1, <1>8 DEF ModifyCluster, CreatePrimary, UpdatePrimary, PrimaryUpToDate,
                DeletePrimary, DeleteCluster, FindServer, cloud, CloudType, ClusterType
  <2> QED
    BY <2>1, <2>2, ContractSteps
<1>9. CASE EndDelete \/ (User /\ UNCHANGED <<cloud, seen>>)
  <2>1. cluster' = cluster /\ published' \in {0, published}
    BY <1>9 DEF EndDelete, DeleteCredentials, Release, User, CreateObject, EditSpec, Reset,
                DeleteObject, cloud
  <2> QED
    BY <2>1, ContractSteps
<1>10. CASE \/ EndpointAssigned \/ PrimaryProgress \/ MaintenanceWindow
            \/ \E v \in Versions : MinorUpgrade(v)
  <2>1. published' = published
    BY <1>10 DEF EndpointAssigned, PrimaryProgress, PrimaryAvailable, PrimaryGone,
                 MaintenanceWindow, MinorUpgrade, Elsewhere, resource
  <2>2. cluster'.password = cluster.password
    BY <1>1, <1>10 DEF EndpointAssigned, PrimaryProgress, PrimaryAvailable, PrimaryGone,
                 MaintenanceWindow, MinorUpgrade, CloudType, ClusterType
  <2> QED
    BY <2>1, <2>2, ContractSteps
<1>11. CASE UNCHANGED vars
  BY <1>11, ContractSteps DEF vars
<1> QED
  BY <1>2, <1>3, <1>4, <1>5, <1>6, <1>7, <1>8, <1>9, <1>10, <1>11
     DEF Next, Operator, ClusterProgress

\* The password of the cluster changes only while none is published, and the one that is
\* published is in force, however modifications, time-outs and crashes overlap
\* (aws_aurora.py:139-147).
THEOREM AuroraKeepsContract == Spec => KeepsContract
<1>1. Init => Contract!Init
  BY DEF Init, CallerInit, NoCluster, Contract!Init
<1>2. AuroraInv /\ [Next]_vars => [Contract!Next]_<<live, published>>
  BY ContractStep
<1> QED
  BY <1>1, <1>2, AuroraInvariant, PTL DEF Spec, KeepsContract, Contract!Spec, live
=============================================================================
