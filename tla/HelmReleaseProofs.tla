------------------------- MODULE HelmReleaseProofs -------------------------
(***************************************************************************)
(* Theorems about HelmRelease, for all specs, and every bound on what      *)
(* users and failures do.                                                  *)
(***************************************************************************)
EXTENDS HelmRelease, BackendLemmas

Working == {"upgrade", "wait", "return"}
Places  == Working \cup {"uninstall", "cleanup"}

\* The volumes the chart of the backend claims.
Claimed == IF backend = "helmbitnami" THEN {"data"} ELSE {"datadir-yb-master", "datadir-yb-tserver"}

HelmType ==
    /\ backend \in {"helmbitnami", "helmyugabyte"} /\ cleanup \in BOOLEAN
    /\ release \in [status : {"absent", "pending", "deployed", "failed"},
                    spec : Specs \cup {NoSpec}]
    /\ volumes \in [Names -> Nat] /\ claims \subseteq Names

Empty    == \A v \in Names : volumes[v] = 0
NoResets == budget["reset"] = Budget["reset"]

\* The release is what the call has come to, and what the spec of a finished object says.
ReleaseInv ==
    /\ release.status = "absent" => release = NoRelease
    /\ At("wait") => release = [status |-> "pending", spec |-> call.spec]
    /\ At("return") => release = [status |-> "deployed", spec |-> call.spec]
    /\ object.done /\ ~object.deleting =>
           release = [status |-> "deployed", spec |-> object.spec] /\ published # 0

\* As long as nothing broke off, a release is pending only while helm is at work, and the
\* volumes are there as long as the release, or until a deletion has come to them.
VolumesInv ==
    /\ \A v \in Names : volumes[v] # 0 => v \in Claimed
    /\ Undisturbed =>
           /\ release.status = "pending" => call.pc \in {"wait", "uninstall"}
           /\ ~object.exists \/ call.pc \in {"cleanup", "delete_secret", "release"} =>
                  release = NoRelease
           /\ cleanup /\ release = NoRelease =>
                  Empty \/ (At("cleanup") /\ \A v \in Names : volumes[v] # 0 => v \in claims)
           /\ cleanup /\ NoResets => \A v \in Names : volumes[v] \in {0, password}

HelmInv == CallerInv(Places, Working) /\ HelmType /\ ReleaseInv /\ VolumesInv

LEMMA ApartPlaces == Apart(Places, Working)
BY DEF Apart, Places, Working, Ends

LEMMA InitHelm == Init => HelmInv
<1> SUFFICES ASSUME Init PROVE HelmInv
  OBVIOUS
<1>1. CallerInv(Places, Working)
  BY ApartPlaces, CallerInitially DEF Init
<1>2. HelmType /\ Empty
  BY DEF Init, HelmType, NoRelease, Names, Empty
<1>3. ReleaseInv /\ VolumesInv
  BY <1>2 DEF Init, CallerInit, NoObject, NoCall, ReleaseInv, VolumesInv, NoRelease, Empty, At
<1> QED
  BY <1>1, <1>2, <1>3 DEF HelmInv

\* Nothing that is undisturbed now was disturbed before.
LEMMA UndisturbedBefore ==
    ASSUME HelmInv, Frugal
    PROVE  (Undisturbed' => Undisturbed) /\ (NoResets' => NoResets)
BY WholeBefore DEF HelmInv, Undisturbed, NoResets, Kinds

\* What broke off, or failed, is seen.
LEMMA DisturbedAfter ==
    ASSUME HelmInv, NEW k \in {"abort", "fault"}, Spend(k)
    PROVE  ~Undisturbed'
BY SpentIsNotWhole DEF HelmInv, Undisturbed, Kinds

\* The steps that leave release and volumes alone.
LEMMA ClusterStays ==
    ASSUME HelmInv, CallerInv(Places, Working)', Frugal, HelmType',
           UNCHANGED <<setup, cluster>>,
           call'.pc \in {"wait", "return"} => call' = call,
           object'.done /\ ~object'.deleting => object' = object /\ published' = published,
           password' = password \/ ~NoResets' \/ (cleanup /\ Undisturbed => Empty),
           Undisturbed' /\ call.pc \in {"wait", "uninstall"} => call'.pc = call.pc,
           ~object'.exists \/ call'.pc \in {"cleanup", "delete_secret", "release"} =>
               \/ ~object.exists \/ call.pc \in {"cleanup", "delete_secret", "release"}
               \/ Undisturbed' => release = NoRelease,
           Undisturbed' /\ At("cleanup") =>
               (call'.pc = "cleanup" /\ claims' = claims) \/ claims = {}
    PROVE  HelmInv'
<1>1. UNCHANGED <<backend, cleanup, release, volumes>>
  BY DEF setup, cluster
<1>2. ReleaseInv'
  BY <1>1 DEF HelmInv, ReleaseInv, At
<1>3. VolumesInv'
  BY <1>1, UndisturbedBefore DEF HelmInv, HelmType, VolumesInv, Claimed, Empty, At
<1> QED
  BY <1>2, <1>3 DEF HelmInv

LEMMA UsersKeep ==
    ASSUME HelmInv, User, UNCHANGED <<setup, cluster, claims>>
    PROVE  HelmInv'
<1>1. CallerInv(Places, Working)' /\ Frugal
  BY ApartPlaces, UsersAct DEF HelmInv
<1>2. HelmType'
  BY DEF HelmInv, HelmType, setup, cluster
<1>3. CallerInv(Places, Working)
  BY DEF HelmInv
<1>4. ~object.exists /\ cleanup /\ Undisturbed => Empty
  BY <1>3 DEF HelmInv, VolumesInv, CallerInv, At
<1>5. /\ call' = call
      /\ object'.done /\ ~object'.deleting => object' = object /\ published' = published
      /\ password' = password \/ ~NoResets' \/ (cleanup /\ Undisturbed => Empty)
      /\ ~object'.exists => ~object.exists
  <2>1. ASSUME NEW s \in Specs, CreateObject(s) PROVE <1>5!:
    BY <1>3, <1>4, <2>1 DEF CreateObject, NoObject, CallerInv, At
  <2>2. ASSUME NEW s \in Specs, EditSpec(s) PROVE <1>5!:
    BY <1>3, <2>2 DEF EditSpec, CallerInv, CallerType
  <2>3. CASE Reset
    <3>1. ~NoResets'
      BY <1>3, <2>3, SpentIsNotWhole DEF Reset, NoResets, Kinds
    <3> QED
      BY <1>3, <2>3, <3>1 DEF Reset, CallerInv, CallerType, At
  <2>4. CASE DeleteObject
    BY <1>3, <2>4 DEF DeleteObject, CallerInv, CallerType
  <2> QED
    BY <2>1, <2>2, <2>3, <2>4 DEF User
<1> QED
  BY <1>1, <1>2, <1>5, ClusterStays DEF At

\* An attempt breaks off, or is refused by helm.
LEMMA BreaksKeep ==
    ASSUME HelmInv, Frugal, call' = NoCall, UNCHANGED <<resource, setup, cluster>>,
           claims' \in {claims, {}},
           \/ ~Undisturbed'
           \/ call.pc \notin {"wait", "uninstall", "cleanup"}
    PROVE  HelmInv'
<1>1. CallerInv(Places, Working)'
  BY ApartPlaces, CallerBreaks DEF HelmInv
<1>2. HelmType'
  BY DEF HelmInv, HelmType, setup, cluster
<1>3. call'.pc = "idle" /\ UNCHANGED <<object, password, published>>
  BY DEF NoCall, resource
<1> QED
  BY <1>1, <1>2, <1>3, ClusterStays DEF At

LEMMA UpgradeKeeps ==
    ASSUME HelmInv, UpgradeBitnami \/ UpgradeYugabyte
    PROVE  HelmInv'
<1>1. CallerInv(Places, Working) /\ HelmType /\ VolumesInv /\ budget \in [Kinds -> Nat]
  BY DEF HelmInv, CallerInv, CallerType
<1>2. install_upgrade(Claimed)
  BY DEF UpgradeBitnami, UpgradeYugabyte, Claimed
<1>3. Frugal /\ Step("upgrade", "wait")
  BY <1>1, <1>2, KeepIsFrugal DEF install_upgrade, Move
<1>4. CallerInv(Places, Working)'
  BY <1>1, <1>3, ApartPlaces, CallerSteps DEF Places, Working
<1>5. /\ call.pc = "upgrade" /\ call'.pc = "wait" /\ call'.spec = call.spec
      /\ UNCHANGED <<object, password, published, backend, cleanup, claims>>
      /\ call.spec \in Specs /\ ~object.done /\ object.exists /\ password \in Nat
  BY <1>1, <1>2, <1>3
     DEF Step, At, resource, setup, install_upgrade, CallerInv, CallerType, Working
<1>6. /\ release' = [status |-> "pending", spec |-> call.spec]
      /\ \A v \in Names : volumes'[v] \in {volumes[v], IF v \in Claimed THEN password ELSE 0}
      /\ volumes' \in [Names -> Nat]
  BY <1>1, <1>2, <1>5 DEF install_upgrade, HelmType
<1>7. HelmType' /\ ReleaseInv'
  BY <1>1, <1>5, <1>6 DEF HelmType, ReleaseInv, NoRelease, At
<1>8. Claimed' = Claimed
  BY <1>5 DEF Claimed
<1>9. VolumesInv'
  BY <1>1, <1>3, <1>5, <1>6, <1>8, UndisturbedBefore DEF VolumesInv, NoRelease, At
<1> QED
  BY <1>4, <1>7, <1>9 DEF HelmInv

\* The upgrade comes to its end, with or without success.
LEMMA EndUpgradeKeeps ==
    ASSUME HelmInv, EndUpgrade \/ UpgradeFails
    PROVE  HelmInv'
<1>1. /\ CallerInv(Places, Working) /\ HelmType /\ ReleaseInv /\ VolumesInv
      /\ budget \in [Kinds -> Nat]
  BY DEF HelmInv, CallerInv, CallerType
<1>2. call.pc = "wait" /\ UNCHANGED <<object, password, published, backend, cleanup, volumes, claims>>
  BY DEF EndUpgrade, UpgradeFails, Move, Step, Break, At, resource, setup
<1>3. /\ release = [status |-> "pending", spec |-> call.spec]
      /\ call.spec \in Specs /\ ~object.done /\ object.exists
  BY <1>1, <1>2 DEF ReleaseInv, CallerInv, At, Working
<1>4. CASE EndUpgrade
  <2>1. Frugal /\ Step("wait", "return")
    BY <1>1, <1>4, KeepIsFrugal DEF EndUpgrade, Move
  <2>2. CallerInv(Places, Working)'
    BY <1>1, <2>1, ApartPlaces, CallerSteps DEF Places, Working
  <2>3. /\ call'.pc = "return" /\ call'.spec = call.spec
        /\ release' = [status |-> "deployed", spec |-> call.spec]
    BY <1>1, <1>3, <1>4, <2>1 DEF EndUpgrade, Step, CallerInv, CallerType
  <2>4. HelmType' /\ ReleaseInv'
    BY <1>1, <1>2, <1>3, <2>3 DEF HelmType, ReleaseInv, NoRelease, At
  <2>5. VolumesInv'
    BY <1>1, <1>2, <1>3, <2>1, <2>3, UndisturbedBefore DEF VolumesInv, NoRelease, Claimed, At
  <2> QED
    BY <2>2, <2>4, <2>5 DEF HelmInv
<1>5. CASE UpgradeFails
  <2>1. Frugal /\ call' = NoCall /\ UNCHANGED resource
    BY <1>1, <1>5, SpendIsFrugal DEF UpgradeFails, Break, Kinds
  <2>2. CallerInv(Places, Working)'
    BY <1>1, <2>1, ApartPlaces, CallerBreaks
  <2>3. call'.pc = "idle" /\ release' = [status |-> "failed", spec |-> call.spec]
    BY <1>3, <1>5, <2>1 DEF UpgradeFails, NoCall
  <2>4. HelmType' /\ ReleaseInv'
    BY <1>1, <1>2, <1>3, <2>3 DEF HelmType, ReleaseInv, NoRelease, At
  <2>5. VolumesInv'
    BY <1>1, <1>2, <1>3, <2>1, <2>3, UndisturbedBefore DEF VolumesInv, NoRelease, Claimed, At
  <2> QED
    BY <2>2, <2>4, <2>5 DEF HelmInv
<1> QED
  BY <1>4, <1>5

LEMMA ReturnKeeps ==
    ASSUME HelmInv, Return
    PROVE  HelmInv'
<1>1. /\ CallerInv(Places, Working) /\ HelmType /\ ReleaseInv /\ VolumesInv
      /\ budget \in [Kinds -> Nat]
  BY DEF HelmInv, CallerInv, CallerType
<1>2. CallerInv(Places, Working)' /\ Frugal
  BY <1>1, ApartPlaces, CallerFinishes, KeepIsFrugal DEF Return, Finish, Working
<1>3. /\ call.pc = "return" /\ call' = NoCall
      /\ published' = (IF call.changed THEN password ELSE published)
      /\ object' = [object EXCEPT !.done = (object.spec = call.spec)]
      /\ UNCHANGED <<password, budget, backend, cleanup, release, volumes, claims>>
  BY DEF Return, Finish, At, setup, cluster
<1>4. /\ object.exists /\ published' # 0
      /\ release = [status |-> "deployed", spec |-> call.spec]
  BY <1>1, <1>3 DEF CallerInv, ReleaseInv, At, Working
<1>5. /\ object'.exists /\ object'.spec = object.spec
      /\ object'.done => object'.spec = call.spec
  BY <1>1, <1>3, <1>4 DEF CallerInv, CallerType
<1>6. HelmType' /\ ReleaseInv'
  BY <1>1, <1>3, <1>4, <1>5 DEF HelmType, ReleaseInv, NoRelease, NoCall, At
<1>7. VolumesInv'
  BY <1>1, <1>2, <1>3, <1>4, <1>5, UndisturbedBefore
     DEF VolumesInv, NoRelease, NoResets, Empty, Claimed, NoCall, At
<1> QED
  BY <1>2, <1>6, <1>7 DEF HelmInv

LEMMA FindKeeps ==
    ASSUME HelmInv, FindServer
    PROVE  HelmInv'
<1>1. CallerInv(Places, Working) /\ HelmType /\ VolumesInv /\ budget \in [Kinds -> Nat]
  BY DEF HelmInv, CallerInv, CallerType
<1>2. PICK found \in BOOLEAN : check_installed(found) /\ BeginDelete(found)
  BY DEF FindServer
<1>3. Frugal
  BY <1>1, <1>2, SpendIsFrugal, KeepIsFrugal DEF check_installed, MayFail, Kinds
<1>4. CallerInv(Places, Working)'
  BY <1>1, <1>2, <1>3, ApartPlaces, CallerFinds
<1>5. /\ call.pc = "idle" /\ call'.pc = (IF found THEN "delete" ELSE "delete_secret")
      /\ UNCHANGED <<object, password, published>>
  BY <1>2 DEF BeginDelete, NoCall, resource, At
<1>6. ~found /\ Undisturbed' => release = NoRelease
  <2>1. ASSUME ~found, Undisturbed' PROVE release.status \notin {"deployed", "failed"}
    BY <1>1, <1>2, <2>1, DisturbedAfter DEF check_installed, MayFail
  <2>2. Undisturbed' => release.status # "pending"
    BY <1>1, <1>3, <1>5, UndisturbedBefore DEF VolumesInv
  <2> QED
    BY <1>1, <2>1, <2>2 DEF HelmInv, HelmType, ReleaseInv
<1>7. HelmType'
  BY <1>1 DEF FindServer, HelmType, setup, cluster
<1>8. UNCHANGED <<setup, cluster>>
  BY DEF FindServer
<1> QED
  BY <1>3, <1>4, <1>5, <1>6, <1>7, <1>8, ClusterStays DEF At

\* The release is being removed, and is gone.
LEMMA UninstallKeeps ==
    ASSUME HelmInv, uninstall \/ EndUninstallBitnami \/ EndUninstallYugabyte
    PROVE  HelmInv'
<1>1. /\ CallerInv(Places, Working) /\ HelmType /\ ReleaseInv /\ VolumesInv
      /\ budget \in [Kinds -> Nat]
  BY DEF HelmInv, CallerInv, CallerType
<1>2. CASE uninstall
  <2>1. Frugal /\ Step("delete", "uninstall")
    BY <1>1, <1>2, KeepIsFrugal DEF uninstall, Move
  <2>2. CallerInv(Places, Working)'
    BY <1>1, <2>1, ApartPlaces, CallerSteps DEF Places, Working, Ends
  <2>3. /\ call'.pc = "uninstall" /\ object.exists /\ object.deleting
        /\ UNCHANGED <<object, password, published, backend, cleanup, volumes, claims>>
        /\ release' = [release EXCEPT !.status = "pending"]
    BY <1>1, <1>2, <2>1 DEF uninstall, Step, At, resource, setup, CallerInv, CallerType, Ends
  <2>4. HelmType' /\ ReleaseInv' /\ release'.status = "pending"
    BY <1>1, <2>3 DEF HelmType, ReleaseInv, NoRelease, At
  <2>5. VolumesInv'
    BY <1>1, <2>1, <2>3, <2>4, UndisturbedBefore DEF VolumesInv, NoRelease, NoResets, Claimed, At
  <2> QED
    BY <2>2, <2>4, <2>5 DEF HelmInv
<1>3. CASE EndUninstallBitnami \/ EndUninstallYugabyte
  <2>1. Uninstalled(ListClaims(Claimed))
    BY <1>1, <1>3 DEF HelmType, EndUninstallBitnami, EndUninstallYugabyte, Claimed
  <2>2. Frugal /\ Step("uninstall", "cleanup")
    BY <1>1, <2>1, KeepIsFrugal DEF Uninstalled, Move
  <2>3. CallerInv(Places, Working)'
    BY <1>1, <2>2, ApartPlaces, CallerSteps DEF Places, Working, Ends
  <2>4. /\ call'.pc = "cleanup" /\ object.exists /\ object.deleting
        /\ UNCHANGED <<object, password, published, backend, cleanup, volumes>>
        /\ release' = NoRelease
        /\ claims' = IF cleanup THEN {v \in Claimed : volumes[v] # 0} ELSE {}
    BY <1>1, <2>1, <2>2
       DEF Uninstalled, ListClaims, Step, At, resource, setup, CallerInv, CallerType, Places, Working
  <2>5. HelmType' /\ ReleaseInv'
    BY <1>1, <2>4 DEF HelmType, ReleaseInv, NoRelease, Claimed, Names, At
  <2>6. VolumesInv'
    BY <1>1, <2>2, <2>4, UndisturbedBefore DEF VolumesInv, NoRelease, NoResets, Claimed, At
  <2> QED
    BY <2>3, <2>5, <2>6 DEF HelmInv
<1> QED
  BY <1>2, <1>3

LEMMA CleanupKeeps ==
    ASSUME HelmInv, NEW v \in Names, delete_pvc(v)
    PROVE  HelmInv'
<1>1. /\ CallerInv(Places, Working) /\ HelmType /\ ReleaseInv /\ VolumesInv
      /\ budget \in [Kinds -> Nat]
  BY DEF HelmInv, CallerInv, CallerType
<1>2. Frugal /\ Step("cleanup", "cleanup")
  BY <1>1, SpendIsFrugal, KeepIsFrugal DEF delete_pvc, MayFail, Kinds
<1>3. CallerInv(Places, Working)'
  BY <1>1, <1>2, ApartPlaces, CallerSteps DEF Places, Working, Ends
<1>4. /\ call.pc = "cleanup" /\ call'.pc = "cleanup" /\ object.exists /\ object.deleting
      /\ UNCHANGED <<object, password, published, backend, cleanup, release>>
      /\ claims' = claims \ {v}
      /\ volumes' = [volumes EXCEPT ![v] = 0] \/ (volumes' = volumes /\ ~Undisturbed')
  BY <1>1, <1>2, DisturbedAfter
     DEF delete_pvc, MayFail, Step, At, resource, setup, CallerInv, CallerType, Places, Working
<1>5. HelmType' /\ ReleaseInv'
  BY <1>1, <1>4 DEF HelmType, ReleaseInv, NoRelease, At
<1>6. VolumesInv'
  BY <1>1, <1>2, <1>4, UndisturbedBefore
     DEF HelmType, VolumesInv, NoRelease, NoResets, Claimed, Empty, At
<1> QED
  BY <1>3, <1>5, <1>6 DEF HelmInv

LEMMA EndsKeep ==
    ASSUME HelmInv, Call \/ EndCleanup \/ EndDelete
    PROVE  HelmInv'
<1>1. CallerInv(Places, Working) /\ HelmType /\ VolumesInv /\ budget \in [Kinds -> Nat]
  BY DEF HelmInv, CallerInv, CallerType
<1>2. UNCHANGED <<setup, cluster>> /\ claims' = claims
  BY DEF Call, EndCleanup, EndDelete
<1>3. HelmType'
  BY <1>1, <1>2 DEF HelmType, setup, cluster
<1>4. CASE Call
  <2>1. CallerInv(Places, Working)' /\ Frugal
    BY <1>1, <1>4, ApartPlaces, CallerBegins, KeepIsFrugal DEF Call, Begin, Working
  <2>2. /\ call.pc = "idle" /\ call'.pc = "upgrade" /\ UNCHANGED <<object, password, published>>
    BY <1>4 DEF Call, Begin, At, resource
  <2> QED
    BY <1>1, <1>2, <1>3, <2>1, <2>2, ClusterStays DEF At, CallerInv
<1>5. CASE EndCleanup
  <2>1. Frugal /\ Step("cleanup", "delete_secret")
    BY <1>1, <1>5, KeepIsFrugal DEF EndCleanup, Move
  <2>2. CallerInv(Places, Working)'
    BY <1>1, <2>1, ApartPlaces, CallerSteps DEF Places, Working, Ends
  <2>3. /\ call.pc = "cleanup" /\ call'.pc = "delete_secret" /\ claims = {}
        /\ UNCHANGED <<object, password, published>>
    BY <1>1, <1>5, <2>1 DEF EndCleanup, Step, At, resource, CallerInv, CallerType
  <2> QED
    BY <1>1, <1>2, <1>3, <2>1, <2>2, <2>3, ClusterStays DEF At
<1>6. CASE EndDelete
  <2>1. CallerInv(Places, Working)' /\ Frugal
    BY <1>1, <1>6, ApartPlaces, CallerEnds DEF EndDelete
  <2>2. CASE DeleteCredentials
    <3>1. /\ call.pc = "delete_secret" /\ call'.pc = "release"
          /\ object' = object /\ password' = password /\ object.deleting
      BY <1>1, <2>2 DEF DeleteCredentials, At, CallerInv, CallerType, Ends
    <3> QED
      BY <1>1, <1>2, <1>3, <2>1, <3>1, ClusterStays DEF At
  <2>3. CASE Release
    <3>1. /\ call.pc = "release" /\ call'.pc = "idle" /\ password' = password
          /\ ~object'.exists /\ ~object'.done
      BY <2>3 DEF Release, At, NoObject, NoCall
    <3> QED
      BY <1>1, <1>2, <1>3, <2>1, <3>1, ClusterStays DEF At
  <2> QED
    BY <1>6, <2>2, <2>3 DEF EndDelete
<1> QED
  BY <1>4, <1>5, <1>6

LEMMA HelmStep == HelmInv /\ [Next]_vars => HelmInv'
<1> SUFFICES ASSUME HelmInv, [Next]_vars PROVE HelmInv'
  OBVIOUS
<1>0. budget \in [Kinds -> Nat]
  BY DEF HelmInv, CallerInv, CallerType
<1>1. CASE Operator
  <2>1. CASE HelmRefuses
    <3>1. Frugal /\ call.pc \in {"upgrade", "delete"}
      BY <1>0, <2>1, KeepIsFrugal DEF HelmRefuses, Raise, At
    <3> QED
      BY <2>1, <3>1, BreaksKeep DEF HelmRefuses, Raise
  <2> QED
    BY <1>1, <2>1, UpgradeKeeps, EndUpgradeKeeps, ReturnKeeps, FindKeeps, UninstallKeeps,
       CleanupKeeps, EndsKeep DEF Operator
<1>2. CASE UpgradeFails
  BY <1>2, EndUpgradeKeeps
<1>3. CASE Abort
  <2>1. Frugal /\ ~Undisturbed'
    BY <1>0, <1>3, SpendIsFrugal, DisturbedAfter DEF Abort, Break, Kinds
  <2> QED
    BY <1>3, <2>1, BreaksKeep DEF Abort, Break
<1>4. CASE User /\ UNCHANGED <<setup, cluster, claims>>
  BY <1>4, UsersKeep
<1>5. CASE UNCHANGED vars
  BY <1>5 DEF vars, HelmInv, CallerInv, CallerType, HelmType, ReleaseInv, VolumesInv, Claimed,
     Empty, Undisturbed, NoResets, At
<1> QED
  BY <1>1, <1>2, <1>3, <1>4, <1>5 DEF Next

\* The inductive invariant holds in every state; what follows are its consequences.
THEOREM HelmInvariant == Spec => []HelmInv
BY InitHelm, HelmStep, PTL DEF Spec

\* Every variable has its type (TypeOK).
THEOREM TypeCorrect == Spec => []TypeOK
<1>1. HelmInv => TypeOK
  BY DEF HelmInv, CallerInv, HelmType, TypeOK, Places, Working
<1> QED
  BY <1>1, HelmInvariant, PTL

\* A finished object has a deployed release of its spec, and, after a clean history, volumes
\* that were initialised with the published password (helm_postgres.py:28-46).
THEOREM FinishedAlwaysUsable == Spec => []FinishedIsUsable
<1>1. HelmInv => FinishedIsUsable
  BY DEF HelmInv, CallerInv, ReleaseInv, VolumesInv, NoResets, FinishedIsUsable, Settled
<1> QED
  BY <1>1, HelmInvariant, PTL

\* A deletion that did not break off leaves neither release nor volumes (helm_postgres.py:56).
THEOREM NothingEverLeft == Spec => []NothingLeft
<1>1. HelmInv => NothingLeft
  BY DEF HelmInv, CallerInv, VolumesInv, NothingLeft, Empty, At
<1> QED
  BY <1>1, HelmInvariant, PTL
=============================================================================
