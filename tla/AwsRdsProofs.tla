---------------------------- MODULE AwsRdsProofs ----------------------------
(***************************************************************************)
(* Theorems about AwsRds, for all versions, classes and specs, and every   *)
(* bound on what users, failures and the cloud do.                         *)
(***************************************************************************)
EXTENDS AwsRds, BackendLemmas

Working == {"read", "instance", "wait"}

\* The instance has accepted spec s.
Accepts(s) == Steady /\ instance.next.class = s.class /\ instance.next.version >= s.version

InstanceType ==
    /\ instance \in [status : Statuses, endpoint : BOOLEAN, now : SettingsType,
                     next : SettingsType]
    /\ seen \in Statuses

\* What is in force is what was accepted, when nothing is under way; the published password
\* is one the instance has accepted; a call that waits has been accepted, and so has the
\* spec of an object that is done; a deletion that saw no failure has left nothing.
InstanceInv ==
    /\ instance.status = "available" => instance.now = instance.next
    /\ published # 0 /\ Steady => instance.next.password = published
    /\ At("wait") => /\ Accepts(call.spec)
                     /\ instance.next.password = IF call.changed THEN password ELSE published
    /\ object.done /\ ~object.deleting =>
           /\ Accepts(object.spec) /\ instance.endpoint
           /\ published # 0 /\ instance.next.password = published
    /\ budget["fault"] = Budget["fault"]
       /\ (~object.exists \/ call.pc \in {"delete_secret", "release"}) => ~Steady

RdsInv == CallerInv(Working, Working) /\ InstanceType /\ InstanceInv

LEMMA ApartWorking == Apart(Working, Working)
BY DEF Apart, Working, Ends

LEMMA SpecFields ==
    ASSUME NEW s \in Specs
    PROVE  /\ s.version \in Versions /\ s.class \in Classes
           /\ Versions \subseteq Nat \ {0} /\ Classes \subseteq Nat \ {0}
BY RdsAssumption

LEMMA InitRds == Init => RdsInv
<1> SUFFICES ASSUME Init PROVE RdsInv
  OBVIOUS
<1>1. CallerInv(Working, Working)
  BY ApartWorking, CallerInitially DEF Init
<1>2. InstanceType
  BY DEF Init, InstanceType, NoInstance, Unset, Statuses, SettingsType
<1>3. InstanceInv
  BY <1>2 DEF Init, CallerInit, NoObject, NoCall, NoInstance, InstanceInv, Steady, At
<1> QED
  BY <1>1, <1>2, <1>3 DEF RdsInv

\* The steps after which the instance and what the call has read are as before, and nothing
\* is published, accepted or finished that was not.
LEMMA InstanceStays ==
    ASSUME RdsInv, CallerInv(Working, Working)', Frugal, InstanceType',
           instance' = instance,
           published' \in {0, published},
           object'.done /\ ~object'.deleting =>
               object' = object /\ published' = published,
           call'.pc = "wait" => call' = call /\ UNCHANGED <<password, published>>,
           ~object'.exists \/ call'.pc \in {"delete_secret", "release"} =>
               \/ ~object.exists \/ call.pc \in {"delete_secret", "release"}
               \/ budget'["fault"] # Budget["fault"] \/ ~Steady
    PROVE  RdsInv'
<1>1. budget'["fault"] = Budget["fault"] => budget["fault"] = Budget["fault"]
  BY WholeBefore DEF RdsInv, Kinds
<1> QED
  BY <1>1 DEF RdsInv, InstanceInv, Accepts, Steady, At

\* Steps of the cloud.
LEMMA CloudKeeps ==
    ASSUME RdsInv, InstanceProgress \/ \E v \in Versions : MinorUpgrade(v)
    PROVE  RdsInv'
<1> USE DEF Elsewhere
<1>1. Versions \subseteq Nat \ {0}
  BY RdsAssumption
<1>2. budget \in [Kinds -> Nat]
  BY DEF RdsInv, CallerInv, CallerType
<1>3. Frugal /\ UNCHANGED <<resource, call, seen>>
  <2>1. CASE InstanceProgress
    BY <1>2, <2>1, KeepIsFrugal
       DEF InstanceProgress, EndpointAssigned, InstanceAvailable, InstanceGone
  <2>2. ASSUME NEW v \in Versions, MinorUpgrade(v) PROVE Frugal /\ UNCHANGED <<resource, call, seen>>
    BY <1>2, <2>2, SpendIsFrugal DEF MinorUpgrade, Kinds
  <2> QED
    BY <2>1, <2>2
<1>4. CallerInv(Working, Working)'
  BY <1>3, ApartWorking, CallerStays DEF RdsInv
<1>5. budget'["fault"] = Budget["fault"] => budget["fault"] = Budget["fault"]
  BY <1>3, WholeBefore DEF RdsInv, Kinds
<1>6. UNCHANGED <<object, password, published, call, seen>>
  BY <1>3 DEF resource
<1> USE DEF RdsInv, InstanceType, InstanceInv, Accepts, Steady, Statuses, SettingsType, At
<1>7. CASE EndpointAssigned
  BY <1>4, <1>5, <1>6, <1>7 DEF EndpointAssigned
<1>8. CASE InstanceAvailable
  BY <1>4, <1>5, <1>6, <1>8 DEF InstanceAvailable
<1>9. CASE InstanceGone
  BY <1>4, <1>5, <1>6, <1>9 DEF InstanceGone, NoInstance, Unset
<1>10. ASSUME NEW v \in Versions, MinorUpgrade(v) PROVE RdsInv'
  <2>1. /\ instance.status = "available" /\ v > instance.now.version
        /\ instance' = [instance EXCEPT !.status = "modifying",
                                        !.next = [instance.next EXCEPT !.version = v]]
    BY <1>10 DEF MinorUpgrade
  <2>2. InstanceType'
    BY <1>1, <1>6, <2>1
  <2>3. /\ instance'.next.class = instance.next.class /\ instance'.endpoint = instance.endpoint
        /\ instance'.next.password = instance.next.password
        /\ instance'.status = "modifying" /\ instance'.next.version = v
    BY <2>1
  <2>4. \A s \in Specs : Accepts(s) => Accepts(s)'
    BY <1>1, <2>1, <2>3, SpecFields
  <2>5. InstanceInv'
    BY <1>4, <1>5, <1>6, <2>1, <2>3, <2>4 DEF CallerInv, Working
  <2> QED
    BY <1>4, <2>2, <2>5
<1> QED
  BY <1>7, <1>8, <1>9, <1>10 DEF InstanceProgress

\* Calls that end without a result, in the operator and around it.
LEMMA BreaksKeep ==
    ASSUME RdsInv, call' = NoCall, UNCHANGED resource, Frugal,
           instance' = instance, seen' = "absent"
    PROVE  RdsInv'
<1>1. CallerInv(Working, Working)'
  BY ApartWorking, CallerBreaks DEF RdsInv
<1>2. InstanceType'
  BY DEF RdsInv, InstanceType, Statuses
<1>3. call'.pc = "idle" /\ UNCHANGED <<object, password, published>>
  BY DEF NoCall, resource
<1> QED
  BY <1>1, <1>2, <1>3, InstanceStays

LEMMA UsersKeep ==
    ASSUME RdsInv, User, UNCHANGED <<instance, seen>>
    PROVE  RdsInv'
<1>1. CallerInv(Working, Working)' /\ Frugal
  BY ApartWorking, UsersAct DEF RdsInv
<1>2. InstanceType'
  BY DEF RdsInv, InstanceType
<1>3. CallerInv(Working, Working)
  BY DEF RdsInv
<1>4. /\ published' \in {0, published}
      /\ object'.done /\ ~object'.deleting => object' = object /\ published' = published
      /\ call'.pc = "wait" => call' = call /\ UNCHANGED <<password, published>>
      /\ ~object'.exists \/ call'.pc \in {"delete_secret", "release"} =>
             ~object.exists \/ call.pc \in {"delete_secret", "release"}
  <2>1. ASSUME NEW s \in Specs, CreateObject(s) PROVE <1>4!:
    BY <1>3, <2>1 DEF CreateObject, NoObject, CallerInv, At
  <2>2. ASSUME NEW s \in Specs, EditSpec(s) PROVE <1>4!:
    BY <1>3, <2>2 DEF EditSpec, CallerInv, CallerType
  <2>3. CASE Reset
    BY <1>3, <2>3 DEF Reset, CallerInv, CallerType, At
  <2>4. CASE DeleteObject
    BY <1>3, <2>4 DEF DeleteObject, CallerInv, CallerType
  <2> QED
    BY <2>1, <2>2, <2>3, <2>4 DEF User
<1> QED
  BY <1>1, <1>2, <1>4, InstanceStays

\* The operator's own steps.
LEMMA OperatorKeeps ==
    ASSUME RdsInv, Operator
    PROVE  RdsInv'
<1>1. CallerInv(Working, Working) /\ InstanceType /\ InstanceInv /\ budget \in [Kinds -> Nat]
  BY DEF RdsInv, CallerInv, CallerType
<1>3. CASE Call
  <2>1. CallerInv(Working, Working)' /\ Frugal
    BY <1>1, <1>3, ApartWorking, CallerBegins, KeepIsFrugal DEF Call, Begin, Working
  <2>2. /\ call'.pc = "read" /\ UNCHANGED <<object, password, published, instance, seen>>
    BY <1>3 DEF Call, Begin, resource
  <2>3. InstanceType'
    BY <1>1, <2>2 DEF InstanceType
  <2> QED
    BY <1>1, <2>1, <2>2, <2>3, InstanceStays DEF CallerInv
<1>4. CASE ReadInstance
  <2>1. Frugal
    BY <1>1, <1>4, SpendIsFrugal, KeepIsFrugal DEF ReadInstance, get_server, MayFail, Kinds
  <2>2. CallerInv(Working, Working)'
    BY <1>1, <1>4, <2>1, ApartWorking, CallerSteps DEF ReadInstance, Working
  <2>3. /\ call'.pc = "instance" /\ UNCHANGED <<object, password, published, instance>>
        /\ seen' \in {instance.status, "absent"}
    BY <1>1, <1>4 DEF ReadInstance, get_server, Step, resource, CallerInv, CallerType
  <2>4. InstanceType'
    BY <1>1, <2>3 DEF InstanceType, Statuses
  <2> QED
    BY <1>1, <2>1, <2>2, <2>3, <2>4, InstanceStays DEF CallerInv
<1>5. CASE CreateInstance \/ ModifyInstance
  <2>1. Frugal /\ Step("instance", "wait")
    BY <1>1, <1>5, KeepIsFrugal DEF CreateInstance, ModifyInstance, Move
  <2>2. CallerInv(Working, Working)'
    BY <1>1, <2>1, ApartWorking, CallerSteps DEF Working
  <2>3. /\ call.pc = "instance" /\ call' = [call EXCEPT !.pc = "wait"]
        /\ UNCHANGED <<object, password, published, seen, budget>>
    BY <1>5, <2>1 DEF Step, At, resource, CreateInstance, ModifyInstance, Move
  <2>4. /\ call.spec \in Specs /\ ~object.done /\ object.exists
        /\ call.changed = (published = 0) /\ (published # 0 => published = password)
        /\ password \in Nat
    BY <1>1, <2>3 DEF CallerInv, CallerType, Working, At
  <2>5. /\ call'.pc = "wait" /\ call'.spec = call.spec /\ call'.changed = call.changed
    BY <1>1, <2>3 DEF CallerInv, CallerType
  <2>6. CASE CreateInstance
    <3> DEFINE set == [version |-> call.spec.version, class |-> call.spec.class,
                       password |-> password]
    <3>1. instance' = [status |-> "creating", endpoint |-> FALSE, now |-> set, next |-> set]
      BY <2>6 DEF CreateInstance
    <3>2. set \in SettingsType
      BY <2>4, SpecFields DEF SettingsType
    <3>3. InstanceType'
      BY <1>1, <2>3, <3>1, <3>2 DEF InstanceType, Statuses
    <3>4. instance'.status = "creating" /\ instance'.next = set
      BY <3>1
    <3>5. call.spec.version >= call.spec.version
      BY <2>4, SpecFields
    <3>6. Accepts(call.spec)' /\ instance'.next.password = password
      BY <2>5, <3>4, <3>5 DEF Accepts, Steady
    <3>7. InstanceInv'
      BY <2>3, <2>4, <2>5, <3>4, <3>6 DEF InstanceInv, At
    <3> QED
      BY <2>2, <3>3, <3>7 DEF RdsInv
  <2>7. CASE ModifyInstance
    <3> DEFINE set == Modified(IF call.changed THEN password ELSE instance.now.password)
    <3>1. /\ instance.status = "available" /\ instance.now = instance.next
          /\ instance' = [instance EXCEPT !.status = "modifying", !.next = set]
      BY <1>1, <2>7 DEF ModifyInstance, Modifies, InstanceInv
    <3>2. set \in SettingsType /\ set.version = call.spec.version /\ set.class = call.spec.class
          /\ set.password = IF call.changed THEN password ELSE instance.now.password
      BY <1>1, <2>4, SpecFields DEF SettingsType, Modified, InstanceType
    <3>3. InstanceType'
      BY <1>1, <2>3, <3>1, <3>2 DEF InstanceType, Statuses
    <3>4. instance'.status = "modifying" /\ instance'.next = set
      BY <1>1, <3>1 DEF InstanceType
    <3>5. published # 0 => instance.now.password = published
      BY <1>1, <3>1 DEF InstanceInv, Steady
    <3>6. call.spec.version >= call.spec.version
      BY <2>4, SpecFields
    <3>7. Accepts(call.spec)'
      BY <2>5, <3>2, <3>4, <3>6 DEF Accepts, Steady
    <3>8. instance'.next.password = IF call.changed THEN password ELSE published
      BY <2>4, <3>2, <3>4, <3>5
    <3>9. InstanceInv'
      BY <2>3, <2>4, <2>5, <3>4, <3>7, <3>8 DEF InstanceInv, At
    <3> QED
      BY <2>2, <3>3, <3>9 DEF RdsInv
  <2> QED
    BY <1>5, <2>6, <2>7
<1>6. CASE InstanceNotAvailable \/ CloudRefuses
  <2>1. Fail
    BY <1>6 DEF InstanceNotAvailable, CloudRefuses
  <2> QED
    BY <1>1, <2>1, KeepIsFrugal, BreaksKeep DEF Fail, Raise
<1>7. CASE Return
  <2>1. CallerInv(Working, Working)' /\ Frugal
    BY <1>1, <1>7, ApartWorking, CallerFinishes, KeepIsFrugal DEF Return, Finish, Working
  <2>2. /\ call.pc = "wait" /\ call' = NoCall /\ instance.endpoint
        /\ published' = (IF call.changed THEN password ELSE published)
        /\ object' = [object EXCEPT !.done = (object.spec = call.spec)]
        /\ instance' = instance /\ seen' = "absent" /\ UNCHANGED <<password, budget>>
    BY <1>7 DEF Return, Finish, At
  <2>3. /\ object.exists /\ password # 0 /\ call.changed = (published = 0)
        /\ Accepts(call.spec)
        /\ instance.next.password = IF call.changed THEN password ELSE published
    BY <1>1, <2>2 DEF CallerInv, InstanceInv, At, Working
  <2>4. published' # 0 /\ instance.next.password = published'
    BY <2>2, <2>3
  <2>5. /\ object'.exists /\ object'.spec = object.spec
        /\ object'.done => object'.spec = call.spec
    BY <1>1, <2>2, <2>3 DEF CallerInv, CallerType
  <2>6. InstanceType'
    BY <1>1, <2>2 DEF InstanceType, Statuses
  <2>7. InstanceInv'
    BY <1>1, <2>2, <2>3, <2>4, <2>5 DEF InstanceInv, Accepts, Steady, At, NoCall
  <2> QED
    BY <2>1, <2>6, <2>7 DEF RdsInv
<1>8. CASE FindServer
  <2>1. PICK s \in {instance.status, "absent"} : get_server(s) /\ BeginDelete(s # "absent")
    BY <1>8 DEF FindServer
  <2>2. Frugal
    BY <1>1, <2>1, SpendIsFrugal, KeepIsFrugal DEF get_server, MayFail, Kinds
  <2>3. CallerInv(Working, Working)'
    BY <1>1, <2>1, <2>2, ApartWorking, CallerFinds
  <2>4. /\ call'.pc = (IF s # "absent" THEN "delete" ELSE "delete_secret")
        /\ UNCHANGED <<object, password, published, instance, seen>> /\ object.exists
    BY <1>8, <2>1 DEF FindServer, BeginDelete, NoCall, resource
  <2>5. s = "absent" => budget'["fault"] # Budget["fault"] \/ ~Steady
    <3>1. CASE s = instance.status
      BY <3>1 DEF Steady
    <3>2. CASE s # instance.status
      BY <1>1, <2>1, <3>2, SpentIsNotWhole DEF get_server, MayFail, Kinds
    <3> QED
      BY <3>1, <3>2
  <2>6. InstanceType'
    BY <1>1, <2>4 DEF InstanceType
  <2> QED
    BY <1>1, <2>2, <2>3, <2>4, <2>5, <2>6, InstanceStays
<1>9. CASE DeleteInstance
  <2>1. Frugal /\ Step("delete", "delete_secret")
    BY <1>1, <1>9, KeepIsFrugal DEF DeleteInstance, Move
  <2>2. CallerInv(Working, Working)'
    BY <1>1, <2>1, ApartWorking, CallerSteps DEF Working, Ends
  <2>3. /\ call'.pc = "delete_secret" /\ UNCHANGED <<object, password, published, seen>>
        /\ instance' = [instance EXCEPT !.status = "deleting"] /\ object.deleting
    BY <1>1, <1>9, <2>1
       DEF Step, At, resource, DeleteInstance, CallerInv, CallerType, Working, Ends
  <2>4. InstanceType' /\ instance'.status = "deleting"
    BY <1>1, <2>3 DEF InstanceType, Statuses
  <2>5. InstanceInv'
    BY <1>1, <2>3, <2>4 DEF InstanceInv, Steady, At
  <2> QED
    BY <2>2, <2>4, <2>5 DEF RdsInv
<1>10. CASE EndDelete
  <2>1. CallerInv(Working, Working)' /\ Frugal
    BY <1>1, <1>10, ApartWorking, CallerEnds DEF EndDelete
  <2>2. instance' = instance /\ InstanceType'
    BY <1>1, <1>10 DEF EndDelete, InstanceType
  <2>3. CASE DeleteCredentials
    <3>1. /\ call.pc = "delete_secret" /\ call'.pc = "release"
          /\ object' = object /\ published' \in {0, published} /\ object.deleting
      BY <1>1, <2>3 DEF DeleteCredentials, At, CallerInv, CallerType, Ends
    <3> QED
      BY <1>1, <2>1, <2>2, <3>1, InstanceStays
  <2>4. CASE Release
    <3>1. /\ call.pc = "release" /\ call'.pc = "idle" /\ published' = published
          /\ ~object'.exists /\ ~object'.done
      BY <2>4 DEF Release, At, NoObject, NoCall
    <3> QED
      BY <1>1, <2>1, <2>2, <3>1, InstanceStays
  <2> QED
    BY <1>10, <2>3, <2>4 DEF EndDelete
<1> QED
  BY <1>3, <1>4, <1>5, <1>6, <1>7, <1>8, <1>9, <1>10 DEF Operator

LEMMA RdsStep == RdsInv /\ [Next]_vars => RdsInv'
<1> SUFFICES ASSUME RdsInv, [Next]_vars PROVE RdsInv'
  OBVIOUS
<1>0. budget \in [Kinds -> Nat]
  BY DEF RdsInv, CallerInv, CallerType
<1>1. CASE Operator
  BY <1>1, OperatorKeeps
<1>2. CASE TimedOut \/ Abort
  <2>1. /\ UNCHANGED resource /\ call' = NoCall /\ instance' = instance /\ seen' = "absent"
        /\ Frugal
    BY <1>0, <1>2, SpendIsFrugal DEF TimedOut, Abort, Break, Kinds
  <2> QED
    BY <2>1, BreaksKeep
<1>3. CASE InstanceProgress \/ \E v \in Versions : MinorUpgrade(v)
  BY <1>3, CloudKeeps
<1>4. CASE User /\ UNCHANGED <<instance, seen>>
  BY <1>4, UsersKeep
<1>5. CASE UNCHANGED vars
  BY <1>5 DEF vars, RdsInv, CallerInv, CallerType, InstanceType, InstanceInv, Accepts, Steady, At
<1> QED
  BY <1>1, <1>2, <1>3, <1>4, <1>5 DEF Next

\* The inductive invariant holds in every state; what follows are its consequences.
THEOREM RdsInvariant == Spec => []RdsInv
BY InitRds, RdsStep, PTL DEF Spec

\* Every variable has its type (TypeOK).
THEOREM TypeCorrect == Spec => []TypeOK
<1>1. RdsInv => TypeOK
  BY DEF RdsInv, CallerInv, InstanceType, TypeOK, Working
<1> QED
  BY <1>1, RdsInvariant, PTL

\* A finished object has an instance that accepted its spec and the published password,
\* whatever broke off, timed out, was upgraded or deleted before (aws_rds.py:65-121).
THEOREM FinishedAlwaysAccepted == Spec => []FinishedIsAccepted
<1>1. RdsInv => FinishedIsAccepted
  BY DEF RdsInv, InstanceInv, Accepts, FinishedIsAccepted, Settled
<1> QED
  BY <1>1, RdsInvariant, PTL

\* A deletion that saw no failure of a look at the cloud leaves no instance (aws_rds.py:39).
THEOREM NothingEverLeft == Spec => []NothingLeft
<1>1. RdsInv => NothingLeft
  BY DEF RdsInv, InstanceInv, NothingLeft
<1> QED
  BY <1>1, RdsInvariant, PTL
=============================================================================
