----------------------- MODULE PostgresqlServerProofs -----------------------
(***************************************************************************)
(* Theorems about PostgresqlServer, for every set of backends, secrets and *)
(* specs, and every bound on what users and failures do; and, in the last  *)
(* section, about what the backends make of a spec (ServerSpecs), which    *)
(* PostgresqlServer knows only as valid or not.                            *)
(***************************************************************************)
EXTENDS PostgresqlServer, ServerSpecs, FiniteSetTheorems, TLAPS

\* Shorthands of the module, expanded in every proof.
USE DEF Step, Quiet

\* Type correctness is not inductive alone: a running handler belongs to an
\* object, and the specs at hand are specs a user wrote.
TypeInv ==
    /\ TypeOK
    /\ object.exists => object.spec \in Specs
    /\ ~At("idle") => object.exists /\ handler.spec \in Specs

LEMMA NoSpecType ==
    /\ NoSpec \in SpecType
    /\ NoObject \in ObjectType
    /\ Idle \in HandlerType
    /\ NoRequest \in [password : Nat, leftover : Nat, first : BOOLEAN]
<1>1. NoSpec \in SpecType /\ NoLabel \in LabelType
  BY DEF SpecType, LabelType
<1>2. NoObject \in ObjectType
  BY <1>1 DEF NoObject, ObjectType
<1>3. Idle \in HandlerType
  BY <1>1 DEF Idle, HandlerType
<1> QED
  BY <1>1, <1>2, <1>3 DEF NoRequest

\* The names the handlers look up a backend by.
LEMMA BackendNameType ==
    ASSUME TypeInv, object.exists
    PROVE  backend_name(object) \in BackendNames
<1>1. {object.spec.backend, object.backend} \subseteq BackendNames \cup {Unset}
  BY ServerAssumption DEF TypeInv, TypeOK, ObjectType
<1>2. default_backend \in BackendNames
  BY ServerAssumption DEF TypeInv, TypeOK
<1> QED
  BY <1>1, <1>2 DEF backend_name

\* A handled object keeps its type and its spec.
LEMMA HandledType ==
    ASSUME NEW o \in ObjectType, NEW e \in [spec : SpecType, label : LabelType]
    PROVE  /\ Handled(o, e) \in ObjectType
           /\ Handled(o, e).exists = o.exists
           /\ Handled(o, e).spec = o.spec
BY DEF Handled, ObjectType

LEMMA SpendType ==
    ASSUME TypeOK, NEW k \in Kinds, Spend(k)
    PROVE  budget' \in [Kinds -> Nat]
BY DEF TypeOK, Spend

LEMMA TypeStep == TypeInv /\ [Next]_vars => TypeInv'
<1> SUFFICES ASSUME TypeInv, [Next]_vars PROVE TypeInv'
  OBVIOUS
<1> USE DEF TypeInv, TypeOK, world, user, At, Kinds
<1>1. CASE UNCHANGED vars
  BY <1>1 DEF vars
<1>2. CASE SkipControlLabel
  <2>1. Essence(object) \in [spec : SpecType, label : LabelType]
    BY DEF Essence, ObjectType
  <2> QED BY <1>2, <2>1, HandledType DEF SkipControlLabel
<1>3. CASE RejectSpec
  <2>1. Essence(object) \in [spec : SpecType, label : LabelType]
    BY DEF Essence, ObjectType
  <2>2. Handled(object, Essence(object)) \in ObjectType
    BY <2>1, HandledType
  <2>3. /\ object' \in ObjectType
        /\ object'.exists = object.exists
        /\ object'.spec = object.spec
    BY <1>3, <2>1, <2>2, HandledType DEF RejectSpec, ObjectType
  <2> QED BY <1>3, <2>3 DEF RejectSpec
<1>4. CASE BeginHandling
  <2>1. object.exists
    BY <1>4 DEF BeginHandling, NeedsHandling
  <2>2. handler' \in HandlerType /\ handler'.spec = object.spec
    BY <1>4, <2>1, BackendNameType, NoSpecType
       DEF BeginHandling, Begin, HandlerType, ObjectType, Idle
  <2>3. object' \in ObjectType /\ object'.spec = object.spec /\ object'.exists = object.exists
    BY <1>4 DEF BeginHandling, ObjectType
  <2> QED BY <1>4, <2>1, <2>2, <2>3 DEF BeginHandling
<1>5. CASE ReadCredentials
  <2>1. secrets[handler.spec.secret] \in Nat
    BY <1>5, ServerAssumption DEF ReadCredentials
  <2>2. handler' \in HandlerType /\ handler'.spec = handler.spec
    BY <1>5, <2>1 DEF ReadCredentials, Goto, HandlerType
  <2>3. budget' \in [Kinds -> Nat]
    BY <1>5 DEF ReadCredentials, MayFail, Spend
  <2> QED BY <1>5, <2>2, <2>3 DEF ReadCredentials
<1>6. CASE UseStoredPassword
  BY <1>6 DEF UseStoredPassword, StoredPassword, HandlerType
<1>7. CASE GeneratePassword
  <2>1. generated' \in Nat /\ tmp_secret' \in Nat
    BY <1>7 DEF GeneratePassword
  <2>2. handler' \in HandlerType /\ handler'.spec = handler.spec
    BY <1>7, <2>1 DEF GeneratePassword, HandlerType
  <2> QED BY <1>7, <2>1, <2>2 DEF GeneratePassword
<1>8. CASE NoCommand
  BY <1>8 DEF NoCommand, Goto, HandlerType
<1>9. CASE ResetWithdraw
  <2>1. generated' \in Nat
    BY <1>9 DEF ResetWithdraw
  <2>2. handler' \in HandlerType /\ handler'.spec = handler.spec
    BY <1>9, <2>1 DEF ResetWithdraw, HandlerType
  <2>3. secrets' \in [SecretNames -> Nat] /\ budget' \in [Kinds -> Nat]
    BY <1>9 DEF ResetWithdraw, delete_secret, MayFail, Spend
  <2> QED BY <1>9, <2>1, <2>2, <2>3 DEF ResetWithdraw
<1>10. CASE ResetStash
  BY <1>10 DEF ResetStash, HandlerType
<1>11. CASE SkipCommand
  BY <1>11 DEF SkipCommand, Goto, HandlerType
<1>12. CASE Unlabel
  BY <1>12 DEF Unlabel, Goto, HandlerType, ObjectType, LabelType
<1>13. CASE StatusWorking
  BY <1>13 DEF StatusWorking, Goto, HandlerType, ObjectType
<1>14. CASE ApplyServer
  BY <1>14, ServerAssumption DEF ApplyServer, Goto, HandlerType
<1>15. CASE Publish
  BY <1>15, ServerAssumption DEF Publish, create_or_update_secret, Goto, HandlerType
<1>16. CASE DropTmp
  BY <1>16 DEF DropTmp, Goto, MayFail, Spend, HandlerType
<1>17. CASE StatusFinished
  BY <1>17 DEF StatusFinished, Goto, HandlerType, ObjectType
<1>18. CASE Return
  <2>1. Essence(handler) \in [spec : SpecType, label : LabelType]
    BY DEF Essence, HandlerType
  <2> QED BY <1>18, <2>1, HandledType, NoSpecType DEF Return, Idle
<1>19. CASE BeginDelete
  BY <1>19, BackendNameType, NoSpecType DEF BeginDelete, Begin, Idle, HandlerType, ObjectType
<1>20. CASE DeleteServer
  BY <1>20 DEF DeleteServer, Goto, HandlerType
<1>21. CASE NoServerToDelete
  BY <1>21 DEF NoServerToDelete, Goto, MayFail, Spend, HandlerType
<1>22. CASE DeleteCredentials
  BY <1>22, ServerAssumption DEF DeleteCredentials, Goto, delete_secret, MayFail, Spend, HandlerType
<1>23. CASE Release
  <2>1. object' = NoObject /\ handler' = Idle
    BY <1>23 DEF Release
  <2>2. object' \in ObjectType /\ ~object'.exists /\ handler' \in HandlerType /\ handler'.pc = "idle"
    BY <2>1, NoSpecType DEF NoObject, Idle
  <2> QED BY <1>23, <2>2 DEF Release
<1>24. CASE Abort
  BY <1>24, NoSpecType DEF Abort, Spend, Idle
<1>25. CASE Restart
  BY <1>25, NoSpecType DEF Restart, Resumed, ObjectType, Spend, Idle
<1>26. ASSUME NEW s \in Specs, CreateObject(s) PROVE TypeInv'
  <2>1. object' \in ObjectType /\ object'.exists /\ object'.spec = s
    BY <1>26, NoSpecType DEF CreateObject, NoObject, ObjectType, SpecType
  <2>2. budget' \in [Kinds -> Nat]
    BY <1>26 DEF CreateObject, Spend
  <2> QED BY <1>26, <2>1, <2>2, NoSpecType DEF CreateObject
<1>27. ASSUME NEW s \in Specs, EditSpec(s) PROVE TypeInv'
  BY <1>27, NoSpecType, ServerAssumption DEF EditSpec, Spend, ObjectType, SpecType
<1>28. ASSUME NEW l \in Labels, SetLabel(l) PROVE TypeInv'
  BY <1>28, NoSpecType, ServerAssumption DEF SetLabel, NoLabelAtWork, Spend, NoRequest, ObjectType, LabelType
<1>29. ASSUME NEW n \in SecretNames, RemoveCredentials(n) PROVE TypeInv'
  BY <1>29, NoSpecType, ServerAssumption DEF RemoveCredentials, Spend
<1>30. CASE DeleteObject
  <2>1. object' \in ObjectType /\ object'.exists = object.exists /\ object'.spec = object.spec
    BY <1>30 DEF DeleteObject, ObjectType
  <2>2. budget' \in [Kinds -> Nat]
    BY <1>30 DEF DeleteObject, Spend
  <2> QED BY <1>30, <2>1, <2>2 DEF DeleteObject
<1> HIDE DEF TypeInv, TypeOK, world, user, At, Kinds
<1> QED
  BY <1>1, <1>2, <1>3, <1>4, <1>5, <1>6, <1>7, <1>8, <1>9, <1>10, <1>11, <1>12, <1>13, <1>14, <1>15, <1>16, <1>17, <1>18, <1>19, <1>20, <1>21, <1>22, <1>23, <1>24, <1>25, <1>26, <1>27, <1>28, <1>29, <1>30 DEF Next, Operator, User

LEMMA TypeInit == Init => TypeInv
<1> SUFFICES ASSUME Init PROVE TypeInv
  OBVIOUS
<1>1. object = NoObject /\ ~object.exists /\ handler = Idle /\ handler.pc = "idle"
  BY DEF Init, NoObject, Idle
<1> QED
  BY <1>1, NoSpecType, ServerAssumption DEF Init, TypeInv, TypeOK, At

\* Type correctness of the object, the handler, the secrets and the backends.
THEOREM TypeCorrect == Spec => []TypeOK
<1>1. TypeInv => TypeOK
  BY DEF TypeInv
<1> QED
  BY <1>1, TypeInit, TypeStep, PTL DEF Spec
-----------------------------------------------------------------------------
(* The failures that a budget counts *)

\* A step that does not give back what was spent.
LEMMA Thrift ==
    ASSUME TypeInv, [Next]_vars
    PROVE  \/ UNCHANGED budget
           \/ \E k \in Kinds : Spend(k)
<1>1. CASE UNCHANGED vars
  BY <1>1 DEF vars
<1>2. CASE Operator
  BY <1>2 DEF Operator, SkipControlLabel, RejectSpec, BeginHandling, ReadCredentials,
              UseStoredPassword, GeneratePassword, NoCommand, ResetWithdraw, ResetStash,
              SkipCommand, Unlabel, StatusWorking, ApplyServer, Publish, DropTmp,
              StatusFinished, Return, BeginDelete, DeleteServer, NoServerToDelete,
              DeleteCredentials, Release, delete_secret, MayFail, user, Kinds
<1>3. CASE Abort \/ Restart
  BY <1>3 DEF Abort, Restart, Kinds
<1>4. CASE User
  BY <1>4 DEF User, CreateObject, EditSpec, SetLabel, RemoveCredentials, DeleteObject, Kinds
<1> QED
  BY <1>1, <1>2, <1>3, <1>4 DEF Next

Thrifty == \A k \in Kinds : budget[k] <= Budget[k]

LEMMA ThriftStep ==
    ASSUME TypeInv, Thrifty, [Next]_vars
    PROVE  Thrifty'
<1>1. budget \in [Kinds -> Nat] /\ Budget \in [Kinds -> Nat]
  BY ServerAssumption DEF TypeInv, TypeOK
<1>2. ASSUME NEW k \in Kinds, Spend(k) PROVE Thrifty'
  BY <1>1, <1>2 DEF Spend, Thrifty
<1> QED
  BY <1>2, Thrift DEF Thrifty

\* What is whole after a step was whole before, and the step did not spend it.
LEMMA WholeBefore ==
    ASSUME TypeInv, Thrifty, [Next]_vars, NEW k \in Kinds, budget'[k] = Budget[k]
    PROVE  budget[k] = Budget[k] /\ ~Spend(k)
<1>1. budget \in [Kinds -> Nat] /\ Budget \in [Kinds -> Nat]
  BY ServerAssumption DEF TypeInv, TypeOK
<1>2. budget[k] <= Budget[k] /\ budget[k] \in Nat /\ Budget[k] \in Nat
  BY <1>1 DEF Thrifty
<1>3. ~Spend(k)
  BY <1>1, <1>2 DEF Spend
<1>4. ASSUME NEW l \in Kinds, Spend(l) PROVE budget'[k] = budget[k]
  BY <1>1, <1>3, <1>4 DEF Spend
<1> QED
  BY <1>3, <1>4, Thrift
-----------------------------------------------------------------------------
(* A server belongs to an existing object that is bound to its backend. *)

\* Users name backends the operator knows; the answer of server_exists is right.
KnownBackends == BackendNames = Backends
ReliableExists == "server_exists" \notin Faults

\* Between StatusWorking and the end the object is bound to the handler's backend;
\* before, it is bound to that one or to none.
BoundInv ==
    /\ handler.pc \in {"apply", "publish", "drop", "finish", "return"} =>
           object.backend = handler.backend
    /\ ~At("idle") =>
           handler.backend \in Backends /\ object.backend \in {Unset, handler.backend}

\* After the deletion nothing runs; what runs belongs to the object.
BackendInv ==
    /\ BoundInv
    /\ handler.pc \in {"delete_secret", "release"} => \A b \in Backends : live[b] = 0
    /\ \A b \in Backends : live[b] # 0 => object.exists /\ object.backend = b

\* The steps that leave the object's binding alone ...
Rebound ==
    /\ object'.exists = object.exists
    /\ object'.backend = object.backend

\* ... and the backends too.
Unbound == UNCHANGED live /\ Rebound

LEMMA BackendNameKnown ==
    ASSUME KnownBackends, TypeInv, object.exists
    PROVE  /\ backend_name(object) \in Backends
           /\ object.backend \in {Unset, backend_name(object)}
BY BackendNameType DEF KnownBackends, backend_name

\* Most actions begin, end or go on with nothing but the place of the handler.
LEMMA UnboundActions ==
    ASSUME TypeInv,
           \/ SkipControlLabel \/ RejectSpec \/ DeleteObject \/ Abort \/ Restart
           \/ \E s \in Specs : EditSpec(s)
           \/ \E l \in Labels : SetLabel(l)
           \/ \E n \in SecretNames : RemoveCredentials(n)
    PROVE  /\ Unbound
           /\ handler'.pc = "idle" \/ UNCHANGED handler
<1>1. Unbound
  BY DEF Unbound, Rebound, SkipControlLabel, RejectSpec, DeleteObject, Abort, Restart, EditSpec,
         SetLabel, RemoveCredentials, world, Handled, Resumed, TypeInv, TypeOK, ObjectType
<1>2. CASE SkipControlLabel \/ RejectSpec \/ DeleteObject
  BY <1>1, <1>2 DEF SkipControlLabel, RejectSpec, DeleteObject
<1>3. CASE Abort \/ Restart
  BY <1>1, <1>3 DEF Abort, Restart, Idle
<1>4. CASE \/ \E s \in Specs : EditSpec(s)
           \/ \E l \in Labels : SetLabel(l)
           \/ \E n \in SecretNames : RemoveCredentials(n)
  BY <1>1, <1>4 DEF EditSpec, SetLabel, RemoveCredentials
<1> QED
  BY <1>2, <1>3, <1>4

\* The handler of a spec, up to the status "working" and after the call of the backend.
LEMMA UnboundMoves ==
    ASSUME TypeInv,
           \/ ReadCredentials \/ UseStoredPassword \/ GeneratePassword \/ NoCommand
           \/ ResetWithdraw \/ ResetStash \/ SkipCommand \/ Unlabel \/ Publish \/ DropTmp
    PROVE  /\ Unbound
           /\ handler.pc \notin {"idle", "delete", "delete_secret", "release"}
           /\ handler'.pc \notin {"idle", "delete", "delete_secret", "release"}
           /\ handler'.backend = handler.backend
           /\ handler'.pc \in {"apply", "publish", "drop", "finish", "return"} =>
                  handler.pc \in {"apply", "publish", "drop", "finish", "return"}
<1> USE DEF At, TypeInv, TypeOK, HandlerType
<1>1. Unbound
  BY DEF Unbound, Rebound, ReadCredentials, UseStoredPassword, GeneratePassword, NoCommand,
         ResetWithdraw, ResetStash, SkipCommand, Unlabel, Publish, DropTmp, world, ObjectType
<1>2. CASE ReadCredentials \/ UseStoredPassword \/ GeneratePassword
  BY <1>1, <1>2 DEF ReadCredentials, UseStoredPassword, GeneratePassword, Goto
<1>3. CASE NoCommand \/ SkipCommand \/ Unlabel
  BY <1>1, <1>3 DEF NoCommand, SkipCommand, Unlabel, Goto
<1>4. CASE ResetWithdraw
  BY <1>1, <1>4 DEF ResetWithdraw
<1>5. CASE ResetStash
  BY <1>1, <1>5 DEF ResetStash
<1>6. CASE Publish \/ DropTmp
  BY <1>1, <1>6 DEF Publish, DropTmp, create_or_update_secret, Goto
<1> QED
  BY <1>2, <1>3, <1>4, <1>5, <1>6

LEMMA BoundStep == KnownBackends /\ TypeInv /\ BoundInv /\ [Next]_vars => BoundInv'
<1> SUFFICES ASSUME KnownBackends, TypeInv, BoundInv, [Next]_vars PROVE BoundInv'
  OBVIOUS
<1> USE DEF BoundInv, At
<1>1. CASE UNCHANGED vars
  BY <1>1 DEF vars
<1>2. CASE \/ SkipControlLabel \/ RejectSpec \/ DeleteObject \/ Abort \/ Restart
           \/ \E s \in Specs : EditSpec(s)
           \/ \E l \in Labels : SetLabel(l)
           \/ \E n \in SecretNames : RemoveCredentials(n)
  BY <1>2, UnboundActions DEF Unbound, Rebound
<1>3. CASE BeginHandling
  BY <1>3, BackendNameKnown
     DEF BeginHandling, Begin, Idle, NeedsHandling, world, TypeInv, TypeOK, ObjectType
<1>4. CASE BeginDelete
  BY <1>4, BackendNameKnown DEF BeginDelete, Begin, Idle, world
<1>5. CASE \/ ReadCredentials \/ UseStoredPassword \/ GeneratePassword \/ NoCommand
           \/ ResetWithdraw \/ ResetStash \/ SkipCommand \/ Unlabel \/ Publish \/ DropTmp
  BY <1>5, UnboundMoves DEF Unbound, Rebound
<1>6. CASE Return \/ Release
  BY <1>6 DEF Return, Release, Idle
<1>7. CASE StatusWorking \/ StatusFinished
  <2>1. /\ object'.backend = handler.backend
        /\ handler'.backend = handler.backend
        /\ ~At("idle")
    BY <1>7 DEF StatusWorking, StatusFinished, Goto, TypeInv, TypeOK, ObjectType, HandlerType
  <2> QED BY <2>1
<1>8. CASE ApplyServer \/ DeleteServer \/ NoServerToDelete \/ DeleteCredentials
  BY <1>8 DEF ApplyServer, DeleteServer, NoServerToDelete, DeleteCredentials, Goto, TypeInv,
              TypeOK, HandlerType
<1>9. CASE \E s \in Specs : CreateObject(s)
  BY <1>9 DEF CreateObject, TypeInv
<1> HIDE DEF BoundInv, At
<1> QED
  BY <1>1, <1>2, <1>3, <1>4, <1>5, <1>6, <1>7, <1>8, <1>9 DEF Next, Operator, User

\* Holds of every step in which server_exists answers what is the case.
LEMMA BackendStep ==
    ASSUME KnownBackends, TypeInv, BackendInv, [Next]_vars, ~MayFail("server_exists")
    PROVE  BackendInv'
<1>0. BoundInv /\ BoundInv'
  BY BoundStep DEF BackendInv
<1> SUFFICES /\ handler'.pc \in {"delete_secret", "release"} => \A b \in Backends : live'[b] = 0
             /\ \A b \in Backends : live'[b] # 0 => object'.exists /\ object'.backend = b
  BY <1>0 DEF BackendInv
<1> USE DEF At
<1>1. CASE UNCHANGED vars
  BY <1>1 DEF vars, BackendInv
<1>2. CASE \/ SkipControlLabel \/ RejectSpec \/ DeleteObject \/ Abort \/ Restart
           \/ \E s \in Specs : EditSpec(s)
           \/ \E l \in Labels : SetLabel(l)
           \/ \E n \in SecretNames : RemoveCredentials(n)
  BY <1>2, UnboundActions DEF Unbound, Rebound, BackendInv
<1>3. CASE BeginHandling
  BY <1>3 DEF BeginHandling, Begin, Idle, world, TypeInv, TypeOK, ObjectType, BackendInv
<1>4. CASE BeginDelete
  BY <1>4 DEF BeginDelete, Begin, Idle, world, BackendInv
<1>5. CASE \/ ReadCredentials \/ UseStoredPassword \/ GeneratePassword \/ NoCommand
           \/ ResetWithdraw \/ ResetStash \/ SkipCommand \/ Unlabel \/ Publish \/ DropTmp
  BY <1>5, UnboundMoves DEF Unbound, Rebound, BackendInv
<1>6. CASE Return
  <2>1. Unbound
    BY <1>6 DEF Unbound, Rebound, Return, Handled, world, TypeInv, TypeOK, ObjectType
  <2>2. handler'.pc = "idle"
    BY <1>6 DEF Return, Idle
  <2> QED BY <2>1, <2>2 DEF Unbound, Rebound, BackendInv
<1>7. CASE StatusWorking \/ StatusFinished
  <2>1. /\ UNCHANGED live
        /\ object'.exists = object.exists
        /\ object'.backend = handler.backend
        /\ handler'.pc \in {"apply", "return"}
        /\ ~At("idle")
    BY <1>7 DEF StatusWorking, StatusFinished, Goto, world, TypeInv, TypeOK, ObjectType, HandlerType
  <2>2. object.backend \in {Unset, handler.backend}
    BY <1>0, <2>1 DEF BoundInv
  <2> QED BY <2>1, <2>2, ServerAssumption DEF BackendInv
<1>8. CASE ApplyServer
  BY <1>0, <1>8 DEF ApplyServer, Goto, postgres_backend, TypeInv, TypeOK, HandlerType, BackendInv,
                    BoundInv
<1>9. CASE DeleteServer
  BY <1>0, <1>9, ServerAssumption
     DEF DeleteServer, Goto, postgres_backend, TypeInv, TypeOK, HandlerType, KnownBackends,
         BackendInv, BoundInv
<1>10. CASE NoServerToDelete \/ DeleteCredentials
  <2>1. Unbound
    BY <1>10 DEF Unbound, Rebound, NoServerToDelete, DeleteCredentials, world
  <2>2. \A b \in Backends : live[b] = 0
    BY <1>0, <1>10, ServerAssumption
       DEF NoServerToDelete, DeleteCredentials, postgres_backend, TypeInv, TypeOK, BackendInv, BoundInv
  <2> QED BY <2>1, <2>2 DEF Unbound, Rebound
<1>11. CASE Release
  BY <1>11 DEF Release, NoObject, Idle, world, BackendInv
<1>12. CASE \E s \in Specs : CreateObject(s)
  BY <1>12 DEF CreateObject, NoObject, world, TypeInv, BackendInv
<1> HIDE DEF At
<1> QED
  BY <1>1, <1>2, <1>3, <1>4, <1>5, <1>6, <1>7, <1>8, <1>9, <1>10, <1>11, <1>12
     DEF Next, Operator, User

LEMMA BackendInit == Init => BackendInv
BY DEF Init, BackendInv, BoundInv, Idle, At

\* When users name known backends and server_exists does not swallow errors, no
\* server is ever left without its object.
THEOREM NeverOrphaned == ASSUME KnownBackends, ReliableExists PROVE Spec => []NoOrphan
<1>1. ~MayFail("server_exists")
  BY DEF MayFail, ReliableExists
<1>2. BackendInv => NoOrphan
  BY DEF BackendInv, NoOrphan, postgres_backend
<1>3. TypeInv /\ BackendInv /\ [Next]_vars => BackendInv'
  BY <1>1, BackendStep
<1> QED
  BY <1>2, <1>3, TypeInit, TypeStep, BackendInit, PTL DEF Spec
-----------------------------------------------------------------------------
(* A published password is the live one. *)

ReliableCalls == Faults = {}
OneSecret == \E n : SecretNames = {n}

BeforePublish == {"password", "label", "unlabel", "working", "apply", "publish"}

\* A handler that read credentials works with the published password; one that did
\* not, or that has withdrawn them, works while nothing is published.
CredInv ==
    /\ PublishedIsLive
    /\ handler.pc \in BeforePublish /\ handler.credentials =>
           /\ \A n \in SecretNames : secrets[n] \in {0, handler.password}
           /\ \A b \in Backends : live[b] \in {0, handler.password}
           /\ handler.password # 0
    /\ handler.pc = "stash" \/ (handler.pc \in BeforePublish /\ ~handler.credentials) =>
           \A n \in SecretNames : secrets[n] = 0
    /\ handler.pc = "password" /\ ~handler.credentials => handler.password = 0
    /\ handler.pc \in (BeforePublish \cup {"stash"}) \ {"password"} => handler.password # 0
    /\ handler.pc = "publish" => live[handler.backend] = handler.password

\* A step that no clause of CredInv can notice.
Unseen ==
    /\ UNCHANGED <<secrets, live>>
    /\ \/ handler'.pc \notin BeforePublish \cup {"stash"}
       \/ /\ handler'.pc \in BeforePublish \ {"password", "publish"}
          /\ handler.pc \in BeforePublish \ {"password"}
          /\ handler'.credentials = handler.credentials
          /\ handler'.password = handler.password
       \/ UNCHANGED handler

LEMMA UnseenStep == CredInv /\ Unseen => CredInv'
BY DEF CredInv, Unseen, PublishedIsLive, BeforePublish

\* Most actions change neither the secrets nor the backends.
LEMMA UnseenActions ==
    ASSUME TypeInv,
           \/ UNCHANGED vars
           \/ SkipControlLabel \/ RejectSpec \/ BeginHandling
           \/ NoCommand \/ SkipCommand \/ Unlabel \/ StatusWorking
           \/ DropTmp \/ StatusFinished \/ Return
           \/ BeginDelete \/ NoServerToDelete \/ Release \/ Abort \/ Restart
           \/ \E s \in Specs : CreateObject(s) \/ EditSpec(s)
           \/ \E l \in Labels : SetLabel(l)
           \/ DeleteObject
    PROVE  Unseen
<1> USE DEF Unseen, BeforePublish, world
<1>1. CASE UNCHANGED vars
  BY <1>1 DEF vars
<1>2. CASE SkipControlLabel \/ RejectSpec \/ DeleteObject
  BY <1>2 DEF SkipControlLabel, RejectSpec, DeleteObject
<1>3. CASE BeginHandling \/ BeginDelete
  <2>1. handler'.pc \in {"read", "delete"}
    BY <1>3 DEF BeginHandling, BeginDelete, Begin, Idle
  <2> QED BY <1>3, <2>1 DEF BeginHandling, BeginDelete
<1>4. CASE NoCommand \/ SkipCommand
  BY <1>4 DEF NoCommand, SkipCommand, Goto, At, TypeInv, TypeOK, HandlerType
<1>5. CASE Unlabel \/ StatusWorking
  BY <1>5 DEF Unlabel, StatusWorking, Goto, At, TypeInv, TypeOK, HandlerType
<1>6. CASE DropTmp \/ StatusFinished \/ NoServerToDelete
  BY <1>6 DEF DropTmp, StatusFinished, NoServerToDelete, Goto, TypeInv, TypeOK, HandlerType
<1>7. CASE Return \/ Release
  BY <1>7 DEF Return, Release, Idle
<1>8. CASE Abort \/ Restart
  BY <1>8 DEF Abort, Restart, Idle
<1>9. CASE \/ \E s \in Specs : CreateObject(s) \/ EditSpec(s)
           \/ \E l \in Labels : SetLabel(l)
  BY <1>9 DEF CreateObject, EditSpec, SetLabel
<1> QED
  BY <1>1, <1>2, <1>3, <1>4, <1>5, <1>6, <1>7, <1>8, <1>9

\* No failure is swallowed, at all or in this step.
NothingSwallowed == Faults = {} \/ ~Spend("fault")

LEMMA CredStep ==
    ASSUME KnownBackends, OneSecret, TypeInv, BackendInv, CredInv, [Next]_vars, NothingSwallowed
    PROVE  CredInv'
<1>0. \A call \in {"get_secret", "delete_secret"} : ~MayFail(call)
  BY DEF NothingSwallowed, MayFail
<1> USE DEF CredInv, PublishedIsLive, BeforePublish, TypeInv, TypeOK, HandlerType, At
<1>1. ASSUME Unseen PROVE CredInv'
  BY <1>1, UnseenStep
<1>2. CASE ReadCredentials
  <2>1. handler.spec.secret \in SecretNames
    BY <1>2, ServerAssumption DEF ReadCredentials
  <2>2. /\ handler'.pc = "password"
        /\ handler'.credentials = (secrets[handler.spec.secret] # 0)
        /\ handler'.password = secrets[handler.spec.secret]
        /\ UNCHANGED <<secrets, live>>
    BY <1>0, <1>2 DEF ReadCredentials, world
  <2>3. \A n \in SecretNames : secrets[n] = secrets[handler.spec.secret]
    BY <2>1 DEF OneSecret
  <2> QED BY <2>1, <2>2, <2>3
<1>3. CASE UseStoredPassword
  BY <1>3 DEF UseStoredPassword, StoredPassword, world
<1>4. CASE GeneratePassword
  BY <1>4 DEF GeneratePassword, StoredPassword
<1>5. CASE ResetWithdraw
  <2>1. handler.spec.secret \in SecretNames
    BY <1>5, ServerAssumption DEF ResetWithdraw
  <2>2. secrets' = [secrets EXCEPT ![handler.spec.secret] = 0]
    BY <1>0, <1>5 DEF ResetWithdraw, delete_secret
  <2>3. \A n \in SecretNames : secrets'[n] = 0
    BY <2>1, <2>2 DEF OneSecret
  <2>4. handler'.pc = "stash" /\ handler'.password # 0 /\ UNCHANGED live
    BY <1>5 DEF ResetWithdraw
  <2> QED BY <2>3, <2>4
<1>6. CASE ResetStash
  <2>1. /\ handler.pc = "stash"
        /\ handler'.pc = "unlabel"
        /\ ~handler'.credentials
        /\ handler'.password = handler.password
        /\ UNCHANGED <<secrets, live>>
    BY <1>6 DEF ResetStash
  <2> QED BY <2>1
<1>7. CASE ApplyServer
  BY <1>7 DEF ApplyServer, Goto, postgres_backend, BackendInv, BoundInv
<1>8. CASE Publish
  BY <1>8 DEF Publish, create_or_update_secret, Goto, BackendInv, BoundInv
<1>9. CASE DeleteServer
  BY <1>9 DEF DeleteServer, Goto, postgres_backend
<1>10. CASE DeleteCredentials
  BY <1>0, <1>10 DEF DeleteCredentials, delete_secret, Goto, BackendInv, BoundInv
<1>11. CASE \E n \in SecretNames : RemoveCredentials(n)
  BY <1>11 DEF RemoveCredentials
<1> HIDE DEF CredInv, PublishedIsLive, BeforePublish, TypeInv, TypeOK, HandlerType, At
<1> QED
  BY <1>1, <1>2, <1>3, <1>4, <1>5, <1>6, <1>7, <1>8, <1>9, <1>10, <1>11, UnseenActions
     DEF Next, Operator, User

LEMMA CredInit == Init => CredInv
BY DEF Init, CredInv, PublishedIsLive, BeforePublish, Idle

LEMMA ReliableStep ==
    ASSUME KnownBackends, ReliableCalls, OneSecret,
           TypeInv, BackendInv, CredInv, [Next]_vars
    PROVE  TypeInv' /\ BackendInv' /\ CredInv'
<1>1. NothingSwallowed /\ ~MayFail("server_exists")
  BY DEF ReliableCalls, NothingSwallowed, MayFail
<1> QED
  BY <1>1, TypeStep, BackendStep, CredStep

\* Without swallowed errors and with one secret name, a published password always
\* opens the server: no interleaving of a reset, an edit, a crash, a deletion and a
\* new start of the object publishes a password that is not in force.
THEOREM PublishedAlwaysLive ==
    ASSUME KnownBackends, ReliableCalls, OneSecret
    PROVE  Spec => []PublishedIsLive
<1>1. CredInv => PublishedIsLive
  BY DEF CredInv
<1>2. TypeInv /\ BackendInv /\ CredInv /\ [Next]_vars => TypeInv' /\ BackendInv' /\ CredInv'
  BY ReliableStep
<1> QED
  BY <1>1, <1>2, TypeInit, BackendInit, CredInit, PTL DEF Spec
-----------------------------------------------------------------------------
(* The server implements the credential contract. *)

LEMMA ContractInit == Init /\ OneSecret => Contract!Init
BY DEF Init, OneSecret, Contract!Init, TheSecret

LEMMA ContractStep ==
    ASSUME ReliableCalls, OneSecret, TypeInv, BackendInv, CredInv, [Next]_vars
    PROVE  [Contract!Next]_<<live, secrets[TheSecret]>>
<1>1. SecretNames = {TheSecret}
  BY DEF OneSecret, TheSecret
<1> USE DEF TypeInv, TypeOK, At, HandlerType
<1>2. ASSUME Unseen PROVE UNCHANGED <<live, secrets[TheSecret]>>
  BY <1>2 DEF Unseen
<1>3. CASE ReadCredentials \/ UseStoredPassword \/ GeneratePassword \/ ResetStash
  BY <1>3 DEF ReadCredentials, UseStoredPassword, GeneratePassword, ResetStash, world
<1>4. CASE \/ ResetWithdraw \/ DeleteCredentials
           \/ \E n \in SecretNames : RemoveCredentials(n)
  <2>1. UNCHANGED live
    BY <1>4 DEF ResetWithdraw, DeleteCredentials, RemoveCredentials
  <2>2. PICK n \in SecretNames : secrets' = [secrets EXCEPT ![n] = 0]
    BY <1>4, ServerAssumption
       DEF ResetWithdraw, DeleteCredentials, RemoveCredentials, delete_secret, MayFail, ReliableCalls
  <2> QED BY <1>1, <2>1, <2>2 DEF Contract!Next, Contract!Withdraw
<1>5. CASE ApplyServer
  <2>1. handler.backend \in Backends /\ postgres_backend(handler.backend) = handler.backend
    BY <1>5 DEF ApplyServer, BackendInv, BoundInv, postgres_backend
  <2>2. secrets[TheSecret] \in {0, handler.password}
    BY <1>1, <1>5 DEF ApplyServer, CredInv, BeforePublish
  <2>3. /\ live'[handler.backend] = handler.password
        /\ live' = [live EXCEPT ![handler.backend] = handler.password]
        /\ UNCHANGED secrets
    BY <1>5, <2>1 DEF ApplyServer, CredInv, BeforePublish
  <2> QED BY <2>1, <2>2, <2>3 DEF Contract!Next, Contract!Apply
<1>6. CASE Publish
  <2>1. CASE handler.credentials
    BY <1>6, <2>1 DEF Publish
  <2>2. CASE ~handler.credentials
    <3>1. /\ handler.backend \in Backends
          /\ live[handler.backend] = handler.password
          /\ handler.password # 0
          /\ \A b \in Backends : live[b] \in {0, handler.password}
      BY <1>6 DEF Publish, BackendInv, BoundInv, CredInv, BeforePublish
    <3>2. secrets'[TheSecret] = handler.password /\ UNCHANGED live
      BY <1>1, <1>6, <2>2, ServerAssumption DEF Publish, create_or_update_secret
    <3> QED BY <3>1, <3>2 DEF Contract!Next, Contract!Publish
  <2> QED BY <2>1, <2>2
<1>7. CASE DeleteServer
  BY <1>7 DEF DeleteServer, postgres_backend, BackendInv, BoundInv, Contract!Next, Contract!Remove
<1> HIDE DEF TypeInv, TypeOK, At, HandlerType
<1> QED
  BY <1>2, <1>3, <1>4, <1>5, <1>6, <1>7, UnseenActions DEF Next, Operator, User

\* Every call of a handler is one allowed step of the credential protocol.
THEOREM ServerKeepsContract ==
    ASSUME KnownBackends, ReliableCalls, OneSecret
    PROVE  Spec => KeepsContract
<1>1. TypeInv /\ BackendInv /\ CredInv /\ [Next]_vars => TypeInv' /\ BackendInv' /\ CredInv'
  BY ReliableStep
<1>2. TypeInv /\ BackendInv /\ CredInv /\ [Next]_vars => [Contract!Next]_<<live, secrets[TheSecret]>>
  BY ContractStep
<1>3. Init => Contract!Init
  BY ContractInit
<1> QED
  BY <1>1, <1>2, <1>3, TypeInit, BackendInit, CredInit, PTL DEF Spec, KeepsContract, Contract!Spec
-----------------------------------------------------------------------------
(* What kopf's diff and its annotations say *)

\* Only a diff that has the removal of the control label can be ignored.
LEMMA IgnoresRemoval ==
    ASSUME NEW items, IsFiniteSet(items), Ignores(items, TRUE)
    PROVE  \E d \in items : IsControlLabelRemoval(d)
<1>1. Cardinality(items) \in Nat
  BY FS_CardinalityType
<1>2. PICK diff \in SetToSeqs(items) : ignore_control_label_change(diff) = TRUE
  BY DEF Ignores
<1>3. diff \in [1..Cardinality(items) -> items]
  BY <1>2 DEF SetToSeqs
<1>4. diff # <<>> /\ IsControlLabelRemoval(Last(diff))
  BY <1>2 DEF ignore_control_label_change
<1>5. diff \in Seq(items) /\ Len(diff) = Cardinality(items)
  BY <1>1, <1>3
<1>6. Len(diff) \in 1..Cardinality(items)
  BY <1>1, <1>4, <1>5
<1>7. Last(diff) \in items
  BY <1>3, <1>6 DEF Last
<1> QED
  BY <1>4, <1>7

\* The label is gone, and it was there when the object was last handled.
LEMMA IgnoredLabel ==
    ASSUME object \in ObjectType, Ignores(Diff(object), TRUE)
    PROVE  object.label = NoLabel /\ \E e \in object.handled : e.label # NoLabel
<1> DEFINE old == CHOOSE e \in object.handled : TRUE
<1>1. Diff(object) \subseteq {[op |-> "add", field |-> "object"], [op |-> "change", field |-> "spec"],
                              [op |-> "remove", field |-> "label"], [op |-> "add", field |-> "label"],
                              [op |-> "change", field |-> "label"]}
  BY DEF Diff
<1>2. IsFiniteSet(Diff(object))
  <2> DEFINE spec_item  == IF old.spec # object.spec THEN {[op |-> "change", field |-> "spec"]} ELSE {}
             label_op   == CASE object.label = NoLabel -> "remove"
                             [] old.label = NoLabel    -> "add"
                             [] OTHER                  -> "change"
             label_item == IF old.label # object.label THEN {[op |-> label_op, field |-> "label"]} ELSE {}
  <2>1. \A d : IsFiniteSet({d})
    BY FS_Singleton
  <2>2. CASE object.handled = {}
    BY <2>1, <2>2 DEF Diff
  <2>3. CASE object.handled # {}
    <3>1. Diff(object) = spec_item \cup label_item
      BY <2>3 DEF Diff
    <3>2. IsFiniteSet(spec_item) /\ IsFiniteSet(label_item)
      BY <2>1, FS_EmptySet
    <3> HIDE DEF spec_item, label_item
    <3>3. IsFiniteSet(spec_item \cup label_item)
      BY <3>2, FS_Union
    <3> QED BY <3>1, <3>3
  <2> QED BY <2>2, <2>3
<1>3. PICK d \in Diff(object) : IsControlLabelRemoval(d)
  BY <1>2, IgnoresRemoval
<1>4. d = [op |-> "remove", field |-> "label"]
  BY <1>1, <1>3 DEF IsControlLabelRemoval
<1>5. object.handled # {} /\ old \in object.handled
  BY <1>3, <1>4 DEF Diff
<1>6. object.label = NoLabel /\ old.label # object.label
  BY <1>3, <1>4, <1>5 DEF Diff
<1> QED
  BY <1>5, <1>6

Deleting == {"delete", "delete_secret", "release"}
Handling == {"read", "password", "label", "stash", "unlabel", "working", "apply", "publish",
             "drop", "finish", "return"}
Applied  == {"publish", "drop", "finish", "return"}

\* While a handler is at work the object shows it.
KopfInv ==
    /\ handler.pc \in Handling => object.unfinished
    /\ handler.pc \in Deleting => object.deleting
    /\ handler.pc \in {"apply", "publish", "drop", "finish"} => object.deployment = "working"

LEMMA KopfInit == Init => KopfInv
BY DEF Init, KopfInv, Idle, Handling, Deleting

LEMMA KopfStep == TypeInv /\ KopfInv /\ [Next]_vars => KopfInv'
<1> SUFFICES ASSUME TypeInv, KopfInv, [Next]_vars PROVE KopfInv'
  OBVIOUS
<1> USE DEF KopfInv, Handling, Deleting, At
<1>1. CASE UNCHANGED vars
  BY <1>1 DEF vars
<1>2. CASE SkipControlLabel \/ RejectSpec \/ Return \/ Release \/ Abort \/ Restart
  <2>1. CASE SkipControlLabel \/ RejectSpec
    BY <2>1 DEF SkipControlLabel, RejectSpec
  <2>2. CASE Return \/ Release
    BY <2>2 DEF Return, Release, Idle
  <2>3. CASE Abort \/ Restart
    BY <2>3 DEF Abort, Restart, Idle
  <2> QED BY <1>2, <2>1, <2>2, <2>3
<1>7. CASE BeginHandling
  <2>1. handler'.pc = "read"
    BY <1>7 DEF BeginHandling, Begin, Idle
  <2>2. object'.unfinished
    BY <1>7 DEF BeginHandling, TypeInv, TypeOK, ObjectType
  <2> QED BY <2>1, <2>2
<1>8. CASE BeginDelete
  <2>1. handler'.pc = "delete"
    BY <1>8 DEF BeginDelete, Begin, Idle
  <2> QED BY <1>8, <2>1 DEF BeginDelete
<1>3. CASE \/ ReadCredentials \/ UseStoredPassword \/ GeneratePassword \/ NoCommand
           \/ ResetWithdraw \/ ResetStash \/ SkipCommand \/ Unlabel \/ Publish \/ DropTmp
  <2>1. object'.unfinished = object.unfinished /\ object'.deployment = object.deployment
    BY <1>3 DEF ReadCredentials, UseStoredPassword, GeneratePassword, NoCommand,
                ResetWithdraw, ResetStash, SkipCommand, Unlabel, Publish, DropTmp,
                TypeInv, TypeOK, ObjectType
  <2>2. handler'.pc \notin Deleting
    BY <1>3, UnboundMoves DEF Deleting
  <2>3. handler.pc \in Handling
    BY <1>3 DEF ReadCredentials, UseStoredPassword, GeneratePassword, NoCommand,
                ResetWithdraw, ResetStash, SkipCommand, Unlabel, Publish, DropTmp
  <2>4. /\ handler'.pc \in {"apply", "publish", "drop", "finish", "return"} =>
               handler.pc \in {"apply", "publish", "drop", "finish", "return"}
        /\ handler.pc # "return"
    BY <1>3, UnboundMoves DEF ReadCredentials, UseStoredPassword, GeneratePassword, NoCommand,
                ResetWithdraw, ResetStash, SkipCommand, Unlabel, Publish, DropTmp
  <2>5. handler'.pc \in {"apply", "publish", "drop", "finish"} => object.deployment = "working"
    BY <2>4
  <2> QED BY <2>1, <2>2, <2>3, <2>5
<1>4. CASE StatusWorking \/ ApplyServer \/ StatusFinished
  BY <1>4 DEF StatusWorking, ApplyServer, StatusFinished, Goto, TypeInv, TypeOK, ObjectType, HandlerType
<1>5. CASE DeleteServer \/ NoServerToDelete \/ DeleteCredentials
  BY <1>5 DEF DeleteServer, NoServerToDelete, DeleteCredentials, Goto, TypeInv, TypeOK, HandlerType
<1>6. CASE User
  BY <1>6 DEF User, CreateObject, EditSpec, SetLabel, RemoveCredentials, DeleteObject, TypeInv, TypeOK,
              ObjectType, world
<1> HIDE DEF KopfInv, Handling, Deleting, At
<1> QED
  BY <1>1, <1>2, <1>3, <1>4, <1>5, <1>6, <1>7, <1>8 DEF Next, Operator

\* What a handler works on, and what kopf and the backends hold, over most of its steps.
LEMMA HandlerMoves ==
    ASSUME TypeInv,
           \/ ReadCredentials \/ UseStoredPassword \/ GeneratePassword \/ NoCommand
           \/ ResetWithdraw \/ ResetStash \/ SkipCommand \/ Unlabel \/ Publish \/ DropTmp
    PROVE  /\ handler'.spec = handler.spec /\ handler'.label = handler.label
           /\ handler'.backend = handler.backend
           /\ object' = object \/ (Unlabel /\ object' = [object EXCEPT !.label = NoLabel])
           /\ UNCHANGED <<live, applied, default_backend, compromised>>
<1> USE DEF TypeInv, TypeOK, HandlerType, ObjectType, At, world, user
<1>1. CASE ReadCredentials \/ UseStoredPassword \/ GeneratePassword
  BY <1>1 DEF ReadCredentials, UseStoredPassword, GeneratePassword, Goto
<1>2. CASE NoCommand \/ SkipCommand \/ Unlabel
  BY <1>2 DEF NoCommand, SkipCommand, Unlabel, Goto
<1>3. CASE ResetWithdraw \/ ResetStash
  BY <1>3 DEF ResetWithdraw, ResetStash
<1>4. CASE Publish \/ DropTmp
  BY <1>4 DEF Publish, DropTmp, Goto
<1> QED
  BY <1>1, <1>2, <1>3, <1>4
-----------------------------------------------------------------------------
(* Finished means applied. *)

NoLabels == Labels = {}

\* Between the call of the backend and the end the server has the handler's spec; what
\* is called finished has the spec that kopf remembers, unless an attempt is under way.
AppliedInv ==
    /\ object.label = NoLabel /\ handler.label = NoLabel
    /\ \A e \in object.handled : e.label = NoLabel
    /\ handler.pc \in Applied => applied[handler.backend] = handler.spec.ver
    /\ object.exists /\ ~object.deleting /\ object.deployment = "finished" =>
           /\ object.backend \in Backends
           /\ \/ object.unfinished
              \/ \A e \in object.handled : applied[object.backend] = e.spec.ver

LEMMA AppliedStep ==
    ASSUME NoLabels, TypeInv, BoundInv, KopfInv, AppliedInv, [Next]_vars
    PROVE  AppliedInv'
<1> USE DEF AppliedInv, At, TypeInv, TypeOK, Applied
<1>1. CASE UNCHANGED vars
  BY <1>1 DEF vars
<1>2. CASE SkipControlLabel
  BY <1>2, IgnoredLabel DEF SkipControlLabel
<1>3. CASE RejectSpec
  <2>1. /\ object'.label = object.label
        /\ object'.deployment = "failed"
        /\ object'.handled = {[spec |-> object.spec, label |-> object.label]}
    BY <1>3 DEF RejectSpec, Handled, Essence, ObjectType
  <2> QED BY <1>3, <2>1 DEF RejectSpec
<1>4. CASE BeginHandling
  <2>1. /\ object'.label = object.label /\ object'.handled = object.handled
        /\ object'.backend = object.backend /\ object'.unfinished
        /\ object'.exists = object.exists /\ object'.deleting = object.deleting
        /\ object'.deployment = object.deployment
    BY <1>4 DEF BeginHandling, ObjectType
  <2>2. handler'.label = object.label /\ handler'.pc = "read"
    BY <1>4 DEF BeginHandling, Begin, Idle
  <2> QED BY <2>1, <2>2
<1>5. CASE BeginDelete
  <2>1. handler'.label = object.label /\ handler'.pc = "delete"
    BY <1>5 DEF BeginDelete, Begin, Idle
  <2> QED BY <1>5, <2>1 DEF BeginDelete, world
<1>6. CASE \/ ReadCredentials \/ UseStoredPassword \/ GeneratePassword \/ NoCommand
           \/ ResetWithdraw \/ ResetStash \/ SkipCommand \/ Unlabel \/ Publish \/ DropTmp
  <2>1. handler'.pc \in Applied => handler.pc \in Applied
    BY <1>6, UnboundMoves DEF ReadCredentials, UseStoredPassword, GeneratePassword, NoCommand,
             ResetWithdraw, ResetStash, SkipCommand, Unlabel, Publish, DropTmp, Goto, HandlerType
  <2>2. object' = object
    BY <1>6, HandlerMoves DEF ObjectType
  <2> QED BY <1>6, <2>1, <2>2, HandlerMoves
<1>7. CASE StatusWorking
  BY <1>7 DEF StatusWorking, Goto, HandlerType, ObjectType, world
<1>8. CASE ApplyServer
  <2>1. handler.backend \in Backends /\ object.deployment = "working"
    BY <1>8 DEF ApplyServer, BoundInv, KopfInv
  <2>2. applied' = [applied EXCEPT ![handler.backend] = handler.spec.ver]
    BY <1>8, <2>1 DEF ApplyServer, postgres_backend
  <2>3. handler' = [handler EXCEPT !.pc = "publish"] /\ object' = object
    BY <1>8 DEF ApplyServer, Goto
  <2> QED BY <2>1, <2>2, <2>3 DEF HandlerType
<1>9. CASE StatusFinished
  <2>1. /\ object'.backend = handler.backend /\ object'.unfinished
        /\ object'.label = object.label /\ object'.handled = object.handled
    BY <1>9 DEF StatusFinished, ObjectType, KopfInv, Handling
  <2>2. handler' = [handler EXCEPT !.pc = "return"] /\ UNCHANGED applied
    BY <1>9 DEF StatusFinished, Goto, world
  <2>3. handler.backend \in Backends /\ applied[handler.backend] = handler.spec.ver
    BY <1>9 DEF StatusFinished, BoundInv
  <2> QED BY <2>1, <2>2, <2>3 DEF HandlerType
<1>10. CASE Return
  <2>1. /\ object'.handled = {[spec |-> handler.spec, label |-> handler.label]}
        /\ object'.label = object.label
        /\ object'.backend = object.backend
    BY <1>10 DEF Return, Handled, Essence, ObjectType
  <2>2. /\ object.backend = handler.backend /\ handler.backend \in Backends
        /\ applied[handler.backend] = handler.spec.ver
    BY <1>10 DEF Return, BoundInv
  <2>3. handler'.pc = "idle" /\ handler'.label = NoLabel /\ UNCHANGED applied
    BY <1>10 DEF Return, Idle, world
  <2> QED BY <2>1, <2>2, <2>3
<1>11. CASE DeleteServer \/ NoServerToDelete \/ DeleteCredentials
  <2>1. /\ object.deleting /\ object' = object
        /\ handler'.pc \in Deleting /\ handler'.label = handler.label
    BY <1>11 DEF DeleteServer, NoServerToDelete, DeleteCredentials, Goto, KopfInv, Deleting, HandlerType,
                 world
  <2> QED BY <2>1 DEF Deleting
<1>12. CASE Release
  BY <1>12 DEF Release, NoObject, Idle
<1>13. CASE Abort \/ Restart
  <2>1. /\ object'.label = object.label /\ object'.handled = object.handled
        /\ object'.backend = object.backend /\ object'.unfinished = object.unfinished
        /\ object'.exists = object.exists /\ object'.deleting = object.deleting
        /\ object'.deployment = object.deployment /\ UNCHANGED applied
    BY <1>13 DEF Abort, Restart, Resumed, ObjectType, world
  <2>2. handler'.pc = "idle" /\ handler'.label = NoLabel
    BY <1>13 DEF Abort, Restart, Idle
  <2> QED BY <2>1, <2>2
<1>14. CASE \E s \in Specs : CreateObject(s)
  BY <1>14 DEF CreateObject, NoObject, Unset, world
<1>15. CASE \E s \in Specs : EditSpec(s)
  BY <1>15 DEF EditSpec, ObjectType, world
<1>16. CASE \E l \in Labels : SetLabel(l)
  BY <1>16 DEF NoLabels
<1>17. CASE DeleteObject
  BY <1>17 DEF DeleteObject, ObjectType, world
<1>18. CASE \E n \in SecretNames : RemoveCredentials(n)
  BY <1>18 DEF RemoveCredentials
<1> HIDE DEF AppliedInv, At, TypeInv, TypeOK, Applied
<1> QED
  BY <1>1, <1>2, <1>3, <1>4, <1>5, <1>6, <1>7, <1>8, <1>9, <1>10, <1>11, <1>12, <1>13, <1>14,
     <1>15, <1>16, <1>17, <1>18 DEF Next, Operator, User

\* When users set no labels and a failed attempt is retried, the server has the spec
\* the user sees whenever the operator says it is finished: also after edits while a
\* handler is at work, attempts that fail at any call, changes of the default backend
\* and errors that are swallowed.
THEOREM AppliedWhenFinished ==
    ASSUME KnownBackends, RetryUnchanged, NoLabels
    PROVE  Spec => []FinishedIsApplied
<1>1. Init => BoundInv /\ AppliedInv
  BY DEF Init, BoundInv, AppliedInv, NoObject, Idle, At, Applied
<1>2. TypeInv /\ BoundInv /\ AppliedInv => FinishedIsApplied
  <2> SUFFICES ASSUME AppliedInv, Settled, object.deployment = "finished"
               PROVE  applied[postgres_backend(object.backend)] = object.spec.ver
    BY DEF FinishedIsApplied
  <2>1. /\ object.exists /\ ~object.deleting /\ ~object.unfinished
        /\ object.handled = {[spec |-> object.spec, label |-> object.label]}
    BY DEF Settled, NeedsHandling, Essence
  <2>2. object.backend \in Backends /\ \A e \in object.handled : applied[object.backend] = e.spec.ver
    BY <2>1 DEF AppliedInv
  <2> QED BY <2>1, <2>2 DEF postgres_backend
<1>3. TypeInv /\ BoundInv /\ KopfInv /\ AppliedInv /\ [Next]_vars => AppliedInv'
  BY AppliedStep
<1> QED
  BY <1>1, <1>2, <1>3, TypeInit, TypeStep, KopfInit, KopfStep, BoundStep, PTL DEF Spec
-----------------------------------------------------------------------------
(* Finished means usable. *)

NoResets == ResetPassword \notin Labels

InForce(b) == \A n \in SecretNames : secrets[n] # 0 /\ live[b] = secrets[n]

\* What a handler has read stays published; what it has published, and what is called
\* finished, is in force.
UsableInv ==
    Untouched =>
        /\ handler.pc \in BeforePublish /\ handler.credentials => \A n \in SecretNames : secrets[n] # 0
        /\ handler.pc \in {"drop", "finish"} => InForce(handler.backend)
        /\ object.exists /\ ~object.deleting /\ object.deployment = "finished" =>
               object.backend \in Backends /\ InForce(object.backend)

\* Without swallowed failures so far, the invariants of the published password hold.
NoFaultYet  == budget["fault"] = Budget["fault"]
UnfailedInv == NoFaultYet => BackendInv /\ CredInv

LEMMA UnfailedStep ==
    ASSUME KnownBackends, OneSecret, TypeInv, Thrifty, UnfailedInv, [Next]_vars
    PROVE  UnfailedInv'
<1> SUFFICES ASSUME NoFaultYet' PROVE BackendInv' /\ CredInv'
  BY DEF UnfailedInv
<1>1. NoFaultYet /\ ~Spend("fault")
  BY WholeBefore DEF NoFaultYet, Kinds
<1>2. NothingSwallowed /\ ~MayFail("server_exists")
  BY <1>1 DEF NothingSwallowed, MayFail
<1> QED
  BY <1>1, <1>2, BackendStep, CredStep DEF UnfailedInv

LEMMA UsableStep ==
    ASSUME KnownBackends, OneSecret, NoResets, TypeInv, Thrifty, KopfInv, BoundInv, UnfailedInv,
           UsableInv, [Next]_vars
    PROVE  UsableInv'
<1> SUFFICES ASSUME Untouched' PROVE UsableInv'
  BY DEF UsableInv
<1>1. Untouched /\ ~Spend("fault") /\ ~Spend("remove")
  BY WholeBefore DEF Untouched, Kinds
<1>2. CredInv
  BY <1>1 DEF Untouched, UnfailedInv, NoFaultYet
<1>3. \A call \in {"get_secret", "delete_secret", "server_exists"} : ~MayFail(call)
  BY <1>1 DEF MayFail
<1>4. handler.label # ResetPassword /\ object.label # ResetPassword
  BY DEF NoResets, TypeInv, TypeOK, ObjectType, HandlerType, LabelType, NoLabel, ResetPassword
<1> USE <1>1 DEF UsableInv, InForce, At, TypeInv, TypeOK, BeforePublish
<1>5. CASE UNCHANGED vars
  BY <1>5 DEF vars
<1>6. CASE \/ SkipControlLabel \/ DeleteObject \/ Abort \/ Restart
           \/ \E s \in Specs : EditSpec(s)
           \/ \E l \in Labels : SetLabel(l)
  <2>1. /\ object'.backend = object.backend /\ object'.exists = object.exists
        /\ ~object'.deleting => ~object.deleting
        /\ object'.deployment = object.deployment
    BY <1>6 DEF SkipControlLabel, DeleteObject, Abort, Restart, EditSpec, SetLabel, Handled, Resumed,
                ObjectType
  <2>2. UNCHANGED <<secrets, live>>
    BY <1>6 DEF SkipControlLabel, DeleteObject, Abort, Restart, EditSpec, SetLabel, world
  <2>3. handler'.pc = "idle" \/ UNCHANGED handler
    BY <1>6, UnboundActions
  <2> QED BY <2>1, <2>2, <2>3
<1>7. CASE RejectSpec
  BY <1>7 DEF RejectSpec, Handled, ObjectType, world
<1>8. CASE BeginHandling \/ BeginDelete
  <2>1. handler'.pc \in {"read", "delete"}
    BY <1>8 DEF BeginHandling, BeginDelete, Begin, Idle
  <2>2. /\ object'.backend = object.backend /\ object'.exists = object.exists
        /\ object'.deleting = object.deleting /\ object'.deployment = object.deployment
        /\ UNCHANGED <<secrets, live>>
    BY <1>8 DEF BeginHandling, BeginDelete, ObjectType, world
  <2> QED BY <2>1, <2>2
<1>9. CASE ReadCredentials
  <2>1. /\ handler'.pc = "password"
        /\ handler'.credentials = (secrets[handler.spec.secret] # 0)
        /\ UNCHANGED <<object, secrets, live>>
    BY <1>3, <1>9 DEF ReadCredentials, HandlerType, world
  <2>2. handler.spec.secret \in SecretNames
    BY <1>9, ServerAssumption DEF ReadCredentials
  <2> QED BY <2>1, <2>2 DEF OneSecret
<1>10. CASE \/ UseStoredPassword \/ GeneratePassword \/ NoCommand \/ ResetStash \/ SkipCommand
            \/ Unlabel \/ DropTmp
  <2>1. UNCHANGED <<secrets, live>> /\ handler'.backend = handler.backend
    BY <1>10, HandlerMoves DEF UseStoredPassword, GeneratePassword, NoCommand, ResetStash, SkipCommand,
                               Unlabel, DropTmp, world
  <2>2. /\ object'.backend = object.backend /\ object'.exists = object.exists
        /\ object'.deleting = object.deleting /\ object'.deployment = object.deployment
    BY <1>10, HandlerMoves DEF ObjectType
  <2>3. /\ handler'.pc \in BeforePublish /\ handler'.credentials =>
               handler.pc \in BeforePublish /\ handler.credentials
        /\ handler'.pc \in {"drop", "finish"} => handler.pc \in {"drop", "finish"}
    <3>1. CASE UseStoredPassword \/ GeneratePassword
      BY <3>1 DEF UseStoredPassword, GeneratePassword, HandlerType
    <3>2. CASE NoCommand \/ SkipCommand \/ Unlabel \/ DropTmp
      BY <3>2 DEF NoCommand, SkipCommand, Unlabel, DropTmp, Goto, HandlerType
    <3>3. CASE ResetStash
      BY <3>3 DEF ResetStash, HandlerType
    <3> QED BY <1>10, <3>1, <3>2, <3>3
  <2> QED BY <2>1, <2>2, <2>3
<1>11. CASE ResetWithdraw
  BY <1>4, <1>11 DEF ResetWithdraw
<1>12. CASE StatusWorking
  BY <1>12 DEF StatusWorking, Goto, HandlerType, ObjectType, world
<1>13. CASE ApplyServer
  <2>1. object.deployment = "working" /\ object' = object
    BY <1>13 DEF ApplyServer, KopfInv
  <2> QED BY <1>13, <2>1 DEF ApplyServer, Goto, HandlerType
<1>14. CASE Publish
  <2>1. object.deployment = "working" /\ object' = object
    BY <1>14 DEF Publish, KopfInv
  <2>2. handler' = [handler EXCEPT !.pc = "drop"] /\ UNCHANGED live
    BY <1>14 DEF Publish, Goto
  <2>3. handler.backend \in Backends /\ live[handler.backend] = handler.password /\ handler.password # 0
    BY <1>2, <1>14 DEF Publish, CredInv, BoundInv
  <2>4. \A n \in SecretNames : secrets'[n] = handler.password
    <3>1. CASE handler.credentials
      BY <1>2, <1>14, <3>1 DEF Publish, CredInv
    <3>2. CASE ~handler.credentials
      BY <1>14, <3>2, ServerAssumption DEF Publish, create_or_update_secret, OneSecret
    <3> QED BY <3>1, <3>2
  <2> QED BY <2>1, <2>2, <2>3, <2>4 DEF HandlerType
<1>15. CASE StatusFinished
  <2>1. handler.backend \in Backends /\ InForce(handler.backend)
    BY <1>15 DEF StatusFinished, BoundInv
  <2>2. object'.backend = handler.backend /\ handler'.pc = "return" /\ UNCHANGED <<secrets, live>>
    BY <1>15 DEF StatusFinished, Goto, ObjectType, HandlerType, world
  <2> QED BY <2>1, <2>2
<1>16. CASE Return
  BY <1>16 DEF Return, Idle, Handled, ObjectType, world
<1>17. CASE DeleteServer \/ NoServerToDelete \/ DeleteCredentials
  <2>1. object.deleting /\ object' = object /\ handler'.pc \in Deleting
    BY <1>17 DEF DeleteServer, NoServerToDelete, DeleteCredentials, Goto, KopfInv, Deleting, HandlerType,
                 world
  <2> QED BY <2>1 DEF Deleting
<1>18. CASE Release
  BY <1>18 DEF Release, NoObject, Idle
<1>19. CASE \E s \in Specs : CreateObject(s)
  BY <1>19 DEF CreateObject, NoObject, Unset, world
<1>20. CASE \E n \in SecretNames : RemoveCredentials(n)
  BY <1>20 DEF RemoveCredentials
<1> HIDE DEF UsableInv, InForce, At, TypeInv, TypeOK, BeforePublish
<1> QED
  BY <1>5, <1>6, <1>7, <1>8, <1>9, <1>10, <1>11, <1>12, <1>13, <1>14, <1>15, <1>16, <1>17,
     <1>18, <1>19, <1>20 DEF Next, Operator, User

\* When users set no label that resets, and as long as no user removes a secret and no
\* failure is swallowed, what the operator calls finished is usable: the secret holds
\* the password of the server, whatever calls fail and however often the operator stops,
\* the spec is edited or the object deleted and created again.
THEOREM UsableWhenFinished ==
    ASSUME KnownBackends, OneSecret, NoResets
    PROVE  Spec => []FinishedIsUsable
<1>1. Init => Thrifty /\ UnfailedInv /\ UsableInv
  <2> SUFFICES ASSUME Init PROVE Thrifty /\ UsableInv
    BY BackendInit, CredInit DEF UnfailedInv
  <2>1. \A k \in Kinds : budget[k] \in Nat /\ budget[k] = Budget[k]
    BY ServerAssumption DEF Init
  <2>2. Thrifty
    BY <2>1 DEF Thrifty
  <2> QED BY <2>2 DEF Init, UsableInv, NoObject, Idle, BeforePublish
<1>2. TypeInv /\ UsableInv => FinishedIsUsable
  <2> SUFFICES ASSUME TypeInv, UsableInv, Settled, object.deployment = "finished", Untouched
               PROVE  /\ secrets[object.spec.secret] # 0
                      /\ secrets[object.spec.secret] = live[postgres_backend(object.backend)]
    BY DEF FinishedIsUsable
  <2>1. object.backend \in Backends /\ InForce(object.backend) /\ object.exists
    BY DEF UsableInv, Settled
  <2>2. object.spec.secret \in SecretNames
    BY <2>1, ServerAssumption DEF TypeInv
  <2> QED BY <2>1, <2>2 DEF InForce, postgres_backend
<1>3. TypeInv /\ BoundInv /\ [Next]_vars => BoundInv'
  BY BoundStep
<1>4. Init => BoundInv
  BY BackendInit DEF BackendInv
<1>5. TypeInv /\ Thrifty /\ UnfailedInv /\ [Next]_vars => Thrifty' /\ UnfailedInv'
  BY ThriftStep, UnfailedStep
<1>6. TypeInv /\ Thrifty /\ KopfInv /\ BoundInv /\ UnfailedInv /\ UsableInv /\ [Next]_vars => UsableInv'
  BY UsableStep
<1> QED
  BY <1>1, <1>2, <1>3, <1>4, <1>5, <1>6, TypeInit, TypeStep, KopfInit, KopfStep, PTL DEF Spec
-----------------------------------------------------------------------------
(* A reset takes the old password out of use. *)

\* No password is newer than the newest one.
FreshInv ==
    /\ \A n \in SecretNames : secrets[n] <= generated
    /\ tmp_secret <= generated
    /\ handler.password <= generated
    /\ compromised.password <= generated

LEMMA FreshInit == Init => FreshInv
BY DEF Init, FreshInv, Idle, NoRequest

LEMMA FreshStep == TypeInv /\ FreshInv /\ [Next]_vars => FreshInv'
<1> SUFFICES ASSUME TypeInv, FreshInv, [Next]_vars PROVE FreshInv'
  OBVIOUS
<1> USE DEF TypeInv, TypeOK, FreshInv, HandlerType, At
<1>1. CASE UNCHANGED vars
  BY <1>1 DEF vars
<1>2. CASE \/ SkipControlLabel \/ RejectSpec \/ Return \/ Release
           \/ BeginHandling \/ BeginDelete \/ Abort \/ Restart
  <2>1. UNCHANGED <<secrets, tmp_secret, generated, compromised>>
    BY <1>2 DEF SkipControlLabel, RejectSpec, Return, Release, BeginHandling, BeginDelete,
                Abort, Restart, world, user
  <2>2. handler'.password \in {0, handler.password}
    <3>1. CASE SkipControlLabel \/ RejectSpec
      BY <3>1 DEF SkipControlLabel, RejectSpec
    <3>2. CASE Return \/ Release \/ Abort \/ Restart
      BY <3>2 DEF Return, Release, Abort, Restart, Idle
    <3>3. CASE BeginHandling \/ BeginDelete
      BY <3>3 DEF BeginHandling, BeginDelete, Begin, Idle
    <3> QED BY <1>2, <3>1, <3>2, <3>3
  <2> QED BY <2>1, <2>2
<1>3. CASE ReadCredentials
  <2>1. handler.spec.secret \in SecretNames
    BY <1>3, ServerAssumption DEF ReadCredentials
  <2>2. handler'.password \in {handler.password, secrets[handler.spec.secret]}
    BY <1>3 DEF ReadCredentials, Goto
  <2> QED BY <1>3, <2>1, <2>2 DEF ReadCredentials, world
<1>4. CASE UseStoredPassword \/ GeneratePassword
  <2>1. CASE UseStoredPassword
    BY <2>1 DEF UseStoredPassword, StoredPassword, user, world
  <2>2. CASE GeneratePassword
    BY <2>2 DEF GeneratePassword, user
  <2> QED BY <1>4, <2>1, <2>2
<1>5. CASE \/ NoCommand \/ SkipCommand \/ Unlabel \/ StatusWorking \/ ApplyServer \/ StatusFinished
           \/ DropTmp \/ DeleteServer \/ NoServerToDelete
  <2>1. handler'.password = handler.password
    BY <1>5 DEF NoCommand, SkipCommand, Unlabel, StatusWorking, ApplyServer, StatusFinished, DropTmp,
                DeleteServer, NoServerToDelete, Goto
  <2>2. tmp_secret' \in {0, tmp_secret} /\ UNCHANGED <<secrets, generated, compromised>>
    BY <1>5 DEF NoCommand, SkipCommand, Unlabel, StatusWorking, ApplyServer, StatusFinished, DropTmp,
                DeleteServer, NoServerToDelete, user, world
  <2> QED BY <2>1, <2>2
<1>6. CASE ResetWithdraw \/ ResetStash
  <2>1. CASE ResetStash
    BY <2>1 DEF ResetStash, user
  <2>2. CASE ResetWithdraw
    <3>1. /\ generated' = generated + 1 /\ handler'.password = generated'
          /\ UNCHANGED <<tmp_secret, compromised>>
      BY <2>2 DEF ResetWithdraw
    <3>2. \A n \in SecretNames : secrets'[n] \in {0, secrets[n]}
      BY <2>2 DEF ResetWithdraw, delete_secret
    <3> QED BY <3>1, <3>2
  <2> QED BY <1>6, <2>1, <2>2
<1>7. CASE Publish \/ DeleteCredentials
  BY <1>7 DEF Publish, DeleteCredentials, create_or_update_secret, delete_secret, Goto, user
<1>8. CASE \E l \in Labels : SetLabel(l)
  <2>1. object.exists => object.spec.secret \in SecretNames
    BY ServerAssumption
  <2> QED BY <1>8, <2>1 DEF SetLabel, NoRequest, world
<1>9. CASE \E s \in Specs : CreateObject(s) \/ EditSpec(s)
  BY <1>9 DEF CreateObject, EditSpec, NoRequest, world
<1>10. CASE DeleteObject \/ \E n \in SecretNames : RemoveCredentials(n)
  BY <1>10 DEF DeleteObject, RemoveCredentials, world
<1> HIDE DEF TypeInv, TypeOK, FreshInv, HandlerType, At
<1> QED
  BY <1>1, <1>2, <1>3, <1>4, <1>5, <1>6, <1>7, <1>8, <1>9, <1>10 DEF Next, Operator, User

\* What the command a handler has read says of its credentials.
LabelInv ==
    /\ handler.pc = "stash" => handler.label = ResetPassword
    /\ handler.pc = "unlabel" => handler.label # NoLabel
    /\ handler.label = ResetPassword /\ handler.pc \in {"unlabel", "working", "apply", "publish"} =>
           ~handler.credentials

LEMMA LabelStep == TypeInv /\ LabelInv /\ [Next]_vars => LabelInv'
<1> SUFFICES ASSUME TypeInv, LabelInv, [Next]_vars PROVE LabelInv'
  OBVIOUS
<1> USE DEF TypeInv, TypeOK, LabelInv, HandlerType, At
<1>1. CASE UNCHANGED vars
  BY <1>1 DEF vars
<1>2. CASE \/ SkipControlLabel \/ RejectSpec \/ DeleteObject \/ Abort \/ Restart
           \/ \E s \in Specs : EditSpec(s)
           \/ \E l \in Labels : SetLabel(l)
           \/ \E n \in SecretNames : RemoveCredentials(n)
  BY <1>2, UnboundActions
<1>3. CASE BeginHandling \/ BeginDelete
  <2>1. handler'.pc \in {"read", "delete"}
    BY <1>3 DEF BeginHandling, BeginDelete, Begin, Idle
  <2> QED BY <2>1
<1>4. CASE ReadCredentials \/ UseStoredPassword \/ GeneratePassword
  BY <1>4 DEF ReadCredentials, UseStoredPassword, GeneratePassword, Goto
<1>5. CASE NoCommand \/ SkipCommand \/ Unlabel \/ StatusWorking \/ ApplyServer
  BY <1>5 DEF NoCommand, SkipCommand, Unlabel, StatusWorking, ApplyServer, Goto, NoLabel, ResetPassword
<1>6. CASE ResetWithdraw \/ ResetStash
  BY <1>6 DEF ResetWithdraw, ResetStash, NoLabel, ResetPassword
<1>7. CASE \/ Publish \/ StatusFinished \/ DropTmp \/ DeleteServer \/ NoServerToDelete
           \/ DeleteCredentials
  BY <1>7 DEF Publish, StatusFinished, DropTmp, DeleteServer, NoServerToDelete,
              DeleteCredentials, Goto
<1>8. CASE Return \/ Release
  BY <1>8 DEF Return, Release, Idle
<1>9. CASE \E s \in Specs : CreateObject(s)
  BY <1>9 DEF CreateObject
<1> HIDE DEF TypeInv, TypeOK, LabelInv, HandlerType, At
<1> QED
  BY <1>1, <1>2, <1>3, <1>4, <1>5, <1>6, <1>7, <1>8, <1>9 DEF Next, Operator, User

\* The request whose outcome the property is about is still open to view.
OldPassword == compromised.password
Watched ==
    /\ object.exists /\ ~object.deleting
    /\ compromised.first /\ OldPassword # 0 /\ compromised.leftover # OldPassword

NoneHandled == \A e \in object.handled : e.label = NoLabel

\* The old password is not about to come back ...
NotBackInv ==
    /\ object.label \in {NoLabel, ResetPassword} /\ handler.label \in {NoLabel, ResetPassword}
    /\ tmp_secret # OldPassword
    /\ handler.pc = "stash" \/ (handler.pc \in BeforePublish /\ ~handler.credentials) =>
           handler.password # OldPassword

\* ... and once the label is off it is nowhere but, before the call of the backend, in
\* the server.
WithdrawnInv ==
    object.label = NoLabel =>
        /\ \A n \in SecretNames : secrets[n] # OldPassword
        /\ handler.pc \in BeforePublish \cup {"stash"} => handler.password # OldPassword
        /\ handler.pc \in Applied => OutOfUse(OldPassword)

\* While it is in the server kopf remembers no label whose removal it could ignore, and
\* takes the attempt that took the label off for unfinished.
PendingInv ==
    /\ handler.label = ResetPassword /\ handler.pc \in {"working", "apply"} \cup Applied =>
           object.label = NoLabel
    /\ object.label = ResetPassword /\ handler.label = NoLabel /\ ~At("idle") => NoneHandled
    /\ object.deployment = "finished" /\ ~OutOfUse(OldPassword) =>
           NoneHandled /\ (object.label = NoLabel => object.unfinished)

ResetInv == Watched => NotBackInv /\ WithdrawnInv /\ PendingInv

\* Most steps change neither what is watched nor its label.
LEMMA WatchedBefore ==
    ASSUME TypeInv, [Next]_vars, Watched', ~\E l \in Labels : SetLabel(l)
    PROVE  /\ Watched /\ UNCHANGED compromised
           /\ Unlabel \/ object'.label = object.label
<1> USE DEF Watched, OldPassword, TypeInv, TypeOK, ObjectType
<1>1. CASE UNCHANGED vars
  BY <1>1 DEF vars
<1>2. CASE \/ SkipControlLabel \/ RejectSpec \/ DeleteObject \/ BeginHandling \/ BeginDelete
           \/ Return \/ Release \/ Abort \/ Restart
           \/ \E s \in Specs : EditSpec(s)
           \/ \E n \in SecretNames : RemoveCredentials(n)
  <2>1. CASE SkipControlLabel \/ RejectSpec \/ BeginHandling \/ BeginDelete
    BY <2>1 DEF SkipControlLabel, RejectSpec, BeginHandling, BeginDelete, Handled, user
  <2>2. CASE Abort \/ Restart
    BY <2>2 DEF Abort, Restart, Resumed
  <2>4. CASE Return
    BY <2>4 DEF Return, Handled, user
  <2>5. CASE Release
    BY <2>5 DEF Release, NoObject
  <2>3. CASE \/ DeleteObject \/ \E s \in Specs : EditSpec(s)
             \/ \E n \in SecretNames : RemoveCredentials(n)
    BY <2>3 DEF DeleteObject, EditSpec, RemoveCredentials
  <2> QED BY <1>2, <2>1, <2>2, <2>3, <2>4, <2>5
<1>3. CASE \/ ReadCredentials \/ UseStoredPassword \/ GeneratePassword \/ NoCommand
           \/ ResetWithdraw \/ ResetStash \/ SkipCommand \/ Unlabel \/ Publish \/ DropTmp
  BY <1>3, HandlerMoves
<1>4. CASE \/ StatusWorking \/ ApplyServer \/ StatusFinished \/ DeleteServer \/ NoServerToDelete
           \/ DeleteCredentials
  BY <1>4 DEF StatusWorking, ApplyServer, StatusFinished, DeleteServer, NoServerToDelete,
              DeleteCredentials, user
<1>5. CASE \E s \in Specs : CreateObject(s)
  BY <1>5 DEF CreateObject, NoRequest
<1> QED
  BY <1>1, <1>2, <1>3, <1>4, <1>5 DEF Next, Operator, User

\* The request itself.
LEMMA ResetAsked ==
    ASSUME TypeInv, CredInv, FreshInv, LabelInv, NEW l \in Labels, SetLabel(l)
    PROVE  ResetInv'
<1> SUFFICES ASSUME Watched' PROVE NotBackInv' /\ WithdrawnInv' /\ PendingInv'
  BY DEF ResetInv
<1>1. /\ l = ResetPassword
      /\ OldPassword' = secrets[object.spec.secret] /\ OldPassword' # 0 /\ tmp_secret # OldPassword'
      /\ object.label = NoLabel /\ handler.label = NoLabel /\ NoneHandled
  BY DEF SetLabel, Watched, OldPassword, NoRequest, NoLabelAtWork, NoneHandled
<1>2. /\ object'.label = ResetPassword /\ object'.handled = object.handled
      /\ UNCHANGED <<handler, tmp_secret>>
  BY <1>1 DEF SetLabel, TypeInv, TypeOK, ObjectType, world
<1>3. object.spec.secret \in SecretNames
  BY ServerAssumption DEF SetLabel, TypeInv
<1>4. handler.pc \in BeforePublish => handler.credentials
  BY <1>1, <1>3 DEF CredInv
<1>5. handler.pc # "stash"
  BY <1>1 DEF LabelInv, NoLabel, ResetPassword
<1>6. NotBackInv'
  BY <1>1, <1>2, <1>4, <1>5 DEF NotBackInv
<1>7. ResetPassword # NoLabel
  BY DEF ResetPassword, NoLabel
<1>8. NoneHandled'
  BY <1>1, <1>2 DEF NoneHandled
<1> QED
  BY <1>1, <1>2, <1>6, <1>7, <1>8 DEF WithdrawnInv, PendingInv

\* What a step meets that is not the request.
Watching ==
    /\ Watched /\ UNCHANGED compromised
    /\ Unlabel \/ object'.label = object.label

LEMMA NotBackStep ==
    ASSUME ReliableCalls, TypeInv, CredInv, FreshInv, Watching, NotBackInv, [Next]_vars,
           ~\E l \in Labels : SetLabel(l)
    PROVE  NotBackInv'
<1> USE DEF NotBackInv, Watching, Watched, OldPassword, TypeInv, TypeOK, HandlerType, At, BeforePublish
<1>0. object'.label \in {NoLabel, ResetPassword}
  BY DEF Unlabel, ObjectType
<1>1. CASE UNCHANGED vars
  BY <1>1 DEF vars
<1>2. CASE \/ SkipControlLabel \/ RejectSpec \/ DeleteObject \/ Abort \/ Restart
           \/ \E s \in Specs : EditSpec(s)
           \/ \E n \in SecretNames : RemoveCredentials(n)
  <2>1. UNCHANGED tmp_secret
    BY <1>2 DEF SkipControlLabel, RejectSpec, DeleteObject, Abort, Restart, EditSpec,
                RemoveCredentials, world
  <2>2. handler' = Idle \/ UNCHANGED handler
    BY <1>2 DEF SkipControlLabel, RejectSpec, DeleteObject, Abort, Restart, EditSpec,
                RemoveCredentials
  <2> QED BY <1>0, <2>1, <2>2 DEF Idle
<1>3. CASE BeginHandling \/ BeginDelete
  <2>1. /\ handler'.pc \in {"read", "delete"} /\ handler'.label = object.label
        /\ UNCHANGED tmp_secret
    BY <1>3 DEF BeginHandling, BeginDelete, Begin, Idle, world
  <2> QED BY <1>0, <2>1
<1>4. CASE ReadCredentials
  <2>1. /\ handler'.label = handler.label /\ handler'.pc = "password"
        /\ UNCHANGED <<object, tmp_secret>>
    BY <1>4 DEF ReadCredentials, Goto, world
  <2>2. handler'.credentials \/ handler'.password = 0
    BY <1>4 DEF ReadCredentials, MayFail, ReliableCalls
  <2> QED BY <1>0, <2>1, <2>2
<1>5. CASE UseStoredPassword
  BY <1>0, <1>5 DEF UseStoredPassword, StoredPassword, world
<1>6. CASE GeneratePassword
  BY <1>0, <1>6 DEF GeneratePassword, FreshInv
<1>7. CASE ResetWithdraw
  BY <1>0, <1>7 DEF ResetWithdraw, FreshInv
<1>8. CASE ResetStash
  BY <1>0, <1>8 DEF ResetStash
<1>9. CASE \/ NoCommand \/ SkipCommand \/ Unlabel \/ StatusWorking \/ ApplyServer \/ Publish
           \/ StatusFinished \/ DropTmp \/ DeleteServer \/ NoServerToDelete \/ DeleteCredentials
  <2>1. /\ handler'.label = handler.label /\ handler'.password = handler.password
        /\ handler'.credentials = handler.credentials
        /\ handler'.pc \in BeforePublish => handler.pc \in BeforePublish
        /\ handler'.pc # "stash"
    BY <1>9 DEF NoCommand, SkipCommand, Unlabel, StatusWorking, ApplyServer, Publish, StatusFinished,
                DropTmp, DeleteServer, NoServerToDelete, DeleteCredentials, Goto
  <2>2. tmp_secret' \in {0, tmp_secret}
    BY <1>9 DEF NoCommand, SkipCommand, Unlabel, StatusWorking, ApplyServer, Publish, StatusFinished,
                DropTmp, DeleteServer, NoServerToDelete, DeleteCredentials, world
  <2> QED BY <1>0, <2>1, <2>2
<1>10. CASE Return \/ Release
  BY <1>0, <1>10 DEF Return, Release, Idle, world
<1>11. CASE \E s \in Specs : CreateObject(s)
  BY <1>0, <1>11 DEF CreateObject, world
<1> HIDE DEF NotBackInv, Watching, Watched, OldPassword, TypeInv, TypeOK, HandlerType, At, BeforePublish
<1> QED
  BY <1>1, <1>2, <1>3, <1>4, <1>5, <1>6, <1>7, <1>8, <1>9, <1>10, <1>11 DEF Next, Operator, User

LEMMA WithdrawnStep ==
    ASSUME ReliableCalls, OneSecret, TypeInv, BackendInv, CredInv, FreshInv, LabelInv, Watching,
           NotBackInv, NotBackInv', WithdrawnInv, [Next]_vars, ~\E l \in Labels : SetLabel(l)
    PROVE  WithdrawnInv'
<1> SUFFICES ASSUME object'.label = NoLabel
             PROVE  /\ \A n \in SecretNames : secrets'[n] # OldPassword
                    /\ handler'.pc \in BeforePublish \cup {"stash"} => handler'.password # OldPassword
                    /\ handler'.pc \in Applied => \A b \in Backends : live'[b] # OldPassword
  BY DEF WithdrawnInv, OutOfUse, OldPassword, Watching
<1>0. ~Unlabel =>
          /\ \A n \in SecretNames : secrets[n] # OldPassword
          /\ handler.pc \in BeforePublish \cup {"stash"} => handler.password # OldPassword
          /\ handler.pc \in Applied => \A b \in Backends : live[b] # OldPassword
  BY DEF WithdrawnInv, OutOfUse, OldPassword, Watching
<1> USE DEF Watching, Watched, OldPassword, TypeInv, TypeOK, HandlerType, At, BeforePublish, Applied
<1>17. UNCHANGED handler \/ handler'.pc # "working" => ~Unlabel
  BY DEF Unlabel, Goto
<1>1. CASE UNCHANGED vars
  BY <1>0, <1>1, <1>17 DEF vars
<1>2. CASE \/ SkipControlLabel \/ RejectSpec \/ DeleteObject \/ Abort \/ Restart
           \/ \E s \in Specs : EditSpec(s)
  <2>1. UNCHANGED <<secrets, live>>
    BY <1>2 DEF SkipControlLabel, RejectSpec, DeleteObject, Abort, Restart, EditSpec, world
  <2>2. handler'.pc = "idle" \/ UNCHANGED handler
    BY <1>2, UnboundActions
  <2> QED BY <1>0, <1>17, <2>1, <2>2
<1>3. CASE BeginHandling \/ BeginDelete
  <2>1. handler'.pc \in {"read", "delete"} /\ UNCHANGED <<secrets, live>> /\ ~Unlabel
    BY <1>3 DEF BeginHandling, BeginDelete, Begin, Idle, world, Unlabel
  <2> QED BY <1>0, <2>1
<1>4. CASE ReadCredentials
  <2>1. handler'.pc = "password" /\ UNCHANGED <<secrets, live>> /\ ~Unlabel
    BY <1>4 DEF ReadCredentials, Goto, world, Unlabel
  <2>2. handler.spec.secret \in SecretNames /\ handler'.password = secrets[handler.spec.secret]
    BY <1>4, ServerAssumption DEF ReadCredentials, MayFail, ReliableCalls
  <2> QED BY <1>0, <2>1, <2>2
<1>5. CASE UseStoredPassword
  <2>1. handler'.pc = "label" /\ handler'.password \in {handler.password, tmp_secret}
    BY <1>5 DEF UseStoredPassword, StoredPassword
  <2> QED BY <1>0, <1>5, <2>1 DEF UseStoredPassword, Unlabel, NotBackInv, world
<1>6. CASE GeneratePassword
  BY <1>0, <1>6 DEF GeneratePassword, FreshInv, Unlabel
<1>7. CASE ResetWithdraw
  <2>1. \A n \in SecretNames : secrets'[n] \in {0, secrets[n]}
    BY <1>7 DEF ResetWithdraw, delete_secret
  <2>2. handler'.pc = "stash" /\ handler'.password = generated + 1 /\ handler.pc = "label"
    BY <1>7 DEF ResetWithdraw
  <2> QED BY <1>0, <2>1, <2>2 DEF FreshInv, Unlabel
<1>8. CASE ResetStash
  BY <1>0, <1>8 DEF ResetStash, Unlabel
<1>9. CASE Unlabel
  <2>1. handler.label = ResetPassword /\ handler.pc = "unlabel" /\ ~handler.credentials
    BY <1>9 DEF Unlabel, LabelInv, NotBackInv
  <2>2. handler' = [handler EXCEPT !.pc = "working"] /\ UNCHANGED <<secrets, live>>
    BY <1>9 DEF Unlabel, Goto, world
  <2> QED BY <2>1, <2>2 DEF NotBackInv, CredInv
<1>10. CASE NoCommand \/ SkipCommand \/ StatusWorking
  BY <1>0, <1>10 DEF NoCommand, SkipCommand, StatusWorking, Goto, Unlabel, world
<1>11. CASE ApplyServer
  <2>1. /\ handler.pc = "apply" /\ handler' = [handler EXCEPT !.pc = "publish"] /\ UNCHANGED secrets
        /\ handler.password # OldPassword /\ \A n \in SecretNames : secrets[n] # OldPassword
    BY <1>0, <1>11 DEF ApplyServer, Goto, Unlabel
  <2>2. handler.backend \in Backends /\ object.backend = handler.backend
    BY <2>1 DEF BackendInv, BoundInv
  <2>3. \A b \in Backends : b # handler.backend => live'[b] = 0
    BY <1>11, <2>2 DEF ApplyServer, postgres_backend, BackendInv
  <2>4. live'[handler.backend] = handler.password
    BY <1>11, <2>2 DEF ApplyServer, postgres_backend, CredInv
  <2> QED BY <2>1, <2>3, <2>4
<1>12. CASE Publish
  <2>1. handler.spec.secret \in SecretNames
    BY <1>12, ServerAssumption DEF Publish
  <2>2. \A n \in SecretNames : secrets'[n] \in {secrets[n], handler.password}
    BY <1>12, <2>1 DEF Publish, create_or_update_secret
  <2>3. handler.pc = "publish" /\ handler'.pc = "drop" /\ UNCHANGED live /\ ~Unlabel
    BY <1>12 DEF Publish, Goto, Unlabel
  <2> QED BY <1>0, <2>2, <2>3
<1>13. CASE DropTmp \/ StatusFinished
  <2>1. handler.pc \in {"drop", "finish"} /\ handler'.pc \in {"finish", "return"}
    BY <1>13 DEF DropTmp, StatusFinished, Goto
  <2>2. UNCHANGED <<secrets, live>> /\ ~Unlabel
    BY <1>13 DEF DropTmp, StatusFinished, world, Unlabel
  <2> QED BY <1>0, <2>1, <2>2
<1>14. CASE DeleteServer \/ NoServerToDelete \/ DeleteCredentials
  <2>1. handler'.pc \in {"delete_secret", "release"} /\ ~Unlabel
    BY <1>14 DEF DeleteServer, NoServerToDelete, DeleteCredentials, Goto, Unlabel
  <2>2. \A n \in SecretNames : secrets'[n] \in {0, secrets[n]}
    BY <1>14 DEF DeleteServer, NoServerToDelete, DeleteCredentials, delete_secret, world
  <2> QED BY <1>0, <2>1, <2>2
<1>15. CASE Return \/ Release
  <2>1. handler'.pc = "idle" /\ UNCHANGED secrets /\ ~Unlabel
    BY <1>15 DEF Return, Release, Idle, world, Unlabel
  <2> QED BY <1>0, <2>1
<1>16. CASE \/ \E s \in Specs : CreateObject(s)
            \/ \E n \in SecretNames : RemoveCredentials(n)
  <2>1. UNCHANGED <<handler, live>> /\ \A n \in SecretNames : secrets'[n] \in {0, secrets[n]}
    BY <1>16 DEF CreateObject, RemoveCredentials, world
  <2>2. ~Unlabel
    BY <2>1 DEF Unlabel, Goto
  <2> QED BY <1>0, <2>1, <2>2
<1> HIDE DEF Watching, Watched, OldPassword, TypeInv, TypeOK, HandlerType, At, BeforePublish, Applied
<1> QED
  BY <1>1, <1>2, <1>3, <1>4, <1>5, <1>6, <1>7, <1>8, <1>9, <1>10, <1>11, <1>12, <1>13, <1>14,
     <1>15, <1>16 DEF Next, Operator, User

LEMMA PendingStep ==
    ASSUME TypeInv, BackendInv, KopfInv, LabelInv, Watching, NotBackInv, WithdrawnInv, PendingInv,
           [Next]_vars, ~\E l \in Labels : SetLabel(l)
    PROVE  PendingInv'
<1> USE DEF PendingInv, NoneHandled, OutOfUse, Watching, Watched, OldPassword, TypeInv, TypeOK,
            HandlerType, At, Applied
<1>0. NoLabel # ResetPassword
  BY DEF NoLabel, ResetPassword
<1>1. CASE UNCHANGED vars
  BY <1>1 DEF vars
<1>2. CASE SkipControlLabel
  <2>1. ~NoneHandled
    BY <1>2, IgnoredLabel DEF SkipControlLabel
  <2>2. object.deployment = "finished" => OutOfUse(OldPassword)
    BY <2>1
  <2>3. object'.deployment = object.deployment /\ handler'.pc = "idle" /\ UNCHANGED live
    BY <1>2 DEF SkipControlLabel, Handled, ObjectType, world
  <2> QED BY <2>2, <2>3
<1>3. CASE RejectSpec
  <2>1. object'.deployment = "failed" /\ handler'.pc = "idle"
    BY <1>3 DEF RejectSpec, Handled, ObjectType
  <2> QED BY <2>1
<1>4. CASE BeginHandling
  <2>1. /\ object'.handled = object.handled /\ object'.unfinished
        /\ object'.deployment = object.deployment /\ object'.label = object.label
    BY <1>4 DEF BeginHandling, ObjectType
  <2>2. handler'.label = object.label /\ handler'.pc = "read" /\ UNCHANGED live
    BY <1>4 DEF BeginHandling, Begin, Idle, world
  <2> QED BY <1>0, <2>1, <2>2
<1>5. CASE BeginDelete
  BY <1>5 DEF BeginDelete
<1>6. CASE \/ ReadCredentials \/ UseStoredPassword \/ GeneratePassword \/ ResetWithdraw
           \/ ResetStash \/ SkipCommand \/ Publish \/ DropTmp
  <2>1. UNCHANGED <<object, live>> /\ handler'.label = handler.label
    BY <1>6, HandlerMoves DEF Unlabel, SkipCommand, ReadCredentials, UseStoredPassword, GeneratePassword,
             ResetWithdraw, ResetStash, Publish, DropTmp
  <2>2. /\ handler.pc # "idle"
        /\ handler'.pc \in {"working", "apply"} \cup Applied => handler.pc \in {"working", "apply"} \cup Applied
    BY <1>6 DEF SkipCommand, ReadCredentials, UseStoredPassword, GeneratePassword,
             ResetWithdraw, ResetStash, Publish, DropTmp, Goto
  <2> QED BY <2>1, <2>2
<1>7. CASE NoCommand
  BY <1>0, <1>7 DEF NoCommand, Goto, world
<1>8. CASE Unlabel
  <2>1. handler.label = ResetPassword /\ object.unfinished
    BY <1>8 DEF Unlabel, LabelInv, NotBackInv, KopfInv, Handling
  <2>2. /\ object' = [object EXCEPT !.label = NoLabel] /\ UNCHANGED live
        /\ handler' = [handler EXCEPT !.pc = "working"]
    BY <1>8 DEF Unlabel, Goto, world
  <2> QED BY <1>0, <2>1, <2>2 DEF ObjectType
<1>9. CASE StatusWorking
  <2>1. /\ object'.deployment = "working" /\ object'.label = object.label
        /\ object'.handled = object.handled
        /\ handler' = [handler EXCEPT !.pc = "apply"] /\ handler.pc = "working"
    BY <1>9 DEF StatusWorking, Goto, ObjectType
  <2> QED BY <2>1
<1>10. CASE ApplyServer
  <2>1. /\ object.deployment = "working" /\ object' = object
        /\ handler' = [handler EXCEPT !.pc = "publish"] /\ handler.pc = "apply"
    BY <1>10 DEF ApplyServer, Goto, KopfInv
  <2> QED BY <2>1
<1>11. CASE StatusFinished
  <2>1. /\ object'.label = object.label /\ object'.handled = object.handled /\ object.unfinished
        /\ object'.unfinished = object.unfinished /\ UNCHANGED live
        /\ handler' = [handler EXCEPT !.pc = "return"] /\ handler.pc = "finish"
    BY <1>11 DEF StatusFinished, Goto, ObjectType, world, KopfInv, Handling
  <2>2. object.label = NoLabel => OutOfUse(OldPassword)
    BY <2>1 DEF WithdrawnInv
  <2>3. ~OutOfUse(OldPassword) => NoneHandled
    BY <2>1, <2>2 DEF NotBackInv
  <2> QED BY <2>1, <2>2, <2>3
<1>12. CASE Return
  <2>1. /\ object'.handled = {[spec |-> handler.spec, label |-> handler.label]}
        /\ object'.label = object.label
        /\ handler'.pc = "idle" /\ handler.pc = "return" /\ UNCHANGED live
    BY <1>12 DEF Return, Handled, Essence, ObjectType, Idle, world
  <2>2. object.label = NoLabel => OutOfUse(OldPassword)
    BY <2>1 DEF WithdrawnInv
  <2>3. handler.label = ResetPassword => object.label = NoLabel
    BY <2>1
  <2> QED BY <2>1, <2>2, <2>3 DEF NotBackInv
<1>13. CASE DeleteServer \/ NoServerToDelete \/ DeleteCredentials
  BY <1>13 DEF DeleteServer, NoServerToDelete, DeleteCredentials, KopfInv, Deleting
<1>14. CASE Release
  BY <1>14 DEF Release, KopfInv, Deleting
<1>15. CASE Abort \/ Restart
  <2>1. /\ object'.handled = object.handled /\ object'.unfinished = object.unfinished
        /\ object'.deployment = object.deployment /\ object'.label = object.label
        /\ UNCHANGED live
    BY <1>15 DEF Abort, Restart, Resumed, ObjectType, world
  <2>2. handler'.pc = "idle"
    BY <1>15 DEF Abort, Restart, Idle
  <2> QED BY <2>1, <2>2
<1>16. CASE \E s \in Specs : CreateObject(s)
  BY <1>16 DEF CreateObject
<1>17. CASE \/ DeleteObject
            \/ \E s \in Specs : EditSpec(s)
            \/ \E n \in SecretNames : RemoveCredentials(n)
  <2>1. /\ object'.handled = object.handled /\ object'.unfinished = object.unfinished
        /\ object'.deployment = object.deployment /\ object'.label = object.label
        /\ UNCHANGED <<live, handler>>
    BY <1>17 DEF DeleteObject, EditSpec, RemoveCredentials, ObjectType, world
  <2> QED BY <2>1
<1> HIDE DEF PendingInv, NoneHandled, OutOfUse, Watching, Watched, OldPassword, TypeInv, TypeOK,
             HandlerType, At, Applied
<1> QED
  BY <1>1, <1>2, <1>3, <1>4, <1>5, <1>6, <1>7, <1>8, <1>9, <1>10, <1>11, <1>12, <1>13, <1>14,
     <1>15, <1>16, <1>17 DEF Next, Operator, User

LEMMA ResetStep ==
    ASSUME ReliableCalls, OneSecret, TypeInv, BackendInv, CredInv, KopfInv, FreshInv, LabelInv,
           ResetInv, [Next]_vars
    PROVE  ResetInv'
<1>1. CASE \E l \in Labels : SetLabel(l)
  BY <1>1, ResetAsked
<1>2. CASE ~\E l \in Labels : SetLabel(l)
  <2> SUFFICES ASSUME Watched' PROVE NotBackInv' /\ WithdrawnInv' /\ PendingInv'
    BY DEF ResetInv
  <2>1. Watching
    BY <1>2, WatchedBefore DEF Watching
  <2>2. NotBackInv /\ WithdrawnInv /\ PendingInv
    BY <2>1 DEF Watching, ResetInv
  <2>3. NotBackInv'
    BY <1>2, <2>1, <2>2, NotBackStep
  <2>4. WithdrawnInv'
    BY <1>2, <2>1, <2>2, <2>3, WithdrawnStep
  <2>5. PendingInv'
    BY <1>2, <2>1, <2>2, PendingStep
  <2> QED BY <2>3, <2>4, <2>5
<1> QED
  BY <1>1, <1>2

\* Without swallowed errors, with one secret name and with failed attempts retried, a
\* reset does what it was asked for: once the label is gone and the operator says it is
\* finished, the old password opens nothing - through attempts that break off at any
\* call, restarts, edits, refused specs and further requests in between.
THEOREM ResetTakesEffect ==
    ASSUME KnownBackends, ReliableCalls, OneSecret, RetryUnchanged
    PROVE  Spec => []ResetRotates
<1>1. Init => LabelInv /\ ResetInv
  BY DEF Init, LabelInv, ResetInv, Watched, OldPassword, NoRequest, Idle, NoLabel, ResetPassword
<1>2. ResetInv => ResetRotates
  BY DEF ResetInv, Watched, OldPassword, PendingInv, ResetRotates, ResetDone, Settled, NeedsHandling
<1>3. TypeInv /\ BackendInv /\ CredInv /\ [Next]_vars => TypeInv' /\ BackendInv' /\ CredInv'
  BY ReliableStep
<1>4. TypeInv /\ BackendInv /\ CredInv /\ KopfInv /\ FreshInv /\ LabelInv /\ ResetInv /\ [Next]_vars
          => ResetInv'
  BY ResetStep
<1> QED
  BY <1>1, <1>2, <1>3, <1>4, TypeInit, BackendInit, CredInit, KopfInit, KopfStep, FreshInit,
     FreshStep, LabelStep, PTL DEF Spec
-----------------------------------------------------------------------------
(* What the handler accepts, and what becomes of it (ServerSpecs) *)

\* What Accept makes of a spec.
Size == determine_size(backend, spec, conf)
Day  == maintenance_window(backend, spec.window)

SpecsInv ==
    /\ backend \in AllBackends /\ spec \in UserSpecType /\ conf \in ConfType
    /\ \/ outcome.verdict \in {"none", "rejected"}
       \/ /\ valid_on(backend, spec, conf)
          /\ outcome.verdict = IF Raised \in {Size[2], Day} THEN "raised"
                               ELSE IF Day = Refused THEN "refused" ELSE "translated"
          /\ outcome.cpu = Size[2] /\ outcome.storage = storage_gb(backend, spec)
          /\ outcome.version = map_version(backend, spec.version) /\ outcome.day = Day

LEMMA SpecsStep == SpecsInv /\ [Handle]_submission => SpecsInv'
<1> SUFFICES ASSUME SpecsInv, [Handle]_submission PROVE SpecsInv'
  OBVIOUS
<1>1. CASE Reject
  BY <1>1 DEF Reject, Nothing, SpecsInv
<1>2. CASE Accept
  BY <1>2 DEF Accept, SpecsInv, Size, Day
<1>3. CASE UNCHANGED submission
  BY <1>3 DEF submission, SpecsInv, Size, Day
<1> QED
  BY <1>1, <1>2, <1>3 DEF Handle

LEMMA CapacityEnough ==
    ASSUME NEW cpu \in Int,
           NEW steps \in {{2, 4, 8, 16, 32, 64}, {2, 4, 8, 16, 32, 48, 64}}
    PROVE  /\ Capacity(cpu, steps) \in Nat \ {0}
           /\ Capacity(cpu, steps) >= cpu \/ Capacity(cpu, steps) = 64
<1> DEFINE fits == {step \in steps : cpu <= step}
<1>1. CASE fits = {}
  BY <1>1 DEF Capacity
<1>2. CASE fits # {}
  <2>1. \E step \in fits : \A other \in fits : step <= other
    BY <1>2
  <2>2. PICK step \in fits : Capacity(cpu, steps) = step
    BY <1>2, <2>1 DEF Capacity
  <2> QED BY <2>2
<1> QED
  BY <1>1, <1>2

\* The size: nothing raises if the default class is among the classes, and the processors
\* are enough.
LEMMA SizeGiven ==
    ASSUME SpecsInv
    PROVE  /\ conf.default \in conf.classes => Size[2] # Raised
           /\ Size[2] \notin {Missing, Raised} /\ spec.cpu # Missing =>
                  Size[2] >= spec.cpu \/ Size[2] = 64
<1>0. /\ spec.cpu \in Nat \ {0} \/ spec.cpu = Missing
      /\ Missing = -1 /\ Raised = -2
  BY SpecsAssumption DEF SpecsInv, UserSpecType, Missing, Raised
<1>1. \A d \in {1, 2} : Given(spec.cpu, d) \in Nat \ {0}
                        /\ (spec.cpu # Missing => Given(spec.cpu, d) = spec.cpu)
  BY <1>0 DEF Given
<1>2. \A class : /\ Lookup(class, conf)[2] \in {Missing, Raised}
                 /\ conf.default \in conf.classes => Lookup(class, conf)[2] = Missing
  BY DEF Lookup
<1>3. CASE backend \in {"azurepostgres", "azurepostgresflexible"}
  <2>1. \/ Size = Lookup(spec.class, conf)
        \/ Size[2] = Capacity(Given(spec.cpu, 1), {2, 4, 8, 16, 32, 64})
        \/ Size[2] = Capacity(Given(spec.cpu, 2), {2, 4, 8, 16, 32, 48, 64})
    BY <1>3 DEF Size, determine_size, single_sku, flexible_sku
  <2>2. CASE Size = Lookup(spec.class, conf)
    BY <1>0, <1>2, <2>2
  <2>3. CASE Size[2] = Capacity(Given(spec.cpu, 1), {2, 4, 8, 16, 32, 64})
    BY <1>0, <1>1, <2>3, CapacityEnough
  <2>4. CASE Size[2] = Capacity(Given(spec.cpu, 2), {2, 4, 8, 16, 32, 48, 64})
    BY <1>0, <1>1, <2>4, CapacityEnough
  <2> QED BY <2>1, <2>2, <2>3, <2>4
<1>4. CASE backend \in {"awsrds", "awsaurora"}
  <2>1. Size = AwsClass(spec, conf)
    BY <1>4 DEF Size, determine_size, rds_instance_class, aurora_instance_class
  <2> QED BY <1>0, <2>1 DEF AwsClass
<1>5. CASE backend \in {"helmbitnami", "helmyugabyte"}
  <2>1. Size = Lookup(spec.class, conf) \/ Size[2] = Given(spec.cpu, 1)
    BY <1>5 DEF Size, determine_size, bitnami_size, yugabyte_size
  <2> QED BY <1>0, <1>1, <1>2, <2>1
<1> QED
  BY <1>3, <1>4, <1>5 DEF SpecsInv, AllBackends

\* The maintenance window.
LEMMA DayGiven ==
    ASSUME SpecsInv
    PROVE  /\ Day = Raised => spec.window.given /\ (backend \in Aws \/ ~spec.window.time)
           /\ /\ backend = "azurepostgresflexible" /\ Day \notin {Raised, Refused}
              /\ spec.window.given /\ ~spec.window.named
              => Day = spec.window.day
<1>1. spec.window.day \in {0, 2, Missing}
  <2>1. spec.window \in WindowType
    BY DEF SpecsInv, UserSpecType
  <2>2. NoWindow.day = 0
    BY DEF NoWindow
  <2>3. \A w \in [given : {TRUE}, day : {0, 2, Missing}, named : BOOLEAN, time : BOOLEAN] :
           w.day \in {0, 2, Missing}
    OBVIOUS
  <2> QED BY <2>1, <2>2, <2>3 DEF WindowType
<1>2. Missing = -1 /\ Raised = -2 /\ Refused = -3
  BY DEF Missing, Raised, Refused
<1> QED
  BY <1>1, <1>2 DEF Day, maintenance_window, flexible_window, calculate_maintenance_window,
                    Aws, SpecsInv, AllBackends

\* The version: the major version asked for or the default one, on aws as it was asked for.
LEMMA VersionGiven ==
    ASSUME SpecsInv, spec.version # <<>>, map_version(backend, spec.version) # <<>>
    PROVE  LET version == map_version(backend, spec.version)
           IN  /\ version[1] # spec.version[1] => version = map_version(backend, <<>>)
               /\ backend \in Aws /\ Len(spec.version) = 2 => version = spec.version
<1>1. PICK m \in Majors : m \in Nat \ {0} /\ spec.version \in {<<m>>, <<m, 4>>}
  <2>1. spec.version \in (Majors \X {4}) \cup {<<m>> : m \in Majors}
    BY DEF SpecsInv, UserSpecType
  <2>2. Majors \subseteq Nat \ {0}
    BY SpecsAssumption
  <2>3. CASE spec.version \in Majors \X {4}
    <3>1. PICK m \in Majors, n \in {4} : spec.version = <<m, n>>
      BY <2>3
    <3> QED BY <2>2, <3>1
  <2> QED BY <2>1, <2>2, <2>3
<1>2. Major(spec.version) = m /\ spec.version[1] = m /\ Major(<<>>) = 0
  BY <1>1 DEF Major
<1>3. CASE backend = "azurepostgres"
  BY <1>2, <1>3 DEF map_version, single_version, Aws
<1>4. CASE backend = "azurepostgresflexible"
  BY <1>2, <1>4 DEF map_version, flexible_version, Aws
<1>5. \A newest, default :
         /\ Len(spec.version) = 2 => Newest(spec.version, newest, default) = spec.version
         /\ \/ Newest(spec.version, newest, default)[1] = m
            \/ Newest(spec.version, newest, default) = default
         /\ 0 \notin DOMAIN newest => Newest(<<>>, newest, default) = default
  BY <1>1, <1>2 DEF Newest
<1>6. CASE backend \in {"awsrds", "awsaurora"}
  BY <1>2, <1>5, <1>6 DEF map_version, rds_version, aurora_version
<1> QED
  BY <1>3, <1>4, <1>6 DEF SpecsInv, AllBackends, map_version

\* A spec that a backend accepts is translated and does not keep the handler retrying, for all
\* specs and configurations - if the default class is among the classes, a window has its time,
\* and aws gets no window (aws_base.py:64).
THEOREM AcceptedAlwaysTranslated == Translation => []AcceptedIsTranslated
<1>1. Submitted => SpecsInv
  BY SpecsAssumption DEF Submitted, Nothing, SpecsInv
<1>2. SpecsInv => AcceptedIsTranslated
  BY SizeGiven, DayGiven DEF SpecsInv, AcceptedIsTranslated
<1> QED
  BY <1>1, <1>2, SpecsStep, PTL DEF Translation

\* What a spec that is translated asks for is granted, for all specs and configurations.
THEOREM TranslatedAlwaysGranted == Translation => []TranslatedIsGranted
<1>1. Submitted => SpecsInv
  BY SpecsAssumption DEF Submitted, Nothing, SpecsInv
<1>2. SpecsInv => TranslatedIsGranted
  <2> SUFFICES ASSUME SpecsInv, outcome.verdict = "translated" PROVE TranslatedIsGranted
    BY DEF TranslatedIsGranted
  <2>1. /\ valid_on(backend, spec, conf)
        /\ Size[2] # Raised /\ Day \notin {Raised, Refused}
        /\ outcome.cpu = Size[2] /\ outcome.storage = storage_gb(backend, spec)
        /\ outcome.version = map_version(backend, spec.version) /\ outcome.day = Day
    BY DEF SpecsInv
  <2>2. spec.storage # Missing /\ backend # "awsaurora" =>
            /\ outcome.storage = spec.storage
            /\ backend \in Azure /\ conf.storage_limit # 0 =>
                   outcome.storage <= conf.storage_limit
    BY <2>1 DEF SpecsInv, AllBackends, storage_gb, Given, Azure, valid_on,
                single_valid, flexible_valid, Limited
  <2> QED BY <2>1, <2>2, SizeGiven, DayGiven, VersionGiven DEF TranslatedIsGranted
<1> QED
  BY <1>1, <1>2, SpecsStep, PTL DEF Translation
=============================================================================
