---------------------- MODULE PostgresqlDatabaseProofs ----------------------
(***************************************************************************)
(* Theorems about PostgresqlDatabase, for every set of secrets and specs,  *)
(* every way a backend reaches a database, and every bound on what users,  *)
(* servers and failures do; and, in the last section, about the same       *)
(* handlers together with those of their server (ServerAndDatabase).       *)
(***************************************************************************)
EXTENDS ServerAndDatabase, TLAPS

\* Shorthands of the module, expanded in every proof.
USE DEF Step, Quiet

\* Type correctness is not inductive alone: a running handler belongs to an object,
\* and the specs at hand are specs a user wrote.
TypeInv ==
    /\ TypeOK
    /\ object.exists => object.spec \in Specs
    /\ ~At("idle") => object.exists /\ handler.spec \in Specs

ServerType == [object : BOOLEAN, up : BOOLEAN, password : Nat, secret : Nat]

LEMMA ConstantTypes ==
    /\ NoObject \in ObjectType /\ Idle \in HandlerType /\ NoServer \in ServerType
    /\ NoRequest \in [password : Nat, leftover : Nat, first : BOOLEAN]
<1>1. NoSpec \in SpecType /\ NoLabel \in LabelType
  BY DEF SpecType, LabelType
<1> QED
  BY <1>1 DEF NoObject, ObjectType, Idle, HandlerType, NoServer, ServerType, NoRequest

LEMMA HandledType ==
    ASSUME NEW o \in ObjectType, NEW e \in [spec : SpecType, label : LabelType]
    PROVE  /\ Handled(o, e) \in ObjectType
           /\ Handled(o, e).exists = o.exists /\ Handled(o, e).spec = o.spec
BY DEF Handled, ObjectType

LEMMA SpecFields ==
    ASSUME TypeInv, ~At("idle")
    PROVE  Srv \in Servers /\ handler.spec.secret \in SecretNames
BY DatabaseAssumption DEF TypeInv, Srv

LEMMA SpendType ==
    ASSUME TypeInv, NEW k \in Kinds, Spend(k)
    PROVE  budget' \in [Kinds -> Nat]
BY DEF TypeInv, TypeOK, Spend

LEMMA FailureType ==
    ASSUME TypeInv, NEW call, UNCHANGED budget \/ MayFail(call)
    PROVE  budget' \in [Kinds -> Nat]
BY SpendType DEF MayFail, Kinds, TypeInv, TypeOK

\* What the types make of a step, part by part.
KubernetesType == secrets \in [SecretNames -> Nat] /\ tmp_secret \in Nat
PostgresType   ==
    /\ database \in [Servers -> {"absent", "open", "restricted"}]
    /\ role \in [Servers -> Nat]
    /\ grants \in [Servers -> SUBSET Privileges]
RestType ==
    /\ server \in [Servers -> ServerType]
    /\ generated \in Nat /\ budget \in [Kinds -> Nat]
    /\ compromised \in [password : Nat, leftover : Nat, first : BOOLEAN]

LEMMA TypeParts ==
    TypeOK <=> /\ object \in ObjectType /\ handler \in HandlerType
               /\ KubernetesType /\ PostgresType /\ RestType
BY DEF TypeOK, KubernetesType, PostgresType, RestType, ServerType

LEMMA TypePartsNext ==
    ASSUME object' \in ObjectType, handler' \in HandlerType,
           KubernetesType', PostgresType', RestType'
    PROVE  TypeOK'
BY DEF TypeOK, KubernetesType, PostgresType, RestType, ServerType

LEMMA TypeInit == Init => TypeInv
<1> SUFFICES ASSUME Init PROVE TypeInv
  OBVIOUS
<1>1. object = NoObject /\ ~object.exists /\ handler = Idle /\ handler.pc = "idle"
  BY DEF Init, NoObject, Idle
<1>2. KubernetesType /\ PostgresType /\ RestType
  BY ConstantTypes, DatabaseAssumption DEF Init, KubernetesType, PostgresType, RestType
<1> QED
  BY <1>1, <1>2, ConstantTypes, TypeParts DEF TypeInv, At

\* The steps of postgresql_database_manage up to the statements.
LEMMA BeginningTypes ==
    ASSUME TypeInv,
           \/ SkipControlLabel \/ BeginManage \/ WaitForServer \/ ServerNotReady
           \/ ReadCredentials \/ UseStoredPassword \/ GeneratePassword \/ StatusWorking
    PROVE  TypeInv'
<1>1. /\ object \in ObjectType /\ handler \in HandlerType
      /\ KubernetesType /\ PostgresType /\ RestType
  BY TypeParts DEF TypeInv
<1> SUFFICES /\ object' \in ObjectType /\ handler' \in HandlerType
             /\ KubernetesType' /\ PostgresType' /\ RestType'
             /\ object'.exists => object'.spec \in Specs
             /\ handler'.pc # "idle" => object'.exists /\ handler'.spec \in Specs
  BY TypePartsNext DEF TypeInv, At
<1> USE DEF TypeInv, At, kubernetes, postgres, user, KubernetesType, PostgresType, RestType
<1>2. CASE SkipControlLabel
  <2>1. Essence(object) \in [spec : SpecType, label : LabelType]
    BY <1>1 DEF Essence, ObjectType
  <2> QED
    BY <1>1, <1>2, <2>1, HandledType DEF SkipControlLabel
<1>3. CASE BeginManage
  <2>1. object.exists /\ object' = [object EXCEPT !.unfinished = TRUE]
    BY <1>3 DEF BeginManage, NeedsHandling
  <2>2. /\ object' \in ObjectType /\ object'.spec = object.spec
        /\ object'.exists = object.exists
    BY <1>1, <2>1 DEF ObjectType
  <2>3. handler' \in HandlerType /\ handler'.spec = object.spec
    BY <1>1, <1>3, ConstantTypes DEF BeginManage, HandlerType, ObjectType, Idle
  <2> QED
    BY <1>1, <1>3, <2>1, <2>2, <2>3 DEF BeginManage
<1>4. CASE WaitForServer
  <2>1. server[Srv].secret \in Nat
    BY <1>1, <1>4, SpecFields DEF WaitForServer, ServerType
  <2>2. handler' \in HandlerType /\ handler'.spec = handler.spec
    BY <1>1, <1>4, <2>1 DEF WaitForServer, HandlerType
  <2> QED
    BY <1>1, <1>4, <2>2 DEF WaitForServer
<1>5. CASE ServerNotReady
  <2>1. budget' \in [Kinds -> Nat]
    BY <1>5, FailureType DEF ServerNotReady
  <2> QED
    BY <1>1, <1>5, <2>1, ConstantTypes DEF ServerNotReady, Idle
<1>6. CASE ReadCredentials
  <2>1. budget' \in [Kinds -> Nat]
    BY <1>6, FailureType DEF ReadCredentials
  <2>2. secrets[handler.spec.secret] \in Nat
    BY <1>1, <1>6, SpecFields DEF ReadCredentials
  <2>3. handler' \in HandlerType /\ handler'.spec = handler.spec
    BY <1>1, <1>6, <2>2 DEF ReadCredentials, Goto, HandlerType
  <2> QED
    BY <1>1, <1>6, <2>1, <2>3 DEF ReadCredentials
<1>7. CASE UseStoredPassword
  <2>1. handler' \in HandlerType /\ handler'.spec = handler.spec
    BY <1>1, <1>7 DEF UseStoredPassword, StoredPassword, HandlerType
  <2> QED
    BY <1>1, <1>7, <2>1 DEF UseStoredPassword
<1>8. CASE GeneratePassword
  <2>1. generated' \in Nat /\ tmp_secret' \in Nat
    BY <1>1, <1>8 DEF GeneratePassword
  <2>2. handler' \in HandlerType /\ handler'.spec = handler.spec
    BY <1>1, <1>8, <2>1 DEF GeneratePassword, HandlerType
  <2> QED
    BY <1>1, <1>8, <2>1, <2>2 DEF GeneratePassword
<1>9. CASE StatusWorking
  <2>1. handler' \in HandlerType /\ handler'.spec = handler.spec
    BY <1>1, <1>9 DEF StatusWorking, Goto, HandlerType
  <2>2. /\ object' \in ObjectType /\ object'.exists = object.exists
        /\ object'.spec = object.spec
    BY <1>1, <1>9 DEF StatusWorking, ObjectType
  <2> QED
    BY <1>1, <1>9, <2>1, <2>2 DEF StatusWorking
<1> QED
  BY <1>2, <1>3, <1>4, <1>5, <1>6, <1>7, <1>8, <1>9

\* The statements and the command, up to the end of the handler.
LEMMA ManagingTypes ==
    ASSUME TypeInv,
           \/ CreateDatabase \/ RestrictDatabase \/ CreateUser \/ GrantDatabase \/ GrantSchema
           \/ NoCommand \/ UnknownCommand \/ ResetWithdraw \/ ResetStash \/ StashConflict
           \/ ResetSamePassword \/ UpdatePassword \/ Unlabel
           \/ RecoverPassword \/ NothingToRecover \/ Publish \/ DropTmp \/ StatusFinished
           \/ Return
    PROVE  TypeInv'
<1>1. /\ object \in ObjectType /\ handler \in HandlerType
      /\ KubernetesType /\ PostgresType /\ RestType
  BY TypeParts DEF TypeInv
<1> SUFFICES /\ object' \in ObjectType /\ handler' \in HandlerType
             /\ KubernetesType' /\ PostgresType' /\ RestType'
             /\ object'.exists => object'.spec \in Specs
             /\ handler'.pc # "idle" => object'.exists /\ handler'.spec \in Specs
  BY TypePartsNext DEF TypeInv, At
<1> USE DEF TypeInv, At, kubernetes, postgres, user, KubernetesType, PostgresType, RestType
<1>2. CASE CreateDatabase \/ RestrictDatabase
  <2>1. handler' \in HandlerType /\ handler'.spec = handler.spec /\ handler.pc # "idle"
    BY <1>1, <1>2 DEF CreateDatabase, RestrictDatabase, Goto, HandlerType
  <2>2. database' \in [Servers -> {"absent", "open", "restricted"}]
    BY <1>1, <1>2, SpecFields DEF CreateDatabase, RestrictDatabase
  <2> QED
    BY <1>1, <1>2, <2>1, <2>2 DEF CreateDatabase, RestrictDatabase
<1>3. CASE CreateUser
  <2>1. handler' \in HandlerType /\ handler'.spec = handler.spec /\ handler.password \in Nat
    BY <1>1, <1>3 DEF CreateUser, HandlerType
  <2>2. role' \in [Servers -> Nat]
    BY <1>1, <1>3, <2>1, SpecFields DEF CreateUser
  <2> QED
    BY <1>1, <1>3, <2>1, <2>2 DEF CreateUser
<1>4. CASE NoCommand \/ UnknownCommand \/ ResetSamePassword \/ NothingToRecover
  <2>1. handler' \in HandlerType /\ handler'.spec = handler.spec /\ handler.pc # "idle"
    BY <1>1, <1>4
       DEF NoCommand, UnknownCommand, ResetSamePassword, NothingToRecover, Goto, HandlerType
  <2> QED
    BY <1>1, <1>4, <2>1 DEF NoCommand, UnknownCommand, ResetSamePassword, NothingToRecover
<1>5. CASE ResetWithdraw
  <2>1. generated' \in Nat
    BY <1>1, <1>5 DEF ResetWithdraw
  <2>2. handler' \in HandlerType /\ handler'.spec = handler.spec
    BY <1>1, <1>5, <2>1 DEF ResetWithdraw, HandlerType
  <2>3. secrets' \in [SecretNames -> Nat] /\ budget' \in [Kinds -> Nat]
    BY <1>1, <1>5, FailureType DEF ResetWithdraw, delete_secret
  <2> QED
    BY <1>1, <1>5, <2>1, <2>2, <2>3 DEF ResetWithdraw
<1>6. CASE ResetStash
  <2>1. /\ handler' \in HandlerType /\ handler'.spec = handler.spec
        /\ tmp_secret' \in Nat
    BY <1>1, <1>6 DEF ResetStash, HandlerType
  <2> QED
    BY <1>1, <1>6, <2>1 DEF ResetStash
<1>7. CASE StashConflict
  BY <1>1, <1>7, ConstantTypes DEF StashConflict, Fail, Idle
<1>8. CASE UpdatePassword \/ RecoverPassword
  <2>1. handler' \in HandlerType /\ handler'.spec = handler.spec /\ handler.pc # "idle"
        /\ handler.password \in Nat
    BY <1>1, <1>8 DEF UpdatePassword, RecoverPassword, AlterUser, Goto, HandlerType
  <2>2. role' \in [Servers -> Nat]
    BY <1>1, <1>8, <2>1, SpecFields DEF UpdatePassword, RecoverPassword, AlterUser
  <2> QED
    BY <1>1, <1>8, <2>1, <2>2 DEF UpdatePassword, RecoverPassword, AlterUser
<1>9. CASE Unlabel \/ StatusFinished
  <2>1. handler' \in HandlerType /\ handler'.spec = handler.spec /\ handler.pc # "idle"
    BY <1>1, <1>9 DEF Unlabel, StatusFinished, Goto, HandlerType
  <2>2. /\ object' \in ObjectType /\ object'.exists = object.exists
        /\ object'.spec = object.spec
    BY <1>1, <1>9 DEF Unlabel, StatusFinished, ObjectType, LabelType
  <2> QED
    BY <1>1, <1>9, <2>1, <2>2 DEF Unlabel, StatusFinished
<1>10. CASE Publish
  <2>1. handler' \in HandlerType /\ handler'.spec = handler.spec /\ handler.password \in Nat
    BY <1>1, <1>10 DEF Publish, Goto, HandlerType
  <2>2. secrets' \in [SecretNames -> Nat]
    BY <1>1, <1>10, <2>1 DEF Publish, create_or_update_secret
  <2> QED
    BY <1>1, <1>10, <2>1, <2>2 DEF Publish
<1>11. CASE DropTmp
  <2>1. handler' \in HandlerType /\ handler'.spec = handler.spec
    BY <1>1, <1>11 DEF DropTmp, Goto, HandlerType
  <2>2. tmp_secret' \in Nat /\ budget' \in [Kinds -> Nat]
    BY <1>1, <1>11, FailureType DEF DropTmp
  <2> QED
    BY <1>1, <1>11, <2>1, <2>2 DEF DropTmp
<1>12. CASE Return
  <2>1. Essence(handler) \in [spec : SpecType, label : LabelType]
    BY <1>1 DEF Essence, HandlerType
  <2> QED
    BY <1>1, <1>12, <2>1, HandledType, ConstantTypes DEF Return, Idle
<1>13. CASE GrantDatabase \/ GrantSchema
  <2>1. handler' \in HandlerType /\ handler'.spec = handler.spec /\ handler.pc # "idle"
    BY <1>1, <1>13 DEF GrantDatabase, GrantSchema, Goto, HandlerType
  <2>2. PICK where \in Privileges : Grant(where)
    BY <1>13, DatabaseAssumption DEF GrantDatabase, GrantSchema, Privileges
  <2>3. grants' \in [Servers -> SUBSET Privileges]
    BY <1>1, <2>1, <2>2, SpecFields DEF Grant
  <2> QED
    BY <1>1, <2>1, <2>2, <2>3 DEF Grant
<1> QED
  BY <1>2, <1>3, <1>4, <1>5, <1>6, <1>7, <1>8, <1>9, <1>10, <1>11, <1>12, <1>13

\* postgresql_database_delete, and what the server refuses.
LEMMA DeletingTypes ==
    ASSUME TypeInv, Delete \/ ServerRefuses
    PROVE  TypeInv'
<1>1. /\ object \in ObjectType /\ handler \in HandlerType
      /\ KubernetesType /\ PostgresType /\ RestType
  BY TypeParts DEF TypeInv
<1> SUFFICES /\ object' \in ObjectType /\ handler' \in HandlerType
             /\ KubernetesType' /\ PostgresType' /\ RestType'
             /\ object'.exists => object'.spec \in Specs
             /\ handler'.pc # "idle" => object'.exists /\ handler'.spec \in Specs
  BY TypePartsNext DEF TypeInv, At
<1> USE DEF TypeInv, At, kubernetes, postgres, user, KubernetesType, PostgresType, RestType
<1>2. CASE BeginDelete
  <2>1. handler' \in HandlerType /\ handler'.spec = object.spec /\ object.exists
    BY <1>1, <1>2, ConstantTypes DEF BeginDelete, HandlerType, ObjectType, Idle
  <2> QED
    BY <1>1, <1>2, <2>1 DEF BeginDelete
<1>3. CASE LookUpServer
  <2>1. PICK found \in BOOLEAN, admin \in {0, server[Srv].secret} :
            /\ handler' = [handler EXCEPT !.pc = "exists", !.found = found, !.admin = admin]
            /\ \/ UNCHANGED budget \/ MayFail("server_exists")
               \/ MayFail("get_object") \/ MayFail("get_secret")
    BY <1>3 DEF LookUpServer
  <2>2. admin \in Nat
    BY <1>1, <1>3, SpecFields DEF LookUpServer, ServerType
  <2>3. budget' \in [Kinds -> Nat]
    BY <2>1, FailureType
  <2>4. handler' \in HandlerType /\ handler'.spec = handler.spec
    BY <1>1, <2>1, <2>2 DEF HandlerType
  <2> QED
    BY <1>1, <1>3, <2>3, <2>4 DEF LookUpServer
<1>4. CASE FindDatabase \/ NoDatabaseToDelete
  <2>1. handler' \in HandlerType /\ handler'.spec = handler.spec /\ handler.pc # "idle"
    BY <1>1, <1>4 DEF FindDatabase, NoDatabaseToDelete, Goto, HandlerType
  <2> QED
    BY <1>1, <1>4, <2>1 DEF FindDatabase, NoDatabaseToDelete
<1>5. CASE DeleteDatabase
  <2>1. handler' \in HandlerType /\ handler'.spec = handler.spec
    BY <1>1, <1>5 DEF DeleteDatabase, Goto, HandlerType
  <2>2. /\ database' \in [Servers -> {"absent", "open", "restricted"}]
        /\ grants' \in [Servers -> SUBSET Privileges]
    BY <1>1, <1>5, SpecFields DEF DeleteDatabase
  <2> QED
    BY <1>1, <1>5, <2>1, <2>2 DEF DeleteDatabase
<1>6. CASE DeleteUser
  <2>1. handler' \in HandlerType /\ handler'.spec = handler.spec
    BY <1>1, <1>6 DEF DeleteUser, Goto, HandlerType
  <2> QED
    BY <1>1, <1>6, <2>1, SpecFields DEF DeleteUser
<1>7. CASE DeleteCredentials
  <2>1. handler' \in HandlerType /\ handler'.spec = handler.spec
    BY <1>1, <1>7 DEF DeleteCredentials, Goto, HandlerType
  <2>2. secrets' \in [SecretNames -> Nat] /\ budget' \in [Kinds -> Nat]
    BY <1>1, <1>7, FailureType DEF DeleteCredentials, delete_secret
  <2> QED
    BY <1>1, <1>7, <2>1, <2>2 DEF DeleteCredentials
<1>8. CASE Release
  BY <1>1, <1>8, ConstantTypes DEF Release, NoObject, Idle
<1>9. CASE ServerRefuses
  BY <1>1, <1>9, ConstantTypes DEF ServerRefuses, Fail, Idle
<1> QED
  BY <1>2, <1>3, <1>4, <1>5, <1>6, <1>7, <1>8, <1>9 DEF Delete

\* The steps around the handlers: failures, servers, users.
LEMMA OtherTypes ==
    ASSUME TypeInv, Abort \/ Restart \/ (\E s \in Servers : ServerStep(s)) \/ User
    PROVE  TypeInv'
<1>1. /\ object \in ObjectType /\ handler \in HandlerType
      /\ KubernetesType /\ PostgresType /\ RestType
  BY TypeParts DEF TypeInv
<1> SUFFICES /\ object' \in ObjectType /\ handler' \in HandlerType
             /\ KubernetesType' /\ PostgresType' /\ RestType'
             /\ object'.exists => object'.spec \in Specs
             /\ handler'.pc # "idle" => object'.exists /\ handler'.spec \in Specs
  BY TypePartsNext DEF TypeInv, At
<1> USE DEF TypeInv, At, kubernetes, postgres, user, KubernetesType, PostgresType, RestType
<1>2. CASE Abort
  <2>1. budget' \in [Kinds -> Nat]
    BY <1>2, SpendType DEF Abort, Kinds
  <2> QED
    BY <1>1, <1>2, <2>1, ConstantTypes DEF Abort, Idle
<1>3. CASE Restart
  <2>1. budget' \in [Kinds -> Nat]
    BY <1>3, SpendType DEF Restart, Kinds
  <2>2. /\ object' \in ObjectType /\ object'.exists = object.exists
        /\ object'.spec = object.spec
    BY <1>1, <1>3 DEF Restart, Resumed, ObjectType
  <2> QED
    BY <1>1, <1>3, <2>1, <2>2, ConstantTypes DEF Restart, Idle
<1>4. ASSUME NEW s \in Servers, ServerStep(s)
      PROVE  /\ RestType' /\ PostgresType' /\ UNCHANGED <<object, kubernetes, handler>>
  <2>1. server[s] \in ServerType
    BY <1>1
  <2>2. CASE CreateServer(s)
    <3>1. generated' \in Nat
      BY <1>1, <2>2 DEF CreateServer
    <3>2. server' \in [Servers -> ServerType]
      BY <1>1, <2>2, <3>1 DEF CreateServer, ServerType
    <3> QED
      BY <1>1, <2>2, <3>1, <3>2 DEF CreateServer
  <2>3. CASE PublishAdmin(s)
    <3>1. server' = [server EXCEPT ![s] = [server[s] EXCEPT !.secret = server[s].password]]
      BY <2>3 DEF PublishAdmin
    <3>2. [server[s] EXCEPT !.secret = server[s].password] \in ServerType
      BY <2>1 DEF ServerType
    <3> QED
      BY <1>1, <2>3, <3>1, <3>2 DEF PublishAdmin
  <2>4. CASE WithdrawAdmin(s)
    <3>1. /\ server' = [server EXCEPT ![s] = [server[s] EXCEPT !.secret = 0]]
          /\ budget' \in [Kinds -> Nat]
      BY <2>4, SpendType DEF WithdrawAdmin, Kinds
    <3>2. [server[s] EXCEPT !.secret = 0] \in ServerType
      BY <2>1 DEF ServerType
    <3> QED
      BY <1>1, <2>4, <3>1, <3>2 DEF WithdrawAdmin
  <2>5. CASE ChangeAdmin(s)
    <3>1. generated' \in Nat /\ budget' \in [Kinds -> Nat]
      BY <1>1, <2>5, SpendType DEF ChangeAdmin, Kinds
    <3>2. server' = [server EXCEPT ![s] = [server[s] EXCEPT !.password = generated']]
      BY <2>5 DEF ChangeAdmin
    <3>3. [server[s] EXCEPT !.password = generated'] \in ServerType
      BY <2>1, <3>1 DEF ServerType
    <3> QED
      BY <1>1, <2>5, <3>1, <3>2, <3>3 DEF ChangeAdmin
  <2>6. CASE DropServer(s)
    <3>1. budget' \in [Kinds -> Nat]
      BY <2>6, SpendType DEF DropServer, Kinds
    <3>2. server' = [server EXCEPT ![s] = [server[s] EXCEPT !.up = FALSE, !.password = 0]]
      BY <2>6 DEF DropServer
    <3>3. [server[s] EXCEPT !.up = FALSE, !.password = 0] \in ServerType
      BY <2>1 DEF ServerType
    <3>4. server' \in [Servers -> ServerType]
      BY <1>1, <3>2, <3>3
    <3> QED
      BY <1>1, <2>6, <3>1, <3>4 DEF DropServer
  <2>7. CASE ForgetServer(s)
    BY <1>1, <2>7, ConstantTypes DEF ForgetServer
  <2> QED
    BY <1>4, <2>2, <2>3, <2>4, <2>5, <2>6, <2>7 DEF ServerStep
<1>5. ASSUME NEW s \in Servers, ServerStep(s) PROVE object' = object /\ handler' = handler
  BY <1>4, <1>5
<1>6. ASSUME NEW s \in Specs, CreateObject(s)
      PROVE  /\ object' \in ObjectType /\ handler' = handler /\ RestType'
             /\ object'.exists /\ object'.spec \in Specs /\ UNCHANGED <<kubernetes, postgres>>
  <2>1. object' \in ObjectType /\ object'.exists /\ object'.spec = s
    BY <1>6, ConstantTypes DEF CreateObject, NoObject, ObjectType, SpecType
  <2>2. budget' \in [Kinds -> Nat]
    BY <1>6, SpendType DEF CreateObject, Kinds
  <2> QED
    BY <1>1, <1>6, <2>1, <2>2, ConstantTypes DEF CreateObject
<1>7. ASSUME NEW s \in Specs, EditSpec(s)
      PROVE  /\ object' \in ObjectType /\ handler' = handler /\ RestType'
             /\ object'.exists /\ object'.spec \in Specs /\ UNCHANGED <<kubernetes, postgres>>
  <2>1. object' \in ObjectType /\ object'.exists /\ object'.spec = s
    BY <1>1, <1>7 DEF EditSpec, ObjectType, SpecType
  <2>2. budget' \in [Kinds -> Nat]
    BY <1>7, SpendType DEF EditSpec, Kinds
  <2> QED
    BY <1>1, <1>7, <2>1, <2>2 DEF EditSpec
<1>8. ASSUME NEW l \in Labels, SetLabel(l)
      PROVE  /\ object' \in ObjectType /\ handler' = handler /\ RestType'
             /\ object'.exists /\ object'.spec \in Specs /\ UNCHANGED <<kubernetes, postgres>>
  <2>1. object' \in ObjectType /\ object'.exists /\ object'.spec = object.spec
    BY <1>1, <1>8 DEF SetLabel, ObjectType, LabelType
  <2>2. budget' \in [Kinds -> Nat]
    BY <1>8, SpendType DEF SetLabel, Kinds
  <2>3. secrets[object.spec.secret] \in Nat /\ NoLabelAtWork \in BOOLEAN
    BY <1>1, <1>8, DatabaseAssumption DEF SetLabel, NoLabelAtWork
  <2>4. compromised' \in [password : Nat, leftover : Nat, first : BOOLEAN]
    BY <1>1, <1>8, <2>3, ConstantTypes DEF SetLabel
  <2> QED
    BY <1>1, <1>8, <2>1, <2>2, <2>4 DEF SetLabel
<1>9. ASSUME NEW n \in SecretNames, RemoveCredentials(n)
      PROVE  /\ KubernetesType' /\ RestType' /\ UNCHANGED <<object, handler, postgres>>
  <2>1. budget' \in [Kinds -> Nat]
    BY <1>9, SpendType DEF RemoveCredentials, Kinds
  <2> QED
    BY <1>1, <1>9, <2>1 DEF RemoveCredentials
<1>10. CASE DeleteObject
  <2>1. /\ object' \in ObjectType /\ object'.exists = object.exists
        /\ object'.spec = object.spec
    BY <1>1, <1>10 DEF DeleteObject, ObjectType
  <2>2. budget' \in [Kinds -> Nat]
    BY <1>10, SpendType DEF DeleteObject, Kinds
  <2> QED
    BY <1>1, <1>10, <2>1, <2>2 DEF DeleteObject
<1>11. CASE \E s \in Servers : ServerStep(s)
  BY <1>1, <1>4, <1>5, <1>11
<1>12. CASE \E s \in Specs : CreateObject(s) \/ EditSpec(s)
  BY <1>1, <1>6, <1>7, <1>12
<1>13. CASE \E l \in Labels : SetLabel(l)
  BY <1>1, <1>8, <1>13
<1>14. CASE \E n \in SecretNames : RemoveCredentials(n)
  BY <1>1, <1>9, <1>14
<1> QED
  BY <1>2, <1>3, <1>10, <1>11, <1>12, <1>13, <1>14 DEF User

LEMMA TypeStep == TypeInv /\ [Next]_vars => TypeInv'
<1> SUFFICES ASSUME TypeInv, [Next]_vars PROVE TypeInv'
  OBVIOUS
<1>1. CASE Operator
  BY <1>1, BeginningTypes, ManagingTypes, DeletingTypes DEF Operator, Manage
<1>2. CASE Abort \/ Restart \/ (\E s \in Servers : ServerStep(s)) \/ User
  BY <1>2, OtherTypes
<1>3. CASE UNCHANGED vars
  BY <1>3 DEF vars, TypeInv, TypeOK, At
<1> QED
  BY <1>1, <1>2, <1>3 DEF Next

\* Type correctness of the object, the handler, the secrets, the servers and what is in
\* them (TypeOK).
THEOREM TypeCorrect == Spec => []TypeOK
<1>1. TypeInv => TypeOK
  BY DEF TypeInv
<1> QED
  BY <1>1, TypeInit, TypeStep, PTL DEF Spec
-----------------------------------------------------------------------------
(* The failures that a budget counts *)

\* A step that does not give back what was spent.
LEMMA Thrift ==
    ASSUME [Next]_vars
    PROVE  UNCHANGED budget \/ \E k \in Kinds : Spend(k)
<1>1. CASE User \/ Abort \/ Restart
  BY <1>1 DEF User, CreateObject, EditSpec, SetLabel, RemoveCredentials, DeleteObject,
              Abort, Restart, Kinds
<1>2. CASE \E s \in Servers : ServerStep(s)
  BY <1>2 DEF ServerStep, CreateServer, PublishAdmin, WithdrawAdmin, ChangeAdmin,
              DropServer, ForgetServer, Kinds
<1>3. CASE Manage
  BY <1>3 DEF Manage, SkipControlLabel, BeginManage, WaitForServer, ServerNotReady,
              ReadCredentials, UseStoredPassword, GeneratePassword, StatusWorking,
              CreateDatabase, RestrictDatabase, CreateUser, GrantDatabase, GrantSchema, Grant,
              NoCommand, UnknownCommand, ResetWithdraw, ResetStash, StashConflict, ResetSamePassword, UpdatePassword,
              Unlabel, RecoverPassword, NothingToRecover, Publish, DropTmp, StatusFinished,
              Return, AlterUser, Fail, delete_secret, MayFail, user, Kinds
<1>4. CASE Delete \/ ServerRefuses
  BY <1>4 DEF Delete, BeginDelete, LookUpServer, FindDatabase, NoDatabaseToDelete,
              DeleteDatabase, DeleteUser, DeleteCredentials, Release, ServerRefuses, Fail,
              delete_secret, MayFail, user, Kinds
<1>5. CASE UNCHANGED vars
  BY <1>5 DEF vars
<1> QED
  BY <1>1, <1>2, <1>3, <1>4, <1>5 DEF Next, Operator

Thrifty == \A k \in Kinds : budget[k] <= Budget[k]

LEMMA ThriftStep ==
    ASSUME TypeInv, Thrifty, [Next]_vars
    PROVE  Thrifty'
<1>1. budget \in [Kinds -> Nat] /\ Budget \in [Kinds -> Nat]
  BY DatabaseAssumption DEF TypeInv, TypeOK
<1>2. ASSUME NEW k \in Kinds, Spend(k) PROVE Thrifty'
  BY <1>1, <1>2 DEF Spend, Thrifty
<1> QED
  BY <1>2, Thrift DEF Thrifty

\* What is whole after a step was whole before, and the step did not spend it.
LEMMA WholeBefore ==
    ASSUME TypeInv, Thrifty, [Next]_vars, NEW k \in Kinds, budget'[k] = Budget[k]
    PROVE  budget[k] = Budget[k] /\ ~Spend(k)
<1>1. budget \in [Kinds -> Nat] /\ Budget \in [Kinds -> Nat]
  BY DatabaseAssumption DEF TypeInv, TypeOK
<1>2. budget[k] <= Budget[k] /\ budget[k] \in Nat /\ Budget[k] \in Nat
  BY <1>1 DEF Thrifty
<1>3. ~Spend(k)
  BY <1>1, <1>2 DEF Spend
<1>4. ASSUME NEW l \in Kinds, Spend(l) PROVE budget'[k] = budget[k]
  BY <1>1, <1>3, <1>4 DEF Spend
<1> QED
  BY <1>3, <1>4, Thrift
-----------------------------------------------------------------------------
(* A published password is the one of the role. *)

ReliableCalls == Faults = {}
OneSecret     == \E n : SecretNames = {n}
OneServer     == \E s : Servers = {s}

BeforePublish == {"password", "working", "create_database", "restrict", "create_user",
                  "grant_database", "grant_schema", "label", "update_password", "unlabel",
                  "recover", "publish"}
AfterUser     == {"grant_database", "grant_schema", "label", "unlabel", "recover", "publish"}

\* The role, where there is one, has the password of the handler.
RoleFollows == \A s \in Servers : role[s] \in {0, handler.password}

\* A handler that read credentials works with the published password, one that did not,
\* or has withdrawn them, works while nothing is published; a role it created has its
\* password, and so has any role by the time the handler without credentials publishes.
CredInv ==
    /\ PublishedIsLive
    /\ handler.pc \in BeforePublish /\ handler.credentials =>
           \A n \in SecretNames : secrets[n] \in {0, handler.password}
    /\ handler.pc = "stash" \/ (handler.pc \in BeforePublish /\ ~handler.credentials) =>
           \A n \in SecretNames : secrets[n] = 0
    /\ handler.pc \in (BeforePublish \cup {"stash"}) \ {"password"} => handler.password # 0
    /\ handler.pc = "password" => handler.credentials = (handler.password # 0)
    /\ handler.pc = "update_password" => ~handler.credentials
    /\ handler.pc \in AfterUser /\ handler.newly => RoleFollows
    /\ handler.pc = "publish" /\ ~handler.credentials => RoleFollows

\* A step that no clause of CredInv can notice.
Unseen ==
    /\ UNCHANGED <<secrets, role>>
    /\ \/ handler'.pc \notin BeforePublish \cup {"stash"}
       \/ /\ handler.pc \in BeforePublish \ {"password"}
          /\ handler'.pc \in BeforePublish \ {"password"}
          /\ handler'.credentials = handler.credentials
          /\ handler'.password = handler.password
          /\ handler'.newly = handler.newly
          /\ handler'.pc \in AfterUser => handler.pc \in AfterUser
          /\ handler'.pc = "update_password" => ~handler.credentials
          /\ handler'.pc = "publish" => handler.newly \/ handler.credentials
       \/ UNCHANGED handler

LEMMA UnseenStep == CredInv /\ Unseen => CredInv'
BY DEF CredInv, Unseen, PublishedIsLive, RoleFollows, BeforePublish, AfterUser

\* Most actions change neither the secrets nor the roles.
LEMMA UnseenActions ==
    ASSUME TypeInv,
           \/ UNCHANGED vars
           \/ SkipControlLabel \/ BeginManage \/ WaitForServer \/ ServerNotReady
           \/ StatusWorking \/ CreateDatabase \/ RestrictDatabase \/ GrantDatabase \/ GrantSchema
           \/ NoCommand \/ UnknownCommand \/ StashConflict \/ ResetSamePassword \/ Unlabel
           \/ NothingToRecover \/ DropTmp \/ StatusFinished \/ Return
           \/ BeginDelete \/ LookUpServer \/ FindDatabase \/ NoDatabaseToDelete
           \/ DeleteDatabase \/ Release \/ ServerRefuses \/ Abort \/ Restart
           \/ \E s \in Servers : \/ CreateServer(s) \/ PublishAdmin(s) \/ WithdrawAdmin(s)
                                 \/ ChangeAdmin(s) \/ ForgetServer(s)
           \/ \E s \in Specs : CreateObject(s) \/ EditSpec(s)
           \/ \E l \in Labels : SetLabel(l)
           \/ DeleteObject
    PROVE  Unseen
<1> USE DEF Unseen, BeforePublish, AfterUser, kubernetes, postgres
<1>0. handler \in HandlerType
  BY DEF TypeInv, TypeOK
<1>1. CASE UNCHANGED vars
  BY <1>1 DEF vars
<1>2. CASE \/ SkipControlLabel \/ DeleteObject
           \/ \E s \in Servers : \/ CreateServer(s) \/ PublishAdmin(s) \/ WithdrawAdmin(s)
                                 \/ ChangeAdmin(s) \/ ForgetServer(s)
           \/ \E s \in Specs : CreateObject(s) \/ EditSpec(s)
           \/ \E l \in Labels : SetLabel(l)
  BY <1>2 DEF SkipControlLabel, DeleteObject, CreateServer, PublishAdmin, WithdrawAdmin,
              ChangeAdmin, ForgetServer, CreateObject, EditSpec, SetLabel
<1>3. CASE BeginManage \/ BeginDelete
  <2>1. handler'.pc \in {"wait", "lookup"}
    BY <1>3 DEF BeginManage, BeginDelete, Idle
  <2> QED BY <1>3, <2>1 DEF BeginManage, BeginDelete
<1>4. CASE \/ ServerNotReady \/ StashConflict \/ Return \/ Release \/ ServerRefuses
           \/ Abort \/ Restart
  <2>1. handler' = Idle /\ UNCHANGED <<secrets, role>>
    BY <1>4 DEF ServerNotReady, StashConflict, Return, Release, ServerRefuses, Abort, Restart, Fail
  <2> QED BY <2>1 DEF Idle
<1>5. CASE WaitForServer \/ LookUpServer
  <2>1. handler'.pc \in {"read", "exists"} /\ UNCHANGED <<secrets, role>>
    BY <1>0, <1>5 DEF WaitForServer, LookUpServer, HandlerType
  <2> QED BY <2>1
<1>6. CASE \/ DropTmp \/ StatusFinished \/ FindDatabase \/ NoDatabaseToDelete \/ DeleteDatabase
  <2>1. /\ handler'.pc \in {"finish", "return", "delete_database", "delete_secret",
                            "delete_user"}
        /\ UNCHANGED <<secrets, role>>
    BY <1>0, <1>6 DEF DropTmp, StatusFinished, FindDatabase, NoDatabaseToDelete,
                      DeleteDatabase, Goto, HandlerType
  <2> QED BY <2>1
<1>7. CASE \/ StatusWorking \/ CreateDatabase \/ RestrictDatabase
           \/ GrantDatabase \/ GrantSchema
  BY <1>0, <1>7 DEF StatusWorking, CreateDatabase, RestrictDatabase, GrantDatabase, GrantSchema,
                    Grant, Goto, At, HandlerType
<1>8. CASE NoCommand \/ UnknownCommand \/ ResetSamePassword
  BY <1>0, <1>8 DEF NoCommand, UnknownCommand, ResetSamePassword, Goto, At, HandlerType
<1>9. CASE Unlabel \/ NothingToRecover
  BY <1>0, <1>9 DEF Unlabel, NothingToRecover, MustRecover, Goto, At, HandlerType
<1> QED
  BY <1>1, <1>2, <1>3, <1>4, <1>5, <1>6, <1>7, <1>8, <1>9

\* No failure is swallowed, at all or in this step.
NothingSwallowed == Faults = {} \/ ~Spend("fault")

LEMMA CredStep ==
    ASSUME NothingSwallowed, OneSecret, OneServer, TypeInv, CredInv, [Next]_vars
    PROVE  CredInv'
<1>0. /\ handler \in HandlerType /\ secrets \in [SecretNames -> Nat]
      /\ role \in [Servers -> Nat] /\ generated \in Nat /\ tmp_secret \in Nat
  BY DEF TypeInv, TypeOK
<1>1. ~At("idle") => /\ Srv \in Servers /\ \A s \in Servers : s = Srv
                     /\ handler.spec.secret \in SecretNames
                     /\ \A n \in SecretNames : n = handler.spec.secret
  BY SpecFields DEF OneSecret, OneServer
<1> USE DEF CredInv, PublishedIsLive, RoleFollows, BeforePublish, AfterUser, At
<1>2. ASSUME Unseen PROVE CredInv'
  BY <1>2, UnseenStep
<1>3. CASE ReadCredentials
  <2>1. /\ handler'.pc = "password"
        /\ handler'.credentials = (secrets[handler.spec.secret] # 0)
        /\ handler'.password = secrets[handler.spec.secret]
        /\ UNCHANGED <<secrets, role>>
    BY <1>0, <1>3
       DEF ReadCredentials, MayFail, NothingSwallowed, kubernetes, postgres, HandlerType
  <2> QED BY <1>1, <1>3, <2>1 DEF ReadCredentials
<1>4. CASE UseStoredPassword \/ GeneratePassword
  <2>1. /\ handler.pc = "password" /\ handler'.pc = "working"
        /\ handler'.credentials = handler.credentials
        /\ handler'.password # 0
        /\ handler.credentials => handler'.password = handler.password
        /\ UNCHANGED <<secrets, role>>
    <3>1. CASE UseStoredPassword
      BY <1>0, <3>1 DEF UseStoredPassword, StoredPassword, kubernetes, postgres, HandlerType
    <3>2. CASE GeneratePassword
      BY <1>0, <3>2 DEF GeneratePassword, StoredPassword, postgres, HandlerType
    <3> QED BY <1>4, <3>1, <3>2
  <2> QED BY <2>1
<1>5. CASE CreateUser
  <2>1. /\ handler.pc = "create_user" /\ handler'.pc = "grant_database"
        /\ handler'.newly = (role[Srv] = 0)
        /\ handler'.credentials = handler.credentials
        /\ handler'.password = handler.password /\ UNCHANGED secrets
        /\ role' = IF role[Srv] = 0 THEN [role EXCEPT ![Srv] = handler.password] ELSE role
    BY <1>0, <1>5 DEF CreateUser, kubernetes, HandlerType
  <2>2. \A s \in Servers : role'[s] = IF role[Srv] = 0 THEN handler.password ELSE role[s]
    BY <1>0, <1>1, <2>1
  <2> QED BY <2>1, <2>2
<1>6. CASE ResetWithdraw
  <2>1. /\ handler'.pc = "stash" /\ handler'.password # 0
        /\ secrets' = [secrets EXCEPT ![handler.spec.secret] = 0] /\ UNCHANGED role
    BY <1>0, <1>6
       DEF ResetWithdraw, delete_secret, MayFail, NothingSwallowed, postgres, HandlerType
  <2>2. \A n \in SecretNames : secrets'[n] = 0
    BY <1>0, <1>1, <1>6, <2>1 DEF ResetWithdraw
  <2> QED BY <2>1, <2>2
<1>7. CASE ResetStash
  <2>1. /\ handler.pc = "stash" /\ handler'.pc = "update_password" /\ ~handler'.credentials
        /\ handler'.password = handler.password /\ UNCHANGED <<secrets, role>>
    BY <1>0, <1>7 DEF ResetStash, postgres, HandlerType
  <2> QED BY <2>1
<1>8. CASE UpdatePassword \/ RecoverPassword
  <2>1. /\ handler.pc \in {"update_password", "recover"} /\ ~handler.credentials
        /\ handler'.pc \in {"unlabel", "publish"}
        /\ handler'.credentials = handler.credentials
        /\ handler'.password = handler.password /\ UNCHANGED secrets
        /\ role' = [role EXCEPT ![Srv] = handler.password]
    BY <1>0, <1>8 DEF UpdatePassword, RecoverPassword, MustRecover, AlterUser, Goto,
                      kubernetes, HandlerType
  <2>2. \A s \in Servers : role'[s] = handler.password
    BY <1>0, <1>1, <2>1
  <2> QED BY <2>1, <2>2
<1>9. CASE Publish
  <2>1. /\ handler.pc = "publish" /\ handler'.pc = "drop" /\ UNCHANGED role
        /\ secrets' = IF handler.credentials /\ ~handler.newly THEN secrets
                      ELSE [secrets EXCEPT ![handler.spec.secret] = handler.password]
    BY <1>0, <1>9 DEF Publish, create_or_update_secret, Goto, postgres, HandlerType
  <2>2. CASE handler.credentials /\ ~handler.newly
    BY <2>1, <2>2
  <2>3. CASE ~(handler.credentials /\ ~handler.newly)
    <3>1. \A n \in SecretNames : secrets'[n] = handler.password
      BY <1>0, <1>1, <2>1, <2>3
    <3> QED BY <2>1, <2>3, <3>1
  <2> QED BY <2>2, <2>3
<1>10. CASE DeleteUser
  <2>1. handler'.pc = "delete_secret" /\ UNCHANGED secrets /\ role' = [role EXCEPT ![Srv] = 0]
    BY <1>0, <1>10 DEF DeleteUser, Goto, kubernetes, HandlerType
  <2>2. \A s \in Servers : role'[s] \in {0, role[s]}
    BY <1>0, <2>1
  <2> QED BY <2>1, <2>2
<1>11. CASE DeleteCredentials
  <2>1. /\ handler'.pc = "release" /\ UNCHANGED role
        /\ secrets' = [secrets EXCEPT ![handler.spec.secret] = 0]
    BY <1>0, <1>11
       DEF DeleteCredentials, delete_secret, MayFail, NothingSwallowed, Goto, postgres, HandlerType
  <2>2. \A n \in SecretNames : secrets'[n] \in {0, secrets[n]}
    BY <1>0, <2>1
  <2> QED BY <2>1, <2>2
<1>12. ASSUME NEW s \in Servers, DropServer(s) PROVE CredInv'
  <2>1. role' = [role EXCEPT ![s] = 0] /\ UNCHANGED <<secrets, handler>>
    BY <1>12 DEF DropServer, kubernetes
  <2>2. \A r \in Servers : role'[r] \in {0, role[r]}
    BY <1>0, <2>1
  <2> QED BY <2>1, <2>2
<1>13. ASSUME NEW n \in SecretNames, RemoveCredentials(n) PROVE CredInv'
  <2>1. secrets' = [secrets EXCEPT ![n] = 0] /\ UNCHANGED <<role, handler>>
    BY <1>13 DEF RemoveCredentials, postgres
  <2>2. \A m \in SecretNames : secrets'[m] \in {0, secrets[m]}
    BY <1>0, <2>1
  <2> QED BY <2>1, <2>2
<1> HIDE DEF CredInv, PublishedIsLive, RoleFollows, BeforePublish, AfterUser, At
<1> QED
  BY <1>2, <1>3, <1>4, <1>5, <1>6, <1>7, <1>8, <1>9, <1>10, <1>11, <1>12, <1>13, UnseenActions
     DEF Next, Operator, Manage, Delete, ServerStep, User

LEMMA CredInit == Init => CredInv
BY DEF Init, CredInv, PublishedIsLive, BeforePublish, AfterUser, Idle

\* On one server, with one name for the secret and without swallowed errors, whoever reads
\* the credentials can log in, in the middle of a reset or of a recovery, after any number of
\* crashes, removed secrets, rotations of the admin password and losses of the server
\* (README.md:316).
THEOREM PublishedAlwaysLive ==
    ASSUME ReliableCalls, OneSecret, OneServer
    PROVE  Spec => []PublishedIsLive
<1>1. CredInv => PublishedIsLive
  BY DEF CredInv
<1>2. TypeInv /\ CredInv /\ [Next]_vars => CredInv'
  BY CredStep DEF ReliableCalls, NothingSwallowed
<1> QED
  BY <1>1, <1>2, CredInit, TypeInit, TypeStep, PTL DEF Spec
-----------------------------------------------------------------------------
(* The role's credentials keep the contract of CredentialContract. *)

\* A server that is lost in the middle of a handler takes the role along, and the handler
\* publishes credentials of nothing: PublishedAlwaysLive covers that case.
ServersStay == Budget["drop_server"] = 0

\* Once created, the role is there until the deletion.
RoleInv ==
    /\ budget["drop_server"] = 0
    /\ handler.pc \in AfterUser \cup {"stash", "update_password"} => role[Srv] # 0

LEMMA RoleStep ==
    ASSUME ReliableCalls, TypeInv, CredInv, RoleInv, [Next]_vars
    PROVE  RoleInv'
<1>0. /\ handler \in HandlerType /\ role \in [Servers -> Nat]
      /\ budget["drop_server"] = 0
      /\ budget' \in [Kinds -> Nat] /\ "drop_server" \in Kinds
  BY TypeStep DEF TypeInv, TypeOK, RoleInv, Kinds
<1>1. ~At("idle") => Srv \in Servers
  BY SpecFields
<1>2. budget'["drop_server"] = 0
  <2>1. ASSUME NEW k \in Kinds \ {"drop_server"}, Spend(k) PROVE budget'["drop_server"] = 0
    BY <1>0, <2>1 DEF Spend, TypeInv, TypeOK
  <2>2. ~Spend("drop_server")
    BY <1>0 DEF Spend
  <2>3. CASE UNCHANGED budget
    BY <1>0, <2>3
  <2>4. CASE \E k \in Kinds \ {"drop_server"} : Spend(k)
    BY <2>1, <2>4
  <2>5. UNCHANGED budget \/ \E k \in Kinds \ {"drop_server"} : Spend(k)
    BY <2>2, Thrift
  <2> QED
    BY <2>3, <2>4, <2>5
<1> USE DEF RoleInv, AfterUser, At
<1>3. ASSUME UNCHANGED <<handler, role>> PROVE RoleInv'
  BY <1>2, <1>3 DEF Srv
<1>4. ASSUME handler'.pc \notin AfterUser \cup {"stash", "update_password"} PROVE RoleInv'
  BY <1>2, <1>4
<1>5. CASE CreateUser \/ UpdatePassword \/ RecoverPassword
  <2>1. /\ handler.password # 0 /\ handler.pc # "idle"
        /\ handler'.spec = handler.spec
        /\ role' = [role EXCEPT ![Srv] = handler.password] \/ (UNCHANGED role /\ role[Srv] # 0)
    BY <1>0, <1>5 DEF CreateUser, UpdatePassword, RecoverPassword, AlterUser, Goto, CredInv,
                      BeforePublish, HandlerType
  <2> QED
    BY <1>0, <1>1, <1>2, <2>1 DEF Srv
<1>6. CASE \/ GrantDatabase \/ GrantSchema \/ NoCommand \/ UnknownCommand \/ ResetWithdraw
           \/ ResetStash \/ ResetSamePassword \/ Unlabel \/ NothingToRecover
  <2>1. /\ handler.pc \in {"grant_database", "grant_schema", "label", "stash", "unlabel",
                           "recover"}
        /\ handler'.spec = handler.spec /\ UNCHANGED role
    BY <1>0, <1>6 DEF GrantDatabase, GrantSchema, Grant,
        NoCommand, UnknownCommand, ResetWithdraw, ResetStash, ResetSamePassword,
                      Unlabel, NothingToRecover, Goto, HandlerType, postgres
  <2> QED
    BY <1>2, <2>1 DEF Srv
<1>7. CASE \/ SkipControlLabel \/ User \/ UNCHANGED vars
           \/ \E s \in Servers : ServerStep(s)
  <2>1. ASSUME SkipControlLabel \/ User \/ UNCHANGED vars PROVE UNCHANGED <<handler, role>>
    BY <2>1 DEF SkipControlLabel, User, CreateObject, EditSpec, SetLabel, RemoveCredentials,
                DeleteObject, postgres, vars
  <2>2. ASSUME \E s \in Servers : ServerStep(s) PROVE UNCHANGED <<handler, role>>
    <3>1. \A s \in Servers : ~DropServer(s)
      BY <1>0 DEF DropServer, Spend
    <3> QED
      BY <2>2, <3>1 DEF ServerStep, CreateServer, PublishAdmin, WithdrawAdmin, ChangeAdmin,
                        ForgetServer, postgres
  <2>3. UNCHANGED <<handler, role>>
    BY <1>7, <2>1, <2>2
  <2> QED
    BY <1>3, <2>3
<1>8. CASE \/ BeginManage \/ WaitForServer \/ ServerNotReady \/ ReadCredentials
           \/ UseStoredPassword \/ GeneratePassword \/ StatusWorking \/ CreateDatabase
           \/ RestrictDatabase \/ StashConflict \/ Publish \/ DropTmp \/ StatusFinished
           \/ Return
  <2>1. CASE BeginManage \/ ServerNotReady \/ StashConflict \/ Return
    <3>1. handler' = Idle \/ handler'.pc = "wait"
      BY <2>1, ConstantTypes DEF BeginManage, ServerNotReady, StashConflict, Return, Fail,
                  HandlerType
    <3> QED BY <1>4, <3>1 DEF Idle
  <2>2. CASE \/ WaitForServer \/ ReadCredentials \/ UseStoredPassword \/ GeneratePassword
             \/ StatusWorking \/ CreateDatabase \/ RestrictDatabase \/ Publish \/ DropTmp
             \/ StatusFinished
    <3>1. handler'.pc \in {"read", "password", "working", "create_database", "restrict",
                           "create_user", "drop", "finish", "return"}
      BY <1>0, <2>2
         DEF WaitForServer, ReadCredentials, UseStoredPassword, GeneratePassword, StatusWorking,
             CreateDatabase, RestrictDatabase, Publish, DropTmp, StatusFinished, Goto,
             HandlerType
    <3> QED BY <1>4, <3>1
  <2> QED
    BY <1>8, <2>1, <2>2
<1>9. CASE Delete \/ ServerRefuses \/ Abort \/ Restart
  <2>1. CASE BeginDelete \/ Release \/ ServerRefuses \/ Abort \/ Restart
    <3>1. handler' = Idle \/ handler'.pc = "lookup"
      BY <2>1, ConstantTypes DEF BeginDelete, Release, ServerRefuses, Abort, Restart, Fail,
                  HandlerType
    <3> QED BY <1>4, <3>1 DEF Idle
  <2>2. CASE \/ LookUpServer \/ FindDatabase \/ NoDatabaseToDelete \/ DeleteDatabase
             \/ DeleteUser \/ DeleteCredentials
    <3>1. handler'.pc \in {"exists", "delete_database", "delete_user", "delete_secret",
                           "release"}
      BY <1>0, <2>2
         DEF LookUpServer, FindDatabase, NoDatabaseToDelete, DeleteDatabase, DeleteUser,
             DeleteCredentials, Goto, HandlerType
    <3> QED BY <1>4, <3>1
  <2> QED
    BY <1>9, <2>1, <2>2 DEF Delete
<1> HIDE DEF RoleInv, AfterUser, At
<1> QED
  BY <1>5, <1>6, <1>7, <1>8, <1>9 DEF Next, Operator, Manage

LEMMA ContractStep ==
    ASSUME ReliableCalls, OneSecret, OneServer, TypeInv, CredInv, RoleInv, [Next]_vars
    PROVE  [Contract!Next]_<<role, secrets[TheSecret]>>
<1>0. /\ handler \in HandlerType /\ secrets \in [SecretNames -> Nat]
      /\ role \in [Servers -> Nat]
  BY DEF TypeInv, TypeOK
<1>1. /\ SecretNames = {TheSecret}
      /\ ~At("idle") => /\ Srv \in Servers /\ Servers = {Srv}
                        /\ handler.spec.secret = TheSecret
  BY SpecFields DEF OneSecret, OneServer, TheSecret
<1> USE DEF At
<1>2. ASSUME Unseen PROVE UNCHANGED <<role, secrets[TheSecret]>>
  BY <1>2 DEF Unseen
<1>3. CASE ReadCredentials \/ UseStoredPassword \/ GeneratePassword \/ ResetStash
  BY <1>3 DEF ReadCredentials, UseStoredPassword, GeneratePassword, ResetStash, kubernetes,
              postgres
<1>4. CASE \/ ResetWithdraw \/ DeleteCredentials
           \/ \E n \in SecretNames : RemoveCredentials(n)
  <2>1. UNCHANGED role
    BY <1>4 DEF ResetWithdraw, DeleteCredentials, RemoveCredentials, postgres
  <2>2. secrets' = [secrets EXCEPT ![TheSecret] = 0]
    BY <1>1, <1>4 DEF ResetWithdraw, DeleteCredentials, RemoveCredentials, delete_secret,
                      MayFail, ReliableCalls
  <2> QED BY <1>0, <1>1, <2>1, <2>2 DEF Contract!Next, Contract!Withdraw
<1>5. CASE CreateUser \/ UpdatePassword \/ RecoverPassword
  <2>1. /\ handler.pc # "idle" /\ UNCHANGED secrets
        /\ role' = [role EXCEPT ![Srv] = handler.password] \/ UNCHANGED role
    BY <1>5 DEF CreateUser, UpdatePassword, RecoverPassword, AlterUser, kubernetes
  <2>2. handler.password \in Nat /\ secrets[TheSecret] \in {0, handler.password}
    BY <1>0, <1>1, <1>5 DEF CreateUser, UpdatePassword, RecoverPassword, MustRecover, CredInv,
                            BeforePublish, HandlerType
  <2>3. CASE UNCHANGED role
    BY <2>1, <2>3
  <2>4. CASE role' = [role EXCEPT ![Srv] = handler.password]
    <3>1. role'[Srv] = handler.password
      BY <1>0, <1>1, <2>1, <2>4
    <3>2. Contract!Apply(Srv)
      BY <2>1, <2>2, <2>4, <3>1 DEF Contract!Apply
    <3> QED BY <1>1, <2>1, <3>2 DEF Contract!Next
  <2> QED BY <2>1, <2>3, <2>4
<1>6. CASE Publish
  <2>1. handler.pc = "publish" /\ UNCHANGED role
    BY <1>6 DEF Publish, postgres
  <2>2. CASE handler.credentials /\ ~handler.newly
    BY <1>6, <2>1, <2>2 DEF Publish
  <2>3. CASE ~(handler.credentials /\ ~handler.newly)
    <3>1. /\ role[Srv] # 0
          /\ \A s \in Servers : role[s] \in {0, handler.password}
      BY <2>1, <2>3 DEF RoleInv, CredInv, RoleFollows, AfterUser
    <3>2. secrets'[TheSecret] = handler.password
      BY <1>0, <1>1, <1>6, <2>1, <2>3 DEF Publish, create_or_update_secret
    <3>3. Contract!Publish(Srv)
      BY <1>1, <2>1, <3>1, <3>2 DEF Contract!Publish
    <3> QED BY <1>1, <2>1, <3>3 DEF Contract!Next
  <2> QED BY <2>2, <2>3
<1>7. CASE DeleteUser
  <2>1. Srv \in Servers /\ Contract!Remove(Srv)
    BY <1>1, <1>7 DEF DeleteUser, kubernetes, Contract!Remove
  <2> QED BY <2>1 DEF Contract!Next
<1>8. ASSUME NEW s \in Servers, DropServer(s) PROVE FALSE
  BY <1>8 DEF DropServer, Spend, RoleInv
<1> HIDE DEF At
<1> QED
  BY <1>2, <1>3, <1>4, <1>5, <1>6, <1>7, <1>8, UnseenActions
     DEF Next, Operator, Manage, Delete, ServerStep, User

LEMMA ContractInit == Init /\ OneSecret => Contract!Init
BY DEF Init, OneSecret, Contract!Init, TheSecret

LEMMA RoleInit == Init /\ ServersStay => RoleInv
BY DEF Init, ServersStay, RoleInv, AfterUser, Idle

\* While its server stays, every statement and every write of a secret is one step the
\* credential contract of the role allows: the password of a role changes only while no
\* credentials are published, and what is published is the password of a role that exists.
THEOREM DatabaseKeepsContract ==
    ASSUME ReliableCalls, OneSecret, OneServer, ServersStay
    PROVE  Spec => KeepsContract
<1>1. TypeInv /\ CredInv /\ [Next]_vars => CredInv'
  BY CredStep DEF ReliableCalls, NothingSwallowed
<1> QED
  BY <1>1, TypeInit, TypeStep, CredInit, RoleInit, RoleStep, ContractInit, ContractStep, PTL
     DEF Spec, KeepsContract, Contract!Spec
-----------------------------------------------------------------------------
(* No database is left behind. *)

\* The deletion knows from the backend whether there is a database: aws answers from the
\* admin credentials, which a reset withdraws (ServerAndDatabase), and database_delete_fake
\* leaves the database on purpose.
BackendKnows == Backend # "aws" /\ ~DeleteFake

NoDatabase == \A s \in Servers : database[s] = "absent"

\* A database is on a server that runs, it is gone once the deletion is past the statement
\* that drops it, and there was none on a server that was not found.
LeftInv ==
    /\ NoDatabaseLeft
    /\ \A s \in Servers : ~server[s].up => database[s] = "absent"
    /\ handler.pc = "exists" /\ ~handler.found => NoDatabase
    /\ handler.pc \in {"delete_user", "delete_secret", "release"} => NoDatabase

\* A step that no clause of LeftInv can notice.
Keeps ==
    /\ \A s \in Servers : database'[s] \in {"absent", database[s]}
    /\ \A s \in Servers : server'[s].up \/ database'[s] = "absent" \/ ~server[s].up
    /\ object.exists => object'.exists
    /\ \/ handler'.pc \notin {"exists", "delete_user", "delete_secret", "release"}
       \/ UNCHANGED handler

LEMMA KeepsStep == TypeInv /\ LeftInv /\ Keeps => LeftInv'
BY DEF LeftInv, Keeps, NoDatabaseLeft, NoDatabase

LEMMA KeepingActions ==
    ASSUME TypeInv,
           \/ UNCHANGED vars
           \/ SkipControlLabel \/ BeginManage \/ WaitForServer \/ ServerNotReady
           \/ ReadCredentials \/ UseStoredPassword \/ GeneratePassword \/ StatusWorking
           \/ CreateUser \/ GrantDatabase \/ GrantSchema
           \/ NoCommand \/ UnknownCommand \/ ResetWithdraw \/ ResetStash \/ StashConflict
           \/ ResetSamePassword \/ UpdatePassword \/ Unlabel
           \/ RecoverPassword \/ NothingToRecover \/ Publish \/ DropTmp \/ StatusFinished
           \/ Return \/ BeginDelete \/ FindDatabase \/ ServerRefuses \/ Abort \/ Restart
           \/ (\E s \in Servers : ServerStep(s)) \/ User
    PROVE  Keeps
<1> USE DEF Keeps, kubernetes, postgres, user
<1>0. /\ handler \in HandlerType /\ object \in ObjectType
      /\ server \in [Servers -> ServerType]
      /\ database \in [Servers -> {"absent", "open", "restricted"}]
  BY TypeParts DEF TypeInv, PostgresType, RestType
<1>1. CASE UNCHANGED vars
  BY <1>1 DEF vars
<1>2. CASE \/ SkipControlLabel \/ User
  <2>1. UNCHANGED <<handler, database, server>> /\ (object.exists => object'.exists)
    BY <1>0, <1>2 DEF SkipControlLabel, User, CreateObject, EditSpec, SetLabel,
                      RemoveCredentials, DeleteObject, Handled, ObjectType
  <2> QED BY <2>1
<1>3. CASE \/ BeginManage \/ WaitForServer \/ ServerNotReady \/ ReadCredentials
           \/ UseStoredPassword \/ GeneratePassword \/ StatusWorking
           \/ StashConflict \/ Return \/ ServerRefuses \/ Abort \/ Restart
  <2>1. UNCHANGED <<database, server>> /\ (object.exists => object'.exists)
    BY <1>0, <1>3
       DEF BeginManage, WaitForServer, ServerNotReady, ReadCredentials, UseStoredPassword,
           GeneratePassword, StatusWorking, StashConflict, Return, ServerRefuses, Abort,
           Restart, Fail, Handled, Resumed, ObjectType
  <2>2. CASE \/ BeginManage \/ ServerNotReady \/ StashConflict \/ Return \/ ServerRefuses
             \/ Abort \/ Restart
    <3>1. handler' = Idle \/ handler'.pc = "wait"
      BY <2>2, ConstantTypes DEF BeginManage, ServerNotReady, StashConflict, Return,
                  ServerRefuses, Abort, Restart, Fail, HandlerType
    <3> QED BY <2>1, <3>1 DEF Idle
  <2>3. CASE \/ WaitForServer \/ ReadCredentials \/ UseStoredPassword \/ GeneratePassword
             \/ StatusWorking
    <3>1. handler'.pc \in {"read", "password", "working", "create_database"}
      BY <1>0, <2>3 DEF WaitForServer, ReadCredentials, UseStoredPassword, GeneratePassword,
                        StatusWorking, Goto, HandlerType
    <3> QED BY <2>1, <3>1
  <2> QED BY <1>3, <2>2, <2>3
<1>4. CASE \/ CreateUser \/ GrantDatabase \/ GrantSchema
           \/ NoCommand \/ UnknownCommand \/ ResetWithdraw \/ ResetStash
           \/ ResetSamePassword \/ UpdatePassword \/ Unlabel \/ RecoverPassword
           \/ NothingToRecover \/ Publish \/ DropTmp \/ StatusFinished
  <2>1. UNCHANGED <<database, server>> /\ (object.exists => object'.exists)
    BY <1>0, <1>4
       DEF CreateUser, GrantDatabase, GrantSchema, Grant,
           NoCommand, UnknownCommand, ResetWithdraw, ResetStash, ResetSamePassword,
           UpdatePassword, Unlabel, RecoverPassword, NothingToRecover, Publish, DropTmp,
           StatusFinished, AlterUser, ObjectType
  <2>2. handler'.pc \in {"grant_database", "grant_schema", "label", "stash", "update_password",
                         "unlabel", "recover", "publish", "drop", "finish", "return"}
    BY <1>0, <1>4
       DEF CreateUser, GrantDatabase, GrantSchema, Grant,
           NoCommand, UnknownCommand, ResetWithdraw, ResetStash, ResetSamePassword,
           UpdatePassword, Unlabel, RecoverPassword, NothingToRecover, Publish, DropTmp,
           StatusFinished, AlterUser, Goto, HandlerType
  <2> QED BY <2>1, <2>2
<1>5. CASE BeginDelete \/ FindDatabase
  <2>1. handler'.pc \in {"lookup", "delete_database"}
    BY <1>0, <1>5 DEF BeginDelete, FindDatabase, Goto, Idle, HandlerType
  <2> QED BY <1>5, <2>1 DEF BeginDelete, FindDatabase
<1>6. ASSUME NEW s \in Servers, ServerStep(s) PROVE Keeps
  <2>1. UNCHANGED <<handler, object>>
    BY <1>6 DEF ServerStep, CreateServer, PublishAdmin, WithdrawAdmin, ChangeAdmin, DropServer,
                ForgetServer
  <2>2. CASE DropServer(s)
    BY <1>0, <2>1, <2>2 DEF DropServer, ServerType
  <2>3. CASE ~DropServer(s)
    <3>1. UNCHANGED database
      BY <1>6, <2>3 DEF ServerStep, CreateServer, PublishAdmin, WithdrawAdmin, ChangeAdmin,
                        ForgetServer
    <3>2. \A r \in Servers : server'[r].up \/ ~server[r].up
      BY <1>0, <1>6, <2>3 DEF ServerStep, CreateServer, PublishAdmin, WithdrawAdmin,
                              ChangeAdmin, ForgetServer, ServerType
    <3> QED BY <2>1, <3>1, <3>2
  <2> QED BY <2>2, <2>3
<1> QED
  BY <1>1, <1>2, <1>3, <1>4, <1>5, <1>6

LEMMA LeftStep ==
    ASSUME ReliableCalls, OneServer, BackendKnows, TypeInv, LeftInv, [Next]_vars
    PROVE  LeftInv'
<1>0. /\ handler \in HandlerType /\ server \in [Servers -> ServerType]
      /\ database \in [Servers -> {"absent", "open", "restricted"}]
  BY TypeParts DEF TypeInv, PostgresType, RestType
<1>1. ~At("idle") => Srv \in Servers /\ Servers = {Srv} /\ object.exists
  BY SpecFields DEF OneServer, TypeInv
<1> USE DEF LeftInv, NoDatabaseLeft, NoDatabase, At
<1>2. ASSUME Keeps PROVE LeftInv'
  BY <1>2, KeepsStep
<1>3. CASE CreateDatabase \/ RestrictDatabase
  <2>1. /\ handler.pc # "idle" /\ server[Srv].up /\ UNCHANGED <<object, server>>
        /\ handler'.pc \in {"restrict", "create_user"}
    BY <1>0, <1>3 DEF CreateDatabase, RestrictDatabase, Reachable, CanRestrict, Connected, Goto,
                      user, HandlerType
  <2> QED BY <1>1, <2>1
<1>4. CASE LookUpServer
  <2>1. /\ handler.pc = "lookup" /\ handler'.pc = "exists"
        /\ handler'.found = server[Srv].up /\ UNCHANGED <<object, server, database>>
    BY <1>0, <1>4 DEF LookUpServer, MayFail, ReliableCalls, postgres, HandlerType
  <2> QED BY <1>1, <2>1
<1>5. CASE NoDatabaseToDelete
  <2>1. /\ handler.pc = "exists" /\ DatabaseExists(FALSE)
        /\ handler'.pc = "delete_secret" /\ UNCHANGED <<object, server, database>>
    BY <1>0, <1>5 DEF NoDatabaseToDelete, Goto, user, postgres, HandlerType
  <2>2. NoDatabase
    BY <1>1, <2>1 DEF DatabaseExists, BackendKnows
  <2> QED BY <2>1, <2>2
<1>6. CASE DeleteDatabase
  <2>1. /\ handler.pc = "delete_database" /\ handler'.pc = "delete_user"
        /\ database' = [database EXCEPT ![Srv] = "absent"] /\ UNCHANGED <<object, server>>
    BY <1>0, <1>6 DEF DeleteDatabase, BackendKnows, Goto, user, HandlerType
  <2>2. \A s \in Servers : database'[s] = "absent"
    BY <1>0, <1>1, <2>1
  <2> QED BY <2>1, <2>2
<1>7. CASE DeleteUser \/ DeleteCredentials
  <2>1. /\ handler.pc \in {"delete_user", "delete_secret"}
        /\ handler'.pc \in {"delete_secret", "release"}
        /\ UNCHANGED <<object, server, database>>
    BY <1>0, <1>7 DEF DeleteUser, DeleteCredentials, Goto, user, postgres, HandlerType
  <2> QED BY <2>1
<1>8. CASE Release
  BY <1>8 DEF Release, Idle, user, postgres
<1> HIDE DEF LeftInv, NoDatabaseLeft, NoDatabase, At
<1> QED
  BY <1>2, <1>3, <1>4, <1>5, <1>6, <1>7, <1>8, KeepingActions
     DEF Next, Operator, Manage, Delete

LEMMA LeftInit == Init => LeftInv
BY DEF Init, LeftInv, NoDatabaseLeft, Idle

\* When the object is gone its database is gone, whatever was interrupted, rotated or lost on
\* the way (postgresql_database.py:91-94): on one server, when no call that is swallowed fails
\* and the backend can tell a missing database from missing credentials.
THEOREM NothingEverLeft ==
    ASSUME ReliableCalls, OneServer, BackendKnows
    PROVE  Spec => []NoDatabaseLeft
<1>1. LeftInv => NoDatabaseLeft
  BY DEF LeftInv
<1> QED
  BY <1>1, LeftInit, TypeInit, TypeStep, LeftStep, PTL DEF Spec
-----------------------------------------------------------------------------
(* What an object shows while a handler is at work *)

Deleting == {"lookup", "exists", "delete_database", "delete_user", "delete_secret", "release"}
Working  == {"create_database", "restrict", "create_user", "grant_database", "grant_schema",
             "label", "stash", "update_password", "unlabel", "recover", "publish", "drop", "finish"}

KopfInv ==
    /\ handler.pc \in Deleting => object.deleting
    /\ handler.pc \in Working => object.deployment = "working"

\* Steps that end the attempt, and steps of others.
LEMMA EndingActions ==
    ASSUME \/ ServerNotReady \/ StashConflict \/ Return \/ Release \/ ServerRefuses
           \/ Abort \/ Restart
    PROVE  handler' = Idle
BY DEF ServerNotReady, StashConflict, Return, Release, ServerRefuses, Abort, Restart, Fail

LEMMA OthersActions ==
    ASSUME UNCHANGED vars \/ SkipControlLabel \/ User \/ \E s \in Servers : ServerStep(s)
    PROVE  UNCHANGED handler
<1>1. CASE UNCHANGED vars \/ SkipControlLabel
  BY <1>1 DEF vars, SkipControlLabel
<1>2. CASE User
  BY <1>2 DEF User, CreateObject, EditSpec, SetLabel, RemoveCredentials, DeleteObject
<1>3. CASE \E s \in Servers : ServerStep(s)
  BY <1>3 DEF ServerStep, CreateServer, PublishAdmin, WithdrawAdmin, ChangeAdmin, DropServer,
              ForgetServer
<1> QED
  BY <1>1, <1>2, <1>3

\* Steps of an attempt that write nothing to the object.
LEMMA ManagingMoves ==
    ASSUME TypeInv,
           \/ WaitForServer \/ ReadCredentials \/ UseStoredPassword \/ GeneratePassword
           \/ CreateDatabase \/ RestrictDatabase \/ CreateUser \/ GrantDatabase \/ GrantSchema
           \/ NoCommand \/ UnknownCommand
           \/ ResetWithdraw \/ ResetStash \/ ResetSamePassword \/ UpdatePassword
           \/ RecoverPassword \/ NothingToRecover \/ Publish \/ DropTmp
    PROVE  /\ UNCHANGED <<object, compromised>>
           /\ handler'.spec = handler.spec /\ handler'.label = handler.label
           /\ handler'.pc \notin Deleting
           /\ handler'.pc \in Working => handler.pc \in Working
<1>0. handler \in HandlerType
  BY DEF TypeInv, TypeOK
<1> USE DEF HandlerType, Deleting, Working, At, user
<1>1. CASE WaitForServer \/ ReadCredentials
  BY <1>0, <1>1 DEF WaitForServer, ReadCredentials, Goto
<1>2. CASE UseStoredPassword \/ GeneratePassword
  BY <1>0, <1>2 DEF UseStoredPassword, GeneratePassword
<1>3. CASE CreateDatabase \/ RestrictDatabase \/ GrantDatabase \/ GrantSchema
  BY <1>0, <1>3 DEF CreateDatabase, RestrictDatabase, GrantDatabase, GrantSchema, Grant, Goto
<1>4. CASE CreateUser \/ ResetWithdraw \/ ResetStash
  BY <1>0, <1>4 DEF CreateUser, ResetWithdraw, ResetStash
<1>5. CASE NoCommand \/ UnknownCommand \/ ResetSamePassword \/ NothingToRecover
  BY <1>0, <1>5 DEF NoCommand, UnknownCommand, ResetSamePassword, NothingToRecover, Goto
<1>6. CASE UpdatePassword \/ RecoverPassword
  BY <1>0, <1>6 DEF UpdatePassword, RecoverPassword, AlterUser, Goto
<1>7. CASE Publish \/ DropTmp
  BY <1>0, <1>7 DEF Publish, DropTmp, Goto
<1> QED
  BY <1>1, <1>2, <1>3, <1>4, <1>5, <1>6, <1>7

LEMMA DeletingMoves ==
    ASSUME TypeInv,
           \/ LookUpServer \/ FindDatabase \/ NoDatabaseToDelete \/ DeleteDatabase \/ DeleteUser
           \/ DeleteCredentials
    PROVE  /\ UNCHANGED <<object, compromised>>
           /\ handler'.spec = handler.spec /\ handler'.label = handler.label
           /\ handler.pc \in Deleting /\ handler'.pc \in Deleting
<1>0. handler \in HandlerType
  BY DEF TypeInv, TypeOK
<1> USE DEF HandlerType, Deleting, At, user
<1>1. CASE LookUpServer
  BY <1>0, <1>1 DEF LookUpServer
<1>2. CASE FindDatabase \/ NoDatabaseToDelete
  BY <1>0, <1>2 DEF FindDatabase, NoDatabaseToDelete, Goto
<1>3. CASE DeleteDatabase \/ DeleteUser \/ DeleteCredentials
  BY <1>0, <1>3 DEF DeleteDatabase, DeleteUser, DeleteCredentials, Goto
<1> QED
  BY <1>1, <1>2, <1>3

LEMMA BeginningMoves ==
    ASSUME TypeInv, BeginManage \/ BeginDelete
    PROVE  /\ handler'.pc \in {"wait", "lookup"} /\ handler'.label = object.label
           /\ handler'.pc = "lookup" => object.deleting /\ UNCHANGED object
           /\ object'.label = object.label /\ object'.exists = object.exists
           /\ object'.deployment = object.deployment /\ object'.deleting = object.deleting
           /\ UNCHANGED <<secrets, tmp_secret, database, role, grants>>
           /\ UNCHANGED <<generated, server, budget, compromised>>
<1>1. CASE BeginManage
  BY <1>1 DEF BeginManage, Idle, TypeInv, TypeOK, ObjectType, kubernetes, postgres, user
<1>2. CASE BeginDelete
  BY <1>2 DEF BeginDelete, Idle, kubernetes, postgres, user
<1> QED
  BY <1>1, <1>2

LEMMA StatusMoves ==
    ASSUME TypeInv, Unlabel \/ StatusWorking \/ StatusFinished
    PROVE  /\ handler' = [handler EXCEPT !.pc = handler'.pc]
           /\ object'.exists = object.exists /\ object'.deleting = object.deleting
           /\ UNCHANGED <<secrets, tmp_secret, database, role, grants>>
           /\ UNCHANGED <<generated, server, budget, compromised>>
           /\ Unlabel => /\ handler.pc = "unlabel" /\ handler'.pc = "recover"
                         /\ object'.label = NoLabel /\ object'.deployment = object.deployment
           /\ StatusWorking => /\ handler.pc = "working" /\ handler'.pc = "create_database"
                               /\ object'.label = object.label /\ object'.deployment = "working"
           /\ StatusFinished => /\ handler.pc = "finish" /\ handler'.pc = "return"
                                /\ object'.label = object.label /\ object'.deployment = "finished"
<1>0. handler \in HandlerType /\ object \in ObjectType
  BY DEF TypeInv, TypeOK
<1> USE DEF At, Goto, kubernetes, postgres, user, HandlerType, ObjectType
<1>1. CASE Unlabel
  BY <1>0, <1>1 DEF Unlabel, StatusWorking, StatusFinished
<1>2. CASE StatusWorking
  BY <1>0, <1>2 DEF Unlabel, StatusWorking, StatusFinished
<1>3. CASE StatusFinished
  BY <1>0, <1>3 DEF Unlabel, StatusWorking, StatusFinished
<1> QED
  BY <1>1, <1>2, <1>3

LEMMA KopfInit == Init => KopfInv
BY DEF Init, KopfInv, Deleting, Working, Idle

LEMMA KopfStep == TypeInv /\ KopfInv /\ [Next]_vars => KopfInv'
<1> SUFFICES ASSUME TypeInv, KopfInv, [Next]_vars PROVE KopfInv'
  OBVIOUS
<1> USE DEF KopfInv
<1>1. CASE \/ WaitForServer \/ ReadCredentials \/ UseStoredPassword \/ GeneratePassword
           \/ CreateDatabase \/ RestrictDatabase \/ CreateUser \/ GrantDatabase \/ GrantSchema
           \/ NoCommand \/ UnknownCommand
           \/ ResetWithdraw \/ ResetStash \/ ResetSamePassword \/ UpdatePassword
           \/ RecoverPassword \/ NothingToRecover \/ Publish \/ DropTmp
  BY <1>1, ManagingMoves
<1>2. CASE \/ LookUpServer \/ FindDatabase \/ NoDatabaseToDelete \/ DeleteDatabase \/ DeleteUser
           \/ DeleteCredentials
  <2>1. handler'.pc \notin Working
    BY <1>2, DeletingMoves DEF Deleting, Working
  <2> QED BY <1>2, <2>1, DeletingMoves
<1>3. CASE BeginManage \/ BeginDelete
  <2>1. handler'.pc \notin Working
    BY <1>3, BeginningMoves DEF Working
  <2>2. handler'.pc \in Deleting => object'.deleting
    BY <1>3, BeginningMoves DEF Deleting
  <2> QED BY <2>1, <2>2
<1>4. CASE Unlabel \/ StatusWorking \/ StatusFinished
  BY <1>4, StatusMoves DEF Deleting, Working
<1>5. CASE \/ ServerNotReady \/ StashConflict \/ Return \/ Release \/ ServerRefuses
           \/ Abort \/ Restart
  BY <1>5, EndingActions DEF Idle, Deleting, Working
<1>6. CASE UNCHANGED vars \/ SkipControlLabel \/ User \/ \E s \in Servers : ServerStep(s)
  <2>1. UNCHANGED handler
    BY <1>6, OthersActions
  <2>2. CASE \E s \in Specs : CreateObject(s)
    BY <2>1, <2>2 DEF CreateObject, TypeInv, At, Deleting, Working
  <2>3. CASE ~\E s \in Specs : CreateObject(s)
    <3>0. object \in ObjectType
      BY DEF TypeInv, TypeOK
    <3>1. CASE User
      BY <2>3, <3>0, <3>1, <2>1 DEF User, EditSpec, SetLabel, RemoveCredentials, DeleteObject, ObjectType
    <3>2. CASE \E s \in Servers : ServerStep(s)
      BY <2>1, <3>2 DEF ServerStep, CreateServer, PublishAdmin, WithdrawAdmin, ChangeAdmin, DropServer,
                  ForgetServer
    <3>3. CASE UNCHANGED vars \/ SkipControlLabel
      BY <2>1, <3>0, <3>3 DEF vars, SkipControlLabel, Handled, ObjectType, At, Deleting, Working
    <3> QED BY <1>6, <3>1, <3>2, <3>3
  <2> QED BY <2>2, <2>3
<1> QED
  BY <1>1, <1>2, <1>3, <1>4, <1>5, <1>6 DEF Next, Operator, Manage, Delete
-----------------------------------------------------------------------------
(* A reset takes the old password out of use. *)

\* No password is newer than the newest one.
FreshInv ==
    /\ \A n \in SecretNames : secrets[n] <= generated
    /\ tmp_secret <= generated
    /\ handler.password <= generated
    /\ compromised.password <= generated

LEMMA FreshInit == Init => FreshInv
BY DEF Init, FreshInv, Idle, NoRequest

LEMMA FreshStep == TypeInv /\ FreshInv /\ [Next]_vars => FreshInv'
<1> SUFFICES ASSUME TypeInv, FreshInv, [Next]_vars PROVE FreshInv'
  OBVIOUS
<1>0. /\ handler \in HandlerType /\ secrets \in [SecretNames -> Nat] /\ tmp_secret \in Nat
      /\ generated \in Nat /\ compromised \in [password : Nat, leftover : Nat, first : BOOLEAN]
      /\ handler.password \in Nat
  BY DEF TypeInv, TypeOK, HandlerType
<1>1. ~At("idle") => handler.spec.secret \in SecretNames
  BY SpecFields
<1> USE DEF FreshInv, At
<1>2. ASSUME \A n \in SecretNames : secrets'[n] \in {0, secrets[n], handler.password},
             tmp_secret' \in {0, tmp_secret, handler.password},
             handler'.password \in {0, handler.password, tmp_secret},
             UNCHANGED <<generated, compromised>>
      PROVE  FreshInv'
  BY <1>0, <1>2
<1>3. CASE \/ WaitForServer \/ UseStoredPassword \/ CreateDatabase \/ RestrictDatabase \/ CreateUser
           \/ GrantDatabase \/ GrantSchema
           \/ NoCommand \/ UnknownCommand \/ ResetStash \/ ResetSamePassword \/ UpdatePassword
           \/ RecoverPassword \/ NothingToRecover \/ DropTmp
  <2>1. UNCHANGED <<secrets, generated, compromised>>
    BY <1>3 DEF WaitForServer, UseStoredPassword, CreateDatabase, RestrictDatabase, CreateUser,
                GrantDatabase, GrantSchema, Grant,
                NoCommand, UnknownCommand, ResetStash, ResetSamePassword, UpdatePassword,
                RecoverPassword, NothingToRecover, DropTmp, AlterUser, kubernetes, user
  <2>2. tmp_secret' \in {0, tmp_secret, handler.password}
    BY <1>3 DEF WaitForServer, UseStoredPassword, CreateDatabase, RestrictDatabase, CreateUser,
                GrantDatabase, GrantSchema, Grant,
                NoCommand, UnknownCommand, ResetStash, ResetSamePassword, UpdatePassword,
                RecoverPassword, NothingToRecover, DropTmp, AlterUser, kubernetes
  <2>3. handler'.password \in {0, handler.password, tmp_secret}
    <3>1. CASE UseStoredPassword
      BY <1>0, <3>1 DEF UseStoredPassword, StoredPassword, HandlerType
    <3>2. CASE ~UseStoredPassword
      BY <1>0, <1>3, <3>2 DEF WaitForServer, CreateDatabase, RestrictDatabase, CreateUser,
                  GrantDatabase, GrantSchema, Grant,
                  NoCommand, UnknownCommand, ResetStash, ResetSamePassword, UpdatePassword,
                  RecoverPassword, NothingToRecover, DropTmp, AlterUser, Goto, HandlerType
    <3> QED BY <3>1, <3>2
  <2> QED BY <1>2, <2>1, <2>2, <2>3
<1>4. CASE ReadCredentials
  <2>1. handler'.password \in {handler.password, secrets[handler.spec.secret]}
    BY <1>0, <1>4 DEF ReadCredentials, Goto, HandlerType
  <2>2. UNCHANGED <<secrets, tmp_secret, generated, compromised>> /\ handler.pc = "read"
    BY <1>4 DEF ReadCredentials, kubernetes
  <2> QED BY <1>0, <1>1, <2>1, <2>2
<1>5. CASE GeneratePassword
  BY <1>0, <1>5 DEF GeneratePassword, HandlerType, user
<1>6. CASE ResetWithdraw
  <2>1. /\ generated' = generated + 1 /\ handler'.password = generated'
        /\ UNCHANGED <<tmp_secret, compromised>>
    BY <1>0, <1>6 DEF ResetWithdraw, HandlerType
  <2>2. \A n \in SecretNames : secrets'[n] \in {0, secrets[n]}
    BY <1>0, <1>6 DEF ResetWithdraw, delete_secret
  <2> QED BY <1>0, <2>1, <2>2
<1>7. CASE Publish
  <2>1. \A n \in SecretNames : secrets'[n] \in {secrets[n], handler.password}
    BY <1>0, <1>7 DEF Publish, create_or_update_secret
  <2>2. handler'.password = handler.password /\ UNCHANGED <<tmp_secret, generated, compromised>>
    BY <1>0, <1>7 DEF Publish, Goto, HandlerType, user
  <2> QED BY <1>2, <2>1, <2>2
<1>8. CASE \/ LookUpServer \/ FindDatabase \/ NoDatabaseToDelete \/ DeleteDatabase \/ DeleteUser
           \/ DeleteCredentials
  <2>1. handler'.password = handler.password /\ UNCHANGED <<tmp_secret, generated, compromised>>
    BY <1>0, <1>8 DEF LookUpServer, FindDatabase, NoDatabaseToDelete, DeleteDatabase, DeleteUser,
                      DeleteCredentials, Goto, HandlerType, kubernetes, user
  <2>2. \A n \in SecretNames : secrets'[n] \in {0, secrets[n]}
    BY <1>0, <1>8 DEF LookUpServer, FindDatabase, NoDatabaseToDelete, DeleteDatabase, DeleteUser,
                      DeleteCredentials, delete_secret, kubernetes
  <2> QED BY <1>2, <2>1, <2>2
<1>9. CASE BeginManage \/ BeginDelete
  <2>1. handler'.password = 0
    BY <1>9 DEF BeginManage, BeginDelete, Idle
  <2> QED BY <1>2, <1>9, <2>1, BeginningMoves
<1>10. CASE Unlabel \/ StatusWorking \/ StatusFinished
  BY <1>0, <1>2, <1>10, StatusMoves DEF HandlerType
<1>11. CASE \/ ServerNotReady \/ StashConflict \/ Return \/ Release \/ ServerRefuses
            \/ Abort \/ Restart
  <2>1. UNCHANGED <<secrets, tmp_secret, generated, compromised>>
    BY <1>11 DEF ServerNotReady, StashConflict, Return, Release, ServerRefuses, Abort, Restart,
                 Fail, kubernetes, user
  <2>2. handler'.password = 0
    BY <1>11, EndingActions DEF Idle
  <2> QED BY <1>2, <2>1, <2>2
<1>12. CASE UNCHANGED vars \/ SkipControlLabel \/ User
  <2>1. UNCHANGED <<handler, tmp_secret, generated>>
    BY <1>12 DEF vars, SkipControlLabel, User, CreateObject, EditSpec, SetLabel,
                 RemoveCredentials, DeleteObject, kubernetes
  <2>2. \A n \in SecretNames : secrets'[n] \in {0, secrets[n]}
    BY <1>0, <1>12 DEF vars, SkipControlLabel, User, CreateObject, EditSpec, SetLabel,
                 RemoveCredentials, DeleteObject, kubernetes
  <2>3. object.exists => object.spec.secret \in SecretNames
    BY DatabaseAssumption DEF TypeInv
  <2>4. compromised'.password <= generated
    <3>1. CASE \E l \in Labels : SetLabel(l)
      BY <1>0, <2>3, <3>1 DEF SetLabel, NoRequest
    <3>2. CASE \E s \in Specs : CreateObject(s)
      BY <1>0, <3>2 DEF CreateObject, NoRequest
    <3>3. CASE \/ UNCHANGED vars \/ SkipControlLabel \/ DeleteObject
               \/ \E s \in Specs : EditSpec(s)
               \/ \E n \in SecretNames : RemoveCredentials(n)
      <4>1. UNCHANGED compromised
        BY <3>3 DEF vars, SkipControlLabel, EditSpec, RemoveCredentials, DeleteObject, user
      <4> QED BY <4>1
    <3> QED BY <1>12, <3>1, <3>2, <3>3 DEF User
  <2> QED BY <1>0, <2>1, <2>2, <2>4
<1>13. CASE \E s \in Servers : ServerStep(s)
  <2>1. /\ UNCHANGED <<handler, secrets, tmp_secret, compromised>>
        /\ generated' \in {generated, generated + 1}
    BY <1>13 DEF ServerStep, CreateServer, PublishAdmin, WithdrawAdmin, ChangeAdmin, DropServer,
                 ForgetServer, kubernetes
  <2> QED BY <1>0, <2>1
<1> HIDE DEF FreshInv, At
<1> QED
  BY <1>3, <1>4, <1>5, <1>6, <1>7, <1>8, <1>9, <1>10, <1>11, <1>12, <1>13
     DEF Next, Operator, Manage, Delete

\* What the command a handler has read says of its credentials.
LabelInv ==
    /\ handler.pc \in {"stash", "update_password"} => handler.label = ResetPassword
    /\ handler.pc = "unlabel" => handler.label # NoLabel
    /\ handler.pc = "unlabel" /\ handler.label = ResetPassword => ~handler.credentials

LEMMA LabelStep == TypeInv /\ CredInv /\ LabelInv /\ [Next]_vars => LabelInv'
<1> SUFFICES ASSUME TypeInv, CredInv, LabelInv, [Next]_vars PROVE LabelInv'
  OBVIOUS
<1>0. handler \in HandlerType /\ NoLabel # ResetPassword
  BY DEF TypeInv, TypeOK, NoLabel, ResetPassword
<1> USE DEF LabelInv, At
<1>1. ASSUME handler'.pc \notin {"stash", "update_password", "unlabel"} PROVE LabelInv'
  BY <1>1
<1>2. CASE \/ WaitForServer \/ ReadCredentials \/ UseStoredPassword \/ GeneratePassword
           \/ CreateDatabase \/ RestrictDatabase \/ CreateUser \/ GrantDatabase \/ GrantSchema
  BY <1>0, <1>1, <1>2 DEF WaitForServer, ReadCredentials, UseStoredPassword, GeneratePassword,
          CreateDatabase, RestrictDatabase, CreateUser, GrantDatabase, GrantSchema, Goto, HandlerType
<1>3. CASE UnknownCommand \/ ResetSamePassword
  BY <1>0, <1>3 DEF UnknownCommand, ResetSamePassword, Goto, HandlerType
<1>4. CASE ResetWithdraw \/ ResetStash
  BY <1>0, <1>4 DEF ResetWithdraw, ResetStash, HandlerType
<1>5. CASE UpdatePassword
  BY <1>0, <1>5 DEF UpdatePassword, AlterUser, Goto, HandlerType, CredInv
<1>6. CASE NoCommand \/ RecoverPassword \/ NothingToRecover \/ Publish \/ DropTmp
  BY <1>0, <1>1, <1>6 DEF NoCommand, RecoverPassword, NothingToRecover, Publish, DropTmp, AlterUser,
          Goto, HandlerType
<1>7. CASE \/ LookUpServer \/ FindDatabase \/ NoDatabaseToDelete \/ DeleteDatabase \/ DeleteUser
           \/ DeleteCredentials
  BY <1>1, <1>7, DeletingMoves DEF Deleting
<1>8. CASE BeginManage \/ BeginDelete
  BY <1>1, <1>8, BeginningMoves
<1>9. CASE Unlabel \/ StatusWorking \/ StatusFinished
  BY <1>1, <1>9, StatusMoves
<1>10. CASE \/ ServerNotReady \/ StashConflict \/ Return \/ Release \/ ServerRefuses
            \/ Abort \/ Restart
  BY <1>1, <1>10, EndingActions DEF Idle
<1>11. CASE UNCHANGED vars \/ SkipControlLabel \/ User \/ \E s \in Servers : ServerStep(s)
  BY <1>11, OthersActions
<1> HIDE DEF LabelInv, At
<1> QED
  BY <1>2, <1>3, <1>4, <1>5, <1>6, <1>7, <1>8, <1>9, <1>10, <1>11
     DEF Next, Operator, Manage, Delete

\* The request whose outcome the property is about.
OldPassword == compromised.password
Watched ==
    /\ object.exists /\ compromised.first
    /\ OldPassword # 0 /\ compromised.leftover # OldPassword

\* The old password is not about to come back ...
NotBackInv ==
    /\ object.label \in {NoLabel, ResetPassword} /\ handler.label \in {NoLabel, ResetPassword}
    /\ tmp_secret # OldPassword
    /\ handler.pc = "stash" \/ (handler.pc \in BeforePublish /\ ~handler.credentials) =>
           handler.password # OldPassword

\* ... and by the time the label comes off the role has another one.
WithdrawnInv ==
    /\ handler.pc = "unlabel" => OutOfUse(OldPassword)
    /\ object.label = NoLabel =>
           /\ OutOfUse(OldPassword)
           /\ \A n \in SecretNames : secrets[n] # OldPassword
           /\ handler.pc \in BeforePublish \cup {"stash"} => handler.password # OldPassword

ResetInv == Watched => NotBackInv /\ WithdrawnInv

\* What a step meets that is not the request.
Watching ==
    /\ Watched /\ UNCHANGED compromised
    /\ Unlabel \/ object'.label = object.label

LEMMA WatchedBefore ==
    ASSUME TypeInv, [Next]_vars, Watched', ~\E l \in Labels : SetLabel(l)
    PROVE  Watching
<1>0. object \in ObjectType
  BY DEF TypeInv, TypeOK
<1> USE DEF Watching, Watched, OldPassword, ObjectType
<1>1. CASE \/ WaitForServer \/ ReadCredentials \/ UseStoredPassword \/ GeneratePassword
           \/ CreateDatabase \/ RestrictDatabase \/ CreateUser \/ GrantDatabase \/ GrantSchema
           \/ NoCommand \/ UnknownCommand
           \/ ResetWithdraw \/ ResetStash \/ ResetSamePassword \/ UpdatePassword
           \/ RecoverPassword \/ NothingToRecover \/ Publish \/ DropTmp
  BY <1>1, ManagingMoves
<1>2. CASE \/ LookUpServer \/ FindDatabase \/ NoDatabaseToDelete \/ DeleteDatabase \/ DeleteUser
           \/ DeleteCredentials
  BY <1>2, DeletingMoves
<1>3. CASE BeginManage \/ BeginDelete
  BY <1>3, BeginningMoves
<1>4. CASE Unlabel \/ StatusWorking \/ StatusFinished
  BY <1>4, StatusMoves
<1>5. CASE ServerNotReady \/ StashConflict \/ ServerRefuses
  BY <1>5 DEF ServerNotReady, StashConflict, ServerRefuses, Fail, user
<1>6. CASE Return
  BY <1>0, <1>6 DEF Return, Handled, user
<1>7. CASE Release
  BY <1>7 DEF Release, NoObject
<1>8. CASE Abort \/ Restart
  BY <1>0, <1>8 DEF Abort, Restart, Resumed
<1>9. CASE UNCHANGED vars \/ SkipControlLabel
  BY <1>0, <1>9 DEF vars, SkipControlLabel, Handled, user
<1>10. CASE User
  <2>1. CASE \E s \in Specs : CreateObject(s)
    BY <2>1 DEF CreateObject, NoRequest
  <2>2. CASE \E s \in Specs : EditSpec(s)
    BY <1>0, <2>2 DEF EditSpec
  <2>3. CASE DeleteObject \/ \E n \in SecretNames : RemoveCredentials(n)
    BY <1>0, <2>3 DEF DeleteObject, RemoveCredentials
  <2> QED BY <1>10, <2>1, <2>2, <2>3 DEF User
<1>11. CASE \E s \in Servers : ServerStep(s)
  BY <1>11 DEF ServerStep, CreateServer, PublishAdmin, WithdrawAdmin, ChangeAdmin, DropServer,
               ForgetServer
<1> QED
  BY <1>1, <1>2, <1>3, <1>4, <1>5, <1>6, <1>7, <1>8, <1>9, <1>10, <1>11
     DEF Next, Operator, Manage, Delete

\* The request itself.
LEMMA ResetAsked ==
    ASSUME OneSecret, TypeInv, CredInv, LabelInv, NEW l \in Labels, SetLabel(l)
    PROVE  ResetInv'
<1> SUFFICES ASSUME Watched' PROVE NotBackInv' /\ WithdrawnInv'
  BY DEF ResetInv
<1>1. /\ l = ResetPassword
      /\ OldPassword' = secrets[object.spec.secret] /\ OldPassword' # 0 /\ tmp_secret # OldPassword'
      /\ object.label = NoLabel /\ handler.label = NoLabel
  BY DEF SetLabel, Watched, OldPassword, NoRequest, NoLabelAtWork
<1>2. object'.label = ResetPassword /\ UNCHANGED <<handler, tmp_secret>>
  BY <1>1 DEF SetLabel, TypeInv, TypeOK, ObjectType, kubernetes
<1>3. object.spec.secret \in SecretNames
  BY DatabaseAssumption DEF SetLabel, TypeInv
<1>4. handler.pc \in BeforePublish => handler.credentials
  BY <1>1, <1>3 DEF CredInv
<1>5. handler.pc \notin {"stash", "unlabel"}
  BY <1>1 DEF LabelInv, NoLabel, ResetPassword
<1>6. ResetPassword # NoLabel
  BY DEF ResetPassword, NoLabel
<1> QED
  BY <1>1, <1>2, <1>4, <1>5, <1>6 DEF NotBackInv, WithdrawnInv

\* Steps that leave the passwords at hand where they are.
LEMMA PasswordMoves ==
    ASSUME TypeInv,
           \/ WaitForServer \/ StatusWorking \/ CreateDatabase \/ RestrictDatabase \/ CreateUser
           \/ GrantDatabase \/ GrantSchema
           \/ NoCommand \/ UnknownCommand \/ ResetSamePassword \/ UpdatePassword \/ Unlabel
           \/ RecoverPassword \/ NothingToRecover \/ Publish \/ DropTmp \/ StatusFinished
    PROVE  /\ handler'.password = handler.password /\ handler'.label = handler.label
           /\ handler'.credentials = handler.credentials
           /\ handler'.pc \in BeforePublish => handler.pc \in BeforePublish
           /\ handler'.pc # "stash" /\ handler.pc # "idle"
           /\ tmp_secret' \in {0, tmp_secret}
<1>0. handler \in HandlerType
  BY DEF TypeInv, TypeOK
<1> USE DEF HandlerType, BeforePublish, At, kubernetes
<1>1. CASE WaitForServer \/ CreateUser
  BY <1>0, <1>1 DEF WaitForServer, CreateUser
<1>2. CASE CreateDatabase \/ RestrictDatabase \/ GrantDatabase \/ GrantSchema
  BY <1>0, <1>2 DEF CreateDatabase, RestrictDatabase, GrantDatabase, GrantSchema, Grant, Goto
<1>3. CASE NoCommand \/ UnknownCommand \/ ResetSamePassword \/ NothingToRecover
  BY <1>0, <1>3 DEF NoCommand, UnknownCommand, ResetSamePassword, NothingToRecover, Goto
<1>4. CASE UpdatePassword \/ RecoverPassword
  BY <1>0, <1>4 DEF UpdatePassword, RecoverPassword, AlterUser, Goto
<1>5. CASE Publish \/ DropTmp
  BY <1>0, <1>5 DEF Publish, DropTmp, Goto
<1>6. CASE StatusWorking \/ Unlabel \/ StatusFinished
  BY <1>0, <1>6 DEF StatusWorking, Unlabel, StatusFinished, Goto
<1> QED
  BY <1>1, <1>2, <1>3, <1>4, <1>5, <1>6

LEMMA NotBackStep ==
    ASSUME NothingSwallowed, TypeInv, FreshInv, Watching, NotBackInv, [Next]_vars,
           ~\E l \in Labels : SetLabel(l)
    PROVE  NotBackInv'
<1>0. /\ handler \in HandlerType /\ tmp_secret \in Nat /\ generated \in Nat /\ handler.password \in Nat
      /\ compromised.password \in Nat
      /\ object'.label \in {NoLabel, ResetPassword}
  BY DEF TypeInv, TypeOK, Unlabel, ObjectType, HandlerType, NotBackInv, Watching
<1> USE <1>0 DEF NotBackInv, Watching, Watched, OldPassword, At
<1>1. CASE \/ WaitForServer \/ StatusWorking \/ CreateDatabase \/ RestrictDatabase \/ CreateUser
           \/ GrantDatabase \/ GrantSchema
           \/ NoCommand \/ UnknownCommand \/ ResetSamePassword \/ UpdatePassword \/ Unlabel
           \/ RecoverPassword \/ NothingToRecover \/ Publish \/ DropTmp \/ StatusFinished
  BY <1>1, PasswordMoves
<1>2. CASE ReadCredentials
  <2>1. /\ handler'.label = handler.label /\ handler'.pc = "password" /\ UNCHANGED tmp_secret
        /\ handler'.credentials \/ handler'.password = 0
    BY <1>2 DEF ReadCredentials, MayFail, NothingSwallowed, kubernetes, HandlerType
  <2> QED BY <2>1
<1>3. CASE UseStoredPassword
  <2>1. /\ handler'.label = handler.label /\ handler'.pc = "working" /\ UNCHANGED tmp_secret
        /\ handler.pc = "password" /\ handler'.credentials = handler.credentials
        /\ handler'.password \in {handler.password, tmp_secret}
    BY <1>3 DEF UseStoredPassword, StoredPassword, kubernetes, HandlerType
  <2> QED BY <2>1 DEF BeforePublish
<1>4. CASE GeneratePassword
  <2>1. /\ handler'.label = handler.label /\ handler'.password = generated + 1
        /\ tmp_secret' = generated + 1
    BY <1>4 DEF GeneratePassword, HandlerType
  <2> QED BY <2>1 DEF FreshInv
<1>5. CASE ResetWithdraw
  <2>1. /\ handler'.label = handler.label /\ handler'.password = generated + 1 /\ UNCHANGED tmp_secret
    BY <1>5 DEF ResetWithdraw, HandlerType
  <2> QED BY <2>1 DEF FreshInv
<1>6. CASE ResetStash
  <2>1. /\ handler'.label = handler.label /\ handler.pc = "stash"
        /\ handler'.password = handler.password /\ tmp_secret' = handler.password
    BY <1>6 DEF ResetStash, HandlerType
  <2> QED BY <2>1
<1>7. CASE \/ LookUpServer \/ FindDatabase \/ NoDatabaseToDelete \/ DeleteDatabase \/ DeleteUser
           \/ DeleteCredentials
  <2>1. UNCHANGED tmp_secret
    BY <1>7 DEF LookUpServer, FindDatabase, NoDatabaseToDelete, DeleteDatabase, DeleteUser,
                DeleteCredentials, kubernetes
  <2> QED BY <1>7, <2>1, DeletingMoves DEF Deleting, BeforePublish
<1>8. CASE BeginManage \/ BeginDelete
  BY <1>8, BeginningMoves DEF BeforePublish
<1>9. CASE \/ ServerNotReady \/ StashConflict \/ Return \/ Release \/ ServerRefuses
            \/ Abort \/ Restart
  <2>1. UNCHANGED tmp_secret
    BY <1>9 DEF ServerNotReady, StashConflict, Return, Release, ServerRefuses, Abort, Restart, Fail,
                kubernetes
  <2> QED BY <1>9, <2>1, EndingActions DEF Idle, BeforePublish
<1>10. CASE UNCHANGED vars \/ SkipControlLabel \/ User \/ \E s \in Servers : ServerStep(s)
  <2>1. UNCHANGED tmp_secret
    BY <1>10 DEF vars, SkipControlLabel, User, CreateObject, EditSpec, RemoveCredentials, DeleteObject,
         ServerStep, CreateServer, PublishAdmin, WithdrawAdmin, ChangeAdmin, DropServer, ForgetServer,
         kubernetes
  <2> QED BY <1>10, <2>1, OthersActions
<1> HIDE DEF NotBackInv, Watching, Watched, OldPassword, At
<1> QED
  BY <1>1, <1>2, <1>3, <1>4, <1>5, <1>6, <1>7, <1>8, <1>9, <1>10 DEF Next, Operator, Manage, Delete

\* Where the passwords of the roles and of the secrets come from.
LEMMA RoleMoves ==
    ASSUME TypeInv, [Next]_vars
    PROVE  /\ \A s \in Servers : \/ role'[s] \in {0, role[s]}
                                 \/ /\ role'[s] = handler.password
                                    /\ handler.pc \in {"create_user", "update_password", "recover"}
           /\ \A n \in SecretNames : \/ secrets'[n] \in {0, secrets[n]}
                                     \/ secrets'[n] = handler.password /\ handler.pc = "publish"
<1>0. role \in [Servers -> Nat] /\ secrets \in [SecretNames -> Nat]
  BY DEF TypeInv, TypeOK
<1> USE DEF At, kubernetes, postgres
<1>1. CASE \/ SkipControlLabel \/ BeginManage \/ WaitForServer \/ ServerNotReady
           \/ ReadCredentials \/ UseStoredPassword \/ GeneratePassword \/ StatusWorking
           \/ CreateDatabase \/ RestrictDatabase \/ GrantDatabase \/ GrantSchema
           \/ NoCommand \/ UnknownCommand \/ ResetStash
           \/ StashConflict \/ ResetSamePassword \/ Unlabel \/ NothingToRecover \/ DropTmp
           \/ StatusFinished \/ Return \/ UNCHANGED vars
  <2>1. UNCHANGED <<role, secrets>>
    BY <1>1 DEF SkipControlLabel, BeginManage, WaitForServer, ServerNotReady,
           ReadCredentials, UseStoredPassword, GeneratePassword, StatusWorking,
           CreateDatabase, RestrictDatabase, GrantDatabase, GrantSchema, Grant,
           NoCommand, UnknownCommand, ResetStash,
           StashConflict, ResetSamePassword, Unlabel, NothingToRecover, DropTmp,
           StatusFinished, Return, Fail, vars
  <2> QED BY <2>1
<1>2. CASE CreateUser \/ UpdatePassword \/ RecoverPassword
  BY <1>0, <1>2 DEF CreateUser, UpdatePassword, RecoverPassword, AlterUser
<1>3. CASE ResetWithdraw \/ DeleteCredentials
  BY <1>0, <1>3 DEF ResetWithdraw, DeleteCredentials, delete_secret
<1>4. CASE Publish
  BY <1>0, <1>4 DEF Publish, create_or_update_secret
<1>5. CASE DeleteUser
  BY <1>0, <1>5 DEF DeleteUser
<1>6. CASE \/ BeginDelete \/ LookUpServer \/ FindDatabase \/ NoDatabaseToDelete \/ DeleteDatabase
           \/ Release \/ ServerRefuses \/ Abort \/ Restart
  <2>1. UNCHANGED <<role, secrets>>
    BY <1>6 DEF BeginDelete, LookUpServer, FindDatabase, NoDatabaseToDelete, DeleteDatabase,
                Release, ServerRefuses, Fail, Abort, Restart
  <2> QED BY <2>1
<1>7. CASE \E s \in Servers : ServerStep(s)
  <2>1. PICK s \in Servers : ServerStep(s)
    BY <1>7
  <2>2. UNCHANGED secrets
    BY <2>1 DEF ServerStep, CreateServer, PublishAdmin, WithdrawAdmin, ChangeAdmin, DropServer,
                ForgetServer
  <2>3. UNCHANGED role \/ role' = [role EXCEPT ![s] = 0]
    BY <2>1 DEF ServerStep, CreateServer, PublishAdmin, WithdrawAdmin, ChangeAdmin, DropServer,
                ForgetServer
  <2> QED BY <1>0, <2>2, <2>3
<1>8. CASE User
  BY <1>0, <1>8 DEF User, CreateObject, EditSpec, SetLabel, RemoveCredentials, DeleteObject
<1> HIDE DEF At, kubernetes, postgres
<1> QED
  BY <1>1, <1>2, <1>3, <1>4, <1>5, <1>6, <1>7, <1>8 DEF Next, Operator, Manage, Delete

\* A handler's password is the published one, the kept one, or new.
LEMMA PasswordOrigin ==
    ASSUME NothingSwallowed, TypeInv, [Next]_vars, handler'.pc \in BeforePublish \cup {"stash"}
    PROVE  \/ /\ handler'.password = handler.password
              /\ handler.pc \in BeforePublish \cup {"stash"}
           \/ \E n \in SecretNames : handler'.password = secrets[n]
           \/ handler'.password \in {tmp_secret, generated + 1}
<1>0. handler \in HandlerType
  BY DEF TypeInv, TypeOK
<1> USE DEF At
<1>1. CASE ReadCredentials
  <2>1. handler.spec.secret \in SecretNames
    BY <1>1, SpecFields DEF ReadCredentials
  <2>2. handler'.password = secrets[handler.spec.secret]
    BY <1>0, <1>1 DEF ReadCredentials, MayFail, NothingSwallowed, HandlerType
  <2> QED BY <2>1, <2>2
<1>2. CASE UseStoredPassword
  BY <1>0, <1>2 DEF UseStoredPassword, StoredPassword, BeforePublish, HandlerType
<1>3. CASE GeneratePassword \/ ResetWithdraw
  BY <1>0, <1>3 DEF GeneratePassword, ResetWithdraw, HandlerType
<1>4. CASE ResetStash
  BY <1>0, <1>4 DEF ResetStash, HandlerType
<1>5. CASE \/ WaitForServer \/ StatusWorking \/ CreateDatabase \/ RestrictDatabase \/ CreateUser
           \/ GrantDatabase \/ GrantSchema
           \/ NoCommand \/ UnknownCommand \/ ResetSamePassword \/ UpdatePassword \/ Unlabel
           \/ RecoverPassword \/ NothingToRecover \/ Publish \/ DropTmp \/ StatusFinished
  BY <1>5, PasswordMoves
<1>6. CASE BeginManage \/ BeginDelete
  BY <1>6, BeginningMoves DEF BeforePublish
<1>7. CASE \/ LookUpServer \/ FindDatabase \/ NoDatabaseToDelete \/ DeleteDatabase \/ DeleteUser
           \/ DeleteCredentials
  BY <1>7, DeletingMoves DEF BeforePublish, Deleting
<1>8. CASE \/ ServerNotReady \/ StashConflict \/ Return \/ Release \/ ServerRefuses
           \/ Abort \/ Restart
  BY <1>8, EndingActions DEF BeforePublish, Idle
<1>9. CASE UNCHANGED vars \/ SkipControlLabel \/ User \/ \E s \in Servers : ServerStep(s)
  BY <1>9, OthersActions
<1> HIDE DEF At
<1> QED
  BY <1>1, <1>2, <1>3, <1>4, <1>5, <1>6, <1>7, <1>8, <1>9 DEF Next, Operator, Manage, Delete

\* The label is about to come off: it was before, or the role has just got its password.
LEMMA UnlabelOrigin ==
    ASSUME TypeInv, Watching, NotBackInv, [Next]_vars, handler'.pc = "unlabel"
    PROVE  handler.pc = "unlabel" \/ UpdatePassword
<1>0. handler \in HandlerType
  BY DEF TypeInv, TypeOK
<1>1. CASE UnknownCommand
  BY <1>1 DEF UnknownCommand, NotBackInv
<1>2. CASE \/ WaitForServer \/ ReadCredentials \/ UseStoredPassword \/ GeneratePassword
           \/ CreateDatabase \/ RestrictDatabase \/ CreateUser \/ GrantDatabase \/ GrantSchema
           \/ ResetWithdraw \/ ResetStash
  BY <1>0, <1>2 DEF WaitForServer, ReadCredentials, UseStoredPassword, GeneratePassword,
           CreateDatabase, RestrictDatabase, CreateUser, GrantDatabase, GrantSchema,
           ResetWithdraw, ResetStash, Goto, HandlerType
<1>3. CASE \/ NoCommand \/ ResetSamePassword \/ RecoverPassword \/ NothingToRecover \/ Publish
           \/ DropTmp
  BY <1>0, <1>3 DEF NoCommand, ResetSamePassword, RecoverPassword, NothingToRecover, Publish,
           DropTmp, AlterUser, Goto, HandlerType
<1>4. CASE Unlabel \/ StatusWorking \/ StatusFinished
  BY <1>4, StatusMoves
<1>5. CASE BeginManage \/ BeginDelete
  BY <1>5, BeginningMoves
<1>6. CASE \/ LookUpServer \/ FindDatabase \/ NoDatabaseToDelete \/ DeleteDatabase \/ DeleteUser
           \/ DeleteCredentials
  BY <1>6, DeletingMoves DEF Deleting
<1>7. CASE \/ ServerNotReady \/ StashConflict \/ Return \/ Release \/ ServerRefuses
           \/ Abort \/ Restart
  BY <1>7, EndingActions DEF Idle
<1>8. CASE UNCHANGED vars \/ SkipControlLabel \/ User \/ \E s \in Servers : ServerStep(s)
  BY <1>8, OthersActions
<1> QED
  BY <1>1, <1>2, <1>3, <1>4, <1>5, <1>6, <1>7, <1>8 DEF Next, Operator, Manage, Delete

LEMMA WithdrawnStep ==
    ASSUME NothingSwallowed, OneServer, TypeInv, CredInv, FreshInv, LabelInv, Watching,
           NotBackInv, WithdrawnInv, [Next]_vars
    PROVE  WithdrawnInv'
<1>0. /\ handler \in HandlerType /\ role \in [Servers -> Nat] /\ generated \in Nat
      /\ OldPassword \in Nat /\ OldPassword # 0 /\ OldPassword <= generated
      /\ OldPassword' = OldPassword /\ tmp_secret # OldPassword
  BY DEF TypeInv, TypeOK, Watching, Watched, OldPassword, FreshInv, NotBackInv
<1>1. ~At("idle") => Srv \in Servers /\ \A s \in Servers : s = Srv
  BY SpecFields DEF OneServer
<1>2. ASSUME handler'.pc = "unlabel" PROVE OutOfUse(OldPassword)'
  <2>1. CASE UpdatePassword
    <3>1. handler.pc = "update_password" /\ role' = [role EXCEPT ![Srv] = handler.password]
      BY <2>1 DEF UpdatePassword, AlterUser, At
    <3>2. handler.password # OldPassword
      BY <3>1 DEF CredInv, NotBackInv, BeforePublish
    <3>3. \A s \in Servers : role'[s] = handler.password
      BY <1>0, <1>1, <3>1 DEF At
    <3> QED BY <1>0, <3>2, <3>3 DEF OutOfUse
  <2>2. CASE handler.pc = "unlabel"
    <3>1. \A s \in Servers : role[s] # OldPassword
      BY <2>2 DEF WithdrawnInv, OutOfUse
    <3> QED BY <1>0, <2>2, <3>1, RoleMoves DEF OutOfUse
  <2> QED BY <1>2, <2>1, <2>2, UnlabelOrigin
<1>3. ASSUME object'.label = NoLabel
      PROVE  /\ \A s \in Servers : role'[s] # OldPassword
             /\ \A n \in SecretNames : secrets'[n] # OldPassword
             /\ handler'.pc \in BeforePublish \cup {"stash"} => handler'.password # OldPassword
  <2>1. CASE Unlabel
    <3>1. handler.pc = "unlabel" /\ handler'.pc = "recover" /\ handler'.password = handler.password
      BY <1>0, <2>1, StatusMoves DEF HandlerType
    <3>2. handler.label = ResetPassword /\ ~handler.credentials
      BY <3>1 DEF LabelInv, NotBackInv
    <3>3. \A n \in SecretNames : secrets[n] = 0
      BY <3>1, <3>2 DEF CredInv, BeforePublish
    <3>4. handler.password # OldPassword
      BY <3>1, <3>2 DEF NotBackInv, BeforePublish
    <3>5. \A s \in Servers : role[s] # OldPassword
      BY <3>1 DEF WithdrawnInv, OutOfUse
    <3>6. UNCHANGED <<role, secrets>>
      BY <2>1, StatusMoves
    <3> QED BY <1>0, <3>1, <3>3, <3>4, <3>5, <3>6
  <2>2. CASE ~Unlabel
    <3>1. /\ \A s \in Servers : role[s] # OldPassword
          /\ \A n \in SecretNames : secrets[n] # OldPassword
          /\ handler.pc \in BeforePublish \cup {"stash"} => handler.password # OldPassword
      BY <1>3, <2>2 DEF WithdrawnInv, OutOfUse, Watching
    <3>2. \A s \in Servers : role'[s] # OldPassword
      BY <1>0, <3>1, RoleMoves DEF BeforePublish
    <3>3. \A n \in SecretNames : secrets'[n] # OldPassword
      BY <1>0, <3>1, RoleMoves DEF BeforePublish
    <3>4. handler'.pc \in BeforePublish \cup {"stash"} => handler'.password # OldPassword
      BY <1>0, <3>1, PasswordOrigin
    <3> QED BY <3>2, <3>3, <3>4
  <2> QED BY <2>1, <2>2
<1> QED
  BY <1>0, <1>2, <1>3 DEF WithdrawnInv, OutOfUse

LEMMA ResetStep ==
    ASSUME NothingSwallowed, OneSecret, OneServer, TypeInv, CredInv, FreshInv, LabelInv, ResetInv,
           [Next]_vars
    PROVE  ResetInv'
<1>1. CASE \E l \in Labels : SetLabel(l)
  BY <1>1, ResetAsked
<1>2. CASE ~\E l \in Labels : SetLabel(l)
  <2> SUFFICES ASSUME Watched' PROVE NotBackInv' /\ WithdrawnInv'
    BY DEF ResetInv
  <2>1. Watching
    BY <1>2, WatchedBefore
  <2>2. NotBackInv /\ WithdrawnInv
    BY <2>1 DEF Watching, ResetInv
  <2> QED BY <1>2, <2>1, <2>2, NotBackStep, WithdrawnStep
<1> QED
  BY <1>1, <1>2

\* On one server, with one name for the secret and without swallowed errors, a reset does
\* what it was asked for: once the label is gone the old password opens nothing - through
\* attempts that break off at any call, restarts, rotations of the admin password, losses of
\* the server and further commands.
THEOREM ResetTakesEffect ==
    ASSUME ReliableCalls, OneSecret, OneServer
    PROVE  Spec => []ResetRotates
<1>1. NothingSwallowed
  BY DEF ReliableCalls, NothingSwallowed
<1>2. Init => LabelInv /\ ResetInv
  BY DEF Init, LabelInv, ResetInv, Watched, OldPassword, NoRequest, Idle, NoLabel, ResetPassword
<1>3. ResetInv => ResetRotates
  BY DEF ResetInv, Watched, OldPassword, WithdrawnInv, ResetRotates, ResetDone, Settled
<1>4. TypeInv /\ CredInv /\ [Next]_vars => CredInv'
  BY <1>1, CredStep
<1>5. TypeInv /\ CredInv /\ FreshInv /\ LabelInv /\ ResetInv /\ [Next]_vars => ResetInv'
  BY <1>1, ResetStep
<1> QED
  BY <1>2, <1>3, <1>4, <1>5, TypeInit, TypeStep, CredInit, FreshInit, FreshStep, LabelStep, PTL DEF Spec
-----------------------------------------------------------------------------
(* Finished means usable. *)

AfterCreate == AfterUser \cup {"stash", "update_password"}
AfterGrants == AfterCreate \ {"grant_database", "grant_schema"}

\* A database that is there is closed to others, and its role has the published password and
\* its privileges.
Privileged(s) == {"database", GrantsIn} \subseteq grants[s]
Usable(s) ==
    database[s] # "absent" =>
        /\ database[s] = "restricted" /\ Privileged(s)
        /\ \A n \in SecretNames : secrets[n] # 0 /\ secrets[n] = role[s]

\* What a handler has read stays published; the database is closed before there is a role,
\* and a role, one privilege after the other, is there from then on; what is published, and
\* what is called finished, is usable.
HandlerUsable ==
    /\ handler.pc \in BeforePublish /\ handler.credentials => \A n \in SecretNames : secrets[n] # 0
    /\ handler.pc \in AfterCreate \cup {"create_user"} => \A s \in Servers : database[s] # "open"
    /\ handler.pc \in AfterCreate => \A s \in Servers : database[s] # "absent" => role[s] # 0
    /\ handler.pc = "grant_schema" =>
           \A s \in Servers : database[s] # "absent" => "database" \in grants[s]
    /\ handler.pc \in AfterGrants => \A s \in Servers : database[s] # "absent" => Privileged(s)
    /\ handler.pc \in {"drop", "finish"} => \A s \in Servers : Usable(s)
ObjectUsable ==
    object.exists /\ ~object.deleting /\ object.deployment = "finished" =>
        \A s \in Servers : Usable(s)
UsableInv == Untouched => HandlerUsable /\ ObjectUsable

\* Without swallowed failures so far, the invariant of the published password holds.
NoFaultYet  == budget["fault"] = Budget["fault"]
UnfailedInv == NoFaultYet => CredInv

LEMMA UnfailedStep ==
    ASSUME OneSecret, OneServer, TypeInv, Thrifty, UnfailedInv, [Next]_vars
    PROVE  UnfailedInv'
<1> SUFFICES ASSUME NoFaultYet' PROVE CredInv'
  BY DEF UnfailedInv
<1>1. NoFaultYet /\ ~Spend("fault")
  BY WholeBefore DEF NoFaultYet, Kinds
<1> QED
  BY <1>1, CredStep DEF UnfailedInv, NothingSwallowed

\* Steps that change neither the secrets nor what is in the servers, but for a server that
\* is lost.
LEMMA UsableKept ==
    ASSUME UNCHANGED secrets,
           \A s \in Servers : \/ database'[s] = "absent"
                              \/ /\ database'[s] = database[s]
                                 /\ role'[s] = role[s] /\ grants'[s] = grants[s]
    PROVE  /\ ObjectUsable /\ (object'.exists /\ ~object'.deleting /\ object'.deployment = "finished"
                               => object.exists /\ ~object.deleting /\ object.deployment = "finished")
                  => ObjectUsable'
           /\ HandlerUsable /\ UNCHANGED handler => HandlerUsable'
BY DEF ObjectUsable, HandlerUsable, Usable, Privileged

LEMMA UsableStep ==
    ASSUME OneSecret, OneServer, TypeInv, Thrifty, KopfInv, UnfailedInv, UsableInv,
           [Next]_vars
    PROVE  UsableInv'
<1> SUFFICES ASSUME Untouched' PROVE HandlerUsable' /\ ObjectUsable'
  BY DEF UsableInv
<1>0. /\ handler \in HandlerType /\ object \in ObjectType
      /\ database \in [Servers -> {"absent", "open", "restricted"}] /\ role \in [Servers -> Nat]
      /\ secrets \in [SecretNames -> Nat] /\ handler.password \in Nat
      /\ grants \in [Servers -> SUBSET Privileges]
  BY DEF TypeInv, TypeOK, HandlerType
<1>1. ~At("idle") => /\ Srv \in Servers /\ \A s \in Servers : s = Srv
                     /\ handler.spec.secret \in SecretNames
                     /\ \A n \in SecretNames : n = handler.spec.secret
  BY SpecFields DEF OneSecret, OneServer
<1>2. Untouched /\ ~Spend("fault") /\ ~Spend("remove")
  BY WholeBefore DEF Untouched, Kinds
<1>3. CredInv /\ HandlerUsable /\ ObjectUsable
  BY <1>2 DEF Untouched, UnfailedInv, NoFaultYet, UsableInv
<1>4. ASSUME handler.pc \in Working, UNCHANGED object PROVE ObjectUsable'
  BY <1>4 DEF KopfInv, ObjectUsable
<1> USE DEF At, kubernetes, postgres
<1>5. CASE WaitForServer \/ ReadCredentials \/ UseStoredPassword \/ GeneratePassword
  <2>1. UNCHANGED <<object, secrets, database, role, grants>>
    BY <1>5 DEF WaitForServer, ReadCredentials, UseStoredPassword, GeneratePassword
  <2>2. ObjectUsable'
    BY <1>3, <2>1, UsableKept
  <2>3. handler'.pc \in {"read", "password", "working"}
    BY <1>0, <1>5 DEF WaitForServer, ReadCredentials, UseStoredPassword, GeneratePassword, Goto,
                      HandlerType
  <2>4. handler'.pc \in BeforePublish /\ handler'.credentials => \A n \in SecretNames : secrets[n] # 0
    <3>1. CASE WaitForServer
      BY <1>0, <3>1 DEF WaitForServer, BeforePublish, HandlerType
    <3>2. CASE ReadCredentials
      BY <1>0, <1>1, <1>2, <3>2 DEF ReadCredentials, MayFail, HandlerType
    <3>3. CASE UseStoredPassword \/ GeneratePassword
      BY <1>0, <1>3, <3>3 DEF UseStoredPassword, GeneratePassword, BeforePublish, HandlerType,
                              HandlerUsable
    <3> QED BY <1>5, <3>1, <3>2, <3>3
  <2> QED BY <2>1, <2>2, <2>3, <2>4 DEF HandlerUsable, AfterCreate, AfterGrants, AfterUser
<1>6. CASE CreateDatabase
  <2>1. /\ handler.pc = "create_database" /\ handler'.pc = "restrict" /\ UNCHANGED <<object, secrets>>
        /\ handler'.credentials = handler.credentials
    BY <1>0, <1>6 DEF CreateDatabase, Goto, HandlerType
  <2> QED BY <1>3, <1>4, <2>1
      DEF HandlerUsable, BeforePublish, AfterCreate, AfterGrants, AfterUser, Working
<1>7. CASE RestrictDatabase
  <2>1. /\ handler.pc = "restrict" /\ handler'.pc = "create_user" /\ UNCHANGED <<object, secrets>>
        /\ handler'.credentials = handler.credentials
        /\ database' = [database EXCEPT ![Srv] = "restricted"]
    BY <1>0, <1>7 DEF RestrictDatabase, Goto, HandlerType
  <2>2. \A s \in Servers : database'[s] = "restricted"
    BY <1>0, <1>1, <2>1
  <2> QED BY <1>3, <1>4, <2>1, <2>2
      DEF HandlerUsable, BeforePublish, AfterCreate, AfterGrants, AfterUser, Working
<1>8. CASE CreateUser \/ UpdatePassword \/ RecoverPassword
  <2>1. /\ handler.pc \in {"create_user", "update_password", "recover"}
        /\ handler.pc = "create_user" => handler'.pc = "grant_database"
        /\ handler.pc # "create_user" => handler'.pc \in {"unlabel", "publish"}
        /\ UNCHANGED <<object, secrets, database, grants>>
        /\ handler'.credentials = handler.credentials
        /\ role' = [role EXCEPT ![Srv] = handler.password] \/ (UNCHANGED role /\ role[Srv] # 0)
    BY <1>0, <1>8 DEF CreateUser, UpdatePassword, RecoverPassword, AlterUser, Goto, HandlerType
  <2>2. handler.password # 0
    BY <1>3, <2>1 DEF CredInv, BeforePublish
  <2>3. \A s \in Servers : role'[s] # 0 /\ database'[s] # "open"
    BY <1>0, <1>1, <1>3, <2>1, <2>2 DEF HandlerUsable, AfterCreate, AfterGrants, AfterUser
  <2> QED BY <1>3, <1>4, <2>1, <2>3
      DEF HandlerUsable, Privileged, BeforePublish, AfterCreate, AfterGrants, AfterUser, Working
<1>9. CASE \/ NoCommand \/ UnknownCommand \/ ResetSamePassword \/ NothingToRecover
  <2>1. /\ handler.pc \in {"label", "recover"}
        /\ handler'.pc \in {"recover", "unlabel", "update_password", "publish"}
        /\ UNCHANGED <<object, secrets, database, role, grants>> /\ handler'.credentials = handler.credentials
    BY <1>0, <1>9 DEF NoCommand, UnknownCommand, ResetSamePassword, NothingToRecover, Goto,
                       HandlerType
  <2> QED BY <1>3, <1>4, <2>1
      DEF HandlerUsable, Privileged, BeforePublish, AfterCreate, AfterGrants, AfterUser, Working
<1>10. CASE ResetWithdraw
  <2>1. /\ handler.pc = "label" /\ handler'.pc = "stash" /\ UNCHANGED <<object, database, role, grants>>
    BY <1>0, <1>10 DEF ResetWithdraw, HandlerType
  <2> QED BY <1>3, <1>4, <2>1
      DEF HandlerUsable, Privileged, BeforePublish, AfterCreate, AfterGrants, AfterUser, Working
<1>11. CASE ResetStash
  <2>1. /\ handler.pc = "stash" /\ handler'.pc = "update_password" /\ ~handler'.credentials
        /\ UNCHANGED <<object, secrets, database, role, grants>>
    BY <1>0, <1>11 DEF ResetStash, HandlerType
  <2> QED BY <1>3, <1>4, <2>1
      DEF HandlerUsable, Privileged, BeforePublish, AfterCreate, AfterGrants, AfterUser, Working
<1>12. CASE Publish
  <2>1. /\ handler.pc = "publish" /\ handler'.pc = "drop" /\ UNCHANGED <<object, database, role, grants>>
    BY <1>0, <1>12 DEF Publish, Goto, HandlerType
  <2>2. /\ handler.password # 0
        /\ \A s \in Servers : database[s] # "open" /\ (database[s] # "absent" => role[s] # 0)
    BY <1>3, <2>1 DEF CredInv, HandlerUsable, BeforePublish, AfterCreate, AfterGrants, AfterUser
  <2>5. \A s \in Servers : database'[s] # "absent" => Privileged(s)'
    BY <1>3, <2>1 DEF HandlerUsable, Privileged, AfterCreate, AfterGrants, AfterUser
  <2>3. CASE handler.credentials /\ ~handler.newly
    <3>1. UNCHANGED secrets /\ \A n \in SecretNames : secrets[n] # 0
      BY <1>3, <1>12, <2>1, <2>3 DEF Publish, HandlerUsable, BeforePublish
    <3>2. \A n \in SecretNames, s \in Servers : role[s] \in {0, secrets[n]}
      BY <1>3, <3>1 DEF CredInv, PublishedIsLive
    <3>3. ASSUME NEW s \in Servers, database'[s] # "absent"
          PROVE  database'[s] = "restricted" /\ \A n \in SecretNames : secrets'[n] # 0 /\ secrets'[n] = role'[s]
      <4>1. database'[s] = database[s] /\ role'[s] = role[s] /\ role[s] # 0
        BY <2>1, <2>2, <3>3
      <4>2. database[s] = "restricted"
        BY <1>0, <2>2, <3>3, <4>1
      <4>3. ASSUME NEW n \in SecretNames PROVE secrets'[n] # 0 /\ secrets'[n] = role'[s]
        BY <2>2, <3>1, <3>2, <4>1
      <4> QED BY <4>1, <4>2, <4>3
    <3>4. \A s \in Servers : Usable(s)'
      BY <2>5, <3>3 DEF Usable
    <3> QED BY <1>4, <2>1, <3>4
        DEF HandlerUsable, BeforePublish, AfterCreate, AfterGrants, AfterUser, Working
  <2>4. CASE ~(handler.credentials /\ ~handler.newly)
    <3>1. \A n \in SecretNames : secrets'[n] = handler.password
      BY <1>0, <1>1, <1>12, <2>1, <2>4 DEF Publish, create_or_update_secret
    <3>2. \A s \in Servers : role[s] \in {0, handler.password}
      BY <1>3, <2>1, <2>4 DEF CredInv, RoleFollows, AfterUser
    <3>3. ASSUME NEW s \in Servers, database'[s] # "absent"
          PROVE  database'[s] = "restricted" /\ \A n \in SecretNames : secrets'[n] # 0 /\ secrets'[n] = role'[s]
      <4>1. database'[s] = database[s] /\ role'[s] = role[s] /\ role[s] # 0
        BY <2>1, <2>2, <3>3
      <4>2. database[s] = "restricted"
        BY <1>0, <2>2, <3>3, <4>1
      <4>3. ASSUME NEW n \in SecretNames PROVE secrets'[n] # 0 /\ secrets'[n] = role'[s]
        BY <2>2, <3>1, <3>2, <4>1
      <4> QED BY <4>1, <4>2, <4>3
    <3>4. \A s \in Servers : Usable(s)'
      BY <2>5, <3>3 DEF Usable
    <3> QED BY <1>4, <2>1, <3>4
        DEF HandlerUsable, BeforePublish, AfterCreate, AfterGrants, AfterUser, Working
  <2> QED BY <2>3, <2>4
<1>13. CASE DropTmp
  <2>1. /\ handler.pc = "drop" /\ handler'.pc = "finish"
        /\ UNCHANGED <<object, secrets, database, role, grants>>
    BY <1>0, <1>13 DEF DropTmp, Goto, HandlerType
  <2> QED BY <1>3, <1>4, <2>1
      DEF HandlerUsable, Privileged, Usable, BeforePublish, AfterCreate, AfterGrants, AfterUser, Working
<1>14. CASE Unlabel \/ StatusWorking
  <2>1. /\ handler.pc \in {"unlabel", "working"} /\ handler'.pc \in {"recover", "create_database"}
        /\ handler'.pc = "recover" => handler.pc = "unlabel"
        /\ handler'.credentials = handler.credentials /\ UNCHANGED <<secrets, database, role, grants>>
        /\ object'.deployment = "working"
    BY <1>0, <1>14, StatusMoves DEF HandlerType, KopfInv, Working
  <2> QED BY <1>3, <2>1
      DEF HandlerUsable, Privileged, ObjectUsable, BeforePublish, AfterCreate, AfterGrants, AfterUser
<1>15. CASE StatusFinished
  <2>1. handler.pc = "finish" /\ handler'.pc = "return" /\ UNCHANGED <<secrets, database, role, grants>>
    BY <1>0, <1>15, StatusMoves DEF HandlerType
  <2> QED BY <1>3, <2>1
      DEF HandlerUsable, Privileged, ObjectUsable, Usable, BeforePublish, AfterCreate, AfterGrants, AfterUser
<1>16. CASE BeginManage \/ BeginDelete
  <2>1. UNCHANGED <<secrets, database, role, grants>> /\ handler'.pc \in {"wait", "lookup"}
    BY <1>16, BeginningMoves
  <2>2. ObjectUsable'
    BY <1>3, <1>16, <2>1, BeginningMoves, UsableKept
  <2> QED BY <2>1, <2>2 DEF HandlerUsable, BeforePublish, AfterCreate, AfterGrants, AfterUser
<1>17. CASE \/ LookUpServer \/ FindDatabase \/ NoDatabaseToDelete \/ DeleteDatabase \/ DeleteUser
            \/ DeleteCredentials
  <2>1. handler'.pc \in Deleting /\ object.deleting /\ UNCHANGED object
    BY <1>17, DeletingMoves DEF KopfInv
  <2> QED BY <2>1
      DEF HandlerUsable, ObjectUsable, BeforePublish, AfterCreate, AfterGrants, AfterUser, Deleting
<1>18. CASE \/ ServerNotReady \/ StashConflict \/ Return \/ Release \/ ServerRefuses
            \/ Abort \/ Restart
  <2>1. UNCHANGED <<secrets, database, role, grants>>
    BY <1>18 DEF ServerNotReady, StashConflict, Return, Release, ServerRefuses, Abort, Restart, Fail
  <2>2. object'.exists /\ ~object'.deleting /\ object'.deployment = "finished"
            => object.exists /\ ~object.deleting /\ object.deployment = "finished"
    <3>1. CASE ServerNotReady \/ StashConflict \/ ServerRefuses \/ Abort
      BY <3>1 DEF ServerNotReady, StashConflict, ServerRefuses, Abort, Fail
    <3>2. CASE Return
      BY <1>0, <3>2 DEF Return, Handled, ObjectType
    <3>3. CASE Release
      BY <3>3 DEF Release, NoObject
    <3>4. CASE Restart
      BY <1>0, <3>4 DEF Restart, Resumed, ObjectType
    <3> QED BY <1>18, <3>1, <3>2, <3>3, <3>4
  <2>3. ObjectUsable'
    BY <1>3, <2>1, <2>2, UsableKept
  <2>4. handler'.pc = "idle"
    BY <1>18, EndingActions DEF Idle
  <2> QED BY <2>3, <2>4 DEF HandlerUsable, BeforePublish, AfterCreate, AfterGrants, AfterUser
<1>19. CASE \E s \in Servers : ServerStep(s)
  <2>1. PICK s \in Servers : ServerStep(s)
    BY <1>19
  <2>2. UNCHANGED <<secrets, handler, object>>
    BY <2>1 DEF ServerStep, CreateServer, PublishAdmin, WithdrawAdmin, ChangeAdmin, DropServer,
                ForgetServer
  <2>3. \/ UNCHANGED <<database, role, grants>>
        \/ /\ database' = [database EXCEPT ![s] = "absent"]
           /\ role' = [role EXCEPT ![s] = 0]
           /\ grants' = [grants EXCEPT ![s] = {}]
    <3>1. CASE DropServer(s)
      BY <3>1 DEF DropServer
    <3>2. CASE ~DropServer(s)
      BY <2>1, <3>2 DEF ServerStep, CreateServer, PublishAdmin, WithdrawAdmin, ChangeAdmin,
                        ForgetServer
    <3> QED BY <3>1, <3>2
  <2> QED BY <1>0, <1>3, <2>2, <2>3, UsableKept
<1>20. CASE UNCHANGED vars \/ SkipControlLabel \/ User
  <2>1. UNCHANGED <<secrets, database, role, grants>>
    BY <1>2, <1>20 DEF vars, SkipControlLabel, User, CreateObject, EditSpec, SetLabel,
                       RemoveCredentials, DeleteObject
  <2>2. UNCHANGED handler
    BY <1>20, OthersActions
  <2>3. object'.exists /\ ~object'.deleting /\ object'.deployment = "finished"
            => object.exists /\ ~object.deleting /\ object.deployment = "finished"
    <3>1. CASE UNCHANGED vars \/ SkipControlLabel
      BY <1>0, <3>1 DEF vars, SkipControlLabel, Handled, ObjectType
    <3>2. CASE \E s \in Specs : CreateObject(s)
      BY <3>2 DEF CreateObject, NoObject, Unset
    <3>3. CASE (\E s \in Specs : EditSpec(s)) \/ (\E l \in Labels : SetLabel(l))
      BY <1>0, <3>3 DEF EditSpec, SetLabel, ObjectType
    <3>4. CASE DeleteObject \/ \E n \in SecretNames : RemoveCredentials(n)
      BY <1>0, <3>4 DEF DeleteObject, RemoveCredentials, ObjectType
    <3> QED BY <1>20, <3>1, <3>2, <3>3, <3>4 DEF User
  <2> QED BY <1>3, <2>1, <2>2, <2>3, UsableKept
<1>21. CASE GrantDatabase
  <2>1. /\ handler.pc = "grant_database" /\ handler'.pc = "grant_schema"
        /\ UNCHANGED <<object, secrets, database, role>>
        /\ handler'.credentials = handler.credentials
        /\ grants' = [grants EXCEPT ![Srv] = @ \cup {"database"}]
    BY <1>0, <1>21 DEF GrantDatabase, Grant, Goto, HandlerType
  <2>2. \A s \in Servers : "database" \in grants'[s]
    BY <1>0, <1>1, <2>1
  <2> QED BY <1>3, <1>4, <2>1, <2>2
      DEF HandlerUsable, BeforePublish, AfterCreate, AfterGrants, AfterUser, Working
<1>22. CASE GrantSchema
  <2>1. /\ handler.pc = "grant_schema" /\ handler'.pc = "label"
        /\ UNCHANGED <<object, secrets, database, role>>
        /\ handler'.credentials = handler.credentials
        /\ grants' = [grants EXCEPT ![Srv] = @ \cup {GrantsIn}]
    BY <1>0, <1>22 DEF GrantSchema, Grant, Goto, HandlerType
  <2>2. \A s \in Servers : GrantsIn \in grants'[s] /\ grants[s] \subseteq grants'[s]
    BY <1>0, <1>1, <2>1
  <2>3. \A s \in Servers : database'[s] # "absent" => Privileged(s)'
    BY <1>3, <2>1, <2>2 DEF HandlerUsable, Privileged
  <2> QED BY <1>3, <1>4, <2>1, <2>3
      DEF HandlerUsable, BeforePublish, AfterCreate, AfterGrants, AfterUser, Working
<1> HIDE DEF At, kubernetes, postgres
<1> QED
  BY <1>5, <1>6, <1>7, <1>8, <1>9, <1>10, <1>11, <1>12, <1>13, <1>14, <1>15, <1>16, <1>17,
     <1>18, <1>19, <1>20, <1>21, <1>22 DEF Next, Operator, Manage, Delete

LEMMA UsableInit == Init => Thrifty /\ UnfailedInv /\ UsableInv
<1> SUFFICES ASSUME Init PROVE Thrifty /\ UsableInv
  BY CredInit DEF UnfailedInv
<1>1. \A k \in Kinds : budget[k] \in Nat /\ budget[k] = Budget[k]
  BY DatabaseAssumption DEF Init
<1>2. Thrifty
  BY <1>1 DEF Thrifty
<1> QED
  BY <1>2 DEF Init, UsableInv, HandlerUsable, ObjectUsable, NoObject, Idle, BeforePublish,
              AfterCreate, AfterGrants, AfterUser

LEMMA UsableEnough == TypeInv /\ UsableInv => FinishedIsUsable
<1>1. object.exists /\ TypeInv => object.spec.server \in Servers /\ object.spec.secret \in SecretNames
  BY DatabaseAssumption DEF TypeInv
<1> QED
  BY <1>1 DEF UsableInv, ObjectUsable, Usable, Privileged, FinishedIsUsable, Settled

\* On one server and with one name for the secret, as long as no user removes the secret and
\* no failure is swallowed: what the operator calls finished is a database that is closed to
\* everybody else and whose role has its privileges and the published password, unless the
\* server it was in is gone - also after resets, for an object whose password is being reset
\* is not finished.
THEOREM UsableWhenFinished ==
    ASSUME OneSecret, OneServer
    PROVE  Spec => []FinishedIsUsable
<1>1. TypeInv /\ Thrifty /\ UnfailedInv /\ [Next]_vars => Thrifty' /\ UnfailedInv'
  BY ThriftStep, UnfailedStep
<1>2. TypeInv /\ Thrifty /\ KopfInv /\ UnfailedInv /\ UsableInv /\ [Next]_vars => UsableInv'
  BY UsableStep
<1> QED
  BY <1>1, <1>2, UsableInit, UsableEnough, TypeInit, TypeStep, KopfInit, KopfStep, PTL DEF Spec
-----------------------------------------------------------------------------
(* Together with the handlers of its server (ServerAndDatabase) *)

\* What the handlers of the database see of a server, and what it depends on.
ServerInv ==
    /\ s_object \in S!ObjectType /\ s_handler \in S!HandlerType /\ default_backend \in Defaults
    /\ s_secrets \in [SSecretNames -> Nat] /\ s_tmp_secret \in Nat /\ s_generated \in Nat
    /\ live \in [Backends -> Nat]
    /\ s_object.exists => s_object.spec \in SSpecs
    /\ ~S!At("idle") => s_object.exists /\ s_handler.spec \in SSpecs

LEMMA ServerConstants ==
    /\ S!NoObject \in S!ObjectType /\ ~S!NoObject.exists
    /\ S!Idle \in S!HandlerType /\ S!Idle.pc = "idle"
<1>1. S!NoSpec \in S!SpecType /\ S!NoLabel \in S!LabelType
  BY DEF S!SpecType, S!LabelType
<1> QED
  BY <1>1 DEF S!NoObject, S!ObjectType, S!Idle, S!HandlerType

\* The backend an attempt goes to is one the user may name.
LEMMA ServerBackend ==
    ASSUME ServerInv, s_object.exists
    PROVE  S!backend_name(s_object) \in BackendNames
<1>1. {s_object.spec.backend, s_object.backend} \subseteq BackendNames \cup {S!Unset}
  BY CompositionAssumption DEF ServerInv, S!ObjectType, S!Unset, Unset
<1>2. default_backend \in BackendNames
  BY CompositionAssumption DEF ServerInv
<1> QED
  BY <1>1, <1>2 DEF S!backend_name

LEMMA ServerHandled ==
    ASSUME NEW o \in S!ObjectType, NEW e \in [spec : S!SpecType, label : S!LabelType]
    PROVE  /\ S!Handled(o, e) \in S!ObjectType
           /\ S!Handled(o, e).exists = o.exists /\ S!Handled(o, e).spec = o.spec
BY DEF S!Handled, S!ObjectType

\* The steps of the server's handlers that move on to another place.
LEMMA ServerMoves ==
    ASSUME ServerInv,
           \/ S!ReadCredentials \/ S!UseStoredPassword \/ S!GeneratePassword \/ S!NoCommand
           \/ S!ResetWithdraw \/ S!ResetStash \/ S!SkipCommand \/ S!ApplyServer \/ S!Publish
           \/ S!DropTmp \/ S!DeleteServer \/ S!NoServerToDelete \/ S!DeleteCredentials
    PROVE  ServerInv'
<1> USE DEF ServerInv, S!At, S!Step, S!Quiet, S!Goto, S!world, S!user
<1>1. ~S!At("idle") /\ s_handler.spec.secret \in SSecretNames
  BY CompositionAssumption
     DEF S!ReadCredentials, S!UseStoredPassword, S!GeneratePassword, S!NoCommand, S!ResetWithdraw,
         S!ResetStash, S!SkipCommand, S!ApplyServer, S!Publish, S!DropTmp, S!DeleteServer,
         S!NoServerToDelete, S!DeleteCredentials
<1>2. CASE S!ReadCredentials
  <2>1. s_secrets[s_handler.spec.secret] \in Nat
    BY <1>1
  <2>2. s_handler' \in S!HandlerType /\ s_handler'.spec = s_handler.spec
    BY <1>2, <2>1 DEF S!ReadCredentials, S!HandlerType
  <2> QED BY <1>1, <1>2, <2>2 DEF S!ReadCredentials
<1>3. CASE S!UseStoredPassword \/ S!GeneratePassword
  <2>1. s_generated' \in Nat /\ s_tmp_secret' \in Nat
    BY <1>3 DEF S!UseStoredPassword, S!GeneratePassword
  <2>2. s_handler' \in S!HandlerType /\ s_handler'.spec = s_handler.spec
    BY <1>3, <2>1 DEF S!UseStoredPassword, S!GeneratePassword, S!StoredPassword, S!HandlerType
  <2> QED BY <1>1, <1>3, <2>1, <2>2 DEF S!UseStoredPassword, S!GeneratePassword
<1>4. CASE S!ResetWithdraw
  <2>1. s_generated' \in Nat /\ s_secrets' \in [SSecretNames -> Nat]
    BY <1>4 DEF S!ResetWithdraw, S!delete_secret
  <2>2. s_handler' \in S!HandlerType /\ s_handler'.spec = s_handler.spec
    BY <1>4, <2>1 DEF S!ResetWithdraw, S!HandlerType
  <2> QED BY <1>1, <1>4, <2>1, <2>2 DEF S!ResetWithdraw
<1>5. CASE S!NoCommand \/ S!ResetStash \/ S!SkipCommand \/ S!DropTmp \/ S!NoServerToDelete
  <2>1. s_handler' \in S!HandlerType /\ s_handler'.spec = s_handler.spec
    BY <1>5 DEF S!NoCommand, S!ResetStash, S!SkipCommand, S!DropTmp, S!NoServerToDelete, S!HandlerType
  <2>2. s_tmp_secret' \in Nat
    BY <1>5 DEF S!NoCommand, S!ResetStash, S!SkipCommand, S!DropTmp, S!NoServerToDelete, S!HandlerType
  <2> QED BY <2>2, <1>1, <1>5, <2>1 DEF S!NoCommand, S!ResetStash, S!SkipCommand, S!DropTmp, S!NoServerToDelete
<1>6. CASE S!ApplyServer \/ S!DeleteServer
  <2>1. s_handler' \in S!HandlerType /\ s_handler'.spec = s_handler.spec
    BY <1>6 DEF S!ApplyServer, S!DeleteServer, S!HandlerType
  <2>2. live' \in [Backends -> Nat]
    BY <1>6 DEF S!ApplyServer, S!DeleteServer, S!HandlerType
  <2> QED BY <1>1, <1>6, <2>1, <2>2 DEF S!ApplyServer, S!DeleteServer
<1>7. CASE S!Publish \/ S!DeleteCredentials
  <2>1. s_handler' \in S!HandlerType /\ s_handler'.spec = s_handler.spec
    BY <1>7 DEF S!Publish, S!DeleteCredentials, S!HandlerType
  <2>2. s_secrets' \in [SSecretNames -> Nat]
    BY <1>7 DEF S!Publish, S!DeleteCredentials, S!create_or_update_secret, S!delete_secret, S!HandlerType
  <2> QED BY <1>1, <1>7, <2>1, <2>2 DEF S!Publish, S!DeleteCredentials
<1> QED
  BY <1>2, <1>3, <1>4, <1>5, <1>6, <1>7

\* Those that begin or end an attempt, or change the object, and the users.
LEMMA ServerEnds ==
    ASSUME ServerInv,
           \/ S!SkipControlLabel \/ S!RejectSpec \/ S!BeginHandling \/ S!Unlabel
           \/ S!StatusWorking \/ S!StatusFinished \/ S!Return \/ S!BeginDelete \/ S!Release
           \/ S!User
    PROVE  ServerInv'
<1> USE DEF ServerInv, S!At, S!Step, S!Quiet, S!Goto, S!world, S!user
<1>1. CASE S!SkipControlLabel \/ S!RejectSpec \/ S!Return
  <2>1. /\ S!Essence(s_object) \in [spec : S!SpecType, label : S!LabelType]
        /\ S!Essence(s_handler) \in [spec : S!SpecType, label : S!LabelType]
    BY DEF S!Essence, S!ObjectType, S!HandlerType
  <2>2. PICK e \in {S!Essence(s_object), S!Essence(s_handler)} :
            \/ s_object' = S!Handled(s_object, e)
            \/ s_object' = [S!Handled(s_object, e) EXCEPT !.deployment = "failed"]
    BY <1>1 DEF S!SkipControlLabel, S!RejectSpec, S!Return
  <2>3. /\ s_object' \in S!ObjectType
        /\ s_object'.exists = s_object.exists /\ s_object'.spec = s_object.spec
    BY <2>1, <2>2, ServerHandled DEF S!ObjectType
  <2>4. s_handler' \in {s_handler, S!Idle}
    BY <1>1 DEF S!SkipControlLabel, S!RejectSpec, S!Return
  <2>5. UNCHANGED <<s_secrets, s_tmp_secret, s_generated, live, default_backend>>
    BY <1>1 DEF S!SkipControlLabel, S!RejectSpec, S!Return
  <2> QED BY <2>3, <2>4, <2>5, ServerConstants
<1>2. CASE S!BeginHandling \/ S!BeginDelete
  <2>1. s_object.exists
    BY <1>2 DEF S!BeginHandling, S!BeginDelete, S!NeedsHandling
  <2>2. s_handler' \in S!HandlerType /\ s_handler'.spec = s_object.spec
    BY <1>2, <2>1, ServerBackend, ServerConstants
       DEF S!BeginHandling, S!BeginDelete, S!Begin, S!HandlerType, S!ObjectType
  <2>3. /\ s_object' \in S!ObjectType
        /\ s_object'.spec = s_object.spec /\ s_object'.exists = s_object.exists
    BY <1>2 DEF S!BeginHandling, S!BeginDelete, S!ObjectType
  <2> QED BY <1>2, <2>1, <2>2, <2>3 DEF S!BeginHandling, S!BeginDelete
<1>3. CASE S!Unlabel \/ S!StatusWorking \/ S!StatusFinished
  <2>1. s_handler' \in S!HandlerType /\ s_handler'.spec = s_handler.spec /\ ~S!At("idle")
    BY <1>3 DEF S!Unlabel, S!StatusWorking, S!StatusFinished, S!HandlerType
  <2>2. /\ s_object' \in S!ObjectType
        /\ s_object'.spec = s_object.spec /\ s_object'.exists = s_object.exists
    BY <1>3 DEF S!Unlabel, S!StatusWorking, S!StatusFinished, S!ObjectType, S!HandlerType, S!LabelType
  <2> QED BY <1>3, <2>1, <2>2 DEF S!Unlabel, S!StatusWorking, S!StatusFinished
<1>4. CASE S!Release
  BY <1>4, ServerConstants DEF S!Release
<1>5. ASSUME NEW s \in SSpecs, S!CreateObject(s) \/ S!EditSpec(s) PROVE ServerInv'
  <2>1. s \in S!SpecType
    BY CompositionAssumption DEF S!SpecType, S!Unset, Unset
  <2>2. s_object' \in S!ObjectType /\ s_object'.exists /\ s_object'.spec = s
    BY <1>5, <2>1, ServerConstants DEF S!CreateObject, S!EditSpec, S!NoObject, S!ObjectType
  <2> QED BY <1>5, <2>2 DEF S!CreateObject, S!EditSpec
<1>6. CASE (\E l \in SLabels : S!SetLabel(l)) \/ S!DeleteObject
  <2>1. /\ s_object' \in S!ObjectType
        /\ s_object'.spec = s_object.spec /\ s_object'.exists = s_object.exists
    BY <1>6 DEF S!SetLabel, S!DeleteObject, S!ObjectType, S!LabelType
  <2> QED BY <1>6, <2>1 DEF S!SetLabel, S!DeleteObject
<1>7. CASE \E n \in SSecretNames : S!RemoveCredentials(n)
  BY <1>7 DEF S!RemoveCredentials
<1> QED
  BY <1>1, <1>2, <1>3, <1>4, <1>5, <1>6, <1>7 DEF S!User

LEMMA ServerInit == BothInit => ServerInv
<1> SUFFICES ASSUME BothInit PROVE ServerInv
  OBVIOUS
<1>1. /\ s_object = S!NoObject /\ s_handler = S!Idle /\ default_backend \in Defaults
      /\ s_secrets = [n \in SSecretNames |-> 0] /\ s_tmp_secret = 0 /\ s_generated = 0
      /\ live = [b \in Backends |-> 0]
  BY DEF BothInit, S!Init
<1> QED
  BY <1>1, ServerConstants DEF ServerInv, S!At

LEMMA ServerView == ServerInv => View \in [Servers -> ServerType]
<1>1. TheBackend \in Backends
  BY CompositionAssumption DEF TheBackend
<1> QED
  BY <1>1, CompositionAssumption DEF ServerInv, View, ServerType, S!ObjectType

\* Every step is one of the database's own, which the environment of PostgresqlDatabase does
\* not notice, or one of the server, which the database follows.
LEMMA BothCases ==
    ASSUME [BothNext]_all
    PROVE  \/ [Next]_vars /\ UNCHANGED s_vars
           \/ (S!Operator \/ S!User) /\ FollowServer
BY DEF BothNext, ServerHandlers, ServerUsers, DatabaseHandlers, DatabaseUsers, Next, all, vars

LEMMA ServerStays ==
    ASSUME ServerInv, [BothNext]_all
    PROVE  ServerInv'
<1>1. CASE UNCHANGED s_vars
  BY <1>1 DEF s_vars, ServerInv, S!At
<1>2. CASE S!Operator \/ S!User
  BY <1>2, ServerMoves, ServerEnds DEF S!Operator
<1> QED
  BY <1>1, <1>2, BothCases

\* What a step of the server is for the database: it is still there, or lost.
LEMMA Followed ==
    ASSUME TypeInv, FollowServer
    PROVE  /\ UNCHANGED <<object, secrets, tmp_secret, handler, generated, budget, compromised>>
           /\ \A s \in Servers :
                 \/ /\ server'[s].up /\ database'[s] = database[s]
                    /\ role'[s] = role[s] /\ grants'[s] = grants[s]
                 \/ ~server'[s].up /\ database'[s] = "absent" /\ role'[s] = 0
           /\ PostgresType'
BY TypeParts DEF TypeInv, FollowServer, WhileUp, kubernetes, PostgresType

LEMMA TypeFollows ==
    ASSUME TypeInv, ServerInv', FollowServer
    PROVE  TypeInv'
<1>1. View' \in [Servers -> ServerType]
  <2>1. (ServerInv => View \in [Servers -> ServerType])'
    BY ServerView, PTL
  <2> QED BY <2>1 DEF ServerType
<1>2. RestType' /\ KubernetesType'
  BY <1>1, TypeParts, Followed DEF TypeInv, RestType, KubernetesType, FollowServer
<1>3. object' = object /\ handler' = handler /\ PostgresType'
  BY Followed
<1>4. TypeOK'
  BY <1>2, <1>3, TypePartsNext, TypeParts DEF TypeInv
<1> QED
  BY <1>3, <1>4 DEF TypeInv, At

LEMMA CredFollows ==
    ASSUME TypeInv, CredInv, FollowServer
    PROVE  CredInv'
<1>1. UNCHANGED <<secrets, handler>> /\ \A s \in Servers : role'[s] \in {0, role[s]}
  BY Followed
<1> QED
  BY <1>1 DEF CredInv, PublishedIsLive, RoleFollows

LEMMA UsableFollows ==
    ASSUME TypeInv, UsableInv, FollowServer
    PROVE  UsableInv'
<1>1. /\ UNCHANGED <<object, secrets, handler, budget>>
      /\ \A s \in Servers : \/ database'[s] = "absent"
                            \/ /\ database'[s] = database[s]
                               /\ role'[s] = role[s] /\ grants'[s] = grants[s]
  BY Followed
<1>2. Untouched' => Untouched
  BY <1>1 DEF Untouched
<1> QED
  BY <1>1, <1>2, UsableKept DEF UsableInv

LEMMA LeftFollows ==
    ASSUME TypeInv, LeftInv, FollowServer
    PROVE  LeftInv'
BY Followed, KeepsStep DEF Keeps

LEMMA OnlyServer == OneServer
BY CompositionAssumption DEF OneServer

BothInv == TypeInv /\ ServerInv

LEMMA BothInvStep == BothInv /\ [BothNext]_all => BothInv'
BY BothCases, ServerStays, TypeStep, TypeFollows DEF BothInv

LEMMA BothInvInit == BothInit => BothInv
BY TypeInit, ServerInit DEF BothInit, BothInv

\* With the handlers of the server in place of an environment: what the operator calls
\* finished is a usable database, closed to everybody else, although its server is created,
\* rejected, edited, reset or deleted between any two calls of the database's handler.
THEOREM UsableWithItsServer ==
    ASSUME OneSecret
    PROVE  BothSpec => []DatabaseIsUsable
<1>1. BothInit => Thrifty /\ KopfInv /\ UnfailedInv /\ UsableInv
  BY UsableInit, KopfInit DEF BothInit
<1>2. BothInv /\ Thrifty /\ KopfInv /\ UnfailedInv /\ UsableInv /\ [BothNext]_all
          => Thrifty' /\ KopfInv' /\ UnfailedInv' /\ UsableInv'
  <2> SUFFICES ASSUME BothInv, Thrifty, KopfInv, UnfailedInv, UsableInv, [BothNext]_all
               PROVE  Thrifty' /\ KopfInv' /\ UnfailedInv' /\ UsableInv'
    OBVIOUS
  <2>1. CASE [Next]_vars
    BY <2>1, OnlyServer, ThriftStep, KopfStep, UnfailedStep, UsableStep DEF BothInv
  <2>2. CASE FollowServer
    <3>1. Thrifty' /\ KopfInv'
      BY <2>2, Followed DEF BothInv, Thrifty, KopfInv
    <3>2. NoFaultYet' => NoFaultYet
      BY <2>2, Followed DEF BothInv, NoFaultYet
    <3> QED BY <2>2, <3>1, <3>2, CredFollows, UsableFollows DEF BothInv, UnfailedInv
  <2> QED BY <2>1, <2>2, BothCases
<1>3. BothInv /\ UsableInv => DatabaseIsUsable
  BY UsableEnough DEF BothInv, DatabaseIsUsable
<1> QED
  BY <1>1, <1>2, <1>3, BothInvInit, BothInvStep, PTL DEF BothSpec

\* With the handlers of the server in place of an environment: when the database object is
\* gone its database is gone, although its server is reset, being deleted or gone while that
\* happens - when no call that is swallowed fails and the backend is not aws, which takes
\* missing credentials for a missing database.
THEOREM NothingLeftInItsServer ==
    ASSUME ReliableCalls, BackendKnows
    PROVE  BothSpec => []NothingInside
<1>1. BothInit => LeftInv
  BY LeftInit DEF BothInit
<1>2. BothInv /\ LeftInv /\ [BothNext]_all => LeftInv'
  <2> SUFFICES ASSUME BothInv, LeftInv, [BothNext]_all PROVE LeftInv'
    OBVIOUS
  <2>1. CASE [Next]_vars
    BY <2>1, OnlyServer, LeftStep DEF BothInv
  <2>2. CASE FollowServer
    BY <2>2, LeftFollows DEF BothInv
  <2> QED BY <2>1, <2>2, BothCases
<1>3. LeftInv => NothingInside
  BY DEF LeftInv, NothingInside
<1> QED
  BY <1>1, <1>2, <1>3, BothInvInit, BothInvStep, PTL DEF BothSpec
=============================================================================
