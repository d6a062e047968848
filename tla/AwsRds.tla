------------------------------- MODULE AwsRds -------------------------------
(***************************************************************************)
(* backends/aws_rds.py: create_or_update_server, server_exists and         *)
(* delete_server of one database instance.                                 *)
(*                                                                         *)
(* Unlike the aurora backend this one waits for an endpoint only, which an *)
(* instance keeps while it is modified: a change is accepted when the call *)
(* returns and in force later.  The cloud is external.                     *)
(***************************************************************************)
EXTENDS ServerCaller

CONSTANTS
    Versions,           \* engine versions, numbers above 0
    Classes,            \* instance classes, numbers above 0
    DeletionProtection  \* the option deletion_protection

ASSUME RdsAssumption ==
    /\ Versions \subseteq Nat \ {0} /\ Classes \subseteq Nat \ {0}
    /\ Specs \subseteq [version : Versions, class : Classes]
    /\ DeletionProtection \in BOOLEAN
    /\ Faults \subseteq {"describe_db_instances", "delete_secret"}

VARIABLES
    instance, \* the instance in the cloud: its settings now, and those it accepted
    seen      \* its status as the call in progress has read it

vars == <<object, password, published, call, budget, instance, seen>>
-----------------------------------------------------------------------------
Unset      == [version |-> 0, class |-> 0, password |-> 0]
NoInstance == [status |-> "absent", endpoint |-> FALSE, now |-> Unset, next |-> Unset]

Init == CallerInit /\ instance = NoInstance /\ seen = "absent"

Steady == instance.status \notin {"absent", "deleting"}
Fail   == Raise /\ seen' = "absent" /\ UNCHANGED instance

\* _get_server answers None for every error.
get_server(answer) ==
    \/ answer = instance.status /\ UNCHANGED budget
    \/ answer = "absent" /\ MayFail("describe_db_instances")
-----------------------------------------------------------------------------
(* create_or_update_server *)

Call == Begin("read") /\ UNCHANGED <<instance, seen>>

\* Mistake: no look at the cloud, every attempt begins with an empty one.
ReadInstance_Skipped == Move("read", "instance") /\ UNCHANGED <<instance, seen>>

ReadInstance ==
    /\ Step("read", "instance")
    /\ get_server(seen')
    /\ UNCHANGED instance

CreateInstance ==
    /\ Move("instance", "wait")
    /\ seen = "absent"
    /\ instance = NoInstance
    /\ LET set == [version |-> call.spec.version, class |-> call.spec.class,
                   password |-> password]
       IN  instance' = [status |-> "creating", endpoint |-> FALSE, now |-> set, next |-> set]
    /\ UNCHANGED seen

\* Mistake: the update is left out, not put off.
InstanceNotAvailable_Skips ==
    /\ Move("instance", "wait")
    /\ seen \notin {"absent", "available"}
    /\ UNCHANGED <<instance, seen>>

\* "DB instance is not available. Cannot perform update": a TemporaryError.
InstanceNotAvailable == At("instance") /\ seen \notin {"absent", "available"} /\ Fail

Modified(new_password) ==
    [version |-> call.spec.version, class |-> call.spec.class, password |-> new_password]

\* The cloud takes no version below that of the instance.
Modifies ==
    /\ seen = "available"
    /\ instance.status = "available"
    /\ call.spec.version >= instance.now.version

\* Mistake: without ApplyImmediately.
ModifyInstance_Later ==
    /\ Move("instance", "wait")
    /\ Modifies
    /\ instance' = [instance EXCEPT
          !.next = Modified(IF call.changed THEN password ELSE instance.now.password)]
    /\ UNCHANGED seen

ModifyInstance ==
    /\ Move("instance", "wait")
    /\ Modifies
    /\ instance' = [instance EXCEPT
          !.status = "modifying",
          !.next = Modified(IF call.changed THEN password ELSE instance.now.password)]
    /\ UNCHANGED seen

Return ==
    /\ Finish("wait")
    /\ instance.endpoint
    /\ seen' = "absent"
    /\ UNCHANGED instance

\* After ten minutes.
TimedOut ==
    /\ At("wait") /\ ~instance.endpoint
    /\ Break("timeout")
    /\ seen' = "absent"
    /\ UNCHANGED instance
-----------------------------------------------------------------------------
(* server_exists and delete_server *)

\* Mistake: only an instance that is available counts.
FindServer_Available ==
    BeginDelete(instance.status = "available") /\ UNCHANGED <<budget, instance, seen>>

FindServer ==
    /\ \E s \in {instance.status, "absent"} : get_server(s) /\ BeginDelete(s # "absent")
    /\ UNCHANGED <<instance, seen>>

DeleteInstance ==
    /\ Move("delete", "delete_secret")
    /\ ~DeletionProtection
    /\ Steady
    /\ instance' = [instance EXCEPT !.status = "deleting"]
    /\ UNCHANGED seen

EndDelete == (DeleteCredentials \/ Release) /\ UNCHANGED <<instance, seen>>

CloudRefuses ==
    /\ \/ At("instance") /\ seen = "absent" /\ instance # NoInstance
       \/ At("instance") /\ seen = "available" /\ ~Modifies
       \/ At("delete") /\ (DeletionProtection \/ ~Steady)
    /\ Fail

Abort == Break("abort") /\ seen' = "absent" /\ UNCHANGED instance
-----------------------------------------------------------------------------
(* The cloud *)

Elsewhere == UNCHANGED <<resource, call, seen>>

EndpointAssigned ==
    /\ instance.status = "creating" /\ ~instance.endpoint
    /\ instance' = [instance EXCEPT !.endpoint = TRUE]
    /\ Elsewhere /\ UNCHANGED budget

InstanceAvailable ==
    /\ instance.status = "modifying" \/ (instance.status = "creating" /\ instance.endpoint)
    /\ instance' = [instance EXCEPT !.status = "available", !.now = instance.next]
    /\ Elsewhere /\ UNCHANGED budget

InstanceGone ==
    /\ instance.status = "deleting"
    /\ instance' = NoInstance
    /\ Elsewhere /\ UNCHANGED budget

\* AutoMinorVersionUpgrade
MinorUpgrade(v) ==
    /\ instance.status = "available" /\ v > instance.now.version
    /\ Spend("upgrade")
    /\ instance' = [instance EXCEPT !.status = "modifying", !.next.version = v]
    /\ Elsewhere
-----------------------------------------------------------------------------
Operator ==
    \/ Call \/ ReadInstance \/ CreateInstance \/ InstanceNotAvailable \/ ModifyInstance \/ Return
    \/ FindServer \/ DeleteInstance \/ EndDelete \/ CloudRefuses

InstanceProgress == EndpointAssigned \/ InstanceAvailable \/ InstanceGone

Next ==
    \/ Operator \/ TimedOut \/ Abort \/ InstanceProgress
    \/ \E v \in Versions : MinorUpgrade(v)
    \/ User /\ UNCHANGED <<instance, seen>>

Spec == Init /\ [][Next]_vars

\* kopf calls again after every failure, and the cloud finishes what it has begun.
FairSpec == Spec /\ WF_vars(Operator) /\ WF_vars(InstanceProgress)
-----------------------------------------------------------------------------
(* Properties *)

Statuses     == {"absent", "creating", "available", "modifying", "deleting"}
SettingsType == [version : Versions \cup {0}, class : Classes \cup {0}, password : Nat]

\* The type invariant of the rds module.
TypeOK ==
    /\ CallerType({"read", "instance", "wait"})
    /\ instance \in [status : Statuses, endpoint : BOOLEAN, now : SettingsType,
                     next : SettingsType]
    /\ seen \in Statuses

\* What the operator calls finished is an instance that has accepted the spec the user
\* sees and the published password, also when attempts broke off, timed out, met an
\* automatic upgrade or the deletion of the instance before (aws_rds.py:65-121).
FinishedIsAccepted ==
    Settled =>
        /\ Steady /\ instance.endpoint
        /\ instance.next.class = object.spec.class
        /\ instance.next.version >= object.spec.version
        /\ published # 0 /\ published = instance.next.password

\* When the object is gone so is the instance, or it is going - unless an error was
\* taken for a missing instance (aws_rds.py:39-40).
NothingLeft ==
    ~object.exists /\ budget["fault"] = Budget["fault"] => ~Steady

\* A published password that clients cannot log in with yet comes into force, unless it
\* is withdrawn or the instance is deleted first (aws_rds.py:101, ApplyImmediately).
ComesIntoForce ==
    published # 0 ~> \/ published = 0 \/ instance.now.password = published
                     \/ object.deleting \/ ~object.exists

\* Every object is handled in the end, unless the instance has a higher version than the
\* spec asks for: the version is sent with every modification (aws_rds.py:104).  And every
\* deletion comes to an end: a second attempt waits until the instance that is being
\* deleted is gone (aws_rds.py:134-140).
Converges ==
    /\ object.exists ~> \/ Settled \/ object.deleting \/ ~object.exists
                        \/ instance.next.version > object.spec.version
    /\ object.deleting ~> ~object.exists
=============================================================================
