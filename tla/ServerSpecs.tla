---------------------------- MODULE ServerSpecs ----------------------------
(***************************************************************************)
(* What each backend makes of a spec: server_spec_valid, which the handler *)
(* asks before anything else, and the functions that turn size, version    *)
(* and maintenance window into what the cloud is asked for.  They are pure *)
(* but for the configuration, so one step does it: the handler that        *)
(* accepts a spec goes on to translate it.  A translation that raises is   *)
(* tried again for ever.                                                   *)
(*                                                                         *)
(* No name is one of PostgresqlServer's, which knows of all this only that *)
(* a spec is valid on some backends, so that a module can extend both.     *)
(***************************************************************************)
EXTENDS Integers, Sequences

CONSTANTS
    UserSpecs,   \* the specs users write ...
    Confs,       \* ... and the configurations they meet
    ClassNames,  \* classes of the configuration and of specs
    Cpus,        \* values of size.cpu and cpu_limit
    Storages,    \* values of size.storageGB and storage_limit_gb
    Majors,      \* major versions a user may ask for
    NameLengths  \* lengths of the calculated name of the server

Missing     == -1
NoClass     == "none"
AllBackends == {"azurepostgres", "azurepostgresflexible", "awsrds", "awsaurora",
                "helmbitnami", "helmyugabyte"}

\* A version is <<>> (empty, or no number), <<major>> or <<major, minor>>; the window
\* has a weekday, by name or by number (Missing if it is neither), and perhaps a time.
NoWindow   == [given |-> FALSE, day |-> 0, named |-> FALSE, time |-> FALSE]
WindowType == {NoWindow} \cup [given : {TRUE}, day : {0, 2, Missing}, named : BOOLEAN, time : BOOLEAN]

UserSpecType == [class : ClassNames \cup {NoClass}, cpu : Cpus \cup {Missing},
                 storage : Storages \cup {Missing},
                 version : {<<>>} \cup (Majors \X {4}) \cup {<<m>> : m \in Majors},
                 window : WindowType, name : NameLengths]

\* An option that is not set is NoClass, 0 or the empty set.
ConfType == [classes : SUBSET ClassNames, default : ClassNames \cup {NoClass},
             cpu_limit : Cpus \cup {0}, storage_limit : Storages \cup {0}]

ASSUME SpecsAssumption ==
    /\ NoClass \notin ClassNames /\ "operator_default" \notin ClassNames
    /\ Cpus \subseteq Nat \ {0} /\ Storages \subseteq Nat \ {0} /\ Majors \subseteq Nat \ {0}
    /\ NameLengths \subseteq Nat
    /\ UserSpecs \subseteq UserSpecType /\ Confs \subseteq ConfType

VARIABLES
    backend, \* the backend of the server
    spec,    \* the spec
    conf,    \* the configuration of the backend
    outcome  \* what became of it

submission == <<backend, spec, conf, outcome>>

\* What a translation gives: Raised for what raises, Refused for what fails for good,
\* Missing for what is not sent.
Raised  == -2
Refused == -3
Nothing == [verdict |-> "none", class |-> NoClass, cpu |-> Missing, storage |-> Missing,
            version |-> <<>>, day |-> Missing]
-----------------------------------------------------------------------------
(* server_spec_valid *)

Given(value, default) == IF value = Missing THEN default ELSE value

NameFits(s)           == s.name <= 63
StorageAtLeast(s, gb) == Given(s.storage, gb) >= gb

Limited(s, c) ==
    /\ c.cpu_limit # 0 => Given(s.cpu, 1) <= c.cpu_limit
    /\ c.storage_limit # 0 => Given(s.storage, 1) <= c.storage_limit

single_valid(s, c)   == NameFits(s) /\ Limited(s, c) /\ StorageAtLeast(s, 100)
flexible_valid(s, c) == NameFits(s) /\ Limited(s, c) /\ StorageAtLeast(s, 32)
rds_valid(s)         == NameFits(s) /\ StorageAtLeast(s, 20)
aurora_valid(s)      == NameFits(s) /\ StorageAtLeast(s, 20)
bitnami_valid(s)     == NameFits(s)
yugabyte_valid(s)    == NameFits(s)

valid_on(b, s, c) ==
    CASE b = "azurepostgres"         -> single_valid(s, c)
      [] b = "azurepostgresflexible" -> flexible_valid(s, c)
      [] b = "awsrds"                -> rds_valid(s)
      [] b = "awsaurora"             -> aurora_valid(s)
      [] b = "helmbitnami"           -> bitnami_valid(s)
      [] b = "helmyugabyte"          -> yugabyte_valid(s)
-----------------------------------------------------------------------------
(* The class or the processors: <<class, cpu>>, one of them not sent *)

\* Mistake: a class that is not known is looked up all the same.
Lookup_NoFallback(class, c) ==
    IF class \in c.classes THEN <<class, Missing>> ELSE <<NoClass, Raised>>

\* The class that is looked up in the classes; without an entry a KeyError.
Lookup(class, c) ==
    LET chosen == IF class \in c.classes THEN class ELSE c.default
    IN  IF chosen \in c.classes THEN <<chosen, Missing>> ELSE <<NoClass, Raised>>

\* Both options are needed for classes to be used at all.
UsesClass(s, c) == s.class # NoClass /\ c.default # NoClass

\* Mistake: the step below.
Capacity_Below(cpu, steps) ==
    LET fits == {step \in steps : step <= cpu}
    IN  IF fits = {} THEN 2 ELSE CHOOSE step \in fits : \A other \in fits : other <= step

\* The smallest step that suffices, or 64.
Capacity(cpu, steps) ==
    LET fits == {step \in steps : cpu <= step}
    IN  IF fits = {} THEN 64 ELSE CHOOSE step \in fits : \A other \in fits : step <= other

single_sku(s, c) ==
    IF UsesClass(s, c) THEN Lookup(s.class, c)
    ELSE <<NoClass, Capacity(Given(s.cpu, 1), {2, 4, 8, 16, 32, 64})>>

flexible_sku(s, c) ==
    IF UsesClass(s, c) THEN Lookup(s.class, c)
    ELSE <<NoClass, Capacity(Given(s.cpu, 2), {2, 4, 8, 16, 32, 48, 64})>>

\* A default class that is not there is added to the classes; without any classes there
\* is only a list to add it to, a TypeError.
AwsClass(s, c) ==
    LET default == IF c.default = NoClass THEN "operator_default" ELSE c.default
    IN  IF c.classes = {} THEN <<NoClass, Raised>>
        ELSE IF s.class \in c.classes \cup {default} THEN <<s.class, Missing>>
        ELSE <<default, Missing>>

rds_instance_class(s, c)    == AwsClass(s, c)
aurora_instance_class(s, c) == AwsClass(s, c)

bitnami_size(s, c) ==
    IF UsesClass(s, c) THEN Lookup(s.class, c) ELSE <<NoClass, Given(s.cpu, 1)>>
yugabyte_size(s, c) ==
    IF UsesClass(s, c) THEN Lookup(s.class, c) ELSE <<NoClass, Given(s.cpu, 1)>>

determine_size(b, s, c) ==
    CASE b = "azurepostgres"         -> single_sku(s, c)
      [] b = "azurepostgresflexible" -> flexible_sku(s, c)
      [] b = "awsrds"                -> rds_instance_class(s, c)
      [] b = "awsaurora"             -> aurora_instance_class(s, c)
      [] b = "helmbitnami"           -> bitnami_size(s, c)
      [] b = "helmyugabyte"          -> yugabyte_size(s, c)

\* Aurora asks for no storage.
storage_gb(b, s) ==
    CASE b = "azurepostgres"                   -> Given(s.storage, 10)
      [] b = "azurepostgresflexible"           -> Given(s.storage, 32)
      [] b = "awsrds"                          -> Given(s.storage, 20)
      [] b = "awsaurora"                       -> Missing
      [] b \in {"helmbitnami", "helmyugabyte"} -> Given(s.storage, 10)
-----------------------------------------------------------------------------
(* _map_version, and the maintenance window *)

Major(v) == IF v = <<>> THEN 0 ELSE v[1]

single_version(v)   == IF Major(v) = 10 THEN <<10>> ELSE <<11>>
flexible_version(v) == IF Major(v) \in 11..17 THEN <<Major(v)>> ELSE <<13>>

\* With a minor version as it is, else with the newest minor version known.
Newest(v, newest, default) ==
    IF Len(v) = 2 THEN v
    ELSE IF Major(v) \in DOMAIN newest THEN <<Major(v), newest[Major(v)]>> ELSE default

rds_version(v) ==
    Newest(v, [m \in 11..14 |-> CASE m = 11 -> 20 [] m = 12 -> 15 [] m = 13 -> 11 [] m = 14 -> 8],
           <<15, 3>>)
aurora_version(v) ==
    Newest(v, [m \in 11..14 |-> CASE m = 11 -> 19 [] m = 12 -> 14 [] m = 13 -> 10 [] m = 14 -> 7],
           <<15, 2>>)

map_version(b, v) ==
    CASE b = "azurepostgres"                   -> single_version(v)
      [] b = "azurepostgresflexible"           -> flexible_version(v)
      [] b = "awsrds"                          -> rds_version(v)
      [] b = "awsaurora"                       -> aurora_version(v)
      [] b \in {"helmbitnami", "helmyugabyte"} -> <<>>

\* A name of a weekday is parsed into the first of january 1900, whose weekday is 0; a
\* window without its time is a KeyError.
flexible_window(w) ==
    IF ~w.given THEN Missing
    ELSE IF w.day = Missing THEN Refused
    ELSE IF ~w.time THEN Raised
    ELSE IF w.named THEN 0 ELSE w.day

\* start_hour + 1 of a string: a window with its time is a TypeError, any other ignored.
calculate_maintenance_window(w) == IF w.given /\ w.time THEN Raised ELSE Missing

maintenance_window(b, w) ==
    CASE b = "azurepostgresflexible"     -> flexible_window(w)
      [] b \in {"awsrds", "awsaurora"}   -> calculate_maintenance_window(w)
      [] OTHER                           -> Missing
-----------------------------------------------------------------------------
Submitted ==
    /\ backend \in AllBackends /\ spec \in UserSpecs /\ conf \in Confs
    /\ outcome = Nothing

Reject ==
    /\ outcome = Nothing
    /\ ~valid_on(backend, spec, conf)
    /\ outcome' = [Nothing EXCEPT !.verdict = "rejected"]
    /\ UNCHANGED <<backend, spec, conf>>

Accept ==
    /\ outcome = Nothing
    /\ valid_on(backend, spec, conf)
    /\ LET size == determine_size(backend, spec, conf)
           day  == maintenance_window(backend, spec.window)
       IN  outcome' = [verdict |-> IF Raised \in {size[2], day} THEN "raised"
                                  ELSE IF day = Refused THEN "refused" ELSE "translated",
                       class |-> size[1], cpu |-> size[2], storage |-> storage_gb(backend, spec),
                       version |-> map_version(backend, spec.version), day |-> day]
    /\ UNCHANGED <<backend, spec, conf>>

Handle == Reject \/ Accept

Translation == Submitted /\ [][Handle]_submission
-----------------------------------------------------------------------------
(* Properties *)

Azure == {"azurepostgres", "azurepostgresflexible"}
Aws   == {"awsrds", "awsaurora"}

\* A spec that is accepted is translated, it does not keep the handler retrying - if the
\* default class is among the classes, on aws some class is, a window has its time, and
\* aws gets no window: there every window with a time raises (aws_base.py:64).
AcceptedIsTranslated ==
    /\ outcome.verdict = "raised"
    /\ conf.default \in conf.classes
    => spec.window.given /\ (backend \in Aws \/ ~spec.window.time)

\* A user who asks for processors gets as many or more, up to the 64 there are, the storage
\* asked for, within the limits the spec was held against, a version of the major version
\* asked for or the default one - on aws the very version (README.md:270) - and the day of
\* the window, if it is a number: a name, which is what README.md:289 asks for, always
\* gives 0 (azure_postgresqlflexible.py:401, azure_postgresql.py:346-353).
TranslatedIsGranted ==
    outcome.verdict = "translated" =>
        /\ outcome.cpu # Missing /\ spec.cpu # Missing =>
               outcome.cpu >= spec.cpu \/ outcome.cpu = 64
        /\ spec.storage # Missing /\ backend # "awsaurora" =>
               /\ outcome.storage = spec.storage
               /\ backend \in Azure /\ conf.storage_limit # 0 =>
                      outcome.storage <= conf.storage_limit
        /\ spec.version # <<>> /\ outcome.version # <<>> =>
               /\ outcome.version[1] # spec.version[1] =>
                      outcome.version = map_version(backend, <<>>)
               /\ backend \in Aws /\ Len(spec.version) = 2 => outcome.version = spec.version
        /\ backend = "azurepostgresflexible" /\ spec.window.given /\ ~spec.window.named =>
               outcome.day = spec.window.day
=============================================================================
