# Verification of the hybrid cloud PostgreSQL operator

TLA+ models of the operator, configurations that check them with TLC, and proofs
checked by TLAPS. Paths are relative to the repository root, `src/README.md` is the
operator's own documentation.

The operator watches two custom resources, `PostgreSQLServer` and `PostgreSQLDatabase`,
and brings servers, databases, roles and credentials secrets into existence through one
of six backends. It keeps no state between two events: what it knows is in the custom
objects (spec, status, one label, the annotations of the kopf framework), in secrets, and
in the clouds. What makes it hard is that every handler is a sequence of remote calls, any
of which may raise, time out, or be the last one before a crash, and that the next attempt
starts over from what it finds.

## 1. Inventory

Files are under `src/hybridcloud/`.

| component | state it keeps | operations | what makes it correct |
|---|---|---|---|
| server handlers, `handlers/postgresql_server.py` | status of the object (`deployment`, `backend`), credentials secret, temporary secret | create/update/resume handler, reset of the password, delete handler | a published password is the one in force; no server without an object; no edit and no reset is lost; every object is handled, every deletion ends |
| database handlers, `handlers/postgresql_database.py` | status, credentials secret, temporary secret | the same, and the recovery of a removed secret | the same for the role; a finished database is restricted and usable; nothing is left behind |
| shared helpers, `util/reconcile_helpers.py` | the label `operator/action` | which diffs to ignore, work off a command, find or make a password | idempotence: the same password at every retry |
| kopf (library) | what was last handled, the finalizer, retries | calls a handler for an event, retries it after an exception | not ours; assumed, see `Kopf` |
| objects and secrets, `util/k8s.py` | - | create, update, read, delete; reading and deleting swallow errors | a swallowed error does no lasting harm |
| routing, `handlers/routing.py` | - | name of a backend to the backend, with a default | a server stays with its backend |
| `backends/aws_aurora.py` | cluster, primary instance | create or update and wait, delete, databases | ready when finished; nothing left; deletion repeatable |
| `backends/aws_rds.py` | instance | the same | the same |
| `backends/azure_postgresqlflexible.py` | server, firewall rules, configuration, lock, mark | the same, each call waited for | configured and in force when finished |
| `backends/azure_postgresql.py` | server, rules, vnet rules, private endpoint | the same | the same |
| `backends/helm_postgres.py`, `helm_yugabyte.py`, `util/helm.py` | release, volumes | install, uninstall, remove volumes | a server that comes back has the published password |
| SQL, `backends/pgclient.py`, `aws_base.py` | database, role, privileges | `CREATE`, `REVOKE`, `GRANT`, `ALTER`, `DROP` | every statement repeatable after a break |
| configuration, `config.py` | cached once per process | `get`, `get_one_of` | order of precedence |
| passwords, `util/password.py` | - | random retries | terminates |
| start, `operator.py`, `main.py`; clients, `util/azure.py`, `util/aws.py`; charts and CRDs | - | wiring | - |

Interactions: kopf calls a handler with a body, a spec, labels and a diff frozen at that
moment. The handler calls kubernetes (`util/k8s.py`) and a backend; the backend calls a
cloud or helm, and `pgclient`. A database handler reads the object, the existence and the
credentials secret of its server, all written by the server handler. Different objects are
handled concurrently, the handlers of one object never are.

Hard behaviours: an attempt that breaks off between any two calls; a user who edits the
spec, sets the label, removes a secret or deletes the object while an attempt is at work;
errors that a bare `except` turns into "does not exist"; clouds that finish what was asked
minutes later, or in a maintenance window; admin credentials that are rotated while a
database handler uses them; a restart with another configuration. `PROJECT.json` lists
them line by line under `hazards`, with the property that watches each one.

## 2. Modules

| module | models | state and actions |
|---|---|---|
| `Kopf` | when kopf calls a handler, written from how the handlers use it | operators on an object: its essence, the diff, `NeedsHandling`, `Handled`, `Resumed` |
| `ReconcileHelpers` | `ignore_control_label_change`, `determine_resource_password` | `FoldLeft` over a diff whose items come in any order |
| `CredentialContract` | abstract: withdraw, change, publish | `live`, `published`; the specification five modules implement |
| `PostgresqlServer` | both handlers of one server object | one action per remote call; `handler` holds the local variables and the place (`pc`); a backend is one step |
| `PostgresqlDatabase` | both handlers of one database object, with the SQL statements and the ways the backends reach a database | as above; the servers are an environment that takes the steps `CredentialContract` allows |
| `ServerAndDatabase` | the two composed: one process, a server object and a database object in it | extends `PostgresqlDatabase`, instantiates `PostgresqlServer` (prefix `s_` or `S`); the handlers of the server take the place of the environment |
| `ServerCaller` | the server handlers once more, shortened to what a backend sees of them | `call` is the call in progress; `Begin`, `Finish`, `BeginDelete`, `DeleteCredentials`, `Release`, the users; no `Next` of its own |
| `AwsAurora` | `create_or_update_server`, `server_exists`, `delete_server` of the Aurora backend, with the clock of the cloud | extends `ServerCaller`; `seen` is what the call has read, `cluster` and `primary` change between calls |
| `AwsRds` | the same of the RDS backend | `instance` has its settings now, and those it has accepted |
| `RuleLoop` | the rules of one kind on an Azure server | sets of rules as functions from their names, and what adding and removing a rule makes of them |
| `AzureServer` | what the two Azure backends share: look-up, lock, mark, removal, the loop over the rules of one kind | extends `ServerCaller`; no `Next` of its own |
| `AzureFlexible` | the flexible-server backend | rules, configuration as stored and as in force, lock, mark |
| `AzureSingle` | the single-server backend | vnet and firewall rules, private endpoint and DNS record, extensions; a restart with other options |
| `HelmRelease` | both helm backends with `util/helm.py` | the release, the volumes and the passwords they were initialised with |
| `ServerSpecs` | the pure part of the six backends: `server_spec_valid`, sizes, `_map_version`, maintenance windows | one operator per function, one step for a handler that validates and translates |
| `BackendLemmas` | lemmas about `ServerCaller` and `RuleLoop` | cited by the proofs of the five backends' modules, section 5 |
| `...Proofs` | theorems about the module of that name | section 5 |
| `MC...` | instances for TLC | small sets, and how often each outside event may happen |

Conventions. `Step(from, next)` takes a handler from one place to the next; `Quiet` and `Move`
are steps that change nothing else, or fail at nothing. Passwords are numbers in the order
they were generated, 0 is none. A spec is a record of what the properties tell apart. `Abort`
ends an attempt between any two calls: an exception, a `TemporaryError` or a crash. Names in
`Faults` are calls whose errors the code swallows. Operators with a name like
`ResetWithdraw_KeepsSecret` are mistakes the code does not make; they are not part of a
specification, and each one, put in the place of the action it is named after, breaks a
property (`mutants` in `PROJECT.json`).

Two levels for the server. `PostgresqlServer` has the handlers in full and takes a backend for
one atomic step; the modules of the backends have a backend in full and take the handlers for
what `ServerCaller` says of them: a call is repeated until it succeeds, `admin_password_changed`
is true as long as nothing is published, the password is published when the call returns, a
deletion asks `server_exists` first and removes the secret last. The link between the levels is
the contract: `CredentialContract` says that a password changes only while none is published.
`PostgresqlServer` implements it with the server per backend as `live`, `PostgresqlDatabase`
with the role per server, `AwsAurora` with the master password of the cluster, which changes when
a modification is over and not when it is asked for, `AzureFlexible` and `AzureSingle` with that
of the server.
`PostgresqlDatabase` assumes of its servers the steps of the contract, and `ServerAndDatabase`
puts the real handlers there. `AwsRds` and `HelmRelease` do not implement it (section 4), and
state what holds instead.

How the code reads in the models, on the reset of a server's password:
`BeginHandling` (kopf calls, the spec is valid), `ReadCredentials`, `UseStoredPassword`,
`ResetWithdraw` (new password, published secret deleted), `ResetStash` (temporary secret
written), `Unlabel`, `StatusWorking`, `ApplyServer` (the backend is called), `Publish`,
`DropTmp`, `StatusFinished`, `Return` (kopf stores what it handled).

## 3. Runs

| run | instance | shows |
|---|---|---|
| `server_reset` | two backends, a default that changes with a restart, two labels, two edits, a spec that is refused, one failure, one crash, a deletion and a re-creation; 5.7 million states | `PublishedIsLive`, `NoOrphan`, `ResetRotates`, the contract |
| `server_liveness` | no labels; two edits, a spec that is refused, a failure, a crash with `handler_on_resume`, a removed secret, one swallowed error; 370 000 states | `FinishedIsApplied`, `FinishedIsUsable`; every object is handled, every deletion ends |
| `database_reset` | a backend that connects with the admin password; two labels of two kinds, a removed secret, withdrawal and change of the admin password, two failures at any statement, a deletion and a re-creation; 3.0 million states | `PublishedIsLive`, `NoDatabaseLeft`, `ResetRotates`, the contract |
| `database_liveness` | an aws backend; a new name for the secret, a server that is lost and comes back, a break at any statement, a crash, a swallowed error; 290 000 states | `FinishedIsUsable`; every database is handled, every deletion ends |
| `both` | the handlers of a server and of a database in it; the server is created twice, reset and deleted once, the database created and deleted once, with a break at any statement; 220 000 states | `DatabaseIsUsable`, `NothingInside`, `DatabaseConverges` |
| `aurora` | two versions and two classes; an edit, a reset, a failure, a time-out, a failed read, an automatic upgrade, a deletion and a re-creation; 410 000 states | `FinishedIsReady`, `NothingLeft`, the contract, `Converges` |
| `rds` | the same events; 290 000 states | `FinishedIsAccepted`, `NothingLeft`, `ComesIntoForce`, `Converges` |
| `flexible` | three specs (rules with one name twice, extensions with and without preload, parameters set and reset); an edit, a reset, a failure, a swallowed error, a deletion - fake, locked or neither - and a re-creation; 185 000 states | `FinishedIsConfigured`, `WantedRulesStay`, `NoServerLeft`, the contract, `Converges` |
| `single` | specs with and without firewall rules and extensions, four configurations (one has its firewall rule as documented and is public, one sets both names of the endpoint's option); an edit, a reset, a swallowed error, a break or a restart with another configuration, a deletion and a re-creation; 380 000 states | `TypeOK`, `FinishedIsConfigured`, the contract, `Converges` |
| `helm` | both backends, with and without `pvc_cleanup`; upgrades that fail or are killed, an edit, a reset, a swallowed error, a deletion and a re-creation; 91 000 states | `NothingLeft`, `FinishedIsUsable`, `Converges` |
| `specs` | six backends, specs and configurations on both sides of every limit; 680 000 states | `AcceptedIsTranslated`, `TranslatedIsGranted` |

`Converges` says in every module that an object is handled in the end and that a deletion ends.

One run shows that the code loses an edit:

| run | what happens |
|---|---|
| `server_lost_edit` | an edit and the removal of the label in one diff: the loop in `reconcile_helpers.py:12` keeps what the last item says, and the edit is ignored |

### Bounds, and why they are enough

Each outside event has a budget in the `MC` module; what the operator and the clouds do is
not bounded. A hazard of this code takes one request, one break and one more event in
between, so the budgets allow one or two of each and every order of them; two labels, so that
a second request meets what the first one left behind; two creations, so that an object meets
what an earlier one of its name left behind. One object per model is enough for what one
handler does, as handlers of one object do not overlap and objects share nothing, except for a
database and its server, which meet in `ServerAndDatabase`. There the handlers of the server do
not break off and the operator does not restart: both would only make the database wait, and
both are in the runs of the server alone. One name for the secret in the reset runs is a real
restriction, see section 4. `specs` has for each number the values next to each limit in the
code. The theorems of section 5 have no bounds.

Deadlock is not checked: when the budgets are spent and the operator is done the models stop,
as the operator does.

### Fairness, and why the code justifies it

Liveness is checked under weak fairness of all steps of the operator together: the process
does not hang, as every call has a timeout (`operator.py:36-39`), and kopf retries a failed
attempt for ever (`src/README.md:355`). Users, failures, crashes, time-outs, automatic upgrades
and swallowed errors have no fairness and a finite budget, so liveness says: once failures
stop, the work is done. Further assumptions, each in the definition of `FairSpec`:
- `PostgresqlDatabase`: a server that was created publishes its credentials, which is
  `Converges` of `PostgresqlServer`;
- `ServerAndDatabase`: the handlers of both objects are fair, as kopf runs them in tasks of
  their own; nothing is assumed about the server;
- `AwsAurora`, `AwsRds`: the cloud finishes what it has begun, with cluster and instance
  independently, and the maintenance window of the instance comes;
- `AzureFlexible`, `AzureSingle`: the administrator removes the lock of an object that is being
  deleted, and does so again when it is set again;
- `HelmRelease`: helm comes to an end, with success or not; it has a timeout.

## 4. What the properties leave out

Some properties hold only with a proviso, which stands in the definition. Each proviso
marks a behaviour of the code that is worth knowing.

Handlers:
- Both handlers remove the label before the server, or the role, has the new password and
  before the secret is written (`postgresql_server.py:54`, `postgresql_database.py:58`);
  `src/README.md:320` says it is removed "to signal completion". No property relies on it.
- `ResetRotates` (both modules): at the time of the request no earlier command was at work
  and the temporary secret did not hold that same password. Otherwise a retry may be taken for
  "only control labels removed" (`postgresql_server.py:24`), or a left-over temporary secret
  brings the old password back (`reconcile_helpers.py:71`). A database with another password in
  it recovers: `create_secret` fails after the published secret is gone
  (`postgresql_database.py:54`), and the next attempt sets the password it finds there.
- `ResetRotates` of the server also asks that the status says "finished". An attempt that breaks
  off after the label is gone leaves the rest of the reset to its retry; if by then the spec is one
  the backend refuses, the retry ends with "failed" (`postgresql_server.py:37-41`), no label, and
  the old password in use, until the spec is edited again.
- `FinishedIsUsable`: no secret was removed by a user and no failure of `get_secret` or
  `delete_secret` was swallowed; for a database also that there was not both an edit and a
  label (`server_lost_edit`).
- `NoOrphan` is checked without errors of `server_exists`: such an error counts as "no
  server" (`helm.py:28`, `aws_rds.py:39`, `aws_aurora.py:39`), and the deletion leaves the
  server running. `NothingLeft` of the backends has the same proviso.
- On aws a deletion of a database while the admin secret is withdrawn finds "no database"
  (`aws_base.py:15`) and forgets it. `NoDatabaseLeft` and `NothingInside` are checked with a
  backend that fails instead.
- One name for the secret (`server_reset`, the contract): a change of
  `spec.credentialsSecret` makes the server handler generate a new password, apply it, and
  leave the old secret; a change back finds that stale secret and takes it for the
  credentials. A change of a database's secret name and back does the same; `database_liveness`
  edits the name once.
- A label that is set again while an attempt works off an earlier one is removed together with it
  (`reconcile_helpers.py:34-43` sets the label to nothing whatever it says by then), and the
  request is lost. `ResetRotates` does not count such requests. `FinishedIsUsable` of the server is
  checked in a run without labels and proved for labels that reset nothing (`NoResets`).
- A backend nobody knows stands for the default of the moment (`routing.py:23-25`), and its name, not
  the default, goes into the status: when the default changes, the next attempt creates the server
  a second time, with the new default, and a deletion looks for it there. No run has an unknown
  name, and the theorems about the handlers of the server assume that there is none (`KnownBackends`).
- `RetryUnchanged = TRUE` is how `src/README.md:355` describes kopf. Were a failed attempt
  dropped because the object looks as last handled, a reset that fails after `Unlabel` would
  never be finished.
- `DatabaseLiveness` has `GrantsIn = "own"`. With grants on the schema `public` of the admin
  database (`pgclient.py:46` on helm and azurepostgres) `DROP ROLE` is refused once, and the
  retry finds no database and leaves the role. With `database_delete_fake` it is refused for
  ever.

AWS:
- `Converges` of `AwsAurora` makes an exception for a version that is not the cluster's: it is
  refused at every attempt, as `aws_aurora.py:107` looks for `Status` where the answer has
  `DBInstanceStatus`. And for a deletion that breaks off between instance and cluster: the
  next attempt deletes the instance again, is refused, and never gets to the cluster (`:200`).
- `AwsAurora` has no property about the class of a finished instance: a class edited and edited
  back is changed in the maintenance window all the same. With `deletion_protection` the primary
  instance is deleted before the cluster refuses.
- `AwsRds` does not implement the contract: it waits for an endpoint, which an instance keeps
  while it is modified (`aws_rds.py:116`), so a new password is published before it is in force.
  `FinishedIsAccepted` says that the instance has accepted it, `ComesIntoForce` that it follows.
- `Converges` of `AwsRds` makes an exception for an instance whose automatic upgrade went past
  the version of the spec: the lower version is sent with every modification and refused.
- `AcceptedIsTranslated` makes an exception for maintenance windows with a time on aws: the hour is
  text and `+ 1` raises, at every attempt (`aws_base.py:64`); and for aws without any class in the
  configuration, whose default is then added to a list (`aws_rds.py:180`).

Azure:
- `FinishedIsConfigured` says that the configuration is in force unless an attempt broke off: that
  a restart is due is known only to the attempt that changed the configuration
  (`azure_postgresqlflexible.py:217`, `azure_postgresql.py:247`).
- A re-created flexible server keeps the mark of a fake deletion if its secret outlived it: the
  mark is not among the tags compared (`azure_postgresqlflexible.py:122`). A single server is always
  updated, and loses it.
- `Converges` of `AzureSingle` makes an exception for public servers while one of their firewall rules
  is as documented, in the configuration (`src/README.md:71-74`) or in the spec (`:284`): both are
  looked up as `start_ip`, and the documented `startIp` is a `KeyError` (`azure_postgresql.py:194-200`).
  So with the documented configuration every public single server raises at every attempt, after the
  server itself was created and before its credentials are published. The run has such a rule in a
  spec (`Opened`) and in a configuration (`Documented`); `NeverReads` is the exception. The flexible
  backend reads the names that are documented.
- No property says that a private endpoint goes with its server. The option that has it created is
  `network.create_private_endpoint` (`src/README.md:83-84`, `azure_postgresql.py:84`), the one that has it
  deleted is `create_private_endpoint` (`:293`), which no document names: with the documented option
  alone, endpoint and DNS record outlive the server in every deletion. With the other name set too, a
  locked single server loses its endpoint before the cloud refuses to delete it (`:297`). The model has
  both names (`endpoint` and `cleanup` of an option).
- With other options after a restart, the rules of a server that is not public any more and an
  endpoint that is not wanted any more stay.
- `TranslatedIsGranted` compares the day of the window only if it is a number: a name, which is what
  `src/README.md:289` asks for, is parsed into a date whose weekday is always 0
  (`azure_postgresqlflexible.py:401`). `latest` as a version of a flexible server is 13. A single
  server without `storageGB` asks for 10 although fewer than 100 are refused when given.

Helm:
- A release whose upgrade or removal was killed stays pending: `helm list` does not show it, so a
  deletion does not find it, and it is not upgraded any more. `Converges` and `NothingLeft` make
  an exception for it.
- A deletion that breaks off between the release and its volumes leaves the volumes: the next one
  finds no release (`helm_postgres.py:56-60`).
- `FinishedIsUsable` makes an exception for resets: the new password is passed as a value, which the
  chart applies to an empty volume only. The same happens without `pvc_cleanup`.
- The pattern for the volumes of a yugabyte server has no server name in it
  (`helm_yugabyte.py:86`); the model has one server.

## 5. Theorems

All hold for all values of the constants, hence for any number of backends, specs, labels,
versions, rules, and for every budget.

They are about `Spec` (`BothSpec`, `Translation`), the specification without fairness, and so
about every run's behaviours too. Those about the two handlers restrict the constants; the
assumptions are named:

| theorem | assumes | says |
|---|---|---|
| `PostgresqlServerProofs!TypeCorrect` | - | every variable has its type |
| `PostgresqlServerProofs!NeverOrphaned` | `KnownBackends`, `ReliableExists` | a server runs only for an object bound to its backend (`NoOrphan`) |
| `PostgresqlServerProofs!PublishedAlwaysLive` | `KnownBackends`, `ReliableCalls`, `OneSecret` | `PublishedIsLive` |
| `PostgresqlServerProofs!ServerKeepsContract` | the same | `PostgresqlServer` implements `CredentialContract` |
| `PostgresqlServerProofs!ResetTakesEffect` | the same, `RetryUnchanged` | `ResetRotates` |
| `PostgresqlServerProofs!UsableWhenFinished` | `KnownBackends`, `OneSecret`, `NoResets` | `FinishedIsUsable`; calls may swallow errors, the property is about the time before one does |
| `PostgresqlServerProofs!AppliedWhenFinished` | `KnownBackends`, `RetryUnchanged`, `NoLabels` | `FinishedIsApplied`, whatever errors are swallowed |
| `PostgresqlServerProofs!AcceptedAlwaysTranslated`, `TranslatedAlwaysGranted` | - | the invariants of run `specs`, for all specs, configurations and values |
| `PostgresqlDatabaseProofs!TypeCorrect` | - | every variable has its type |
| `PostgresqlDatabaseProofs!PublishedAlwaysLive` | `ReliableCalls`, `OneSecret`, `OneServer` | `PublishedIsLive`, also when servers are lost |
| `PostgresqlDatabaseProofs!DatabaseKeepsContract` | the same, `ServersStay` | `PostgresqlDatabase` implements `CredentialContract` |
| `PostgresqlDatabaseProofs!NothingEverLeft` | `ReliableCalls`, `OneServer`, `BackendKnows` | `NoDatabaseLeft` |
| `PostgresqlDatabaseProofs!ResetTakesEffect` | `ReliableCalls`, `OneSecret`, `OneServer` | `ResetRotates` |
| `PostgresqlDatabaseProofs!UsableWhenFinished` | `OneSecret`, `OneServer` | `FinishedIsUsable`, likewise, resets included |
| `PostgresqlDatabaseProofs!UsableWithItsServer` | `OneSecret` | `DatabaseIsUsable`: the same of `BothSpec`, with the handlers of the server in place of the environment |
| `PostgresqlDatabaseProofs!NothingLeftInItsServer` | `ReliableCalls`, `BackendKnows` | `NothingInside`, of `BothSpec` |
| `AwsAuroraProofs!TypeCorrect`, `FinishedAlwaysReady`, `NothingEverLeft`, `AuroraKeepsContract` | - | every property of run `aurora` but `Converges` |
| `AwsRdsProofs!TypeCorrect`, `FinishedAlwaysAccepted`, `NothingEverLeft` | - | the invariants of run `rds` |
| `AzureFlexibleProofs!TypeCorrect`, `FinishedAlwaysConfigured`, `NoServerEverLeft`, `WantedRulesAlwaysStay`, `FlexibleKeepsContract` | - | every property of run `flexible` but `Converges` |
| `AzureSingleProofs!TypeCorrect`, `FinishedAlwaysConfigured`, `SingleKeepsContract` | - | every property of run `single` but `Converges` |
| `HelmReleaseProofs!TypeCorrect`, `FinishedAlwaysUsable`, `NothingEverLeft` | - | the invariants of run `helm` |

`KnownBackends`: a spec names only backends that are configured. `ReliableExists` and
`ReliableCalls`: `server_exists`, or no call at all, swallows an error. `OneSecret`: the name
of the credentials secret does not change. `OneServer`: a database stays with its server.
`ServersStay`: no server is lost under a handler, which would publish credentials of nothing.
`BackendKnows`: the look at the database does not depend on credentials, and deletions are not
fake. `RetryUnchanged`: kopf retries a failed attempt although the object looks as last handled.
`NoLabels`: users set no label at all, without which `server_lost_edit` refutes
`FinishedIsApplied`. `NoResets`: no label that resets; a server says "finished" with the secret
withdrawn when the retry of a reset is taken for a removal of labels. Each of them excludes a
behaviour that is described here, in section 4 or, for `OneServer`, in section 7.

How the proofs go. No property is inductive; each proof has an invariant that is, made of parts
with a name, and a lemma that every step keeps it. The type invariants are proved and are in no
run, but for `TypeOK` of `AzureSingle`, which a plausible mistake with the list of extensions
breaks.

*The server handlers.* `TypeInv` adds to the types that a running handler belongs to an object,
and that the specs at hand were written by a user. `BackendInv` says where a handler stands
relative to the object: from `apply` on the object is bound to the backend of the handler, and
when a deletion comes to the secret nothing runs any more; this gives `NoOrphan`. `CredInv`
says that a handler which read credentials works with the published password, that one which did
not, or has withdrawn them, works while nothing is published, and that at `publish` the server
has the password; this gives `PublishedIsLive`, and shows of each action which step of the
contract it is. Actions that touch neither secrets nor servers are dealt with at once (`Unseen`).

`KopfInv` says what kopf shows of an attempt: the object is unfinished while a handler is at
work, and does not say "finished" from the status on. With it `AppliedInv` gives
`FinishedIsApplied`: from the call of the backend on the server has the spec of the handler, and
what is called finished has the spec kopf remembers, unless an attempt is under way; the diff can
only be ignored if a label was removed (`IgnoresRemoval`, `IgnoredLabel`), and there are none.
`UsableInv` carries the published password from the step that publishes it to the status, and
keeps it there; `UnfailedInv` makes `BackendInv` and `CredInv` available up to the first failure
that is swallowed. `ResetInv` follows the password whose reset was asked for: it cannot come back
from the temporary secret or from a handler (`NotBackInv`); once the label is off it is nowhere
but in the server, and only before the backend is called (`WithdrawnInv`); and while it is in the
server, kopf remembers no label whose removal the next attempt could ignore, and takes the attempt
for unfinished (`PendingInv`), so that the status cannot say "finished" and stay.

*The database handlers.* `CredInv` is the same with one more case: a role may be older than the
secret, so what a handler without credentials publishes is right only because `recover` has set
the password, or because the role is new. `RoleInv` adds that the role exists until the end.
`LeftInv` says that a database is on a server that runs and is gone once a deletion is past the
statement that drops it; the rotation of the admin password cannot break it, as then the deletion
fails before it gets there. `ResetInv` is shorter than that of the server, as the password of the
role is changed before the label is removed. `UsableInv` says in which order a database becomes
usable: it is closed to others before it has a role, has a role, and the role its privileges, one
statement after the other (`AfterUser`, `AfterGrants`), before anything is published, and what is
published or called finished is the password of the role, if the server is still there.

*Both together.* A step of `BothSpec` is one that `PostgresqlDatabase` allows, with the server as
it was, or one of the server that the database follows (`BothCases`). For the first the lemmas on
the database's invariants are cited as they are. The second takes from the database at most what
is in it, all at once (`Followed`), and `CredInv`, `UsableInv` and `LeftInv` survive that whatever
the server does: the theorems need of the server's side only its types (`ServerInv`), no
invariant of it, and not that it keeps the credential contract. Without the contract a database
is never wrong; it may only wait for ever, which is `DatabaseConverges` and for TLC.

*The backends.* `BackendLemmas` has the part of the invariant that is the caller's
(`CallerInv(places, working)`) with one lemma per step of the caller, for any backend; the
backends cite them. `WholeBefore` and `SpentIsNotWhole` deal with provisos of the form "no
failure so far". `AuroraInv` and `RdsInv` add what is under way in the cloud: the password that
is published or brought is the one the cluster *will* have (`Coming`), or the instance has
accepted. `HelmInv` adds who has claimed a volume, and what a deletion has still to remove.

*Azure.* `BackendLemmas` also proves the loop of `RuleLoop` for any sequence of wanted rules and
any rules a server has. `Through` is the loop's invariant: what is listed and not yet come across
is as listed; every other rule is wanted and says what the last rule of its name among those gone
through says. `LoopBegins`, `LoopSets`, `LoopDeletes` and `LoopEnds` establish it, keep it, and
conclude that the rules are those wanted, once the sequence is used up and nothing is left over.
`FlexInv` has a part each for server, mark, rules and configuration, by the place of the call;
`ConfigInv` says that what is stored and not in force is remembered by the call, as long as none
broke off. `SingleInv` uses the loop twice, for vnet rules and then for firewall rules
(`RuleInv`); `ServerInv` says how far a call has brought the server itself, `LinkInv` that a call
past the endpoint and its record has brought both, and that a list of extensions that is not in
force is followed by a restart. That a published password is the server's, and that a call which
is past the server has brought the one it is going to publish, gives the contract (`PasswordInv`,
in `AzureFlexibleProofs` a part of `ServerInv`). A restart with other options ends every call, so
that what a call has done it has done under the options in force.

*What the backends make of a spec.* `ServerSpecs` takes one step, so `SpecsInv` says what that
step computes; the rest are lemmas about its operators: the smallest step that suffices exists
and is enough (`CapacityEnough`), nothing raises when the default class is among the classes
(`SizeGiven`), and what the window and the version become (`DayGiven`, `VersionGiven`). The
section is in `PostgresqlServerProofs`, which extends both modules: it is the handler of the server
that asks `server_spec_valid` (here `valid_on`) first. The specification is `Translation`.

Only model-checked: everything that must eventually happen (`Converges`, `ComesIntoForce`,
`DeletionCompletes`, `DatabaseConverges`), as fairness and `ENABLED` are out of TLAPS's reach.
Every invariant of every passing run is a theorem.

## 6. Assumptions of the models

- kopf: an essence of spec and label; handlers of one object one at a time; `on.delete` retried
  until it succeeds, then the finalizer goes; the items of a diff in any order. `Reconfigure` of
  `AzureSingle` presumes `handler_on_resume`.
- A call to an azure poller is atomic, as the code waits for its result. Calls to AWS change the
  status at once and are finished later; AWS takes no version below the present one, and deletes
  nothing twice. An azure lock keeps the server from being deleted, not its rules or its endpoint.
- Helm as in the Dockerfile (3.8): `list` shows what is deployed or failed, a pending release is
  not upgraded, a volume keeps the password it was initialised with.
- `_wait_for_server` reads the object, the server and its credentials in one step
  (`postgresql_database.py:116-124`; likewise a deletion, `:86-88`): a server lost between two of the
  reads is one lost right after them, or one whose credentials are not found.
- `AllExtensions` of `AzureFlexible` is a set: the code adds `pg_cron` to the list of the user even if it
  is in it, and the list with it twice loads no more (`azure_postgresqlflexible.py:193-195`).
- A backend applies the password it is given (`PostgresqlServer`); where the modules of the
  backends say otherwise, section 4 does.
- One replica of the operator (the chart's deployment).
- Undocumented error answers of the clouds are `Abort`, at any point.

## 7. Not modelled

`operator.py`, `main.py`, the SDK clients, the charts and the CRDs have no state of their own.
The randomness of `generate_password` is out of TLC's reach; with `password_length` below four
its recursion cannot end. `CREATE EXTENSION`, charset and collation, tags other than the mark,
and the text of maintenance windows carry no property here. An edit of `spec.serverRef` is not
an action: the code forgets the old server in every behaviour. The order of precedence in
`config.py` (`get`, `get_one_of`) is in `ServerSpecs` only as the values that come out of it.

## 8. Plan

Done: everything in the table of section 2.

Left, in this order:
1. The handlers of two databases on one server, and two objects that share a temporary secret
   whose name was cut.
2. `config.py` as operators: `get` and `get_one_of` over nested mappings.
