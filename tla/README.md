# A verification model of db-connection

TLA+ modules, TLC configurations and TLAPS proofs about the library in
`db_connection/`: what it promises about the connections it stores, and why the
promise survives concurrent requests, failing transactions, damaged rows, processes
with different encryption keys and registries, settings that change under load,
and foreign servers that fail at any moment.

Line references are to the sources at the modelled commit; `PROJECT.json` maps
every definition that models code to the lines it stands for.

1. [The system](#1-the-system)
2. [What is hard, and what makes it correct](#2-what-is-hard-and-what-makes-it-correct)
3. [The modules](#3-the-modules)
4. [The runs](#4-the-runs)
5. [The proofs](#5-the-proofs)
6. [Where documentation and code disagree](#6-where-documentation-and-code-disagree)
7. [Abstractions](#7-abstractions)
8. [Not modelled](#8-not-modelled)

## 1. The system

The library stores definitions of connections to foreign services (SQL, Kafka,
S3, FTP, SFTP) in a table of the application that embeds it, and can probe them.
There are two generations of it side by side: the extension
(`fastapi/`, `application/`, `infra/`, `runtime/`, `registry/`, ...) and the
legacy router (`compat/`), each with a table, a limit and an encryption of its
own.

| Component | Source | State | Operations | Talks to |
|---|---|---|---|---|
| Connection service | `application/service.py` | none; one unit of work per request | create, list, get, update, delete, check_payload, check_stored, get_client | policy, ownership, validation, unit of work, connectors |
| Stored connection repository | `infra/repositories.py`, `infra/models.py` | rows of the table | create, list, get, replace, delete (soft) | SQLModel session |
| Unit of work | `infra/unit_of_work.py` | a session and its transaction | enter, exit (rollback, close), commit | database |
| Record mapper, encryption | `infra/record_mapper.py`, `runtime/encryption.py` | the process's key | encode, decode (an undecodable column becomes an empty one and a read issue) | repository, service |
| Runtime settings | `runtime/settings.py` | `_settings`, `_service`, an RLock | update_settings; the properties settings and service | routes |
| Extension, routes | `fastapi/extension.py` | the runtime | one route per operation, error mapping, schemas | runtime, service |
| Validation, driver options | `application/validation.py`, `_driver_options.py`, `domain/` | none | draft to validated connection | registry |
| Policy, ownership | `application/policies.py`, `ownership.py` | none | may a request go on; rewrite of drafts, patches, filters | service |
| Public projection, API mapper | `application/public_projection.py`, `fastapi/mapper.py`, `schemas.py` | none | record to view, body to draft or patch | routes |
| Builder, registry, plugins, DSL | `fastapi/builder.py`, `registry/`, `plugins.py`, `dsl/` | what the host asked for; kinds and types | with_..., build; register, copy, list | validation, projection, connectors read the registry |
| Connectors | `connectors/` | the client of one probe | check, get_client, close | foreign servers |
| Sync/async bridge | `_async_utils.py` | a worker thread per call | run_async_blocking | event loop |
| Legacy manager and routes | `compat/manager.py`, `routes.py`, `dependencies.py` | `ACTIVE_CONNECTIONS` per process | create, update, upsert, delete, check, list, get | the legacy table |
| Legacy models, encryption | `compat/models.py`, `encryption.py`, `meta.py`, `sa_types.py` | field ciphertexts | encrypt and decrypt on bind and load | legacy table |
| Legacy connectors, bridge | `compat/runtime_bridge.py`, `compat/connectors/`, registries | none | legacy properties to runtime drafts; check, get_client | connectors, sync/async bridge |
| Demo, scripts, lint plugins | `app/`, `scripts/`, `tools/` | – | – | – |

How a request runs. A route of the extension reads `self.runtime.service` once
and awaits one operation of that object. create decides ownership, policy and
validation before it opens a session; the other operations begin with a SELECT
inside `_use_uow` (`service.py:334`). The unit of work is the service's own, or
one the caller passed in and ends itself. Every `await session...` lets other
requests of the worker run, and other workers run all the time; nothing but the
database orders them. A legacy route is a coroutine without an await: within a
worker handlers run one after the other, between workers their statements
interleave.

How a probe runs. A connector's check is a chain of calls into a driver library,
on the event loop (async SQL, aiokafka), in a worker of the loop's default pool
(`asyncio.to_thread`), or, for the synchronous legacy connectors, in a thread
with a loop of its own that the caller's loop waits for in `join()`. The legacy
AsyncSQLConnector, a coroutine of its caller, takes a worker of that pool when the driver
has no asynchronous dialect.

How a row is read. The mapper decodes each column and puts an empty value and a
read issue where it cannot; the projector adds the issues it finds itself and
shows a row with any as a broken connection; the service looks at one issue
only, unreadable secrets, and validates what the record then says.

How a process starts. The host calls the builder's methods in any order; `build()`
merges the default types, the host's registry, the configurations, their
plugins, the plugins named, the kinds and the types, in this order, into a new
registry, and the extension keeps it.

## 2. What is hard, and what makes it correct

* **Check, then act.** max_connections is compared with a count and enforced by
  a later INSERT. It cannot be exact; it must be overrun only by creates that
  really overlapped, and the excess must not add up.
* **Read, then write.** update merges a patch into a record it read earlier and
  writes every column, converted: as the mapper decoded it and the models dump it.
  It may lose another's commit, but must never commit a combination of columns that
  was not validated as a whole or revive a row that was deleted meanwhile; and
  when nobody overtook it, the conversion is all that happens to a column it
  does not name.
* **Columns that cannot be read.** What stands in a damaged column reads as
  empty, and update writes every column. Only unreadable secrets stop it; for
  the rest the view of the row must have said so before, and it should be plain
  which rows a client can repair by naming what the view names.
* **One table, several releases.** Processes with other keys, models, drivers and
  importable classes share a row. What one acknowledges, a compatible one must
  be able to show; what the models of one declare, its own writes must keep.
* **Four judges of one row.** Mapper, projector, validation and repair check each
  decide for themselves whether a column is good; they have to agree.
* **Transactions that end badly.** A statement, the COMMIT, the answer to the
  COMMIT, the caller or the view of the new connection may fail. No path may keep
  a row locked, leave a trace of a refusal or say "ok" for what is not stored.
* **Settings that change under load.** Two attributes, two assignments, readers
  without a lock; requests that keep the service object they were routed to.
* **A cached count.** The legacy manager never counts again once it has seen a
  row, in any worker, for any user.
* **Resources of a probe.** Every library call may raise, every await may be
  cancelled, a thread cannot be. What was opened has to be closed on every path
  that has a finally block, and the answer has to say what happened.
* **A bridge that blocks.** A synchronous legacy check keeps the event loop of
  its caller waiting; it must not wait for something only that loop can do.
* **Three tables of drivers.** The registry, the legacy bridge and the SQL
  connector each name drivers and dialects; what one accepts the next must know,
  and a legacy connection must keep the URL it had.
* **Start-up in any order.** Names collide, plugins fail halfway, the host goes on
  registering. A build must succeed exactly when it can, and leave nothing behind.

`PROJECT.json` lists each of them at its line, with the properties that would
catch it going wrong.

## 3. The modules

**ConnectionCatalog** – what a caller may rely on. A request changes the table at
most once, atomically, with its answer; "ok" means the change is there,
"refused" means there is none and never will be, "failed" leaves it open; ids
are not reused, rows do not leave, deleted rows stay deleted.

**ConnectionService** – `service.py` over `repositories.py`, `unit_of_work.py`,
`record_mapper.py`. One action is one database statement with the synchronous code
up to the next.

| Action | Code |
|---|---|
| CreateStart, CreateCount, CreateInsert | `ConnectionService.create`: ownership, policy and validation; the count; the INSERT |
| UpdateRead, UpdateWrite | `update`: `get`, the repair check, merge and validation; `repository.replace` |
| DeleteRead, DeleteWrite | `delete`; `repository.delete` |
| CheckRead, CheckProbe | `check_stored` with the session open during the probe |
| Fail | any failure or cancellation while a session is open |
| Commit | `uow.commit()`, by the service or by the caller that owns it; the answer may be lost, the create route's view may fail |
| Close, OwnerRollback | `__aexit__` of the service's unit of work; the caller's own end |

State: the committed table `db`; per request its place `pc`, its `call`, the
merged `draft`, the row `pend` its transaction has written (and thereby holds),
its `outcome`. Three history variables serve the properties: `applied` (the write is
committed), `stale` (another committed the row since it was read) and `since`
(creates committed since the count). A row is `deleted`, a `config` (one value per
plain column) and sealed `secrets` (contents and key). `Decode` is the mapper's part of
an update, `Dump` and `DumpSecrets` are `_to_persisted_draft`; the constants `Decoded`,
`Dumped` and `DumpedSecrets` say what becomes of each value, and a stored row may be
one that either changes.

**RuntimeSettings** – `DBConnectionRuntime`: UpdateSettings (take the lock, assign
`_settings`), BuildService, AssignService, ReturnSettings; the properties read
without the lock.

**ConnectionSystem** – the two composed: Route starts a request under the limit of
the service object in place, Serve continues it, Reconfigure is a step of a
thread in update_settings.

**LegacyManager** – the legacy routes and `ConnectionManager`. Validate (count or
cached count, and the decision), StartDelete, Load, SaveNew and SaveLoaded (flush
and COMMIT, the write of exactly the columns that changed), Fail, Restart (the
only thing that resets the count). `overtaken` is a history variable: the rows
a handler's user got from others since the handler counted.

**StoredRecord** – one row through the code that writes and reads its columns.
A request is a step here and the columns differ; ConnectionService is the other
way round. Receive is the mapper's draft or patch, Create, Update and Check the
service (Check also stands for `get_client` of a stored record); ToRecord and
ReadIssues are `StoredConnectionRecordMapper`, ViewIssues and Builds the
projector, Validates the validation, MustRepair the repair check, Persisted what
is written. Constants give each process a TypeSpec and a key. Its properties and
secrets models take values by field, require some and may forbid others (`Fits`); what they
dump has every declared field and no other (`Dump`). The row may hold what no
process wrote.

**RegistryBuilder** – `DBConnectionExtensionBuilder`, `ConnectionRegistry`, plugins and
DSL. An action per with_ method; `build()` is a sequence of steps kept in `todo`
(merge, configurations, plugin requests, loading, single registrations), each of
which may raise; HostRegisters is the host at work on its own registry and on
those it has built. DefaultRegistry is the real one.

**ConnectorCalls** – check and get_client of the five connectors and the legacy
ones over them. `SQLSteps`, `FTPSteps`, ... are the chains of library calls, with
what each Opens and Closes, which exceptions are swallowed and where the others
go (Cleanup). Begin, Take and Deliver are the loop and its pool; Succeed, Swallow
and Raise a library call; CancelAwait and CancelThread a cancelled task;
`holder` is the task whose legacy call keeps the loop in join().

**SqlUrl** – pure decisions. A legacy connection through `to_runtime_draft`, a draft
through validation, driver and dialect into the URL's options, one step each. The
reference is the old `url_builder.DIALECTS` with its adapters, which no code
calls any more (`AdapterQuery`; the adapters of mssql refuse an ODBC driver without a
name).

**MC...** modules hold symmetry sets and constants for TLC, **...Proofs** modules
the theorems. Operators commented "Mutant" (`NeverRepair`, `OverLimit`, ...)
are plausible bugs, one for each property; they are no part of the
specifications and show that the property can fail.

## 4. The runs

| Run | Instance | Shows |
|---|---|---|
| `row` | 2 updates and deletes, 1 row, 2 coupled columns of 3 values, 2 secrets, 2 keys, units of work of the callers | no invalid mix of columns, no revival, fresh writes are exact but for the conversion, undecryptable secrets are never overwritten |
| `catalog` | 2 requests, all operations, 3 ids, own and foreign units of work | the inductive invariant, honest answers, refusals without trace, the refinement of ConnectionCatalog |
| `liveness` | 3 writers of one row | every request that starts ends |
| `system` | 3 creates and deletes, 4 ids, 1 updating thread, limit 1 or none | the overrun of max_connections is at most the creates that committed in between and does not add up while the limit stands |
| `runtime` | 3 threads, 3 limits, none | service and settings agree between updates, new settings reach the service |
| `runtime_atomic` | 1 thread | violation: the two are not replaced atomically (section 6) |
| `legacy` | 2 workers, a user and an administrator, 2 keys, limit 1 | the legacy invariant, no revival, exact saves, bounded overrun on a fresh count |
| `legacy_refusal` | 1 worker, 1 user, 2 keys, limit 1 | violation: a refusal does not mean that the limit is reached (section 6) |
| `stored` | 4 processes, every row with up to 2 unusual columns, every patch of up to 2 | what is shown as valid can be used, what was acknowledged reads back, what the models declare is kept, which rows a patch repairs |
| `registry` | 4 calls, 2 builds, 5 configurations, 4 entry points, a host that registers | builds are what was asked for, fail exactly when they must, and can be repeated |
| `connectors` | 2 tasks, 1 pool thread, mixed calls | what stays open, what is answered, which clients are whole, every call ends |
| `urls` | all types, drivers, modes and settings, 1 timeout | legacy URLs are unchanged, what validation accepts the connector can build |

Why the bounds are enough. A lost update or a revival needs two writers of one
row; mixing columns needs two columns with two values each, and the conversions a third: in
one column it is a value the models dump as another (a default filled in), in the other
a damaged one that reads as another; one of the two secrets has a field the model
does not declare. In `row` the callers own the units of work, the harder case for the
row: they may commit or roll back after anything the service answered; both owners mix
in `catalog` and `liveness`, and the theorems hold for both. A check writes nothing and
is in `catalog`. The overrun is a sum
over creates, so `system` has three of them and a row there before. Waiting for each
other needs two holders and one that waits. A request is one operation and an id
is never reused, so the state space is finite without a bound on a counter:
`since` counts creates, at most as many as there are ids. `overtaken` stays small
in `legacy` because the second user is an administrator, whose count includes
every row, so that the two users cannot pass a row to and fro by upserts; the
theorem has no such restriction. Two workers and two keys are enough there for an
insert, an update and a delete to overtake each other; a worker runs any number
of requests, and restarts at any moment.

In `stored` a column is judged on its own but for driver and options, so two
columns out of the ordinary (`MaxChanged`) and two named (`MaxNamed`) show every
pair; `metadata` and `extra` go through the code of `labels`, hence are healthy at
first and not patched. The four processes are a release, the next one (a field
more, and required; stricter; more options), one with another key and no secrets
model, and one without the type. In `registry` a collision needs two
registrations and a plugin, a configuration or a host that comes between them:
four calls (`MaxCalls`) hold a unit of work factory and three others, and two
builds (`MaxBuilds`) are what repeating needs. In `connectors` the jobs put the
loop, the pool and a private thread next to each other; calls share nothing but
the loop and the pool, so a third task adds a third place in a queue.

Symmetry is used over requests, over the ids a create may draw, over the encryption
keys in `row` (they are only compared with each other) and over legacy workers and
keys, which nothing in the modules tells apart, and not in the liveness runs.

Deadlock is checked except where the system may really stop: `connectors` when all
calls have ended, `registry` when the host has made its calls and builds,
`urls` when the URL is made. ConnectionService has the step Quiet for the moment
when all requests have ended, and every other state has a step.

Fairness. `FairSpec` asks that a statement the database can run is run and that
a caller that owns a unit of work ends it: the event loop resumes a coroutine
whose await is done, a statement that waits for a row lock goes on when the lock is
free and `async with` runs `__aexit__`. It does not ask that an operation succeeds or that a
client sends another one. That WF suffices where writers wait for a row is due to
the finite number of requests. `RuntimeFairSpec` asks that a thread inside
update_settings runs on; it does not ask that anybody calls it.
`ConnectorFairness` asks that a library call returns or raises (they have
timeouts, or the operating system has), that a free pool thread takes a waiting
call and that the loop, when it is free, resumes whose call is over. It asks
for no success, and for nothing of the loop while it is kept in join().

## 5. The proofs

TLAPS proves for every number of requests, ids, columns, keys, threads, workers,
users, tasks, processes and registrations what the runs show on small instances. The assumptions on constants
are named: `DataAssumption`, `ConversionAssumption` (a model takes again what it dumped,
so that a row the service wrote stays valid), `SentinelAssumption` (Python's None and the blank
secrets are distinct from the data), `IdAssumption` (finitely many requests, and
uuid4 does not run out of ids), `RuntimeAssumption`, `SystemAssumption`,
`LegacyAssumption`, `LegacySentinels`, `ConnectorAssumption`, `OutcomesAssumption`,
`StoredAssumption`, `PatchAssumption`, `SpecAssumption`, `BuilderAssumption` and
`SqlAssumption` (None is no connection, driver or dialect); TLC evaluates them in the
runs.

**ConnectionServiceProofs** proves `IInv` inductive, then each safety and action
property from it. None of the properties is inductive alone:

* `CommittedRowsValid` and `SecretsNeverBlanked` need that a draft about to be
  written is validated and unblanked (`DraftInv`) and stays so while it
  is pending (`PendInv`).
* `AnswerIsHonest` and `RefusalLeavesNoTrace` need where an outcome may occur
  (`OutcomeInv`) and which operation a label belongs to (`PhaseInv`).
* `DeletedForever` needs that a pending update has the `deleted` of the committed
  row (`RowInv`), which holds only because a row has one holder (`OneHolder`).
* `LimitOverrunBounded` needs that an admitted create leaves room for itself but
  for those that overtook it: `NumLive(db) < limit + since` (`AdmissionInv`).
* `FreshWriteIsExact` needs that a draft that is not stale still holds, outside the
  patch, the decoded columns of the committed row, and a pending row what the models
  dump of them (`FreshInv`).

Each kind of step has a lemma (CreateStartInv, ReadInv, CountInv, InsertInv,
WriteInv, EndInv, CommitInv, ...); the commit is the one step that disturbs the
others' conjuncts, and CommitTable isolates what it does to the table.

Its last part proves `Spec => ImplementsCatalog`: committing is the catalog's
Perform, ending any other way its Answer, and all else stutters.

**RuntimeSettingsProofs** proves the lock's invariant `RuntimeInv`, the types among it.
**ConnectionSystemProofs** proves `LimitHolds`, with the theorems of the service, whose steps
are the composition's by construction: while one limit has been in force for all
creates, some committed create bounds the table by the limit and the creates that
raced it, however many have come and gone.

**LegacyManagerProofs** proves `LegacyInv` inductive: a loaded row was live and
is in the table still (`LoadedInv`); who was admitted on a count of its own has
room left but for the rows its user got since (`RoomInv`). `CountStep`, one row
changes a count by at most one, carries the bound through another worker's
save; exact saves and lasting deletion then follow from what the UPDATE writes.

**StoredRecordProofs** needs no history: each property follows from what one
request does to a row whatever it is, given `StoredTypeOK`.

* `ValidView`: a row without issues decodes in full and passes the validation, so
  `ValidViewIsUsable` needs only that the repair check looks at fewer issues.
* `PersistedReadsBack`: what a writer's models accepted and dumped, a compatible
  reader's models take. It rests on `SpecAssumption`: a model takes its own defaults
  and what it dumped, and the options of a driver can be imported by the
  reference they were stored under (a class of a module, not of a function body).
  A registration that breaks this loses the property.
* `MergeHolds`: a column the patch does not name and the view did not complain of
  is decoded to what was stored; `DeclaredDataIsKept` is this through Persisted and
  Handed, which keep of an object the fields its model declares.
* `NamingTheBrokenRepairs`: every condition the validation and the repair check can
  fail on, if the type is known and the kind its own, belongs to a column some issue names.
  `RepairRules` has the two exceptions next to it (section 6).

**RegistryProofs** proves `RegistryInv` inductive: besides the types, every registry is
`Consistent`, half-built ones included, the registry to be merged exists
(`MergeHasSource`) and a running build is the one after the last result
(`NextResult`). `RegisteringIsGood` and `MergingIsGood` carry consistency
through a registration and a merge, `Replacing`, `Advancing` and `Failing` are
the three ways a step of a build ends. `MergesAlwaysFit` says that neither the merge
of the host's registry nor the copy of it can raise: the code handles an error
there that cannot occur. Two more arguments rest on it.

* `BuildsRepeat`. What a build does next is a function of the builder, of the registry it
  was given, and of the build itself (`After`; `StepFollows` shows that every action
  of a build is this function). Each result, and the build under way, is a run of it
  from the same opening state (`ComesTo`), and a run that is over has one end
  (`OverIsTheEnd`). `RepeatInv` says so of every result since the last call to the
  builder (`Latest`). It is inductive because the registry merged is the builder's own
  copy (`OwnCopy`), which no registration by the host touches (`HostLeavesCopy`):
  without the copy in `with_registry` the argument breaks there.
* `BuildsAsDeclared`. `Means` gives each step of a build the registrations it stands for,
  `StepWorks` whether a part it uses fails. `DeclaredInv`: the registrations made so far,
  followed by those the steps ahead stand for, are all that was asked for
  (`Asked`), each made so far could be made and the registry is what they left
  (`Done`); and some part is going to fail exactly if one does of all there are.
  `PlanStands` is this when a build starts. A step that is replaced by
  others stands for the same as they do (`ConfigStands`, `PluginsStand`, `RequestStands`,
  `EntryPointStands`), a registration moves from what is ahead to what is done
  (`OneMoreRegistration`), and a step that raises shows that the whole
  could not be built, since a registration depends only on those before it
  (`EarlierOnly`).

The second needs induction over sequences. The library's induction theorem takes an
operator, which the provers cannot instantiate; `AllSequences` states it of a set
instead (a set with the empty sequence that is closed under Append has them all), from
the least element `LeastNat` finds. With it, `FlattenSeq` is shown to be
what its recursive function says (`FlattenIs`) and to commute with concatenation
(`FlattenConcat`).

**ConnectorCallsProofs** proves `ConnectorInv`, a conjunction over the tasks: where a
call is in its chain, what it then holds (`Holding`), and how its verdict and
answer came about. `OtherTask` says that a step of one task leaves the
conjuncts of the others alone but for who keeps the loop, so that each action is
a lemma about its own task. The three safety properties follow from the invariant.

**SqlUrlProofs** proves the decisions of SqlUrl for all timeouts, certificates and ODBC
drivers a connection may name; `urls` has one of each. (An old query with a key "failed"
would look like a refusal; `QueriesAreNone` shows that there is none.) `SqlInv` is that each stage (draft,
connection, URL) is what it makes of the one before. The options are merges, and a
merge of options with different keys can be taken in any order (`Assoc`, `Comm`, `Swap`),
so per driver the connector's options are compared with the adapter's
(`PsycopgOptions`, `AsyncpgOptions`, ...) though the two write them in another order.
`DialectsFit` compares the registered drivers with the old table, entry by entry;
`DraftAccepted` goes through all reasons the validation has to refuse what the bridge
drafted. `LegacyUrlFollows` and `AcceptedFollows` put these together.

The prover rejected three definitions TLC had accepted: the cases of `LegacyDriver` and
`Runtime` in SqlUrl and of `Error` in RegistryBuilder overlapped, so that CHOOSE
might have taken either. They are disjoint now, in the order of the code's tests.

Every safety invariant and action property of the passing runs has a theorem. Only
model-checked are `EveryRequestEnds`, `SettingsReachService` and `EveryCallEnds`, as
liveness under fairness is beyond the prover.

## 6. Where documentation and code disagree

* `README.md:167` says that update_settings "atomically rebuilds the service
  layer". It assigns `_settings`, then `_service`, under a lock no reader takes
  (`runtime/settings.py:93-94`): a reader can see the new settings next to the old
  service (`runtime_atomic`). What does hold is `ServiceMatchesSettings`,
  between updates.
* `compat/routes.py:152` tells a refused client to delete connections. The count
  is kept from the first request that sees a row (`compat/manager.py:85`): after
  the delete the same worker refuses as before, until it restarts
  (`legacy_refusal`). What does hold is `FreshAdmissionBounded`.

Behaviour that no text contradicts, but that a reader would not expect:

* An update that does not name a column which reads as empty (labels, metadata,
  extra, driver options, properties, secrets that are no mapping) writes the
  empty value over what was stored. The broken view announces it; only secrets
  that cannot be decrypted stop the update.
* An update writes back what the models of the process dump, also of the columns the
  patch leaves out: a property or a secret the model does not declare (a field of a
  newer release) is dropped, and all secrets are if the type has no secrets model
  (`service.py:300-301`). No view announces this; `DeclaredDataIsKept` promises only the
  declared fields, `FreshWriteIsExact` only the dumped value.
* Two broken rows are not repaired by naming the columns of the view's issues. A driver
  the process does not know is reported as invalid driver options
  (`public_projection.py:145`) and needs a patch of `driver`; a row of an unknown type or
  another kind than its type's is refused whatever the patch, since kind and type cannot be
  patched. `RepairRules` states both.
* A legacy mssql connection whose ODBC driver name is the empty text was refused by the
  old adapters (`url_builder.py:132`, `156`); the bridge asks only whether it is None
  (`runtime_bridge.py:112`), so it now gets a URL with an empty driver. It is the one
  connection that went from refused to built (`LegacyUrlUnchanged`).
* PATCH with an explicit null for labels or metadata passes the validation and
  raises TypeError in `dict(None)` (answer "error" in StoredRecord).
* A DSL type whose default driver is not among its driver_specs leaves `build()` as
  a bare ValueError, in a plugin as InfrastructureError (outcome "value_error").
* The limits of a DSL configuration and of with_max_connections go through
  `model_copy` and are not validated; `with_max_connections(None)` means unlimited
  whatever the settings say.
* A kind given by with_kind is registered last, so no configuration or plugin can
  have a type of it.
* A check of aiokafka that is cancelled answers "failed" when closing the admin
  client raises; `get_client` cancelled while a thread makes the client leaves a
  client nobody closes; a SQL check that fails leaves its pooled connection to the
  garbage collector.
* The driver functions of the legacy `SqlConnectionProperties` for PostgreSQL never
  take effect through the default registry, and `url_builder.DIALECTS` is
  called from nowhere; it serves the project as the reference of `LegacyUrlUnchanged`.

## 7. Abstractions

* The database is external: READ COMMITTED; a write holds its row until its
  transaction ends; a statement that waits is a disabled action. A writer
  touches one row per transaction, so no cycle of waits arises among them.
* One operation per unit of work: a caller that puts several in one transaction is
  not modelled. A client that sends several requests is several requests.
* list filters, names, timestamps and paging are left out. The count of create
  uses the unfiltered list, as in the code.
* A policy may deny whatever it is asked; resolvers that rewrite drafts or patches
  are not modelled (the default one changes nothing).
* In ConnectionService validation is a set of invalid configurations: in the runs,
  two columns that have to agree, as a driver and its options do. StoredRecord has
  the decision itself, over models that accept sets of values per field; a
  validator that relates two fields is not expressible there.
* In StoredRecord the public model of a type takes what its model takes, as every
  registered one does, being the model itself.
* In RegistryBuilder the parts of a spec no lookup depends on are one value
  (`from`). Specs are shared by copies of a registry, as `dataclasses.replace` shares
  their sets and lists; no code changes one after it is constructed.
* In ConnectionService what a value is dumped as depends on its column alone, though the
  options model is chosen by the driver; and reading and dumping secrets is one map.
  StoredRecord has models per process and the driver's choice of options.
* In RegistryBuilder a plugin that raises makes the build fail as "infrastructure"; a
  DBConnectionError of its own would keep its code (`plugins.py:25`). No property tells
  the two apart.
* A connector's library call is one step that succeeds, raises, or is cancelled at
  its await. What a library has opened when it raises is any part of what the
  step would have opened.
* The legacy upsert may give the row to another user; that is in the model
  and no property is about it. `updated_at` is left out. The count belongs to the
  whole manager, as in the code, though each user counts differently.

## 8. Not modelled

* **Legacy models and encryption.** `compat/models.py`, `sa_types.py`, `schemas.py` and
  `connection_properties.py` declare tables and schemas. `compat/encryption.py`
  returns a value it cannot decrypt as it is, and its prefix keeps it from being
  encrypted again; the project holds no legacy ciphertext to say more about.
* **Schema building.** `fastapi/schema_builders.py` derives the request and response
  unions from the registry once, when the extension is constructed: a type that
  is registered in that registry later can be stored and read by the service and is
  not in them. `compat/router.py` and `signature_builder.py` do the like for the
  legacy routes. None has state afterwards.
* **Error mapping, informational routes, the traceback route class**: formatting, and
  reads of the registry.
* **Demo application, scripts, lint plugins**: consumers of the library and tooling,
  no part of it.
