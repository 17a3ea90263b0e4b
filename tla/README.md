# Verification of the upstream sensor service

TLA+ modules, TLC configurations and TLAPS proofs for `upstream-docker-pods`:
the chunked uploads of sensor data and the workers that load them, the derived
data they refresh, the catalogue they hang below and its publication in CKAN,
what clients read while all that happens, who may do it, and the migration of
the measurements to a partitioned table. Paths below are relative to `src/`; the
modules quote the functions they model by name, and `PROJECT.json` maps every
definition to its lines.

    tlc -config ImportPipeline_two.cfg MCImportPipeline     # a run
    tlapm ImportPipelineProofs.tla                          # a proof

## 1. The system

The service is a FastAPI application over PostgreSQL (PostGIS). Campaigns own
stations, stations own sensors, sensors own measurements. Everything that is
more than one transaction on one row is here:

| part | state it keeps | operations | interacts with |
|---|---|---|---|
| import manifest API (`routes/upload_file/upload_imports.py`, `services/upload_import_storage.py`) | `upload_imports` and `upload_import_chunks` rows; `chunk-<n>.csv` and `sensors.csv` below `BULK_IMPORT_STORAGE_PATH` | create, upload a chunk, seal ("finalize"), status, roll a backfill back | the row lock (`SELECT FOR UPDATE`), the storage root the workers read |
| ingestion worker (`workers/process_upload_imports.py`, `services/upload_import_service.py`) | the import's status, attempts, token, lease and counters; receipts; measurements | claim, heartbeat, load batch by batch, receipt, mark loaded, fail or re-queue, clean up | polls the rows; hands over to post-processing by `status = data_loaded` |
| post-processing worker (same files) | the row's `post_processing_*` columns; `sensor_statistics`; the station's geometry | claim, heartbeat, refresh sensors, advance the durable stage, refresh geometry, complete, fail | polls the rows, in the develop deployment in the process that also ingests; removes the files and the backfill's tables |
| isolated backfill (`services/upload_import_backfill_service.py`) | `upload_import_backfills` (phase, cursors, counts); a raw and a shadow table per import | ensure, stage, materialize, validate, merge, rollback, drop | called by the ingestion worker; rolled back by the API; cleaned up by the post-processing worker |
| synchronous upload (`routes/upload_file/upload_csv.py`, `utils/upload_csv.py`, `utils/bulk_upload_csv.py`) | `upload_file_events` receipts | one request per chunk; the last one verifies and post-processes | shares measurements, statistics and geometry; schedules a CKAN task |
| sensor statistics (`sensor_repository.py`, `sensor_service.py`, the SQL functions of migration `20261019`) | one `sensor_statistics` row per sensor | delete, seed, update, forced refresh, delete with the measurements | called by both upload paths and by the sensor routes |
| catalogue (`campaign_*`, `station_*`, `sensor_*` services and repositories, `metadata_schema_service.py`) | rows of campaigns, stations, sensors, their metadata, the metadata schemas | create, edit, publish, delete, in cascades that the code writes itself | uploads add sensors and set a station's geometry meanwhile |
| publication and the CKAN client (`campaign_stations.py`, `ckan_publish.py`, `ckan_service.py`) | `is_published` flags; the dataset in CKAN | create, publish, unpublish, delete, sync after an upload, a request with its retries | an external service, no common transaction |
| access (`dependencies/auth.py`, `dependencies/ckan.py`, `core/roles.py`, `tas_service.py`, `project_discovery.py`) | `user_roles`; signed tokens; two memories per process with a lifetime | sign in, elevate by a TAS allocation, look the role up, discover instances, restrict to organizations | Tapis, TAS, CKAN, the other instances; administrators edit the row |
| measurement reads (`measurement_repository.py`, `measurement_service.py`, `lttb.py`, the SQL function of migration `9e1f2a3b4c5d`) | none | a page with its statistics, downsampling, intervals | several statements over a table that uploads change |
| CSV export (`export_service.py`) | a generator that runs while the client reads | sensors, measurements | the same |
| partition migration prototype (`scripts/partition_measurements_develop.py`, `seed_measurement_identity_develop.py`, migration `20261006`) | a phase table with cursors, a registry of identities, two tables under changing names | seed, prepare, cutover, rollback | an operator runs it step by step beside the API's writers |
| the rest | notes; the Pods bundle; settings | one request, one transaction | -- |

What is hard in it:

- **Interleaving.** The API, two kinds of workers and the owner's rollback write
  one `upload_imports` row. Sessions run at READ COMMITTED; a commit expires ORM
  objects, and `SELECT FOR UPDATE` locks a row without reloading an object that
  the session already holds.
- **Leases.** A worker that outlives its lease goes on beside its successor, and
  only some of its writes are conditional on its token.
- **Crashes.** Chunks, batches, receipts, cursors, tables, renames, files and
  statuses are separate commits. Every pair of neighbours may be separated by a
  crash.
- **Failure paths that clean up.** A failed request unlinks files and a failed
  attempt may remove storage, at a moment when somebody else may own them.
- **Check, then act.** The synchronous path decides from receipts it read in
  an earlier transaction; metadata are validated against a schema that may
  change before the commit; a role is read, TAS is asked, and then it is written.
- **Derived data.** Statistics are deleted and rebuilt by concurrent writers; a
  geometry that was read is written back by later commits of the same session.
- **Two systems.** Publication changes CKAN by a series of calls, each of which
  may be executed without an answer and is then repeated, and the database after
  it.
- **Paging a table that moves.** Pages, counts and statistics come from a
  statement each.

What makes each part correct: a receipt has its file, and bytes agree with
receipts (manifest); a receipt has its values, `data_loaded` means all of them, a
retry keeps its files, and loading ends (ingestion); one owner, a durable
stage, and `completed` means refreshed (post-processing); no bucket or page lost
or doubled, and a rollback that is complete and touches nothing else (backfill);
a session is finalized only when complete (synchronous upload); figures exist
and cover the measurements (statistics); deletions leave nothing behind, an edit
changes what its request names, metadata satisfy the schema, the geometry is the
last upload's (catalogue); what a response says of a publication is so in both
systems (publication); nobody loses a role by being elevated, discovery is
whole, and an organization that was left does not count for long (access); a
line or reading that stays is listed once, what is listed was true, and an
aggregation counts every reading once (reads and export); no row is lost or
doubled by a migration that is interrupted anywhere (partition migration).

## 2. The modules

| module | models | proofs |
|---|---|---|
| `ImportManifest` | the chunk handler step by step, the row lock, the files, sealing | `ImportManifestProofs` |
| `ImportRecord` | what of an import row both workers share, and `cleanup_import_storage` | |
| `ImportWorker` | `run_once`, `claim_import` ... `mark_import_failure` | `ImportWorkerProofs` |
| `PostProcess` | `run_post_process_once`, `claim_post_processing` ... `mark_post_processing_failure` | `ImportPipelineProofs` |
| `ImportPipeline` | the worker processes: both of the above on the same rows, `run_poll_all_loop`, crashes and restarts | `ImportPipelineProofs` |
| `ImportLifecycle` | the abstract specification: what an import promises, without workers | |
| `Backfill` | a backfill import from its claim to its merge, with rollback and clean-up | `PagingProofs` |
| `UploadSession` | the requests of one synchronous session | `MeasurementProofs` |
| `SensorStatistics` | the transactions on one `sensor_statistics` row | `MeasurementProofs` |
| `Catalog` | a campaign, its stations and sensors, the metadata schema; requests statement by statement | `CatalogProofs` |
| `Publication` | the requests and tasks about one station, call by call, and its datasets | `RemoteServiceProofs` |
| `Access` | one user's role, tokens, elevation, discovery and remembered organizations | `RemoteServiceProofs` |
| `MeasurementRead` | the list page by page, downsampling, and the aggregation into intervals | `MeasurementProofs` |
| `Export` | both CSV generators | `PagingProofs` |
| `PartitionMigration` | seed, prepare, cutover and rollback, transaction by transaction | `PartitionMigrationProofs` |

`ImportRecord` is extended by `ImportWorker`, `PostProcess` and `ImportPipeline`.
`ImportPipeline` takes an INSTANCE of each of the two workers (`W`, `P`) over one
row, one set of files and one budget of faults: a process polls the queues of its
mode, and `turn` says which it works for, or polls next. With it the pipeline is
shown to implement `ImportLifecycle` under a refinement mapping: `queued` and
`processing` are *loading*, `data_loaded` is *loaded*, or *abandoned* when its
refreshes were given up, visible values are the keys in measurements, and kept
imports are those with files. The `MC...` modules only give the constants their
values; `SensorStatistics` and `Publication` need none. `PublicationInit`,
`ExportSpec` and the like are named apart because a module of proofs extends two.

Conventions. One database transaction is one step; two statements in two
transactions are two steps, with the values read by the first in a local
variable. `pc[w]` says where a handler or worker is. An action has the name of
the function whose transaction it is, or of what that transaction does. A step
that may raise has its failure as an alternative (`LoadError`, `StageError`,
`Fail`, the disjuncts of `Persist`), since the code catches all exceptions
at one place. A definition whose comment begins with *Mutant* is a plausible bug
of the definition after it and is used by no specification.

How the state corresponds to the code:

- **Tokens** are `uuid4` in the code and `attempts + 1` here: fresh in both.
- **Leases** have no clock: `none`, `live`, `expired`. A lease of a worker that
  is gone may expire at any time (`OrphanExpires`, fair), one of a live worker by
  a *stall*, which is counted as a fault. `claim_import` takes a row that is
  `queued` or `processing` with an expired lease, as the query does;
  `FOR UPDATE SKIP LOCKED` makes a claim one step that another cannot share.
- **Batches.** `Content[i][c]` is a sequence of batches, each a set of keys
  `(sensorid, collectiontime)`; a key of two chunks or two imports is a conflict
  that `ON CONFLICT DO NOTHING` reports to one of them.
- **`ImportPipeline`.** `Polls[p]` is the mode of process `p` (ingestion,
  `--post-process-poll`, `--poll-all`). One call of `run_once` or
  `run_post_process_once` ends when its worker is idle again, or at once when
  nothing can be claimed; then the turn passes to the other queue of the mode. A
  crash ends the call and the restarted process begins with its first queue.
- **`ImportManifest`.** A content stands for its SHA-256. `bytes[r]` is
  `received_bytes` as the handler loaded it under the lock. `Persist` covers the
  temporary file, its size and its digest. `Rollback` frees the row; `Unlink`
  and `UnlinkSensors` come after it, as in the `except` branch.
- **`Backfill`.** `view[w]` is the state row as the worker's session has it
  loaded; the code's `with_for_update` queries do not reload it, and an UPDATE
  leaves out a column set to its loaded value. `StartMaterializing`, `MergePage`
  and `rollback_backfill` say so explicitly, because it decides what is written.
- **`UploadSession`.** A sensor is identified by the request that created it, so
  that two rows for one alias can be told apart; `LookUpSensor` picks any, like
  `.first()` without an order.
- **`SensorStatistics`.** `row` is the committed version and `pending` the one
  that `holder` has not committed: DELETE and UPDATE do not see it, INSERT ...
  ON CONFLICT waits for it. Each statement has a snapshot of its own.
- **`Publication`.** `job` is the sequence of requests and tasks in the order in
  which they began; `pc` names the next remote call or transaction. A sensor that
  is gone by its turn is skipped, or ends the job: `ObjectDeletedError`, if the
  session held its row. The handlers
  that are `async def` block the only event loop (`CKANService` uses `requests`
  and `time.sleep`), so `Enter` lets at most one of them run; `delete_station` is
  a `def` and the upload's task runs after the response, both on threads. Each
  call is `_request(j, accepted, after, answered, rejected, failed)`: executed
  and answered, rejected by CKAN, unanswered with or without effect and repeated
  while attempts remain, or refused. A dataset is addressed by the name or the id
  that the code sends; ids tell a dataset from a later one of its name. The
  search for a station's datasets (two queries whose results are joined) is one
  call, and `force`, which only refreshes `published_at`, is left out.
  `Initially` says whether the station is new or was published by an earlier
  version of the service, whose dataset names `unpublish_station` still tries.
- **`Catalog`.** A request's session keeps what it has read until it commits, and
  a commit writes only the columns (metadata among them) whose value is another
  than the one loaded: `Load` chooses which of those named that are; a row that is gone by
  then is a `StaleDataError`. `row[r][f]` is the request whose value a column
  holds. Geometries are numbered by the refresh that computed them, so that an
  old one that is written back can be told; that `get_campaign` writes back the text
  of `ST_AsGeoJSON`, thus coordinates rounded to its digits, is left out. The foreign keys set `campaignid` and
  `stationid` to NULL, which are `orphan`s. Routes that are `def` run on threads,
  so two requests interleave between any two statements.
- **`Access`.** Ages stand for the clock: of the last question to TAS up to
  `CheckTTL`, of the remembered organizations up to `TTL`, which begins when
  CKAN's answer is kept; the answer is under way for up to `MaxLag`, and as
  `_fetch_user_organizations` does not await, no other request is taken meanwhile.
  A call reads the role, notes the time (`Stamp`, a step of its own, so two calls
  may both ask), asks TAS, and then finds and writes the row in a session of its
  own. A token carries the role of its sign-in for ever; a discovery forwards one
  of these or a token of Tapis. APPROVEDADMIN has ADMIN's rank and is left out. Of
  the other instances, each answers with a role or with none, which is not listed.
- **`MeasurementRead`.** A time is a number of half seconds, so that the rounding
  of `EXTRACT(EPOCH ...)::INTEGER` shows. `cut[k]` is `int(k * bucket_size)` of
  the downsampling, of which the float may be one less at an integer; of the
  largest areas any may win. Minimum, maximum and average are a statement each.
- **`Export`.** Every page and every line's values are read by a statement of
  their own. A key is a combination of time and place in the order of the pages;
  `alias` names the columns, and NULL aliases are skipped as the code does.
- **`PartitionMigration`.** There are two tables, `plain` and `parted`, and two
  variables for the names they have (`measurements`, `..._legacy`,
  `..._shadow`, `..._failed`; the plain table is `measurements` or `..._legacy`). Phase and cursors are as in the state table,
  `at[o]` is where the operator's command is, and a step whose statement
  PostgreSQL would refuse ends the command. A copy is one step per partition, as
  one `INSERT ... SELECT` and its cursor share a transaction; a seed counts in one
  step and creates its trigger in another, as READ COMMITTED shows it each
  statement's own snapshot.

Some variables belong to the statements and not to the code. They are set by the
environment or record history, and no action of the code reads them:

- `orderly` (`ImportManifest`): the client never has two requests for one chunk
  at a time and no commit goes unanswered. Chosen once, at the start.
- `overrun` (`PostProcess`): the imports on which a live worker has outlived its
  lease.
- `sequential` (`UploadSession`): the client sends a request only after the
  answer to the one before. Chosen once, at the start.
- `disturbed` (`SensorStatistics`): since the last refresh that began alone,
  another one began within it, or one failed.
- `faulty` and `overlapped` of a job (`Publication`): one of its calls was not
  answered or was refused; another job ran while it did.
- `refreshed`, `overtaken`, `late`, `outdated` (`Catalog`): the last refresh of a
  station; stations refreshed while a session held an older geometry; sensors
  added between the two transactions of a deletion; stations whose schema changed
  after their metadata were checked.
- `overtaken`, `without`, `failed` of a call, `stale` of a token, `since`
  (`Access`): the user has had a higher role since the one that the call goes by
  was read; instances at which it had none meanwhile; instances that did not
  answer; a higher role since the token's was read; the time since its membership
  of the organization changed.
- `steady`, `upset` (`MeasurementRead`), `steady`, `everTrue`, `removed`,
  `inserted` (`Export`): what stayed since the request began, and what happened
  to the rest; `used` (`Export`) keeps the ids of sensors from being given twice.
- `used`, `wanted`, `disturbed` (`PartitionMigration`): ids ever given; ids that
  should be in the live table; what the documentation asks not to do, and was
  done (writers between prepare and cutover, writers beside a seed or before the
  end of one that was killed, two commands at once).

## 3. The runs

Twelve runs. Every property has a mutant in `PROJECT.json`: a bug in one
definition with which TLC finds it violated under the same constants.
`CHECK_DEADLOCK FALSE` is in every configuration: all requests answered, every
import at rest and the budget of faults spent is where the system really stops.

| run | instance | distinct states | what holds |
|---|---|---|---|
| `manifest` | 2 requests, 2 chunks, 8 possible uploads of which 6 are wrong in some way, 4 accepted, 1 fault, clients of both kinds | 141k | bytes match receipts; for an orderly client a receipt has its file and sealed files are frozen |
| `ingest_takeover` | 2 ingestion workers, 1 import, 2 chunks in 3 batches with a common key, 2 faults, 2 attempts, a value that was there before | 130k | complete when loaded; receipts durable; the inserted count not overstated |
| `pipeline` | a process that polls both queues and one that post-processes, 1 import of 2 chunks with a common key, 2 sensors of which one has statistics, 3 attempts, 2 faults | 286k | implements `ImportLifecycle`, liveness included; completed means refreshed; only the owner's result counts; receipts and statistics not repeated; every import comes to its end |
| `backfill_single` | 1 worker, 2 chunks with a common key, 2 buckets, 2 faults, a rollback, other uploads | 27k | recovery copy; no bucket twice; complete when undisturbed; nothing of a rolled-back import is left or added |
| `session` | 3 requests of any chunk and mode, 2 chunks, 1 failure, clients of both kinds | 853k | finalized means complete and refreshed; what a sequential client gets |
| `statistics` | 2 uploads, a forced refresh, a purge, 1 failure | 9k | an undisturbed refresh repairs; figures exist; every refresh ends |
| `publication` | 3 jobs of any kind, 1 sensor, 3 dataset names, 1 retry, 1 fault, a new station or one published by an earlier version | 2.1M | an undisturbed publication is what its response says; an answered unpublish hides the dataset |
| `catalog` | 2 requests of any kind, 2 stations, 1 sensor, 2 columns, 2 refreshes of a geometry, 1 change of the schema | 0.92M | orphans only by a late upload; the geometry is the last upload's, or an older one of the station that an open session wrote back; metadata satisfy the schema; edits keep to their columns |
| `access` | 2 calls of any kind at once and in turn, 2 instances, 1 change by an administrator, of the row or in CKAN, lifetimes of 1 tick (TAS) and 2 (organizations), an answer under way for up to 1 | 0.98M | an elevation never lowers a role, but one raised after it read it; discovery is whole; organizations are recent |
| `reads` | up to 6 readings, pages of 2 or 6, thresholds 2, 4 and 5, widths of 1 and 2 in a minute of 3 seconds, 1 write | 1.37M | a walk lists what stays; statistics bound the page while readings are only added or moved, and agree when nothing is written; a sample is a selection in order; intervals hold every reading once |
| `export` | up to 2 sensors with 2 aliases or none, pages of 2 lines, 2 writes | 1.15M | an export lists all that stays if nothing was removed; no line comes twice if what was added lies behind; every cell was true, an empty one too |
| `partition` | 2 operators, 2 measurements of 2 sensors in 2 partitions, 1 command killed or started beside another, writers and notes | 534k | the live table is whole; what is prepared is whole; an interrupted prepare that is run again, with nobody else at work, ends prepared |

**Why the bounds are enough.** What a worker does to an import depends on its
own row and on measurements; two workers are the smallest number that share a
claim's row, and two faults are what it takes to crash or stall one, take it
over, and crash or stall the second. The third attempt of `pipeline` lets a
take-over fail and still be retried. Two chunks tell "the chunks before" from
"the chunks after" a crash; the first is loaded in two batches, so a crash can
fall between them, and the key they share makes one insertion a conflict. Two
buckets do the same for the backfill's cursors. What `pipeline` shows of one
import the proofs show of any number, but for its liveness. In `manifest`, 4
accepted uploads are both chunks and two that fail. In `session`, the third
request is the retry or the overlapping one. Two statistics writers suffice for a
lost refresh; the forced refresh and the purge add their own orders. In
`publication`, three jobs are one that leaves something behind, one that is
looked at, and one that runs beside it; one retry and one fault are a call
executed twice (a second fault only makes a job fail in two places); a second
sensor would repeat the first one's resource call. In `catalog` and `access`, a
hazard is one request between two statements of another; `catalog` has a second
station because the deletion of all of them is a loop, and two refreshes because
the first one is what is written back over the second; one change
by an administrator is enough to overtake a call, and to outdate a list (the row and
the organizations meet in no property, so one of either is as good as both; a sign-in
may join the organization besides); with a lifetime of 2 the memory of the
organizations is met fresh, aged and gone. Six readings and a threshold of 5 give the
downsampling a first, a last and three buckets of uneven size; a minute of 3
seconds is not a multiple of a width of 2. Two pages need three lines of `export`,
and its two writes are one before and one behind the offset. In `partition`,
the second operator is the one who starts a command beside the first; two
partitions tell the copied from the rest.

**Fairness.** `ImportPipeline`: `WF(Poll(p))`, as the loops of
`process_upload_imports.py` poll for ever and every query and file operation
returns or raises, and `WF` of the expiry of an orphaned lease, as clocks
advance. Nothing is assumed of crashes and stalls. The errors that code may raise
(`LoadError`, `StageError`) are disjuncts of a worker's step, and neither
required nor excluded; that loading nevertheless comes to an end is due to the
count of attempts. The budget of faults makes crashes finite: a worker that
always dies is not excluded by any promise of the code either.
`ImportLifecycle`: `WF(Settle(i))`, loading is finished or fails, which the
pipeline has to provide. `SensorStatistics`: `WF(Transact(w))`, the database
executes a statement that nothing blocks. `PartitionMigration`: `WF` of a running
command's step, and `SF(PrepareResume)`: an operator who can run an interrupted
prepare again eventually does.

### Statements that are refuted and have no run

TLC refutes these too. They are why the properties above have the conditions
they have.

*Where the code departs from what it or its documentation says*

- **A receipt without its file** (`upload_imports.py:243-265`). The failure path
  gives the row up and then unlinks `chunk-<n>.csv` by its shared name. A retry
  may have persisted and recorded the chunk in between. Its receipt stays, later
  uploads are duplicates, and the import can be sealed and never loaded. It also
  takes no second request: a commit whose answer is lost has the same effect.
  `OrderlyReceiptHasFile` is what an orderly client gets.
- **Rolled back and loaded** (`upload_import_service.py:290-298`). The last
  commit of the ingestion tests neither token nor phase and overwrites a
  rollback: `data_loaded`, then `completed`, with no row left. Hence
  `UndisturbedIsComplete`.
- **Stale statistics** (migration `20261019`, lines 43 and 112). Of two uploads,
  the second waits at `ON CONFLICT DO NOTHING`, then finds the row up to date
  and leaves it, without its own measurements. Hence `UndisturbedIsFresh`.
- **Unpublished and still public** (`campaign_stations.py:813-820`). The station
  was published under the `ckan_dataset_name` that its request asked for, as the
  service's README advises after a conflict. `unpublish_station` looks for the
  computed name and the earlier one, finds neither, logs it and answers
  "unpublished from CKAN"; the dataset stays public. `UnpublishHolds` is about
  the names it knows.
- **An elevation that lowers a role** (`auth.py:165-172` says that it never
  does). The role is read, TAS is asked, and USER is written unconditionally. An
  administrator's grant in between is overwritten; so is ADMIN by a call to
  `/user-roles/me` or by a discovery with an old token whose role is NONE or READ,
  and by one whose own lookup failed and went by the default role. Hence `overtaken` in
  `NeverDowngrades`. The time of the question is noted before it is asked, so one
  that fails suppresses the next for the lifetime of the memory.
- **A cutover that is not reversible** (`partition_measurements_develop.py:462`).
  The renamed tables and the phase are two transactions. After a kill between
  them the partitioned table is live in phase `prepared`, which both cutover and
  rollback refuse, while the repository's `README.md:209` says that rollback
  reverses it. `LiveIsWhole` still holds: no row is lost.
- **An interval that does not hold its reading** (migration `9e1f2a3b4c5d`,
  line 165). `EXTRACT(EPOCH ...)::INTEGER` rounds, so half a second goes into the
  next interval, or at the end of a minute into its first. Hence the last line
  of `IntervalsHoldAll`.

*The import*

- Two ingestion workers, outside of what the service's README deploys
  ("intentionally single-worker"): `ReceiptImmutable` (a stalled worker rewrites
  a receipt and counters from what it read, `upload_import_service.py:272-283`),
  `IngestionEnds` (it overwrites `failed` by `data_loaded`, line 292, and
  `completed` by a `data_loaded` whose `post_processing_status` is `completed`,
  which is never claimed again) and `ActiveImportKeepsFiles` (the other way
  round, line 475, after which the files are removed). With one they are
  theorems.
- Every import ends: a worker that dies on the last attempt leaves
  `post_processing_status` in `processing`, which `upload_import_service.py:315-320`
  never selects again, the exception of `EventuallyAtAnEnd`: attempts spent, lease
  run out, and nobody at work. The ingestion's
  claim (line 107) does not compare attempts at all, so an import that kills its
  worker is tried for ever. An import that is never sealed never expires
  (`upload_imports.py:109`).
- `CompletedIsRefreshed` without `overrun`: a stalled worker's deletion
  (`upload_csv.py:420`) is not conditional on its token and may come after its
  successor has completed the import.
- `values_inserted` may be understated: batches committed before a crash are
  conflicts to the retry. Only that it is never overstated is claimed.
- Backfill. Two workers without a rollback refute `RecoveryCopy`, `EachBucketOnce`
  and `UndisturbedIsComplete`: a stalled worker truncates the shadow table that
  its successor has filled (`upload_import_backfill_service.py:256`), whose merge
  then finds no page and ends. A rollback tests a post-processing status that it
  read before it waited for the lock (line 458), so it may undo an import whose
  post-processing has begun.
- Synchronous upload. Overlapping requests for the last chunk both find no
  finalized receipt and post-process (`upload_csv.py:663-751`). Overlapping first
  chunks may record two modes, which wedges the session, as every later request
  is refused, or two sensors for one alias, which splits its values.
  `SequentialSession` is what a client that waits gets.

*Catalogue and publication*

- Sensors that an upload adds between the two commits of `delete_station` become
  orphans, and when the second commit fails a station stays without its sensors.
  Deleting a campaign leaves its stations as orphans, and answers 204 also when
  there is no such campaign.
- `get_campaign` assigns the geometry of every station it read to the station's
  object, so a later commit of the session (publication) writes an old one over
  what an upload has computed: `overtaken` in `GeometryIsTheUploads`. For the
  same reason the bulk `DELETE` of stations with a CKAN token fails with
  StaleDataError for a station that has a geometry, after its datasets were
  deleted.
- A PATCH without metadata is refused when the schema has a required field, and
  a change of the schema never validates stored metadata: `outdated` in
  `MetadataFitsTheSchema`.
- A published station need not have a public dataset, as the task of a later
  upload patches it with `private=True` (`upload_csv.py:330`); nor is the dataset
  private when publication is reported failed, since a lookup of organizations
  that fails adds an error and does not stop the rest
  (`campaign_stations.py:545-549`). A deletion may leave a dataset: it ends with
  the first one deleted (line 123), though the station's request for another
  name makes a second, and a task or a creation that runs beside it may create
  the dataset of a station that is gone. After a lost answer to `package_create`
  the retry is a conflict, so without `patch_existing_ckan_dataset` the
  publication fails although its dataset exists and is public; after one to
  `resource_create` there are two resources.

*Reads, export, access*

- Pages are ordered by `collectiontime` alone, so readings of one time may be
  listed twice or not at all; a reading that comes between the count and the page
  of the last request hides another. The five statements of a list may disagree
  under writes: `changed` in `StatisticsBoundThePages`, and an average outside of
  the extremes when a reading comes between their statements. There is one page too many when the limit divides the count
  (`measurement_service.py`; the list of campaigns rounds up). In the
  downsampling, the float `bucket_size` may leave out the last reading but one.
- An export repeats a line when older readings are uploaded, and may miss one
  that stays when others are deleted.
- A user without organizations is unrestricted, and so is everybody while CKAN
  fails and nothing is remembered, as the comments say. The memories are per
  process.

*Partition migration*

- `LiveIsWhole` when writers are not paused between prepare and cutover: the
  validation compares counts, so an insert and a delete after the copy pass it.
- A measurement cannot be deleted through the API while the shadow or the failed
  table still has a row that refers to its identity. A note on a measurement that
  came after the cutover makes rollback fail. The phase `rolled_back` has no
  command that leaves it.
- Two prepares beside each other may wedge: the later one writes a phase or a
  cursor over what the other has reached (`disturbed` in `PrepareResumes`).

## 4. The proofs

TLC checks the instances above; these hold for every value of the constants that
satisfies the `ASSUME`s of the modules (finite sets of identifiers, positive
numbers, a null that is no value). Each invariant comes as a lemma for `Init`, a
lemma for a step with a case per action, and a temporal step.

**`ImportWorkerProofs`.** For any number of workers, imports, chunks, batches,
crashes and stalls: `TypeCorrect`, `ReceiptsAreDurable`,
`LoadedImportsAreComplete`, `CountersAreNeverOverstated`, `NoImportIsOrphaned`.
That loaded means complete is
not inductive: the final commit tests nothing, so what justifies it are the
worker's local variables. `LoadInv` therefore adds `Progress(w)`: the chunks
before `cur[w]` have receipts, and the batches before `batch[w]` are in
measurements. That another worker's step keeps it is the lemma
`NothingIsTakenBack`: no step removes a receipt or a value. This is why
completeness survives a take-over although tokens are not tested.
`NeverOrphaned` is inductive with the types. The counters are about values, not
numbers: `CountInv` says that there are disjoint sets of inserted keys, one for
what each row's counter has counted and one for what each worker has counted and
not yet recorded, with the counters their cardinalities. A take-over leaves the
dead worker's set with nobody, so the counter may be too small, never too big.

`SoleWorkerKeepsFiles`, `SoleWorkerEndsIngestion` and `SoleWorkerKeepsReceipts`
assume in their statements that there is one worker
(`\A v, w \in Worker : v = w`), the deployment that the service's README
describes; with two, TLC refutes all three. Their invariant `SoleInv` says that a
worker that is at work owns its import's row, which nobody but a second worker
could change.

**`ImportPipelineProofs`**, about `PostProcess`. For any workers, imports, sensors, failures, crashes and
stalls: `RefreshingTypes` (with it, that the status, token, lease and stage of a
claim come and go together), `OwnersDecide`, `RetriesHaveFiles`,
`CompletedImportsAreRefreshed`, `StatisticsAreNotRepeated`. `EndInv` says that a
row that failed has no attempt left and that who cleans up works for an import at
its end. `RefreshInv` is about the imports that nobody has outlived a lease on.
`RowVouches`: the stage `geometry` stands for fresh statistics, whoever made them,
and `completed` for both. `SoleOwner`: a worker that is at work for the import owns
its row, under a lease that has not expired, and is the only one; and `Progress`
is what its label says it has done: in `sensor`, that every sensor not in `todo`
is fresh. A claim finds the lease expired, thus nobody at work (`ClaimStep`); the
owner's steps move only what is its own (`OwnerStep`); the others' leave the
import alone (`OthersStep`).

About `ImportPipeline`, with one process that ingests, any number that
post-process, and any number of imports: `CompletedMeansRefreshed`,
`ReceiptsStay`, `OwnersComplete`, `StagesAreNotRepeated` and
`PipelineImplementsLife`. The module takes an INSTANCE of `ImportWorkerProofs`
for the loader and of the lemmas above for the refreshers, so that a step of the pipeline is a step of one of them (`NextSteps`) and their step
lemmas apply. What is new is that neither disturbs the other. `Coupled` (only
what is loaded was ever claimed for post-processing) with `SoleInv` gives that the
loader changes a status only where nobody refreshes (`LoaderChanges`), though its
final commit tests nothing; a refresher changes a status only from `data_loaded`
to `completed`, which no part of the loader's invariants tells apart. For
`PipelineImplementsLife` (the safety of the refinement, `Lifecycle!Life`) every
step is a step of the lifecycle or leaves what it shows: `flush_stage_batch`
inserts the import's own keys while it is loading, `MarkDataLoaded` finds all of
them there (`LoadInv`), a failure with attempts left is a stutter because a failed
row has none (`EndInv`), and files go at an end.

**`ImportManifestProofs`.** `TypeCorrect` (with it, that the lock is held exactly
between the first query and the commit or rollback), `ReceiptsHaveFiles` and
`SealedFilesAreFrozen` for an orderly client, with any requests, contents and
crashes. `OrderlyInv` says what makes an unlocked unlink harmless: no two
requests are about one chunk (`Apart`), a chunk under way has no receipt
(`Pending`), a handler that is past `Persist` has its content in place
(`Written`), and a handler that has set `sensors_path` is about chunk zero, of
which there is only one (`OwnSensors`). `BytesAreAccounted` holds for any client: a
handler that has the lock has loaded the number of bytes that the row still has
(`Loaded`), and the bytes are counted as the cardinality of a union over the
receipts, so that one more chunk adds its own (`BytesOfAChunk`).

**`MeasurementProofs`**, about `UploadSession`: `TypeCorrect`,
`FinalizedSessionsAreComplete` and `FinalizedSessionsAreRefreshed` for any
number of overlapping, repeated or failing requests, and
`SequentialSessionsAreClean`. `Complete` relates a receipt to the values it
stands for, and a post-processing request to all of them; no lock is needed as
receipts and values are only added. `Sequential` says that what the one running
request has read is still so when it acts. `Derived` adds, for a
client in order that saw no failure (`Tidy`), that once a request is past its
refresh the figures are those of what is stored, or another request is about to
refresh them (`Covered`), and that whoever is about to finalize has a geometry of
all of it (`Measured`).

About `SensorStatistics`: `StatisticsTypesHold`, `LoneRefreshRepairs` and
`FiguresExist` for any uploads, forced refreshes, purges and failures.
`Undisturbed` follows a lone refresh through its statements: the row stays
absent, so that it inserts its own, and figures lack only uploads that have not
begun their refresh. `Provided` says that while there are measurements and no
figures, some writer still has to provide them; this is the argument for
interleaved refreshes, which may be stale but are never missing.

About `MeasurementRead`, for any table, limit, threshold and writers:
`ReadTypesHold`, `WalksHold`, `SamplesHold`, `StatisticsHold` and
`IntervalsHold`. `OrderedFacts`: the CHOOSE of
`Ordered` finds each row at its place, as the places of n rows are n numbers
below n. Without ties a place is the `Rank` of a time, the number of ids above
it, which a change of a value keeps and a new row can only raise. `SteadyWalk`:
what stays and ranks below the offset has been listed, so rows that are pushed
down come again but none is skipped; and once the page is the last by a count to
which nothing was added since, all that stays has been listed. `QuietWalk`: while
nothing is written, what was listed ranks below the offset and the page does
not, so no row is listed twice. `Sampling`: the chosen readings stand at places
that rise, up to the end of the last bucket; `CutGrows` says that a bucket is
longer than one reading exactly where the float may take one away. `Answers`:
while nothing is written, each statement has answered for the same rows.
`Growing`: while readings are only added or moved, the rows grow in number and
keep their values, so the extremes of later statements bound the earlier page.
`Aggregated`: the answer is that of the SQL function for the rows there are, which
its groups part. The sums come from the folds of the community modules, which
take a set apart in an order of their own: a claim about every subset is proved
of a smallest one that breaks it (`SmallestSet`, from the well-foundedness of
inclusion), so that the function of the definition exists (`SumsExist`), any
member can be taken out (`SumFacts`), and what adds up member by member is the
sum (`SumIs`). `StartFacts` is the arithmetic of an interval's start: truncation
stays in the minute, and only the rounding of a half second leaves the interval.

**`CatalogProofs`.** For any stations, sensors, columns, requests and changes:
`TypeCorrect`, `OrphansCameLate`, `EditsKeepToTheirColumns`,
`GeometriesAreTheUploads`, `StoredMetadataFit`. `OrphanInv`: a deletion that has
removed its sensors has left none but those added since. `Recent`: a session
holds a geometry that is the station's, or the station is `overtaken` and it is
an older one of its own. `Vetted`:
what a request has checked satisfies the schema, or the schema has changed since.
`Follows` is what one transaction may do to these, and has one case per action.

**`RemoteServiceProofs`**, about `Access`. For any instances, calls, edits and lifetimes: `TypeCorrect`,
`DiscoveriesAreWhole`, `ElevationsOnlyRaise`, `WritesGoByRecentLists`. `AccessInv`
says of each running call that the row's role is no higher than the one it goes
by, or it is `overtaken` (`Current`), and the same of tokens; `RecentInv` relates
the age of the remembered organizations and the delay of an answer under way to
the time since the membership changed.

About `Publication`, for any sensors, requests, retries, refusals and unanswered
calls: `PublicationTypesHold`, `LoneJobsKnow`, `PublicationsHold`,
`UnpublicationsHold`. What a job has found out is true only until another one
acts, so the argument is about a job that runs alone: `LoneJob` says that no other
runs beside one that was not overlapped, and `PublishKnows` and `UnpublishKnows`
what it then knows at each label: which dataset its `name` and `id` stand for,
which sensors it has sent, what the station's row says. A call that is repeated
may have been executed already, and one that fails too, so what is known must
hold before the call and after it. No two datasets share an id (`PublicationTypes`),
therefore a call about one leaves what is known of the other.

**`PartitionMigrationProofs`.** For any ids, partitions, indexes and commands,
each of which may be killed, repeated and run beside others, and any writers:
`TypeCorrect`, `LiveTableIsWhole`, `PreparedShadowsAreWhole`. `MoveInv` has a
part for each thing that the commands build. `NamesInv`: the two renames go
together. `IndexInv` and `CopyInv`: what is done is at least up to the cursor
(and up to the counter of every command that still works, which is what makes two
prepares beside each other harmless), and never taken back (`NothingIsDropped`,
`CopiesStay`). `UniqueInv`: once a partition has its unique index no row comes
into it twice, which is why a copy repeated from an old cursor is safe.
`RowsInv`: until the partitioned table has been written, the plain one is what
the writers want, so either name gives the same rows. `RegistryInv`: once the
trigger is on or the seed has counted, the registry is the live table.

**`PagingProofs`**, about `Backfill`. `TypeCorrect` for any workers. With one worker (assumed in
the statements; with two, TLC refutes all but the second), and any imports,
buckets, pages, crashes, expired leases and retries: `BucketsAreAddedOnce`,
`RolledBackImportsAreClean`, `ShadowsAreRecoveryCopies`,
`UndisturbedImportsAreComplete`. `PhaseInv` says for each label in which phase
the row can be although the worker has read it some statements ago (its `view`):
only a rollback changes it under the worker, and not before it is validated.
`ShadowInv`: the shadow table has the rows of the buckets before the cursor, each
once, so that the resumed materialization, which starts at the cursor, meets none
of them. `RollbackInv`: a worker that was merging as the import was rolled back
finds no table to merge from. `UndisturbedInv`: without a rollback, raw rows are
dropped when they are in the shadow table, and that when they are merged; no
page is skipped, as the next one is the least beyond the cursor (`LeastNumber`,
from the well-foundedness of inclusion, takes the place of an induction).

About `Export`, for any page size, tables and writers: `ExportTypesHold`,
`CellsHold`, `LinesHold`. All goes by the rank of a key among those that can be
listed (`Rank`); a page is the slice of ranks that begins at the offset
(`SliceFacts`). `OrderInv`: what was listed has ranks below the offset and lies
before what is next, as no key that was ever stored gets a higher rank but by an
insertion before it (`RankStays`). `SteadyInv`: what can always be listed and
ranks below the offset has its line, or is in the chunk that is being read, as
its rank falls only by a removal; and a line that is read for it has a value in
its column. A key that was deleted may have been listed, so both compare it
with what can be listed now, not with what could when it was read.

**Only model-checked.** Liveness under fairness (TLAPS has no reasoning about
`ENABLED` here): the fairness of `ImplementsLifecycle`, `EventuallyAtAnEnd`,
`EveryRefreshEnds`, `PrepareResumes`. Every other invariant and action property
that a run checks is a theorem; of `ImplementsLifecycle` the safety is
(`PipelineImplementsLife`).

## 5. What is not modelled, and why

- The content of CSV files, time zones, coordinates and the computation of a
  geometry: data that no property of a protocol tells apart. A row that cannot be
  parsed is `Defective`.
- Filters of lists, percentiles, and the paged lists of campaigns, stations and
  sensors, which are the walk of `MeasurementRead` with another order.
- Requests of the upload protocols that change nothing: refused, duplicate, or
  reading.
- Notes: one row in one transaction. Only their foreign key matters to another
  part, and is in `PartitionMigration`. (A PATCH through the station's or the
  campaign's route clears a note's location.)
- Uniqueness of names, the deletion of a single sensor, and a campaign's own
  geometry, which only a migration sets.
- Of publication: what a dataset's metadata say, how an organization's membership
  is found out (one answer), several stations of a campaign (its routes call the
  station's one after the other), and the bulk deletion of them.
- The signature of a Tapis token and the hour for which its key is kept; HTTP to
  Tapis, TAS and the other instances, of which the answer is a choice.
- Disk space and the check of free space, and a storage root that is lost.
- A worker that dies inside `cleanup_import_storage` or between a final status
  and the clean-up leaves files or tables: `Cleanup` may be cut off by `Crash`,
  which is a leak that no later step reads.

`PROJECT.json` lists all components under `components`, and under `hazards`
where in the code each thing bites and which property would notice.

## 6. The plan

Done, in this order because the import protocol is where data can be lost:
`ImportRecord`, `ImportWorker`, `PostProcess`, `Backfill`, `ImportManifest`,
`SensorStatistics`, `UploadSession`, `Publication`, `PartitionMigration`,
`Export`, `MeasurementRead`, `Catalog`, `Access`, and the composition
`ImportPipeline` with `ImportLifecycle`, with the proofs above.

What would add most next:

1. **`Backfill` in the pipeline**: it claims the same rows by the same query, and
   its rollback is the one writer that `ImportPipeline` lacks.
2. **Notes**, whose routes clear what they do not name.
