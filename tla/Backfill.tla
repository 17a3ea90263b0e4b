------------------------------ MODULE Backfill ------------------------------
(***************************************************************************)
(* An isolated historical import (ingestion_mode = "backfill"). The worker *)
(* stages its chunks in a raw table, materializes a shadow table bucket by *)
(* bucket, indexes and validates it, and merges it page by page into       *)
(* measurements, resuming from durable phases and cursors; meanwhile the   *)
(* owner may roll the import back and the post-processing worker may claim *)
(* it.                                                                     *)
(*                                                                         *)
(* One transaction is one step. An ORM object keeps the values it loaded   *)
(* until its session commits: SELECT ... FOR UPDATE locks the row, and     *)
(* does not reload an object that is already loaded (no populate_existing),*)
(* and an UPDATE leaves out each column that is set to the value loaded.   *)
(***************************************************************************)
EXTENDS Naturals, FiniteSets, FiniteSetsExt

CONSTANTS
  Worker,        \* ingestion worker processes
  Key,           \* identities (sensorid, collectiontime) of the import's values
  NumChunks,
  Staged,        \* Staged[c]: the identities in chunk c
  NumBuckets,    \* BULK_BACKFILL_MATERIALIZE_BUCKETS
  Bucket,        \* Bucket[k]: the bucket of k's sensor
  Contested,     \* identities that standard uploads may also insert
  MaxAttempts,   \* BULK_IMPORT_MAX_ATTEMPTS
  MaxFaults,     \* bound: crashes and stalls
  MaxRollbacks   \* bound: rollback requests

Chunk == 1..NumChunks

ASSUME CountsAssumption ==
  /\ NumChunks \in Nat \ {0} /\ NumBuckets \in Nat \ {0}
  /\ MaxAttempts \in Nat \ {0} /\ MaxFaults \in Nat /\ MaxRollbacks \in Nat
ASSUME KeyAssumption ==
  /\ IsFiniteSet(Key) /\ Contested \subseteq Key
  /\ Staged \in [Chunk -> SUBSET Key] /\ UNION {Staged[c] : c \in Chunk} = Key
  /\ Bucket \in [Key -> 0..(NumBuckets - 1)]

VARIABLES
  \* the import's row
  status, attempts, worker_token, lease, values_inserted,
  post_processing_status,
  processed,      \* chunks with a receipt
  \* the upload_import_backfills row
  phase, materialize_cursor, merge_cursor, merged_values,
  \* tables
  tables,         \* which of the two import-scoped tables exist
  raw,            \* chunks with rows in the raw table
  shadow,         \* pages of the shadow table: row id and identities
  serial,         \* last shadow_row_id
  indexed,        \* the unique index exists
  measurement,    \* who inserted each identity
  \* the workers' local variables
  pc, held,
  at,             \* the chunk or bucket in hand
  view,           \* the state row as the worker's session has it loaded
  \* the owner's rollback request
  request,        \* the import row as the request loaded it
  rollbacks, faults

rowVars   == <<status, attempts, worker_token, lease>>
importVars == <<values_inserted, post_processing_status, processed>>
cursors   == <<materialize_cursor, merge_cursor, merged_values>>
stateVars == <<phase, cursors>>
shadowVars == <<shadow, serial, indexed>>
tableVars == <<tables, raw, shadowVars>>
handVars  == <<held, at, view>>
localVars == <<pc, handVars>>
durable   == <<rowVars, importVars, stateVars, tableVars, measurement>>
otherVars == <<request, rollbacks, faults>>
vars == <<durable, localVars, otherVars>>

NoToken == 0

Phase == {"none", "staging", "materializing", "validating", "ready", "merging",
          "merged", "rolled_back", "failed"}

PC == {"idle", "ensure", "chunks", "stage", "decide", "materialize", "reload",
       "bucket", "beat", "index", "ready", "dropraw", "mergeread", "merge",
       "mergecheck", "page", "pagetxn", "finish", "fail", "tables"}

\* The state row as a session loads it; NoView when a commit has expired it.
NoView == [phase |-> "none", cursor |-> 0, merge_cursor |-> 0, merged |-> 0]

Fresh == [phase |-> phase, cursor |-> materialize_cursor,
          merge_cursor |-> merge_cursor, merged |-> merged_values]

Seen(w) == IF view[w] = NoView THEN Fresh ELSE view[w]

\* The import's row as a rollback request loads it.
NoRequest == [status |-> "none", token |-> NoToken, post_processing_status |-> "none"]

Idle(w) ==
  /\ pc' = [pc EXCEPT ![w] = "idle"]
  /\ held' = [held EXCEPT ![w] = NoToken]
  /\ at' = [at EXCEPT ![w] = 0]
  /\ view' = [view EXCEPT ![w] = NoView]

Goto(w, label) == pc' = [pc EXCEPT ![w] = label]

Load(w) == view' = [view EXCEPT ![w] = Fresh]

ExpireView(w) == view' = [view EXCEPT ![w] = NoView]

Init ==
  /\ status = "queued" /\ attempts = 0
  /\ worker_token = NoToken /\ lease = "none" /\ values_inserted = 0
  /\ post_processing_status = "pending"
  /\ processed = {}
  /\ phase = "none" /\ materialize_cursor = 0
  /\ merge_cursor = 0 /\ merged_values = 0
  /\ tables = {} /\ raw = {} /\ shadow = {} /\ serial = 0 /\ indexed = FALSE
  /\ measurement = [k \in Key |-> "absent"]
  /\ pc = [w \in Worker |-> "idle"]
  /\ held = [w \in Worker |-> NoToken]
  /\ at = [w \in Worker |-> 0]
  /\ view = [w \in Worker |-> NoView]
  /\ request = NoRequest /\ rollbacks = 0 /\ faults = 0
-----------------------------------------------------------------------------
\* claim_import, as in ImportWorker.
claim_import(w) ==
  /\ pc[w] = "idle"
  /\ status = "queued" \/ (status = "processing" /\ lease = "expired")
  /\ status' = "processing"
  /\ attempts' = attempts + 1
  /\ worker_token' = attempts + 1
  /\ lease' = "live"
  /\ held' = [held EXCEPT ![w] = attempts + 1]
  /\ Goto(w, "ensure")
  /\ UNCHANGED <<importVars, stateVars, tableVars, measurement, at, view,
                 otherVars>>

\* The row is created in phase staging, the tables where they do not exist.
ensure_backfill_state(w) ==
  /\ pc[w] = "ensure"
  /\ phase' = IF phase = "none" THEN "staging" ELSE phase
  /\ tables' = {"raw", "shadow"}
  /\ raw' = IF "raw" \in tables THEN raw ELSE {}
  /\ IF "shadow" \in tables THEN UNCHANGED shadowVars
     ELSE shadow' = {} /\ serial' = 0 /\ indexed' = FALSE
  /\ Goto(w, "chunks")
  /\ UNCHANGED <<rowVars, importVars, cursors, measurement, handVars,
                 otherVars>>

Owns(w) == status = "processing" /\ worker_token = held[w]

LeaseLost(w) ==
  /\ pc[w] = "chunks"
  /\ ~Owns(w)
  /\ Idle(w)
  /\ UNCHANGED <<durable, otherVars>>

\* One iteration of the loop: the first chunk without a receipt is staged.
NextChunk(w) ==
  LET todo == Chunk \ processed IN
  /\ pc[w] = "chunks"
  /\ Owns(w)
  /\ lease' = "live"
  /\ IF todo = {}
     THEN Goto(w, "decide") /\ at' = [at EXCEPT ![w] = 0]
     ELSE Goto(w, "stage") /\ at' = [at EXCEPT ![w] = Min(todo)]
  /\ UNCHANGED <<status, attempts, worker_token, importVars, stateVars,
                 tableVars, measurement, held, view, otherVars>>

\* Mutant: the receipt is committed before the rows.
StageNothing(w) ==
  /\ pc[w] = "stage"
  /\ "raw" \in tables
  /\ processed' = processed \union {at[w]}
  /\ Goto(w, "chunks")
  /\ UNCHANGED <<rowVars, values_inserted, post_processing_status, stateVars,
                 tableVars, measurement, handVars, otherVars>>

\* The rows of a chunk and its receipt are one transaction.
stage_backfill_chunk(w) ==
  /\ pc[w] = "stage"
  /\ "raw" \in tables
  /\ raw' = raw \union {at[w]}
  /\ processed' = processed \union {at[w]}
  /\ Goto(w, "chunks")
  /\ UNCHANGED <<rowVars, values_inserted, post_processing_status, stateVars,
                 tables, shadowVars, measurement, handVars, otherVars>>

\* process_claimed_import reads the phase, and so loads the state row.
ReadPhase(w) ==
  /\ pc[w] = "decide"
  /\ Load(w)
  /\ Goto(w, CASE phase = "merged" -> "finish"
               [] phase \in {"staging", "materializing", "validating"} -> "materialize"
               [] OTHER -> "merge")
  /\ UNCHANGED <<durable, held, at, otherVars>>
-----------------------------------------------------------------------------
(***************************************************************************)
(* materialize_and_validate, entered in phase staging as loaded: TRUNCATE, *)
(* cursor 0 and phase materializing. The cursor that is loaded is 0 as     *)
(* well, so the UPDATE leaves it out.                                      *)
(***************************************************************************)
StartMaterializing(w) ==
  /\ pc[w] = "materialize"
  /\ view[w].phase = "staging"
  /\ "shadow" \in tables
  /\ shadow' = {}
  /\ materialize_cursor' = IF view[w].cursor = 0 THEN materialize_cursor ELSE 0
  /\ phase' = "materializing"
  /\ Goto(w, "reload")
  /\ UNCHANGED <<rowVars, importVars, merge_cursor, merged_values, tables, raw,
                 serial, indexed, measurement, handVars, otherVars>>

\* The phase and the cursor are loaded again: the buckets from the cursor on.
Reload(w) ==
  /\ pc[w] = "reload"
  /\ Load(w)
  /\ IF phase = "materializing" /\ materialize_cursor < NumBuckets
     THEN Goto(w, "bucket") /\ at' = [at EXCEPT ![w] = materialize_cursor]
     ELSE Goto(w, "index") /\ UNCHANGED at
  /\ UNCHANGED <<durable, held, otherVars>>

Rows(b) == {k \in UNION {Staged[c] : c \in raw} : Bucket[k] = b}

InShadow == UNION {page.keys : page \in shadow}

\* A retry in phase materializing enters the loop at the cursor it has loaded.
Resumes(w) == pc[w] = "materialize" /\ view[w].phase = "materializing"

\* Mutants: at the first bucket; one behind the cursor.
FirstInHand(w) == IF Resumes(w) THEN 0 ELSE at[w]
NextInHand(w) == IF Resumes(w) THEN view[w].cursor + 1 ELSE at[w]

InHand(w) == IF Resumes(w) THEN view[w].cursor ELSE at[w]

(***************************************************************************)
(* A bucket's deduplicated rows and the cursor are one transaction. The    *)
(* unique index, once it exists, refuses rows that are there already.      *)
(***************************************************************************)
MaterializeBucket(w) ==
  LET b == InHand(w) IN
  /\ pc[w] = "bucket" \/ Resumes(w)
  /\ b < NumBuckets
  /\ tables = {"raw", "shadow"}
  /\ indexed => Rows(b) \cap InShadow = {}
  /\ IF Rows(b) = {} THEN UNCHANGED <<shadow, serial>>
     ELSE /\ serial' = serial + 1
          /\ shadow' = shadow \union {[id |-> serial + 1, keys |-> Rows(b)]}
  /\ materialize_cursor' =
       IF view[w].cursor = b + 1 THEN materialize_cursor ELSE b + 1
  /\ at' = [at EXCEPT ![w] = b]
  /\ Goto(w, "beat")
  /\ UNCHANGED <<rowVars, importVars, phase, merge_cursor, merged_values,
                 tables, raw, indexed, measurement, held, view, otherVars>>

(***************************************************************************)
(* The heartbeat of materialize and merge renews the lease of whatever     *)
(* token the row holds now, and is left out when it holds none.            *)
(***************************************************************************)
RowBeat ==
  /\ worker_token # NoToken => status = "processing"
  /\ lease' = IF worker_token = NoToken THEN lease ELSE "live"

RowBeatLost(w) ==
  /\ pc[w] \in {"beat", "page"}
  /\ worker_token # NoToken /\ status # "processing"
  /\ Idle(w)
  /\ UNCHANGED <<durable, otherVars>>

\* After the heartbeat the state is loaded again; the range of buckets stays.
BucketBeat(w) ==
  /\ pc[w] = "beat"
  /\ RowBeat
  /\ Load(w)
  /\ IF at[w] + 1 < NumBuckets
     THEN Goto(w, "bucket") /\ at' = [at EXCEPT ![w] = @ + 1]
     ELSE Goto(w, "index") /\ at' = [at EXCEPT ![w] = 0]
  /\ UNCHANGED <<status, attempts, worker_token, importVars, stateVars,
                 tableVars, measurement, held, otherVars>>

Unique == \A p, q \in shadow : p # q => p.keys \cap q.keys = {}

\* CREATE UNIQUE INDEX fails on a duplicate; then the counts and the phase.
IndexAndValidate(w) ==
  /\ \/ pc[w] = "index"
     \/ pc[w] = "materialize" /\ view[w].phase = "validating"
     \/ Resumes(w) /\ InHand(w) >= NumBuckets
  /\ "shadow" \in tables
  /\ Unique
  /\ indexed' = TRUE
  /\ phase' = IF view[w].phase = "validating" THEN phase ELSE "validating"
  /\ Goto(w, "ready")
  /\ UNCHANGED <<rowVars, importVars, cursors, tables, raw, shadow, serial,
                 measurement, handVars, otherVars>>

MarkReady(w) ==
  /\ pc[w] = "ready"
  /\ phase' = "ready"
  /\ Goto(w, "dropraw")
  /\ UNCHANGED <<rowVars, importVars, cursors, tableVars, measurement,
                 handVars, otherVars>>

DropRaw(w) ==
  /\ pc[w] = "dropraw"
  /\ tables' = tables \ {"raw"}
  /\ raw' = {}
  /\ Goto(w, "mergeread")
  /\ UNCHANGED <<rowVars, importVars, stateVars, shadowVars, measurement,
                 handVars, otherVars>>
-----------------------------------------------------------------------------
\* merge_backfill loads the state row when the last commit has expired it.
MergeRead(w) ==
  /\ pc[w] = "mergeread"
  /\ Load(w)
  /\ Goto(w, "merge")
  /\ UNCHANGED <<durable, held, at, otherVars>>

StartMerging(w) ==
  /\ pc[w] = "merge"
  /\ view[w].phase = "ready"
  /\ tables' = tables \ {"raw"}
  /\ raw' = {}
  /\ phase' = "merging"
  /\ Goto(w, "mergecheck")
  /\ UNCHANGED <<rowVars, importVars, cursors, shadowVars, measurement,
                 handVars, otherVars>>

\* Any other phase is merged, merging, or an error.
MergeIn(w, loaded) ==
  Goto(w, CASE loaded = "merging" -> "page"
            [] loaded = "merged"  -> "finish"
            [] OTHER              -> "fail")

MergeCheck(w) ==
  /\ \/ pc[w] = "mergecheck" /\ MergeIn(w, phase) /\ Load(w)
     \/ /\ pc[w] = "merge" /\ view[w].phase # "ready"
        /\ MergeIn(w, view[w].phase) /\ UNCHANGED view
  /\ UNCHANGED <<durable, held, at, otherVars>>

PageBeat(w) ==
  /\ pc[w] = "page"
  /\ RowBeat
  /\ IF worker_token = NoToken THEN UNCHANGED view ELSE ExpireView(w)
  /\ Goto(w, "pagetxn")
  /\ UNCHANGED <<status, attempts, worker_token, importVars, stateVars,
                 tableVars, measurement, held, at, otherVars>>

MergeStopped(w) ==
  /\ pc[w] = "pagetxn"
  /\ Seen(w).phase # "merging"
  /\ Goto(w, "fail")
  /\ UNCHANGED <<durable, handVars, otherVars>>

Remaining(w) == {page \in shadow : page.id > Seen(w).merge_cursor}

Merging(w) == pc[w] = "pagetxn" /\ Seen(w).phase = "merging" /\ "shadow" \in tables

FirstPage(w) == CHOOSE p \in Remaining(w) : \A q \in Remaining(w) : p.id <= q.id

NewIn(page) == {k \in page.keys : measurement[k] = "absent"}

MergeInto(w, page, count) ==
  /\ measurement' =
       [k \in Key |-> IF k \in NewIn(page) THEN "import" ELSE measurement[k]]
  /\ merged_values' = IF count = 0 THEN merged_values ELSE Seen(w).merged + count
  /\ merge_cursor' = page.id
  /\ ExpireView(w)
  /\ Goto(w, "page")
  /\ UNCHANGED <<rowVars, importVars, phase, materialize_cursor, tableVars,
                 held, at, otherVars>>

(***************************************************************************)
(* One page, under the row lock and the station lock: rows, cursor and     *)
(* count are one transaction; a live value is not overwritten.             *)
(***************************************************************************)
MergePage(w) ==
  /\ Merging(w) /\ Remaining(w) # {}
  /\ MergeInto(w, FirstPage(w), Cardinality(NewIn(FirstPage(w))))

MergeDone(w) ==
  /\ Merging(w) /\ Remaining(w) = {}
  /\ phase' = "merged"
  /\ ExpireView(w)
  /\ Goto(w, "finish")
  /\ UNCHANGED <<rowVars, importVars, cursors, tableVars, measurement, held,
                 at, otherVars>>

\* The last commit of process_claimed_import checks neither token nor phase.
MarkDataLoaded(w) ==
  /\ pc[w] = "finish"
  /\ values_inserted' = Seen(w).merged
  /\ status' = "data_loaded"
  /\ worker_token' = NoToken
  /\ lease' = "none"
  /\ Idle(w)
  /\ UNCHANGED <<attempts, post_processing_status, processed, stateVars,
                 tableVars, measurement, otherVars>>
-----------------------------------------------------------------------------
\* Any error on the way, a missing table or a duplicate among them.
StageError(w) ==
  /\ pc[w] \notin {"idle", "fail", "tables"}
  /\ Goto(w, "fail")
  /\ UNCHANGED <<durable, handVars, otherVars>>

FailureIgnored(w) ==
  /\ pc[w] = "fail"
  /\ worker_token # held[w]
  /\ Idle(w)
  /\ UNCHANGED <<durable, otherVars>>

\* mark_import_failure asks for the token, and not for the status.
mark_import_failure(w) ==
  /\ pc[w] = "fail"
  /\ worker_token = held[w]
  /\ worker_token' = NoToken
  /\ lease' = "none"
  /\ IF attempts >= MaxAttempts
     THEN /\ status' = "failed"
          /\ Goto(w, "tables")
          /\ UNCHANGED <<held, at, view>>
     ELSE status' = "queued" /\ Idle(w)
  /\ UNCHANGED <<attempts, importVars, stateVars, tableVars, measurement,
                 otherVars>>

DropTables ==
  /\ tables' = {} /\ raw' = {} /\ shadow' = {} /\ serial' = 0 /\ indexed' = FALSE

\* After the last attempt the tables go and the phase is failed.
cleanup_backfill_tables(w) ==
  /\ pc[w] = "tables"
  /\ IF phase = "none" THEN UNCHANGED <<phase, tableVars>>
     ELSE DropTables /\ phase' = "failed"
  /\ Idle(w)
  /\ UNCHANGED <<rowVars, importVars, cursors, measurement, otherVars>>
-----------------------------------------------------------------------------
\* rollback_async_backfill loads the import, without a lock, ...
RollbackRequest ==
  /\ request = NoRequest
  /\ rollbacks < MaxRollbacks
  /\ rollbacks' = rollbacks + 1
  /\ request' = [status |-> status, token |-> worker_token,
                 post_processing_status |-> post_processing_status]
  /\ UNCHANGED <<durable, localVars, faults>>

RollbackAccepted ==
  /\ request.post_processing_status = "pending"
  /\ phase \in {"ready", "merging", "merged"}

RollbackRefused ==
  /\ request # NoRequest
  /\ ~RollbackAccepted
  /\ request' = NoRequest
  /\ UNCHANGED <<durable, localVars, rollbacks, faults>>

(***************************************************************************)
(* ... and rollback_backfill locks the state row, under which it deletes   *)
(* the import's rows, drops the tables and fails the import. A column that *)
(* was loaded as it is to be written is left out of the UPDATE.            *)
(***************************************************************************)
RollbackDeleting(owners) ==
  /\ request # NoRequest
  /\ RollbackAccepted
  /\ measurement' =
       [k \in Key |-> IF measurement[k] \in owners THEN "absent" ELSE measurement[k]]
  /\ DropTables
  /\ phase' = "rolled_back"
  /\ status' = IF request.status = "failed" THEN status ELSE "failed"
  /\ IF request.token = NoToken THEN UNCHANGED <<worker_token, lease>>
     ELSE worker_token' = NoToken /\ lease' = "none"
  /\ request' = NoRequest
  /\ UNCHANGED <<attempts, importVars, cursors, localVars, rollbacks, faults>>

\* Mutant: only when the merge is complete.
RollbackMerged == RollbackDeleting(IF phase = "merged" THEN {"import"} ELSE {})

rollback_backfill == RollbackDeleting({"import"})

(***************************************************************************)
(* The post-processing worker, PostProcess in short: it claims a loaded    *)
(* import, gives it back, or completes it and then drops its tables.       *)
(***************************************************************************)
PostProcessing ==
  /\ status = "data_loaded"
  /\ \/ /\ post_processing_status = "pending"
        /\ post_processing_status' = "processing"
        /\ UNCHANGED status
     \/ /\ post_processing_status = "processing"
        /\ post_processing_status' = "pending"
        /\ UNCHANGED status
     \/ /\ post_processing_status = "processing"
        /\ post_processing_status' = "completed"
        /\ status' = "completed"
  /\ UNCHANGED <<attempts, worker_token, lease, values_inserted, processed,
                 stateVars, tableVars, measurement, localVars, otherVars>>

cleanup_backfill_shadow ==
  /\ status = "completed"
  /\ tables # {}
  /\ DropTables
  /\ UNCHANGED <<rowVars, importVars, stateVars, measurement, localVars,
                 otherVars>>

\* Another upload of the station inserts a value with the same identity.
OtherUpload(k) ==
  /\ measurement[k] = "absent"
  /\ measurement' = [measurement EXCEPT ![k] = "other"]
  /\ UNCHANGED <<rowVars, importVars, stateVars, tableVars, localVars,
                 otherVars>>

Fault == faults < MaxFaults /\ faults' = faults + 1

Crash(w) ==
  /\ pc[w] # "idle"
  /\ Fault
  /\ Idle(w)
  /\ UNCHANGED <<durable, request, rollbacks>>

Held == \E w \in Worker : pc[w] # "idle" /\ held[w] = worker_token

\* The lease of a dead worker runs out, or that of a slow one (a stall).
Expire ==
  /\ lease = "live"
  /\ lease' = "expired"
  /\ IF Held THEN Fault ELSE UNCHANGED faults
  /\ UNCHANGED <<status, attempts, worker_token, importVars, stateVars,
                 tableVars, measurement, localVars, request, rollbacks>>

WorkerStep(w) ==
  \/ claim_import(w) \/ ensure_backfill_state(w) \/ LeaseLost(w)
  \/ NextChunk(w) \/ stage_backfill_chunk(w) \/ ReadPhase(w)
  \/ StartMaterializing(w) \/ Reload(w)
  \/ MaterializeBucket(w) \/ RowBeatLost(w) \/ BucketBeat(w)
  \/ IndexAndValidate(w) \/ MarkReady(w) \/ DropRaw(w)
  \/ MergeRead(w) \/ StartMerging(w) \/ MergeCheck(w)
  \/ PageBeat(w) \/ MergeStopped(w) \/ MergePage(w) \/ MergeDone(w)
  \/ MarkDataLoaded(w)
  \/ StageError(w) \/ FailureIgnored(w) \/ mark_import_failure(w)
  \/ cleanup_backfill_tables(w)

Next ==
  \/ \E w \in Worker : WorkerStep(w) \/ Crash(w)
  \/ RollbackRequest \/ RollbackRefused \/ rollback_backfill
  \/ PostProcessing \/ cleanup_backfill_shadow
  \/ \E k \in Contested : OtherUpload(k)
  \/ Expire

Spec == Init /\ [][Next]_vars
-----------------------------------------------------------------------------
TypeOK ==
  /\ status \in {"queued", "processing", "data_loaded", "completed", "failed"}
  /\ attempts \in Nat /\ worker_token \in Nat
  /\ lease \in {"none", "live", "expired"}
  /\ values_inserted \in Nat
  /\ post_processing_status \in {"pending", "processing", "completed"}
  /\ processed \subseteq Chunk
  /\ phase \in Phase
  /\ materialize_cursor \in 0..NumBuckets
  /\ merge_cursor \in Nat /\ merged_values \in Nat
  /\ tables \subseteq {"raw", "shadow"}
  /\ raw \subseteq Chunk
  /\ serial \in Nat
  /\ \A page \in shadow : page.id \in 1..serial /\ page.keys \subseteq Key
  /\ indexed => Unique
  /\ measurement \in [Key -> {"absent", "import", "other"}]
  /\ pc \in [Worker -> PC]
  /\ held \in [Worker -> Nat]
  /\ at \in [Worker -> Nat]
  /\ rollbacks \in 0..MaxRollbacks /\ faults \in 0..MaxFaults

(***************************************************************************)
(* An import that says its data is loaded has every value of every chunk   *)
(* in measurements, whatever step of staging, materializing and merging a  *)
(* crash has interrupted.                                                  *)
(***************************************************************************)
LoadedIsComplete ==
  status \in {"data_loaded", "completed"} => \A k \in Key : measurement[k] # "absent"

\* It is so, with one worker, as long as the owner asks for no rollback.
UndisturbedIsComplete == rollbacks = 0 => LoadedIsComplete

(***************************************************************************)
(* materialize_and_validate drops the raw table because the validated      *)
(* shadow is the durable recovery copy: until it is merged it holds every  *)
(* value of the import, unless a rollback drops it.                        *)
(***************************************************************************)
RecoveryCopy ==
  rollbacks = 0 /\ phase \in {"ready", "merging"} => InShadow = Key

(***************************************************************************)
(* A resumed materialization adds no bucket a second time: the unique      *)
(* index over the shadow can always be built.                              *)
(***************************************************************************)
EachBucketOnce == Unique

(***************************************************************************)
(* A rolled-back import has left no row behind, and no worker that was     *)
(* merging it adds one.                                                    *)
(***************************************************************************)
RolledBackIsClean ==
  phase = "rolled_back" => \A k \in Key : measurement[k] # "import"
=============================================================================
