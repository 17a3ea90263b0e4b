---------------------------- MODULE ImportWorker ----------------------------
(***************************************************************************)
(* The ingestion worker of asynchronous bulk imports, standard mode:       *)
(* run_once claims one import under a lease, process_claimed_import loads  *)
(* its chunks batch by batch and marks it data_loaded, mark_import_failure *)
(* requeues or fails it.                                                   *)
(*                                                                         *)
(* A worker may crash anywhere and restart idle; a live worker may stall   *)
(* until its lease expires. Whatever a worker read before it stalled it    *)
(* keeps in its local variables, and uses when it resumes.                 *)
(***************************************************************************)
EXTENDS ImportRecord, Sequences, FiniteSetsExt

CONSTANTS
  Worker,     \* ingestion worker processes
  NumChunks,  \* chunks of every import
  Key,        \* identities of measurement values
  Content,    \* Content[i][c]: the staging batches of a chunk, each a set of keys
  Defective,  \* <<import, chunk>> whose last batch holds a row that cannot be parsed
  Unmapped,   \* imports whose sensors file yields no mapping
  Earlier     \* keys already in measurements from earlier uploads

Chunk == 1..NumChunks

ASSUME NumChunksAssumption == NumChunks \in Nat \ {0}
ASSUME ContentAssumption   == Content \in [Import -> [Chunk -> Seq(SUBSET Key)]]
ASSUME KeyAssumption       == IsFiniteSet(Key) /\ Earlier \subseteq Key
ASSUME InserterAssumption  == "earlier" \notin Import /\ "absent" \notin Import
\* Without a sensor mapping no batch is staged at all.
ASSUME UnmappedAssumption  ==
  \A i \in Import \cap Unmapped : \A c \in Chunk : Content[i][c] = <<>>

VARIABLES
  \* durable: the row's ingestion columns, its chunk rows, the measurements
  attempts,      \* upload_imports.attempts
  worker_token,
  lease,
  processed,     \* chunks whose receipt says processed
  rows_read,     \* upload_imports.rows_read, in staging batches
  values_inserted,
  chunk_inserted, \* upload_import_chunks.values_inserted
  measurement,   \* who inserted each key: an import, "earlier" or "absent"
  \* local to each worker process
  pc,
  job,           \* the claimed import
  held,          \* the token the claim returned
  cur,           \* position in the loop over the chunks
  batch,         \* next staging batch of the current chunk
  tally,         \* values inserted for the current chunk so far
  base           \* the counters as read for the chunk's receipt

rowVars     == <<attempts, worker_token, lease>>
receiptVars == <<processed, rows_read, values_inserted, chunk_inserted>>
localVars   == <<pc, job, held, cur, batch, tally, base>>
vars == <<recordVars, rowVars, receiptVars, measurement, localVars>>

Inserter == Import \union {"earlier", "absent"}

PC == {"idle", "heartbeat", "load", "receipt", "finish",
       "fail", "requeue", "terminate", "cleanup"}

Batches(i, c) == Content[i][c]

KeysOf(i, c) == UNION {Batches(i, c)[b] : b \in DOMAIN Batches(i, c)}

NoRead == [rows_read |-> 0, values_inserted |-> 0]

\* The state of a process that has just (re)started, or is between claims.
Idle(w) ==
  /\ pc' = [pc EXCEPT ![w] = "idle"]
  /\ held' = [held EXCEPT ![w] = NoToken]
  /\ cur' = [cur EXCEPT ![w] = 1]
  /\ batch' = [batch EXCEPT ![w] = 1]
  /\ tally' = [tally EXCEPT ![w] = 0]
  /\ base' = [base EXCEPT ![w] = NoRead]
  /\ job' = [job EXCEPT ![w] = NoJob]

Goto(w, label) == pc' = [pc EXCEPT ![w] = label]

Init ==
  /\ status = [i \in Import |-> "queued"]
  /\ files = Import
  /\ faults = 0
  /\ attempts = [i \in Import |-> 0]
  /\ worker_token = [i \in Import |-> NoToken]
  /\ lease = [i \in Import |-> "none"]
  /\ processed = [i \in Import |-> {}]
  /\ rows_read = [i \in Import |-> 0]
  /\ values_inserted = [i \in Import |-> 0]
  /\ chunk_inserted = [i \in Import |-> [c \in Chunk |-> 0]]
  /\ measurement = [k \in Key |-> IF k \in Earlier THEN "earlier" ELSE "absent"]
  /\ pc = [w \in Worker |-> "idle"]
  /\ job = [w \in Worker |-> NoJob]
  /\ held = [w \in Worker |-> NoToken]
  /\ cur = [w \in Worker |-> 1]
  /\ batch = [w \in Worker |-> 1]
  /\ tally = [w \in Worker |-> 0]
  /\ base = [w \in Worker |-> NoRead]
-----------------------------------------------------------------------------
(***************************************************************************)
(* claim_import: one SELECT ... FOR UPDATE SKIP LOCKED and its UPDATE. The *)
(* oldest eligible row that nobody has locked is taken; a row is skipped   *)
(* whenever another transaction happens to hold its lock, so any eligible  *)
(* row may be the one. Attempts are counted, and not limited, here.        *)
(***************************************************************************)
Claimable(i) ==
  \/ status[i] = "queued"
  \/ status[i] = "processing" /\ lease[i] = "expired"

claim_import(w, i) ==
  /\ pc[w] = "idle"
  /\ Claimable(i)
  /\ status' = [status EXCEPT ![i] = "processing"]
  /\ attempts' = [attempts EXCEPT ![i] = @ + 1]
  /\ worker_token' = [worker_token EXCEPT ![i] = attempts[i] + 1]
  /\ lease' = [lease EXCEPT ![i] = "live"]
  /\ job' = [job EXCEPT ![w] = i]
  /\ held' = [held EXCEPT ![w] = attempts[i] + 1]
  /\ Goto(w, "heartbeat")
  /\ UNCHANGED <<files, faults, receiptVars, measurement, cur, batch, tally, base>>

\* What the heartbeat's query finds: the row still carries this token.
Owns(w) ==
  /\ status[job[w]] = "processing"
  /\ worker_token[job[w]] = held[w]

(***************************************************************************)
(* heartbeat: UploadImportLeaseLost when the row no longer carries the     *)
(* token, otherwise the lease is renewed, whether or not it has expired.   *)
(***************************************************************************)
LeaseLost(w) ==
  /\ pc[w] = "heartbeat"
  /\ ~Owns(w)
  /\ Idle(w)
  /\ UNCHANGED <<recordVars, rowVars, receiptVars, measurement>>

heartbeat(w) ==
  /\ pc[w] = "heartbeat"
  /\ Owns(w)
  /\ lease' = [lease EXCEPT ![job[w]] = "live"]
  /\ UNCHANGED <<recordVars, attempts, worker_token, receiptVars, measurement>>

\* The loop body of a chunk that already has its receipt.
SkipChunk(w) ==
  /\ heartbeat(w)
  /\ cur[w] \in processed[job[w]]
  /\ cur' = [cur EXCEPT ![w] = @ + 1]
  /\ UNCHANGED <<pc, job, held, batch, tally, base>>

\* Mutant: receipts of an earlier claim are ignored.
OpenAnyChunk(w) ==
  /\ heartbeat(w)
  /\ cur[w] \in Chunk
  /\ Goto(w, IF job[w] \in files THEN "load" ELSE "fail")
  /\ batch' = [batch EXCEPT ![w] = 1]
  /\ tally' = [tally EXCEPT ![w] = 0]
  /\ UNCHANGED <<job, held, cur, base>>

\* Otherwise its event and sensors are looked up and its file is opened,
\* which raises when the import's directory has been removed.
OpenChunk(w) ==
  /\ heartbeat(w)
  /\ cur[w] \in Chunk \ processed[job[w]]
  /\ Goto(w, IF job[w] \in files THEN "load" ELSE "fail")
  /\ batch' = [batch EXCEPT ![w] = 1]
  /\ tally' = [tally EXCEPT ![w] = 0]
  /\ UNCHANGED <<job, held, cur, base>>

Unparsable(w) ==
  /\ <<job[w], cur[w]>> \in Defective
  /\ batch[w] = Len(Batches(job[w], cur[w]))

\* Mutant: values_inserted counts the values that were attempted.
FlushCountingAttempts(w) ==
  LET keys == Batches(job[w], cur[w])[batch[w]] IN
  /\ pc[w] = "load"
  /\ batch[w] \in DOMAIN Batches(job[w], cur[w])
  /\ measurement' = [k \in Key |->
       IF k \in keys /\ measurement[k] = "absent" THEN job[w] ELSE measurement[k]]
  /\ tally' = [tally EXCEPT ![w] = @ + Cardinality(keys)]
  /\ batch' = [batch EXCEPT ![w] = @ + 1]
  /\ UNCHANGED <<recordVars, rowVars, receiptVars, pc, job, held, cur, base>>

(***************************************************************************)
(* _flush_stage_batch: INSERT ... ON CONFLICT DO NOTHING under the         *)
(* station's advisory lock, in a transaction of its own.                   *)
(***************************************************************************)
flush_stage_batch(w) ==
  LET i     == job[w]
      fresh == {k \in Batches(i, cur[w])[batch[w]] : measurement[k] = "absent"}
  IN  /\ pc[w] = "load"
      /\ batch[w] \in DOMAIN Batches(i, cur[w])
      /\ ~Unparsable(w)
      /\ measurement' = [k \in Key |-> IF k \in fresh THEN i ELSE measurement[k]]
      /\ tally' = [tally EXCEPT ![w] = @ + Cardinality(fresh)]
      /\ batch' = [batch EXCEPT ![w] = @ + 1]
      /\ UNCHANGED <<recordVars, rowVars, receiptVars, pc, job, held, cur, base>>

\* Mutant: the last, partial batch is never flushed.
ReadCountersEarly(w) ==
  /\ pc[w] = "load"
  /\ batch[w] >= Len(Batches(job[w], cur[w]))
  /\ base' = [base EXCEPT ![w] = [rows_read       |-> rows_read[job[w]],
                                  values_inserted |-> values_inserted[job[w]]]]
  /\ Goto(w, "receipt")
  /\ UNCHANGED <<recordVars, rowVars, receiptVars, measurement,
                 job, held, cur, batch, tally>>

\* record.rows_read += ...: the commit of the last batch expired the record,
\* so the counters are read again, without a lock, ...
ReadCounters(w) ==
  /\ pc[w] = "load"
  /\ batch[w] = Len(Batches(job[w], cur[w])) + 1
  /\ base' = [base EXCEPT ![w] = [rows_read       |-> rows_read[job[w]],
                                  values_inserted |-> values_inserted[job[w]]]]
  /\ Goto(w, "receipt")
  /\ UNCHANGED <<recordVars, rowVars, receiptVars, measurement,
                 job, held, cur, batch, tally>>

\* ... and written back as absolute values with the chunk's receipt. Nothing
\* checks the token.
CommitChunk(w) ==
  LET i == job[w] IN
  /\ pc[w] = "receipt"
  /\ processed' = [processed EXCEPT ![i] = @ \union {cur[w]}]
  /\ rows_read' = [rows_read EXCEPT
       ![i] = base[w].rows_read + Len(Batches(i, cur[w]))]
  /\ values_inserted' = [values_inserted EXCEPT
       ![i] = base[w].values_inserted + tally[w]]
  /\ chunk_inserted' = [chunk_inserted EXCEPT ![i][cur[w]] = tally[w]]
  /\ cur' = [cur EXCEPT ![w] = @ + 1]
  /\ base' = [base EXCEPT ![w] = NoRead]
  /\ Goto(w, "heartbeat")
  /\ UNCHANGED <<recordVars, rowVars, measurement, job, held, batch, tally>>

\* Mutant: the loop ends one chunk early.
LastHeartbeatEarly(w) ==
  /\ heartbeat(w)
  /\ cur[w] = NumChunks
  /\ Goto(w, "finish")
  /\ UNCHANGED <<job, held, cur, batch, tally, base>>

\* The heartbeat after the last chunk.
LastHeartbeat(w) ==
  /\ heartbeat(w)
  /\ cur[w] = NumChunks + 1
  /\ Goto(w, "finish")
  /\ UNCHANGED <<job, held, cur, batch, tally, base>>

\* The final commit of process_claimed_import, which overwrites the row
\* whatever its status and token have become. An empty mapping raises.
MarkDataLoaded(w) ==
  LET i == job[w] IN
  /\ pc[w] = "finish"
  /\ i \notin Unmapped
  /\ status' = [status EXCEPT ![i] = "data_loaded"]
  /\ worker_token' = [worker_token EXCEPT ![i] = NoToken]
  /\ lease' = [lease EXCEPT ![i] = "none"]
  /\ Idle(w)
  /\ UNCHANGED <<files, faults, attempts, receiptVars, measurement>>
-----------------------------------------------------------------------------
(***************************************************************************)
(* An exception while a chunk is loaded: the row that cannot be parsed, or *)
(* an error of the database or of the file system.                         *)
(***************************************************************************)
LoadError(w) ==
  /\ pc[w] \in {"heartbeat", "load", "receipt", "finish"}
  /\ Goto(w, "fail")
  /\ UNCHANGED <<recordVars, rowVars, receiptVars, measurement,
                 job, held, cur, batch, tally, base>>

\* mark_import_failure finds that another claim owns the row, and gives up.
FailureIgnored(w) ==
  /\ pc[w] = "fail"
  /\ worker_token[job[w]] # held[w]
  /\ Idle(w)
  /\ UNCHANGED <<recordVars, rowVars, receiptVars, measurement>>

\* mark_import_failure reads the row, not FOR UPDATE, and decides ...
ReadFailure(w) ==
  /\ pc[w] = "fail"
  /\ worker_token[job[w]] = held[w]
  /\ Goto(w, IF attempts[job[w]] >= MaxAttempts THEN "terminate" ELSE "requeue")
  /\ UNCHANGED <<recordVars, rowVars, receiptVars, measurement,
                 job, held, cur, batch, tally, base>>

ReleaseAs(i, s) ==
  /\ status' = [status EXCEPT ![i] = s]
  /\ worker_token' = [worker_token EXCEPT ![i] = NoToken]
  /\ lease' = [lease EXCEPT ![i] = "none"]
  /\ UNCHANGED <<files, faults, attempts, receiptVars, measurement>>

\* Mutant: storage is removed after every failure.
RequeueAndCleanUp(w) ==
  /\ pc[w] = "requeue"
  /\ ReleaseAs(job[w], "queued")
  /\ Goto(w, "cleanup")
  /\ UNCHANGED <<job, held, cur, batch, tally, base>>

\* ... and writes what it decided, by primary key.
Requeue(w) ==
  /\ pc[w] = "requeue"
  /\ ReleaseAs(job[w], "queued")
  /\ Idle(w)

Terminate(w) ==
  /\ pc[w] = "terminate"
  /\ ReleaseAs(job[w], "failed")
  /\ Goto(w, "cleanup")
  /\ UNCHANGED <<job, held, cur, batch, tally, base>>

\* run_once removes the files of an import it has just failed.
CleanupFailed(w) ==
  /\ pc[w] = "cleanup"
  /\ cleanup_import_storage(job[w])
  /\ Idle(w)
  /\ UNCHANGED <<status, faults, rowVars, receiptVars, measurement>>
-----------------------------------------------------------------------------
(***************************************************************************)
(* The environment. A worker dies and is restarted; a lease that no live   *)
(* worker renews runs out; a live worker is so slow that its lease runs    *)
(* out under it (nothing renews it while one chunk is being loaded).       *)
(***************************************************************************)
Crash(w) ==
  /\ pc[w] # "idle"
  /\ Fault
  /\ Idle(w)
  /\ UNCHANGED <<status, files, rowVars, receiptVars, measurement>>

Held(i) == \E w \in Worker : job[w] = i /\ held[w] = worker_token[i]

Expire(i) ==
  /\ lease[i] = "live"
  /\ lease' = [lease EXCEPT ![i] = "expired"]
  /\ UNCHANGED <<attempts, worker_token, receiptVars, measurement, localVars>>

OrphanExpires(i) == ~Held(i) /\ Expire(i) /\ UNCHANGED recordVars

Stall(i) == Held(i) /\ Fault /\ Expire(i) /\ UNCHANGED <<status, files>>

WorkerStep(w) ==
  \/ \E i \in Import : claim_import(w, i)
  \/ LeaseLost(w)
  \/ SkipChunk(w)
  \/ OpenChunk(w)
  \/ flush_stage_batch(w)
  \/ ReadCounters(w)
  \/ CommitChunk(w)
  \/ LastHeartbeat(w)
  \/ MarkDataLoaded(w)
  \/ LoadError(w)
  \/ FailureIgnored(w)
  \/ ReadFailure(w)
  \/ Requeue(w)
  \/ Terminate(w)
  \/ CleanupFailed(w)

Next ==
  \/ \E w \in Worker : WorkerStep(w) \/ Crash(w)
  \/ \E i \in Import : OrphanExpires(i) \/ Stall(i)

Spec == Init /\ [][Next]_vars
-----------------------------------------------------------------------------
TypeOK ==
  /\ RecordTypeOK
  /\ attempts \in [Import -> Nat]
  /\ worker_token \in [Import -> Nat]
  /\ lease \in [Import -> Lease]
  /\ processed \in [Import -> SUBSET Chunk]
  /\ rows_read \in [Import -> Nat]
  /\ values_inserted \in [Import -> Nat]
  /\ chunk_inserted \in [Import -> [Chunk -> Nat]]
  /\ measurement \in [Key -> Inserter]
  /\ pc \in [Worker -> PC]
  /\ job \in [Worker -> Import \union {NoJob}]
  /\ held \in [Worker -> Nat]
  /\ cur \in [Worker -> 1..(NumChunks + 1)]
  /\ batch \in [Worker -> Nat]
  /\ tally \in [Worker -> Nat]
  /\ base \in [Worker -> [rows_read : Nat, values_inserted : Nat]]
  /\ \A w \in Worker : pc[w] # "idle" <=> job[w] \in Import
  /\ \A w \in Worker : pc[w] \in {"load", "receipt"} => cur[w] \in Chunk

Loaded(i) == status[i] \in {"data_loaded", "completed"}

(***************************************************************************)
(* An import that says its data is loaded has a receipt for every chunk,   *)
(* and every value of every chunk is in measurements, however many workers *)
(* loaded it, crashed or stalled on the way.                               *)
(***************************************************************************)
LoadedIsComplete ==
  \A i \in Import : Loaded(i) =>
    /\ processed[i] = Chunk
    /\ \A c \in Chunk : \A k \in KeysOf(i, c) : measurement[k] # "absent"

(***************************************************************************)
(* A receipt outlives the crash of its writer: a chunk that says processed *)
(* has all its values in measurements, so a resumed import may skip it.    *)
(***************************************************************************)
ReceiptIsDurable ==
  \A i \in Import : \A c \in processed[i] :
    \A k \in KeysOf(i, c) : measurement[k] # "absent"

\* What a worker's local variables say of the durable state: the chunks it has
\* passed have receipts, the batches it has passed are in measurements.
Present(S) == \A k \in S : measurement[k] # "absent"

Progress(w) ==
  LET i == job[w] IN
  pc[w] # "idle" =>
    /\ \A c \in Chunk : c < cur[w] => c \in processed[i]
    /\ pc[w] = "finish" => cur[w] = NumChunks + 1
    /\ pc[w] \in {"load", "receipt"} =>
         /\ batch[w] \in 1..(Len(Batches(i, cur[w])) + 1)
         /\ \A b \in DOMAIN Batches(i, cur[w]) :
              b < batch[w] => Present(Batches(i, cur[w])[b])
    /\ pc[w] = "receipt" => batch[w] = Len(Batches(i, cur[w])) + 1

(***************************************************************************)
(* No import is stranded: processing goes with a token and a lease that    *)
(* can run out, so a claim can always pick the row up again; a row at rest *)
(* has neither.                                                            *)
(***************************************************************************)
NeverOrphaned ==
  \A i \in Import :
    /\ status[i] = "processing" <=> worker_token[i] # NoToken
    /\ status[i] = "processing" <=> lease[i] # "none"

\* Rows of measurements that carry an event of this import.
Inserted(i) == {k \in Key : measurement[k] = i}

(***************************************************************************)
(* values_inserted never claims more rows than the import inserted, not    *)
(* even when two workers load the same chunk: ON CONFLICT DO NOTHING       *)
(* reports each row to one of them.                                        *)
(***************************************************************************)
InsertedNeverOverstated ==
  \A i \in Import : values_inserted[i] <= Cardinality(Inserted(i))

(***************************************************************************)
(* The manifest's receipts are immutable: a chunk that is processed stays  *)
(* so, with the count it was given.                                        *)
(***************************************************************************)
ReceiptImmutable ==
  [][\A i \in Import : \A c \in processed[i] :
       c \in processed'[i] /\ chunk_inserted'[i][c] = chunk_inserted[i][c]]_vars

(***************************************************************************)
(* Storage is removed only when the import will not be processed again:    *)
(* an import that is queued, processing or loaded still has its files.     *)
(***************************************************************************)
ActiveImportKeepsFiles ==
  \A i \in Import : i \notin files => status[i] \in TERMINAL_IMPORT_STATUSES

(***************************************************************************)
(* failed is a terminal status, and data_loaded is left only by the        *)
(* post-processing worker: no ingestion step leaves either.                *)
(***************************************************************************)
IngestionEnds ==
  [][\A i \in Import :
       status[i] \in {"failed", "data_loaded"} => status'[i] = status[i]]_vars
=============================================================================
