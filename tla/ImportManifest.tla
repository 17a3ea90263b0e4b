--------------------------- MODULE ImportManifest ---------------------------
(***************************************************************************)
(* The manifest of one asynchronous import: the API requests that upload   *)
(* its chunks and seal it, the receipts in the database and the files in   *)
(* the storage root that they must agree with.                             *)
(*                                                                         *)
(* A request holds the lock on the import's row (SELECT FOR UPDATE) from   *)
(* its first query to its commit or rollback. A failed request removes its *)
(* file after the rollback, when it no longer holds the lock.              *)
(***************************************************************************)
EXTENDS Naturals, FiniteSets

CONSTANTS
  Request,       \* request handlers that run at the same time
  Content,       \* contents of a chunk; the SHA-256 stands for the content
  ByteSize,      \* ByteSize[c]: how many bytes the content c has
  total_chunks,  \* what the client declared when it created the import
  total_bytes,
  MaxChunkBytes, \* BULK_IMPORT_MAX_CHUNK_BYTES
  Upload,        \* the uploads the client may send
  MaxUploads,    \* bound: accepted uploads in a behaviour
  MaxFaults      \* bound: crashes and lost acknowledgements in a behaviour

Chunk == 0..(total_chunks - 1)

None == "none"   \* no receipt, no file
Free == "free"
NoUpload == [chunk |-> 0, body |-> None, sha |-> None, sensors |-> FALSE]

ASSUME ContentAssumption == None \notin Content /\ ByteSize \in [Content -> Nat]
ASSUME TotalAssumption ==
  /\ total_chunks \in Nat \ {0}
  /\ total_bytes \in Nat
  /\ MaxChunkBytes \in Nat
\* body is what arrives, sha what the client says it sent, and sensors
\* whether the form includes the sensors CSV.
ASSUME UploadAssumption ==
  Upload \subseteq [chunk : Chunk, body : Content, sha : Content, sensors : BOOLEAN]
ASSUME RequestAssumption == Free \notin Request
ASSUME BoundAssumption ==
  /\ MaxUploads \in Nat
  /\ MaxFaults \in Nat

VARIABLES
  \* durable
  status,          \* upload_imports.status
  received_bytes,
  sensors_key,     \* whether sensors_storage_key is set
  receipt,         \* upload_import_chunks.sha256, by chunk
  file,            \* content of chunk-<n>.csv in the storage root
  sensors_file,    \* whether sensors.csv is there
  lock,            \* the request that holds the row, or Free
  \* local to each request
  pc,
  upload,          \* the upload it handles
  bytes,           \* received_bytes as it loaded it
  sensors_path,    \* whether it has set sensors_path
  \* the client, and the bounds
  orderly,         \* never two requests for one chunk, every commit answered
  uploads,
  faults

manifest == <<status, received_bytes, sensors_key, receipt>>
storage  == <<file, sensors_file>>
carried  == <<upload, bytes, sensors_path>>
env      == <<orderly, uploads, faults>>
vars     == <<manifest, storage, lock, pc, carried, env>>

Status == {"created", "receiving", "queued", "processing", "data_loaded",
           "completed", "failed"}
Open == {"created", "receiving"}

PC == {"idle", "persist", "sensors", "commit", "rollback", "unlink", "unlink_sensors"}
Locked == {"persist", "sensors", "commit", "rollback"}

TypeOK ==
  /\ status \in Status
  /\ received_bytes \in Nat
  /\ sensors_key \in BOOLEAN
  /\ receipt \in [Chunk -> Content \union {None}]
  /\ file \in [Chunk -> Content \union {None}]
  /\ sensors_file \in BOOLEAN
  /\ lock \in Request \union {Free}
  /\ pc \in [Request -> PC]
  /\ upload \in [Request -> Upload \union {NoUpload}]
  /\ bytes \in [Request -> Nat]
  /\ sensors_path \in [Request -> BOOLEAN]
  /\ orderly \in BOOLEAN
  /\ uploads \in Nat
  /\ faults \in Nat
  /\ \A r \in Request : upload[r] = NoUpload <=> pc[r] = "idle"
  /\ \A r \in Request : lock = r <=> pc[r] \in Locked

\* create_import: an empty manifest, whose directory is created on demand.
Init ==
  /\ status = "created"
  /\ received_bytes = 0
  /\ sensors_key = FALSE
  /\ receipt = [c \in Chunk |-> None]
  /\ file = [c \in Chunk |-> None]
  /\ sensors_file = FALSE
  /\ lock = Free
  /\ pc = [r \in Request |-> "idle"]
  /\ upload = [r \in Request |-> NoUpload]
  /\ bytes = [r \in Request |-> 0]
  /\ sensors_path = [r \in Request |-> FALSE]
  /\ orderly \in BOOLEAN
  /\ uploads = 0
  /\ faults = 0

Goto(r, label) == pc' = [pc EXCEPT ![r] = label]

Answered(r) ==
  /\ Goto(r, "idle")
  /\ upload' = [upload EXCEPT ![r] = NoUpload]
  /\ bytes' = [bytes EXCEPT ![r] = 0]
  /\ sensors_path' = [sensors_path EXCEPT ![r] = FALSE]
-----------------------------------------------------------------------------
(***************************************************************************)
(* The requests that change nothing are left out: one refused because the  *)
(* import accepts no more chunks or has other content at this index, and   *)
(* one answered as a duplicate. A request that waits for the row has not   *)
(* begun.                                                                  *)
(***************************************************************************)
\* Mutant: the receipt is compared, but a duplicate is not answered at once.
AcceptsSame(u) == status \in Open /\ receipt[u.chunk] \in {None, u.sha}
Accepts(u) == status \in Open /\ receipt[u.chunk] = None

\* Mutant: the row is read without a lock.
RowIsRead == lock \in Request \union {Free}
RowIsFree == lock = Free

NotUnderWay(u) ==
  \A s \in Request : pc[s] # "idle" => upload[s].chunk # u.chunk

Lock(r, u) ==
  /\ pc[r] = "idle"
  /\ RowIsFree
  /\ orderly => NotUnderWay(u)
  /\ Accepts(u)
  /\ uploads < MaxUploads
  /\ uploads' = uploads + 1
  /\ lock' = r
  /\ upload' = [upload EXCEPT ![r] = u]
  /\ bytes' = [bytes EXCEPT ![r] = received_bytes]
  /\ Goto(r, "persist")
  /\ UNCHANGED <<manifest, storage, sensors_path, faults, orderly>>

(***************************************************************************)
(* persist_upload: the content is written to a temporary file, measured,   *)
(* compared with the digest and only then moved into place.                *)
(***************************************************************************)
Persistable(u) == ByteSize[u.body] <= MaxChunkBytes /\ u.body = u.sha

Fits(r) == bytes[r] + ByteSize[upload[r].body] <= total_bytes

Persist(r) ==
  LET u == upload[r] IN
  /\ pc[r] = "persist"
  /\ \/ /\ Persistable(u)
        /\ file' = [file EXCEPT ![u.chunk] = u.body]
        /\ Goto(r, IF Fits(r) THEN "sensors" ELSE "rollback")
     \* Too long, another digest, or an OSError before or after the move.
     \/ /\ Goto(r, "rollback")
        /\ \/ UNCHANGED file
           \/ Persistable(u) /\ file' = [file EXCEPT ![u.chunk] = u.body]
  /\ UNCHANGED <<manifest, sensors_file, lock, carried, env>>

(***************************************************************************)
(* The sensors CSV comes with chunk zero, once. sensors_path is set before *)
(* its file is persisted, whether or not that succeeds.                    *)
(***************************************************************************)
WantsSensors(r) == upload[r].chunk = 0 /\ ~sensors_key

Sensors(r) ==
  /\ pc[r] = "sensors"
  /\ IF WantsSensors(r) /\ upload[r].sensors
       THEN /\ sensors_path' = [sensors_path EXCEPT ![r] = TRUE]
            /\ \/ sensors_file' = TRUE /\ Goto(r, "commit")
               \/ sensors_file' \in {sensors_file, TRUE} /\ Goto(r, "rollback")
       ELSE /\ Goto(r, IF WantsSensors(r) \/ upload[r].sensors
                         THEN "rollback" ELSE "commit")
            /\ UNCHANGED <<sensors_path, sensors_file>>
  /\ UNCHANGED <<manifest, file, lock, upload, bytes, env>>

\* The receipt and the row, in one transaction.
Record(r) ==
  LET u == upload[r] IN
  /\ receipt[u.chunk] = None   \* uq_upload_import_chunk_index
  /\ receipt' = [receipt EXCEPT ![u.chunk] = u.body]
  /\ received_bytes' = bytes[r] + ByteSize[u.body]
  /\ status' = "receiving"
  /\ sensors_key' = (sensors_key \/ sensors_path[r])

Commit(r) ==
  /\ pc[r] = "commit"
  /\ lock' = Free
  /\ Record(r)
  /\ Answered(r)
  /\ UNCHANGED <<storage, env>>

\* The commit is refused by the database, and nothing of it is kept.
CommitFails(r) ==
  /\ pc[r] = "commit"
  /\ Goto(r, "rollback")
  /\ UNCHANGED <<manifest, storage, lock, carried, env>>

Fault == faults < MaxFaults /\ faults' = faults + 1

(***************************************************************************)
(* The commit is made, but the connection breaks before the answer: the    *)
(* handler sees an exception and takes the path of a failure.              *)
(***************************************************************************)
CommitUnanswered(r) ==
  /\ ~orderly
  /\ pc[r] = "commit"
  /\ Fault
  /\ lock' = Free
  /\ Record(r)
  /\ Goto(r, "unlink")
  /\ UNCHANGED <<storage, carried, uploads, orderly>>
-----------------------------------------------------------------------------
(***************************************************************************)
(* The failure path: roll back, which gives the row up, then remove the    *)
(* chunk's file and then the sensors file, by name, if they are there.     *)
(***************************************************************************)
Rollback(r) ==
  /\ pc[r] = "rollback"
  /\ lock' = Free
  /\ Goto(r, "unlink")
  /\ UNCHANGED <<manifest, storage, carried, env>>

Unlink(r) ==
  /\ pc[r] = "unlink"
  /\ \/ /\ file' = [file EXCEPT ![upload[r].chunk] = None]
        /\ IF sensors_path[r]
             THEN Goto(r, "unlink_sensors") /\ UNCHANGED carried
             ELSE Answered(r)
     \/ UNCHANGED file /\ Answered(r)   \* an OSError ends the handler
  /\ UNCHANGED <<manifest, sensors_file, lock, env>>

UnlinkSensors(r) ==
  /\ pc[r] = "unlink_sensors"
  /\ sensors_file' \in {FALSE, sensors_file}
  /\ Answered(r)
  /\ UNCHANGED <<manifest, file, lock, env>>

\* The API process dies: the database rolls back, the files stay.
Crash(r) ==
  /\ pc[r] # "idle"
  /\ Fault
  /\ lock' = IF lock = r THEN Free ELSE lock
  /\ Answered(r)
  /\ UNCHANGED <<manifest, storage, uploads, orderly>>
-----------------------------------------------------------------------------
\* finalize_async_import, one transaction on the locked row.
Complete ==
  /\ \A c \in Chunk : receipt[c] # None
  /\ received_bytes = total_bytes
  /\ sensors_key

finalize ==
  /\ lock = Free
  /\ status \in Open
  /\ Complete
  /\ status' = "queued"
  /\ UNCHANGED <<received_bytes, sensors_key, receipt, storage, lock, pc, carried, env>>

\* The workers move the sealed import on.
WorkerStep ==
  /\ lock = Free
  /\ \/ status = "queued" /\ status' = "processing"
     \/ status = "processing" /\ status' \in {"queued", "data_loaded", "failed"}
  /\ UNCHANGED <<received_bytes, sensors_key, receipt, storage, lock, pc, carried, env>>

HandlerStep(r) ==
  \/ Persist(r) \/ Sensors(r)
  \/ Commit(r) \/ CommitFails(r)
  \/ Rollback(r) \/ Unlink(r) \/ UnlinkSensors(r)

Next ==
  \/ \E r \in Request : \/ \E u \in Upload : Lock(r, u)
                        \/ HandlerStep(r)
                        \/ CommitUnanswered(r)
                        \/ Crash(r)
  \/ finalize
  \/ WorkerStep

Spec == Init /\ [][Next]_vars
-----------------------------------------------------------------------------
(***************************************************************************)
(* A chunk with a receipt is in the storage root, with the content the     *)
(* receipt names, and so is the sensors CSV once its key is set: a receipt *)
(* is final (a second upload of the chunk is answered as a duplicate), so  *)
(* what is lost cannot be sent again.                                      *)
(***************************************************************************)
ReceiptHasFile ==
  /\ \A c \in Chunk : receipt[c] # None => file[c] = receipt[c]
  /\ sensors_key => sensors_file

\* It is so for an orderly client, whatever it sends and whatever crashes.
OrderlyReceiptHasFile == orderly => ReceiptHasFile

(***************************************************************************)
(* received_bytes, which every handler computes from the value it has      *)
(* loaded, is the sum of the receipts' sizes, and never above the total; a *)
(* sealed import has every chunk, all the bytes declared, and the sensors. *)
(***************************************************************************)
Received == {c \in Chunk : receipt[c] # None}

\* The bytes of a chunk are numbered from 1.
SizeOf(S) == Cardinality(UNION {{c} \X (1..ByteSize[receipt[c]]) : c \in S})

BytesMatchReceipts ==
  /\ received_bytes = SizeOf(Received) /\ received_bytes <= total_bytes
  /\ status \notin Open =>
       Received = Chunk /\ SizeOf(Chunk) = total_bytes /\ sensors_key

(***************************************************************************)
(* Once the import of an orderly client is sealed no handler changes its   *)
(* files any more: what the workers read is what was sealed.               *)
(***************************************************************************)
SealedIsFrozen ==
  [][orderly /\ status \notin Open => UNCHANGED storage]_vars
=============================================================================
