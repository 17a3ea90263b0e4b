------------------------ MODULE ImportManifestProofs ------------------------
(***************************************************************************)
(* Theorems about ImportManifest, for any set of requests and contents,    *)
(* any manifest, any uploads and any number of faults.                     *)
(***************************************************************************)
EXTENDS ImportManifest, FiniteSetTheorems, TLAPS

LEMMA UploadFields ==
  ASSUME NEW u \in Upload
  PROVE  /\ u.chunk \in Chunk
         /\ u.body \in Content
         /\ u.sha \in Content
         /\ ByteSize[u.body] \in Nat
         /\ u # NoUpload
<1>1. u.chunk \in Chunk /\ u.body \in Content /\ u.sha \in Content
  BY UploadAssumption
<1> QED
  BY <1>1, ContentAssumption DEF NoUpload

LEMMA NoUploadFields == NoUpload.chunk = 0 /\ NoUpload.body = None /\ 0 \in Chunk
BY TotalAssumption DEF NoUpload, Chunk

\* A handler that answers forgets its request.
LEMMA AnsweredTypes ==
  ASSUME TypeOK, NEW r \in Request, Answered(r)
  PROVE  /\ pc' \in [Request -> PC]
         /\ upload' \in [Request -> Upload \union {NoUpload}]
         /\ bytes' \in [Request -> Nat]
         /\ sensors_path' \in [Request -> BOOLEAN]
         /\ \A s \in Request : upload'[s] = NoUpload <=> pc'[s] = "idle"
BY DEF TypeOK, Answered, Goto, PC
-----------------------------------------------------------------------------
(***************************************************************************)
(* Type correctness, of which the lock is part: a request holds the row    *)
(* exactly from its first query to its commit or rollback.                 *)
(***************************************************************************)
LEMMA TypeOKInit == Init => TypeOK
<1> SUFFICES ASSUME Init PROVE TypeOK
  OBVIOUS
<1>1. \A r \in Request : lock = r <=> pc[r] \in Locked
  BY RequestAssumption DEF Init, Locked
<1>2. pc \in [Request -> PC] /\ status \in Status
  BY DEF Init, PC, Status
<1>3. \A r \in Request : upload[r] = NoUpload <=> pc[r] = "idle"
  BY DEF Init
<1> QED
  BY <1>1, <1>2, <1>3 DEF Init, TypeOK

LEMMA TypeOKStep == TypeOK /\ [Next]_vars => TypeOK'
<1> SUFFICES ASSUME TypeOK, [Next]_vars PROVE TypeOK'
  OBVIOUS
<1> USE DEF TypeOK, PC, Locked, Goto
<1>1. ASSUME NEW r \in Request, NEW u \in Upload, Lock(r, u) PROVE TypeOK'
  BY <1>1, UploadFields, RequestAssumption, BoundAssumption
  DEF Lock, RowIsFree, manifest, storage
<1>2. ASSUME NEW r \in Request, Persist(r) PROVE TypeOK'
  <2>1. upload[r] \in Upload
    BY <1>2 DEF Persist
  <2> QED
    BY <1>2, <2>1, UploadFields DEF Persist, manifest, carried, env
<1>3. ASSUME NEW r \in Request, Sensors(r) PROVE TypeOK'
  <2>1. /\ sensors_path' \in [Request -> BOOLEAN]
        /\ sensors_file' \in BOOLEAN
    BY <1>3 DEF Sensors
  <2>2. \/ pc' = [pc EXCEPT ![r] = "commit"]
        \/ pc' = [pc EXCEPT ![r] = "rollback"]
    BY <1>3 DEF Sensors
  <2>3. pc[r] = "sensors" /\ UNCHANGED <<manifest, file, lock, upload, bytes, env>>
    BY <1>3 DEF Sensors
  <2> QED
    BY <2>1, <2>2, <2>3 DEF manifest, env
<1>4. ASSUME NEW r \in Request, Record(r), upload[r] \in Upload
      PROVE  /\ receipt' \in [Chunk -> Content \union {None}]
             /\ received_bytes' \in Nat
             /\ status' \in Status
             /\ sensors_key' \in BOOLEAN
  <2>1. received_bytes' \in Nat
    BY <1>4, UploadFields DEF Record
  <2> QED
    BY <1>4, <2>1, UploadFields DEF Record, Status
<1>5. ASSUME NEW r \in Request, Commit(r) PROVE TypeOK'
  <2>1. upload[r] \in Upload
    BY <1>5 DEF Commit
  <2>2. Record(r) /\ Answered(r)
    BY <1>5 DEF Commit
  <2>3. \A s \in Request : lock' = s <=> pc'[s] \in Locked
    BY <1>5, RequestAssumption DEF Commit, Answered
  <2> QED
    BY <1>5, <1>4, <2>1, <2>2, <2>3, AnsweredTypes DEF Commit, storage, env
<1>6. ASSUME NEW r \in Request, CommitFails(r) PROVE TypeOK'
  BY <1>6 DEF CommitFails, manifest, storage, carried, env
<1>7. ASSUME NEW r \in Request, CommitUnanswered(r) PROVE TypeOK'
  <2>1. upload[r] \in Upload /\ Record(r)
    BY <1>7 DEF CommitUnanswered
  <2> QED
    BY <1>7, <1>4, <2>1, RequestAssumption
    DEF CommitUnanswered, Fault, storage, carried
<1>8. ASSUME NEW r \in Request, Rollback(r) PROVE TypeOK'
  BY <1>8, RequestAssumption DEF Rollback, manifest, storage, carried, env
<1>9. ASSUME NEW r \in Request, Unlink(r) PROVE TypeOK'
  <2>1. file' \in [Chunk -> Content \union {None}]
    BY <1>9 DEF Unlink
  <2>2. CASE Answered(r)
    BY <1>9, <2>1, <2>2, AnsweredTypes DEF Unlink, Answered, manifest, env
  <2>3. CASE Goto(r, "unlink_sensors") /\ UNCHANGED carried
    BY <1>9, <2>1, <2>3 DEF Unlink, carried, manifest, env
  <2> QED
    BY <1>9, <2>2, <2>3 DEF Unlink
<1>10. ASSUME NEW r \in Request, UnlinkSensors(r) PROVE TypeOK'
  BY <1>10, AnsweredTypes DEF UnlinkSensors, Answered, manifest, env
<1>11. ASSUME NEW r \in Request, Crash(r) PROVE TypeOK'
  <2>1. \A s \in Request : lock' = s <=> pc'[s] \in Locked
    BY <1>11, RequestAssumption DEF Crash, Answered
  <2> QED
    BY <1>11, <2>1, AnsweredTypes DEF Crash, Fault, manifest, storage
<1>12. ASSUME finalize PROVE TypeOK'
  BY <1>12 DEF finalize, Status, storage, carried, env
<1>13. ASSUME WorkerStep PROVE TypeOK'
  BY <1>13 DEF WorkerStep, Status, storage, carried, env
<1>14. ASSUME UNCHANGED vars PROVE TypeOK'
  BY <1>14 DEF vars, manifest, storage, carried, env
<1> QED
  BY <1>1, <1>2, <1>3, <1>5, <1>6, <1>7, <1>8, <1>9, <1>10, <1>11, <1>12,
     <1>13, <1>14
  DEF Next, HandlerStep

(***************************************************************************)
(* The variables of the manifest, the storage and the handlers keep their  *)
(* types, and the row lock is held by the request that the code says.      *)
(***************************************************************************)
THEOREM TypeCorrect == Spec => []TypeOK
BY TypeOKInit, TypeOKStep, PTL DEF Spec
-----------------------------------------------------------------------------
(***************************************************************************)
(* The storage agrees with the receipts. Of an orderly client's requests,  *)
(* no two are about one chunk, and a chunk under way has no receipt yet:   *)
(* what a failed request removes is its own.                               *)
(***************************************************************************)
Apart ==
  \A r, s \in Request :
    pc[r] # "idle" /\ pc[s] # "idle" /\ upload[r].chunk = upload[s].chunk => r = s

Pending == \A r \in Request : pc[r] # "idle" => receipt[upload[r].chunk] = None

Written ==
  \A r \in Request :
    pc[r] \in {"sensors", "commit"} => file[upload[r].chunk] = upload[r].body

OwnSensors ==
  \A r \in Request :
    /\ sensors_path[r] => /\ pc[r] \in {"commit", "rollback", "unlink", "unlink_sensors"}
                          /\ upload[r].chunk = 0 /\ ~sensors_key
    /\ sensors_path[r] /\ pc[r] = "commit" => sensors_file
    /\ pc[r] = "unlink_sensors" => sensors_path[r]

SealedHasReceipts == status \notin Open => \A c \in Chunk : receipt[c] # None

FilesInv ==
  /\ Apart /\ Pending /\ Written /\ OwnSensors
  /\ ReceiptHasFile /\ SealedHasReceipts

OrderlyInv == orderly => FilesInv

LEMMA OrderlyInvInit == Init => OrderlyInv
<1> SUFFICES ASSUME Init PROVE FilesInv
  BY DEF OrderlyInv
<1>1. Apart /\ Pending /\ Written /\ OwnSensors
  BY DEF Init, Apart, Pending, Written, OwnSensors
<1>2. ReceiptHasFile /\ SealedHasReceipts
  BY DEF Init, ReceiptHasFile, SealedHasReceipts, Open
<1> QED
  BY <1>1, <1>2 DEF FilesInv

\* A request that is under way carries one of the client's uploads.
LEMMA UnderWay ==
  ASSUME TypeOK, NEW r \in Request, pc[r] # "idle"
  PROVE  /\ upload[r] \in Upload
         /\ upload[r].chunk \in Chunk
         /\ upload[r].body \in Content
         /\ upload[r].body # None
BY UploadFields, ContentAssumption DEF TypeOK

\* A request that ends disturbs none of the others.
LEMMA AnsweredKeeps ==
  ASSUME TypeOK, NEW r \in Request, Answered(r), Apart, Pending
  PROVE  /\ pc'[r] = "idle" /\ sensors_path'[r] = FALSE
         /\ \A s \in Request \ {r} :
              /\ pc'[s] = pc[s] /\ upload'[s] = upload[s]
              /\ sensors_path'[s] = sensors_path[s]
         /\ Apart'
BY DEF Answered, Goto, Apart, TypeOK

\* Steps of one handler r that leave the manifest alone: the other requests see
\* no difference but in the file of r's chunk and in the sensors file.
LEMMA ManifestKept ==
  ASSUME TypeOK, FilesInv, UNCHANGED <<status, sensors_key, receipt>>
  PROVE  SealedHasReceipts'
BY DEF FilesInv, SealedHasReceipts

LEMMA ClientStays == [Next]_vars => orderly' = orderly
BY DEF Next, HandlerStep, vars, env, Lock, Persist, Sensors, Commit,
       CommitFails, CommitUnanswered, Rollback, Unlink, UnlinkSensors,
       Crash, finalize, WorkerStep

LEMMA OrderlyInvStep == TypeOK /\ OrderlyInv /\ [Next]_vars => OrderlyInv'
<1> SUFFICES ASSUME TypeOK, FilesInv, orderly, [Next]_vars PROVE FilesInv'
  BY ClientStays DEF OrderlyInv
<1> USE DEF FilesInv
<1>1. ASSUME NEW r \in Request, NEW u \in Upload, Lock(r, u) PROVE FilesInv'
  <2>1. /\ pc' = [pc EXCEPT ![r] = "persist"]
        /\ upload' = [upload EXCEPT ![r] = u]
        /\ pc[r] = "idle" /\ NotUnderWay(u) /\ Accepts(u)
        /\ UNCHANGED <<manifest, storage, sensors_path>>
    BY <1>1 DEF Lock, Goto
  <2>2. Apart'
    BY <2>1 DEF Apart, NotUnderWay, TypeOK
  <2>3. Pending'
    BY <2>1 DEF Pending, Accepts, manifest, TypeOK
  <2>4. Written'
    BY <2>1 DEF Written, storage, TypeOK
  <2>5. OwnSensors'
    BY <2>1 DEF OwnSensors, manifest, storage, TypeOK
  <2>6. ReceiptHasFile'
    BY <2>1 DEF ReceiptHasFile, manifest, storage
  <2> QED
    BY <2>1, <2>2, <2>3, <2>4, <2>5, <2>6, ManifestKept DEF manifest
<1>2. ASSUME NEW r \in Request, Persist(r) PROVE FilesInv'
  <2>1. /\ pc[r] = "persist" /\ upload[r].chunk \in Chunk
        /\ UNCHANGED <<manifest, sensors_file, upload, sensors_path>>
    BY <1>2, UnderWay DEF Persist, carried
  <2>2. \/ /\ file' = [file EXCEPT ![upload[r].chunk] = upload[r].body]
           /\ \/ pc' = [pc EXCEPT ![r] = "sensors"]
              \/ pc' = [pc EXCEPT ![r] = "rollback"]
        \/ file' = file /\ pc' = [pc EXCEPT ![r] = "rollback"]
    BY <1>2 DEF Persist, Goto
  <2>3. \A s \in Request : pc'[s] = "idle" <=> pc[s] = "idle"
    BY <2>1, <2>2 DEF TypeOK
  <2>4. Apart' /\ Pending'
    BY <2>1, <2>3 DEF Apart, Pending, manifest
  <2>5. Written'
    <3> SUFFICES ASSUME NEW s \in Request, pc'[s] \in {"sensors", "commit"}
                 PROVE  file'[upload[s].chunk] = upload[s].body
      BY <2>1 DEF Written
    <3>1. CASE s = r
      BY <2>1, <2>2, <3>1 DEF TypeOK
    <3>2. CASE s # r
      <4>1. pc'[s] = pc[s]
        BY <2>2, <3>2 DEF TypeOK
      <4>2. upload[s].chunk # upload[r].chunk /\ upload[s].chunk \in Chunk
        BY <2>1, <3>2, <4>1, UnderWay DEF Apart
      <4> QED
        BY <2>2, <4>1, <4>2 DEF Written, TypeOK
    <3> QED
      BY <3>1, <3>2
  <2>6. OwnSensors'
    BY <2>1, <2>2 DEF OwnSensors, manifest, TypeOK
  <2>7. ReceiptHasFile'
    BY <2>1, <2>2 DEF ReceiptHasFile, Pending, manifest, TypeOK
  <2> QED
    BY <2>1, <2>4, <2>5, <2>6, <2>7, ManifestKept DEF manifest
<1>3. ASSUME NEW r \in Request, Sensors(r) PROVE FilesInv'
  <2>1. pc[r] = "sensors" /\ UNCHANGED <<manifest, file, upload>>
    BY <1>3 DEF Sensors
  <2>2. \/ /\ WantsSensors(r)
           /\ sensors_path' = [sensors_path EXCEPT ![r] = TRUE]
           /\ \/ sensors_file' = TRUE /\ pc' = [pc EXCEPT ![r] = "commit"]
              \/ /\ sensors_file' \in {sensors_file, TRUE}
                 /\ pc' = [pc EXCEPT ![r] = "rollback"]
        \/ /\ UNCHANGED <<sensors_path, sensors_file>>
           /\ \/ pc' = [pc EXCEPT ![r] = "commit"]
              \/ pc' = [pc EXCEPT ![r] = "rollback"]
    BY <1>3 DEF Sensors, Goto
  <2>3. /\ \A s \in Request \ {r} : pc'[s] = pc[s] /\ sensors_path'[s] = sensors_path[s]
        /\ pc'[r] \in {"commit", "rollback"}
    BY <2>2 DEF TypeOK
  <2>4. Apart' /\ Pending' /\ Written'
    BY <2>1, <2>3 DEF Apart, Pending, Written, manifest
  <2>5. sensors_file => sensors_file'
    BY <2>2
  <2>6. OwnSensors'
    <3>1. ~sensors_path[r]
      BY <2>1 DEF OwnSensors
    <3>2. CASE WantsSensors(r) /\ sensors_path'[r]
      BY <2>1, <2>2, <2>3, <2>5, <3>1, <3>2 DEF OwnSensors, WantsSensors, manifest, TypeOK
    <3>3. CASE ~sensors_path'[r]
      BY <2>1, <2>2, <2>3, <2>5, <3>3 DEF OwnSensors, manifest, TypeOK
    <3> QED
      BY <2>2, <3>1, <3>2, <3>3 DEF TypeOK
  <2>7. ReceiptHasFile'
    BY <2>1, <2>5 DEF ReceiptHasFile, manifest
  <2> QED
    BY <2>1, <2>4, <2>6, <2>7, ManifestKept DEF manifest
<1>4. ASSUME NEW r \in Request, Commit(r) PROVE FilesInv'
  <2>1. /\ pc[r] = "commit" /\ Record(r) /\ Answered(r) /\ UNCHANGED storage
        /\ upload[r].chunk \in Chunk /\ upload[r].body # None
    BY <1>4, UnderWay DEF Commit
  <2>2. /\ pc'[r] = "idle" /\ sensors_path'[r] = FALSE
        /\ \A s \in Request \ {r} :
             /\ pc'[s] = pc[s] /\ upload'[s] = upload[s]
             /\ sensors_path'[s] = sensors_path[s]
        /\ Apart'
    BY <2>1, AnsweredKeeps
  <2>3. receipt' = [receipt EXCEPT ![upload[r].chunk] = upload[r].body]
    BY <2>1 DEF Record
  <2>4. Pending'
    BY <2>1, <2>2, <2>3, UnderWay DEF Pending, Apart, TypeOK
  <2>5. Written'
    BY <2>1, <2>2 DEF Written, storage
  <2>6. OwnSensors'
    <3> SUFFICES ASSUME NEW s \in Request
                 PROVE  /\ sensors_path'[s] =>
                             /\ pc'[s] \in {"commit", "rollback", "unlink", "unlink_sensors"}
                             /\ upload'[s].chunk = 0 /\ ~sensors_key'
                        /\ sensors_path'[s] /\ pc'[s] = "commit" => sensors_file'
                        /\ pc'[s] = "unlink_sensors" => sensors_path'[s]
      BY DEF OwnSensors
    <3>1. CASE s = r
      BY <2>2, <3>1
    <3>2. CASE s # r
      <4>1. sensors_path[s] => ~sensors_path[r]
        BY <2>1, <3>2 DEF OwnSensors, Apart
      <4> QED
        BY <2>1, <2>2, <3>2, <4>1 DEF OwnSensors, Record, storage, TypeOK
    <3> QED
      BY <3>1, <3>2
  <2>7. ReceiptHasFile'
    <3>1. sensors_key' => sensors_file'
      BY <2>1 DEF ReceiptHasFile, OwnSensors, Record, storage
    <3> QED
      BY <2>1, <2>3, <3>1 DEF ReceiptHasFile, Written, storage, TypeOK
  <2>8. SealedHasReceipts'
    BY <2>1 DEF SealedHasReceipts, Record, Open
  <2> QED
    BY <2>2, <2>4, <2>5, <2>6, <2>7, <2>8
<1>5. ASSUME NEW r \in Request, CommitFails(r) \/ Rollback(r) PROVE FilesInv'
  <2>1. /\ pc[r] \in {"commit", "rollback"}
        /\ \/ pc' = [pc EXCEPT ![r] = "rollback"]
           \/ pc' = [pc EXCEPT ![r] = "unlink"]
        /\ UNCHANGED <<manifest, storage, upload, sensors_path>>
    BY <1>5 DEF CommitFails, Rollback, Goto, carried
  <2>2. /\ \A s \in Request \ {r} : pc'[s] = pc[s]
        /\ pc'[r] \in {"rollback", "unlink"}
    BY <2>1 DEF TypeOK
  <2>3. Apart' /\ Pending' /\ Written'
    BY <2>1, <2>2 DEF Apart, Pending, Written, manifest, storage
  <2>4. OwnSensors' /\ ReceiptHasFile'
    BY <2>1, <2>2 DEF OwnSensors, ReceiptHasFile, manifest, storage
  <2> QED
    BY <2>1, <2>3, <2>4, ManifestKept DEF manifest
<1>6. ASSUME NEW r \in Request, CommitUnanswered(r) PROVE FALSE
  BY <1>6 DEF CommitUnanswered
<1>7. ASSUME NEW r \in Request, Unlink(r) PROVE FilesInv'
  <2>1. /\ pc[r] = "unlink" /\ upload[r].chunk \in Chunk
        /\ UNCHANGED <<manifest, sensors_file>>
        /\ file' \in {file, [file EXCEPT ![upload[r].chunk] = None]}
    BY <1>7, UnderWay DEF Unlink
  <2>2. ReceiptHasFile'
    BY <2>1 DEF ReceiptHasFile, Pending, manifest, TypeOK
  <2>3. \A s \in Request \ {r} : pc[s] # "idle" =>
          file'[upload[s].chunk] = file[upload[s].chunk]
    BY <2>1, UnderWay DEF Apart, TypeOK
  <2>4. CASE Answered(r)
    <3>1. /\ pc'[r] = "idle" /\ sensors_path'[r] = FALSE
          /\ \A s \in Request \ {r} :
               /\ pc'[s] = pc[s] /\ upload'[s] = upload[s]
               /\ sensors_path'[s] = sensors_path[s]
          /\ Apart'
      BY <2>4, AnsweredKeeps
    <3>2. Pending' /\ Written'
      BY <2>1, <2>3, <3>1 DEF Pending, Written, manifest
    <3>3. OwnSensors'
      BY <2>1, <3>1 DEF OwnSensors, manifest
    <3> QED
      BY <2>1, <2>2, <3>1, <3>2, <3>3, ManifestKept DEF manifest
  <2>5. CASE Goto(r, "unlink_sensors") /\ sensors_path[r] /\ UNCHANGED carried
    <3>1. /\ pc'[r] = "unlink_sensors"
          /\ \A s \in Request \ {r} : pc'[s] = pc[s]
          /\ UNCHANGED <<upload, sensors_path>>
      BY <2>5 DEF Goto, carried, TypeOK
    <3>2. Apart' /\ Pending' /\ Written'
      BY <2>1, <2>3, <3>1 DEF Apart, Pending, Written, manifest
    <3>3. OwnSensors'
      BY <2>1, <2>5, <3>1 DEF OwnSensors, manifest
    <3> QED
      BY <2>1, <2>2, <3>2, <3>3, ManifestKept DEF manifest
  <2> QED
    BY <1>7, <2>4, <2>5 DEF Unlink
<1>8. ASSUME NEW r \in Request, UnlinkSensors(r) PROVE FilesInv'
  <2>1. /\ pc[r] = "unlink_sensors" /\ Answered(r)
        /\ UNCHANGED <<manifest, file>> /\ sensors_path[r]
    BY <1>8 DEF UnlinkSensors, OwnSensors
  <2>2. /\ pc'[r] = "idle" /\ sensors_path'[r] = FALSE
        /\ \A s \in Request \ {r} :
             /\ pc'[s] = pc[s] /\ upload'[s] = upload[s]
             /\ sensors_path'[s] = sensors_path[s]
        /\ Apart'
    BY <2>1, AnsweredKeeps
  <2>3. Pending' /\ Written'
    BY <2>1, <2>2 DEF Pending, Written, manifest
  <2>4. \A s \in Request \ {r} : ~sensors_path[s]
    BY <2>1 DEF OwnSensors, Apart
  <2>5. OwnSensors'
    BY <2>1, <2>2, <2>4 DEF OwnSensors, manifest
  <2>6. ReceiptHasFile'
    BY <2>1 DEF ReceiptHasFile, OwnSensors, manifest
  <2> QED
    BY <2>1, <2>2, <2>3, <2>5, <2>6, ManifestKept DEF manifest
<1>9. ASSUME NEW r \in Request, Crash(r) PROVE FilesInv'
  <2>1. Answered(r) /\ UNCHANGED <<manifest, storage>>
    BY <1>9 DEF Crash
  <2>2. /\ pc'[r] = "idle" /\ sensors_path'[r] = FALSE
        /\ \A s \in Request \ {r} :
             /\ pc'[s] = pc[s] /\ upload'[s] = upload[s]
             /\ sensors_path'[s] = sensors_path[s]
        /\ Apart'
    BY <2>1, AnsweredKeeps
  <2>3. Pending' /\ Written'
    BY <2>1, <2>2 DEF Pending, Written, manifest, storage
  <2>4. OwnSensors' /\ ReceiptHasFile'
    BY <2>1, <2>2 DEF OwnSensors, ReceiptHasFile, manifest, storage
  <2> QED
    BY <2>1, <2>2, <2>3, <2>4, ManifestKept DEF manifest
<1>10. ASSUME finalize \/ WorkerStep PROVE FilesInv'
  <2>1. UNCHANGED <<sensors_key, receipt, storage, pc, upload, sensors_path>>
    BY <1>10 DEF finalize, WorkerStep, carried
  <2>2. Apart' /\ Pending' /\ Written' /\ OwnSensors' /\ ReceiptHasFile'
    BY <2>1 DEF Apart, Pending, Written, OwnSensors, ReceiptHasFile, storage
  <2>3. \/ \A c \in Chunk : receipt[c] # None
        \/ status \notin Open
    BY <1>10 DEF finalize, Complete, WorkerStep, Open
  <2>4. SealedHasReceipts'
    BY <2>1, <2>3 DEF SealedHasReceipts
  <2> QED
    BY <2>2, <2>4
<1>11. ASSUME UNCHANGED vars PROVE FilesInv'
  BY <1>11
  DEF vars, manifest, storage, carried, Apart, Pending, Written, OwnSensors,
      ReceiptHasFile, SealedHasReceipts
<1> QED
  BY <1>1, <1>2, <1>3, <1>4, <1>5, <1>6, <1>7, <1>8, <1>9, <1>10, <1>11
  DEF Next, HandlerStep

(***************************************************************************)
(* A receipt of an orderly client's import has its file, with the content  *)
(* the receipt names, whatever the client sends and whatever fails.        *)
(***************************************************************************)
THEOREM ReceiptsHaveFiles == Spec => []OrderlyReceiptHasFile
<1>1. OrderlyInv => OrderlyReceiptHasFile
  BY DEF OrderlyInv, FilesInv, OrderlyReceiptHasFile
<1> QED
  BY <1>1, OrderlyInvInit, OrderlyInvStep, TypeOKInit, TypeOKStep, PTL DEF Spec

(***************************************************************************)
(* The files of a sealed import do not change: every chunk has a receipt,  *)
(* and no request for a chunk with a receipt is under way.                 *)
(***************************************************************************)
THEOREM SealedFilesAreFrozen == Spec => SealedIsFrozen
<1>1. ASSUME TypeOK, OrderlyInv, [Next]_vars
      PROVE  [orderly /\ status \notin Open => UNCHANGED storage]_vars
  <2> SUFFICES ASSUME orderly, status \notin Open, Next PROVE UNCHANGED storage
    BY <1>1
  <2>1. \A r \in Request : pc[r] = "idle"
    BY <1>1, UnderWay DEF OrderlyInv, FilesInv, SealedHasReceipts, Pending
  <2> QED
    BY <2>1
    DEF Next, HandlerStep, Lock, Persist, Sensors, Commit, CommitFails,
        CommitUnanswered, Rollback, Unlink, UnlinkSensors, Crash, finalize,
        WorkerStep, storage
<1> QED
  BY <1>1, OrderlyInvInit, OrderlyInvStep, TypeOKInit, TypeOKStep, PTL
  DEF Spec, SealedIsFrozen
-----------------------------------------------------------------------------
(***************************************************************************)
(* The bytes are accounted for. Who holds the row has loaded the number of *)
(* bytes as it still is, and an import whose row is held is open.          *)
(***************************************************************************)
BytesOf(c) == {c} \X (1..ByteSize[receipt[c]])
Bytes == UNION {BytesOf(c) : c \in Received}

Loaded ==
  \A r \in Request :
    /\ pc[r] \in Locked => bytes[r] = received_bytes /\ status \in Open
    /\ pc[r] \in {"sensors", "commit"} => Fits(r)

BytesInv == Loaded /\ IsFiniteSet(Bytes) /\ BytesMatchReceipts

\* A chunk of n bytes has n of them.
LEMMA BytesOfAChunk ==
  ASSUME NEW c, NEW n \in Nat
  PROVE  IsFiniteSet({c} \X (1..n)) /\ Cardinality({c} \X (1..n)) = n
<1> DEFINE number == [k \in 1..n |-> <<c, k>>]
<1>1. number \in Bijection(1..n, {c} \X (1..n))
  <2>1. number \in [1..n -> {c} \X (1..n)]
    OBVIOUS
  <2>2. \A j, k \in 1..n : number[j] = number[k] => j = k
    OBVIOUS
  <2>3. \A b \in {c} \X (1..n) : \E k \in 1..n : number[k] = b
    OBVIOUS
  <2> HIDE DEF number
  <2> QED
    BY <2>1, <2>2, <2>3 DEF Bijection, Injection, IsInjective, Surjection
<1>2. ExistsBijection(1..n, {c} \X (1..n))
  BY <1>1 DEF ExistsBijection
<1>3. IsFiniteSet(1..n) /\ Cardinality(1..n) = n
  BY FS_Interval
<1> QED
  BY <1>2, <1>3, FS_Bijection

LEMMA NothingReceived == Init => BytesInv
<1> SUFFICES ASSUME Init PROVE BytesInv
  OBVIOUS
<1>1. Received = {}
  BY DEF Init, Received
<1>2. Bytes = {} /\ SizeOf(Received) = 0 /\ IsFiniteSet(Bytes)
  BY <1>1, FS_EmptySet DEF Bytes, SizeOf
<1>3. Loaded
  BY DEF Init, Loaded, Locked
<1> QED
  BY <1>2, <1>3, TotalAssumption DEF Init, BytesInv, BytesMatchReceipts, Open

\* The receipt of one more chunk adds the bytes of that chunk.
LEMMA ReceiptAdds ==
  ASSUME TypeOK, BytesInv, NEW r \in Request, pc[r] = "commit", Record(r)
  PROVE  IsFiniteSet(Bytes') /\ SizeOf(Received)' = received_bytes'
<1> DEFINE u == upload[r]
           n == ByteSize[u.body]
           new == {u.chunk} \X (1..n)
<1>1. u \in Upload /\ u.chunk \in Chunk /\ u.body \in Content /\ n \in Nat
  BY UnderWay, UploadFields
<1>2. /\ u.chunk \notin Received /\ Received' = Received \union {u.chunk}
      /\ \A c \in Received : receipt'[c] = receipt[c]
      /\ receipt'[u.chunk] = u.body
  BY <1>1, ContentAssumption DEF Record, Received, TypeOK
<1>3. Bytes' = Bytes \union new /\ Bytes \cap new = {}
  <2>1. \A c \in Received : BytesOf(c)' = BytesOf(c)
    BY <1>2 DEF BytesOf
  <2>2. \A c : c = u.chunk => BytesOf(c)' = new
    BY <1>2 DEF BytesOf
  <2>3. Bytes' = Bytes \union new
    <3> HIDE DEF new
    <3> QED
      BY <1>2, <2>1, <2>2 DEF Bytes
  <2>4. Bytes \cap new = {}
    BY <1>2 DEF Bytes, BytesOf
  <2> QED
    BY <2>3, <2>4
<1>4. IsFiniteSet(Bytes') /\ Cardinality(Bytes') = Cardinality(Bytes) + n
  <2>1. IsFiniteSet(new) /\ Cardinality(new) = n
    BY <1>1, BytesOfAChunk
  <2>2. IsFiniteSet(Bytes) /\ Cardinality(Bytes) \in Nat /\ Cardinality({}) = 0
    BY FS_CardinalityType, FS_EmptySet DEF BytesInv
  <2> HIDE DEF new, n
  <2>3. /\ IsFiniteSet(Bytes \union new)
        /\ Cardinality(Bytes \union new) =
             Cardinality(Bytes) + Cardinality(new) - Cardinality(Bytes \cap new)
    BY <2>1, <2>2, FS_Union
  <2>4. IsFiniteSet(Bytes') /\ Cardinality(Bytes') = Cardinality(Bytes \union new)
    BY <1>3, <2>3
  <2>5. Cardinality(Bytes \cap new) = 0
    BY <1>3, <2>2
  <2>6. n \in Nat /\ Cardinality(new) = n /\ Cardinality(Bytes) \in Nat
    BY <1>1, <2>1, <2>2
  <2> QED
    BY <2>3, <2>4, <2>5, <2>6
<1>5. received_bytes' = received_bytes + n /\ received_bytes = Cardinality(Bytes)
  BY DEF Record, BytesInv, Loaded, Locked, BytesMatchReceipts, SizeOf, Bytes, BytesOf
<1> QED
  BY <1>4, <1>5 DEF SizeOf, Bytes, BytesOf

LEMMA ReceiptsKept ==
  ASSUME UNCHANGED receipt
  PROVE  Received' = Received /\ Bytes' = Bytes /\ SizeOf(Received)' = SizeOf(Received)
         /\ SizeOf(Chunk)' = SizeOf(Chunk)
BY DEF Received, Bytes, BytesOf, SizeOf

LEMMA BytesInvStep == TypeOK /\ BytesInv /\ [Next]_vars => BytesInv'
<1> SUFFICES ASSUME TypeOK, BytesInv, [Next]_vars PROVE BytesInv'
  OBVIOUS
<1> USE DEF BytesInv, BytesMatchReceipts, Loaded, Locked, Goto
<1>0. /\ pc \in [Request -> PC] /\ bytes \in [Request -> Nat]
      /\ \A r \in Request : lock = r <=> pc[r] \in Locked
  BY DEF TypeOK
<1>1. ASSUME NEW r \in Request, NEW u \in Upload, Lock(r, u) PROVE BytesInv'
  <2>1. \A s \in Request : pc[s] \notin Locked
    BY <1>0, <1>1, RequestAssumption DEF Lock, RowIsFree
  <2>2. \A s \in Request \ {r} : upload'[s] = upload[s] /\ bytes'[s] = bytes[s] /\ pc'[s] = pc[s]
    BY <1>1 DEF Lock, TypeOK
  <2> QED
    BY <1>0, <1>1, <2>1, <2>2, ReceiptsKept DEF Lock, Accepts, manifest
<1>2. ASSUME NEW r \in Request, Persist(r) PROVE BytesInv'
  BY <1>0, <1>2, ReceiptsKept DEF Persist, manifest, carried, Fits
<1>3. ASSUME NEW r \in Request, Sensors(r) PROVE BytesInv'
  BY <1>0, <1>3, ReceiptsKept DEF Sensors, manifest, Fits
<1>4. ASSUME NEW r \in Request, pc[r] = "commit", Record(r), lock' = Free,
             Goto(r, "idle") \/ Goto(r, "unlink")
      PROVE  BytesInv'
  <2>1. /\ IsFiniteSet(Bytes') /\ SizeOf(Received)' = received_bytes'
        /\ received_bytes' <= total_bytes
    BY <1>4, ReceiptAdds DEF Fits, Record
  <2>2. \A s \in Request : pc'[s] \notin Locked
    BY <1>0, <1>4, RequestAssumption
  <2>3. status' \in Open
    BY <1>4 DEF Record, Open
  <2> QED
    BY <2>1, <2>2, <2>3
<1>5. ASSUME NEW r \in Request, Commit(r) PROVE BytesInv'
  BY <1>4, <1>5 DEF Commit, Answered
<1>6. ASSUME NEW r \in Request, CommitUnanswered(r) PROVE BytesInv'
  BY <1>4, <1>6 DEF CommitUnanswered
<1>7. ASSUME NEW r \in Request, CommitFails(r) \/ Rollback(r) PROVE BytesInv'
  BY <1>0, <1>7, ReceiptsKept DEF CommitFails, Rollback, manifest, carried, Fits
<1>8. ASSUME NEW r \in Request, Unlink(r) \/ UnlinkSensors(r) \/ Crash(r) PROVE BytesInv'
  <2>1. \A s \in Request \ {r} : upload'[s] = upload[s] /\ bytes'[s] = bytes[s] /\ pc'[s] = pc[s]
    BY <1>0, <1>8 DEF Unlink, UnlinkSensors, Crash, Answered, carried, TypeOK
  <2>2. pc'[r] \in {"idle", "unlink_sensors"}
    BY <1>0, <1>8 DEF Unlink, UnlinkSensors, Crash, Answered, carried
  <2> QED
    BY <1>0, <1>8, <2>1, <2>2, ReceiptsKept DEF Unlink, UnlinkSensors, Crash, manifest, Fits
<1>9. CASE finalize
  <2>1. Received = Chunk /\ \A s \in Request : pc[s] \notin Locked
    BY <1>0, <1>9, RequestAssumption DEF finalize, Complete, Received
  <2> QED
    BY <1>9, <2>1, ReceiptsKept DEF finalize, carried, Fits, Complete
<1>10. CASE WorkerStep
  <2>1. status \notin Open /\ \A s \in Request : pc[s] \notin Locked
    BY <1>0, <1>10, RequestAssumption DEF WorkerStep, Open
  <2> QED
    BY <1>10, <2>1, ReceiptsKept DEF WorkerStep, carried, Fits, Open
<1>11. CASE UNCHANGED vars
  BY <1>11, ReceiptsKept DEF vars, manifest, carried, Fits
<1> QED
  BY <1>1, <1>2, <1>3, <1>5, <1>6, <1>7, <1>8, <1>9, <1>10, <1>11
  DEF Next, HandlerStep

(***************************************************************************)
(* received_bytes is the sum of the receipts' sizes and never above the    *)
(* total, and a sealed import is complete, orderly client or not.          *)
(***************************************************************************)
THEOREM BytesAreAccounted == Spec => []BytesMatchReceipts
<1>1. BytesInv => BytesMatchReceipts
  BY DEF BytesInv
<1> QED
  BY <1>1, NothingReceived, BytesInvStep, TypeOKInit, TypeOKStep, PTL DEF Spec
=============================================================================
