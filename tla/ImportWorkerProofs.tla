------------------------- MODULE ImportWorkerProofs -------------------------
(***************************************************************************)
(* Theorems about ImportWorker, for any sets of imports and workers, any   *)
(* content, any number of crashes and stalls.                              *)
(***************************************************************************)
EXTENDS ImportWorker, FiniteSetTheorems, TLAPS

USE DEF NoToken

LEMMA IdleKeepsTypes ==
  ASSUME TypeOK, NEW w \in Worker, Idle(w)
  PROVE  /\ pc' = [pc EXCEPT ![w] = "idle"]
         /\ job' = [job EXCEPT ![w] = NoJob]
         /\ pc' \in [Worker -> PC]
         /\ job' \in [Worker -> Import \union {NoJob}]
         /\ held' \in [Worker -> Nat]
         /\ cur' \in [Worker -> 1..(NumChunks + 1)]
         /\ batch' \in [Worker -> Nat]
         /\ tally' \in [Worker -> Nat]
         /\ base' \in [Worker -> [rows_read : Nat, values_inserted : Nat]]
         /\ \A v \in Worker : pc'[v] # "idle" <=> job'[v] \in Import
         /\ \A v \in Worker : pc'[v] \in {"load", "receipt"} => cur'[v] \in Chunk
BY NumChunksAssumption, NoJobAssumption DEF Idle, TypeOK, PC, NoRead

LEMMA BatchesType ==
  ASSUME NEW i \in Import, NEW c \in Chunk
  PROVE  /\ Batches(i, c) \in Seq(SUBSET Key)
         /\ Len(Batches(i, c)) \in Nat
         /\ DOMAIN Batches(i, c) = 1..Len(Batches(i, c))
BY ContentAssumption DEF Batches

LEMMA FreshKeysAreFinite ==
  ASSUME NEW S \in SUBSET Key PROVE Cardinality(S) \in Nat
BY KeyAssumption, FS_Subset, FS_CardinalityType
-----------------------------------------------------------------------------
(***************************************************************************)
(* Type correctness.                                                       *)
(***************************************************************************)
LEMMA TypeOKInit == Init => TypeOK
<1> SUFFICES ASSUME Init PROVE TypeOK
  OBVIOUS
<1>1. RecordTypeOK
  BY MaxFaultsAssumption DEF Init, RecordTypeOK, Status
<1>2. /\ 1 \in 1..(NumChunks + 1)
      /\ NoRead \in [rows_read : Nat, values_inserted : Nat]
  BY NumChunksAssumption DEF NoRead
<1>3. measurement \in [Key -> Inserter]
  BY DEF Init, Inserter
<1> QED
  BY <1>1, <1>2, <1>3, NoJobAssumption DEF Init, TypeOK, PC, Lease

LEMMA TypeOKStep == TypeOK /\ [Next]_vars => TypeOK'
<1> SUFFICES ASSUME TypeOK, [Next]_vars PROVE TypeOK'
  OBVIOUS
<1> USE DEF TypeOK, RecordTypeOK
<1>1. ASSUME NEW w \in Worker, NEW i \in Import, claim_import(w, i)
      PROVE  TypeOK'
  BY <1>1, NoJobAssumption
  DEF claim_import, Goto, PC, Status, Lease, receiptVars
<1>2. ASSUME NEW w \in Worker, LeaseLost(w) PROVE TypeOK'
  BY <1>2, IdleKeepsTypes DEF LeaseLost, recordVars, rowVars, receiptVars
<1>3. ASSUME NEW w \in Worker, SkipChunk(w) PROVE TypeOK'
  <2>1. job[w] \in Import /\ cur[w] \in Chunk /\ pc[w] = "heartbeat"
    BY <1>3 DEF SkipChunk, heartbeat
  <2>2. cur' \in [Worker -> 1..(NumChunks + 1)]
    <3>1. cur' = [cur EXCEPT ![w] = cur[w] + 1]
      BY <1>3 DEF SkipChunk
    <3>2. cur[w] + 1 \in 1..(NumChunks + 1)
      BY SMTT(30), <2>1, NumChunksAssumption DEF Chunk
    <3> QED
      BY <3>1, <3>2
  <2> QED
    BY <1>3, <2>1, <2>2 DEF SkipChunk, heartbeat, recordVars, receiptVars, Lease
<1>4. ASSUME NEW w \in Worker, OpenChunk(w) PROVE TypeOK'
  BY <1>4, NoJobAssumption
  DEF OpenChunk, heartbeat, Goto, PC, recordVars, receiptVars, Lease
<1>5. ASSUME NEW w \in Worker, flush_stage_batch(w) PROVE TypeOK'
  <2> DEFINE i     == job[w]
             fresh == {k \in Batches(i, cur[w])[batch[w]] : measurement[k] = "absent"}
  <2>1. i \in Import /\ cur[w] \in Chunk
    BY <1>5 DEF flush_stage_batch
  <2>2. Cardinality(fresh) \in Nat
    <3>1. Batches(i, cur[w])[batch[w]] \in SUBSET Key
      BY <1>5, <2>1, BatchesType DEF flush_stage_batch
    <3> QED
      BY <3>1, FreshKeysAreFinite
  <2>3. measurement' \in [Key -> Inserter]
    BY <2>1, <1>5 DEF flush_stage_batch, Inserter
  <2> QED
    BY <1>5, <2>2, <2>3
    DEF flush_stage_batch, recordVars, rowVars, receiptVars
<1>6. ASSUME NEW w \in Worker, ReadCounters(w) PROVE TypeOK'
  BY <1>6 DEF ReadCounters, Goto, PC, recordVars, rowVars, receiptVars
<1>7. ASSUME NEW w \in Worker, CommitChunk(w) PROVE TypeOK'
  <2>1. job[w] \in Import /\ cur[w] \in Chunk
    BY <1>7 DEF CommitChunk
  <2> DEFINE n == Len(Batches(job[w], cur[w]))
  <2>2. n \in Nat
    BY <2>1, BatchesType
  <2> HIDE DEF n
  <2>3. cur' \in [Worker -> 1..(NumChunks + 1)]
    <3>1. cur' = [cur EXCEPT ![w] = cur[w] + 1]
      BY <1>7 DEF CommitChunk
    <3>2. cur[w] + 1 \in 1..(NumChunks + 1)
      BY SMTT(30), <2>1, NumChunksAssumption DEF Chunk
    <3> QED
      BY <3>1, <3>2
  <2>4. /\ rows_read' \in [Import -> Nat]
        /\ values_inserted' \in [Import -> Nat]
    <3>1. rows_read' = [rows_read EXCEPT ![job[w]] = base[w].rows_read + n]
      BY <1>7 DEF CommitChunk, n
    <3>2. values_inserted' = [values_inserted EXCEPT
            ![job[w]] = base[w].values_inserted + tally[w]]
      BY <1>7 DEF CommitChunk
    <3>3. /\ base[w].rows_read + n \in Nat
          /\ base[w].values_inserted + tally[w] \in Nat
      BY <2>2
    <3> QED
      BY <3>1, <3>2, <3>3
  <2>5. /\ processed' \in [Import -> SUBSET Chunk]
        /\ chunk_inserted' \in [Import -> [Chunk -> Nat]]
    <3>1. processed' \in [Import -> SUBSET Chunk]
      BY <1>7, <2>1 DEF CommitChunk
    <3>2. chunk_inserted' = [chunk_inserted EXCEPT
            ![job[w]] = [chunk_inserted[job[w]] EXCEPT ![cur[w]] = tally[w]]]
      BY <1>7 DEF CommitChunk
    <3>3. [chunk_inserted[job[w]] EXCEPT ![cur[w]] = tally[w]] \in [Chunk -> Nat]
      BY <2>1
    <3> QED
      BY <3>1, <3>2, <3>3
  <2>6. base' \in [Worker -> [rows_read : Nat, values_inserted : Nat]]
    BY <1>7 DEF CommitChunk, NoRead
  <2>7. /\ pc' = [pc EXCEPT ![w] = "heartbeat"]
        /\ UNCHANGED <<status, files, faults, attempts, worker_token, lease,
                       measurement, job, held, batch, tally>>
        /\ \A v \in Worker : v # w => cur'[v] = cur[v]
    BY <1>7 DEF CommitChunk, Goto, recordVars, rowVars
  <2> QED
    BY <2>1, <2>3, <2>4, <2>5, <2>6, <2>7 DEF PC
<1>8. ASSUME NEW w \in Worker, LastHeartbeat(w) PROVE TypeOK'
  BY <1>8 DEF LastHeartbeat, heartbeat, Goto, PC, recordVars, receiptVars, Lease
<1>9. ASSUME NEW w \in Worker, MarkDataLoaded(w) PROVE TypeOK'
  BY <1>9, IdleKeepsTypes DEF MarkDataLoaded, receiptVars, Status, Lease
<1>10. ASSUME NEW w \in Worker, LoadError(w) PROVE TypeOK'
  BY <1>10 DEF LoadError, Goto, PC, recordVars, rowVars, receiptVars
<1>11. ASSUME NEW w \in Worker, FailureIgnored(w) PROVE TypeOK'
  BY <1>11, IdleKeepsTypes DEF FailureIgnored, recordVars, rowVars, receiptVars
<1>12. ASSUME NEW w \in Worker, ReadFailure(w) PROVE TypeOK'
  BY <1>12 DEF ReadFailure, Goto, PC, recordVars, rowVars, receiptVars
<1>13. ASSUME NEW w \in Worker, Requeue(w) PROVE TypeOK'
  BY <1>13, IdleKeepsTypes DEF Requeue, ReleaseAs, receiptVars, Status, Lease
<1>14. ASSUME NEW w \in Worker, Terminate(w) PROVE TypeOK'
  BY <1>14 DEF Terminate, ReleaseAs, Goto, PC, receiptVars, Status, Lease
<1>15. ASSUME NEW w \in Worker, CleanupFailed(w) PROVE TypeOK'
  BY <1>15, IdleKeepsTypes
  DEF CleanupFailed, cleanup_import_storage, rowVars, receiptVars
<1>16. ASSUME NEW w \in Worker, Crash(w) PROVE TypeOK'
  BY <1>16, IdleKeepsTypes, MaxFaultsAssumption
  DEF Crash, Fault, rowVars, receiptVars
<1>17. ASSUME NEW i \in Import, OrphanExpires(i) PROVE TypeOK'
  BY <1>17 DEF OrphanExpires, Expire, recordVars, receiptVars, localVars, Lease
<1>18. ASSUME NEW i \in Import, Stall(i) PROVE TypeOK'
  BY <1>18, MaxFaultsAssumption
  DEF Stall, Fault, Expire, receiptVars, localVars, Lease
<1>19. CASE UNCHANGED vars
  BY <1>19 DEF vars, recordVars, rowVars, receiptVars, localVars
<1> QED
  BY <1>1, <1>2, <1>3, <1>4, <1>5, <1>6, <1>7, <1>8, <1>9, <1>10, <1>11, <1>12,
     <1>13, <1>14, <1>15, <1>16, <1>17, <1>18, <1>19 DEF Next, WorkerStep

(***************************************************************************)
(* Every variable keeps its type: tokens stay tokens, positions stay in    *)
(* the loop's range, and a worker has a job exactly while it is not idle.  *)
(***************************************************************************)
THEOREM TypeCorrect == Spec => []TypeOK
BY TypeOKInit, TypeOKStep, PTL DEF Spec
-----------------------------------------------------------------------------
(***************************************************************************)
(* What is loaded is complete. Neither receipts nor measurements are ever  *)
(* taken back, so what a worker has passed stays passed while others work. *)
(***************************************************************************)
OnlyGrows ==
  /\ \A i \in Import : processed[i] \subseteq processed'[i]
  /\ \A k \in Key : measurement[k] # "absent" => measurement'[k] # "absent"

LoadInv ==
  /\ ReceiptIsDurable
  /\ \A w \in Worker : Progress(w) /\ (pc[w] = "idle" => cur[w] = 1)
  /\ \A i \in Import : Loaded(i) => processed[i] = Chunk

LEMMA NothingIsTakenBack == TypeOK /\ [Next]_vars => OnlyGrows
<1> SUFFICES ASSUME TypeOK, [Next]_vars PROVE OnlyGrows
  OBVIOUS
<1> USE DEF OnlyGrows
<1>1. ASSUME NEW w \in Worker, flush_stage_batch(w) PROVE OnlyGrows
  <2>1. job[w] \in Import /\ job[w] # "absent"
    BY <1>1, InserterAssumption DEF flush_stage_batch, TypeOK
  <2> QED
    BY <1>1, <2>1 DEF flush_stage_batch, receiptVars, TypeOK
<1>2. ASSUME NEW w \in Worker, CommitChunk(w) PROVE OnlyGrows
  BY <1>2 DEF CommitChunk, TypeOK
<1>3. ASSUME UNCHANGED <<receiptVars, measurement>> PROVE OnlyGrows
  BY <1>3 DEF receiptVars
<1>4. ASSUME NEW w \in Worker, WorkerStep(w) \/ Crash(w) PROVE OnlyGrows
  BY <1>1, <1>2, <1>3, <1>4
  DEF WorkerStep, claim_import, LeaseLost, SkipChunk, OpenChunk, heartbeat,
      ReadCounters, LastHeartbeat, MarkDataLoaded, LoadError, FailureIgnored,
      ReadFailure, Requeue, Terminate, ReleaseAs, CleanupFailed, Crash
<1>5. ASSUME NEW i \in Import, OrphanExpires(i) \/ Stall(i) PROVE OnlyGrows
  BY <1>3, <1>5 DEF OrphanExpires, Stall, Expire
<1>6. CASE UNCHANGED vars
  BY <1>3, <1>6 DEF vars
<1> QED
  BY <1>4, <1>5, <1>6 DEF Next

\* A worker that stays where it is, or gives its chunk up, keeps its progress.
LEMMA ProgressStays ==
  ASSUME TypeOK, OnlyGrows, NEW v \in Worker, Progress(v), pc[v] # "idle",
         job'[v] = job[v], cur'[v] = cur[v],
         \/ pc'[v] = pc[v] /\ batch'[v] = batch[v]
         \/ pc'[v] \notin {"load", "receipt", "finish"}
  PROVE  Progress(v)'
<1> DEFINE i == job[v]
<1>1. i \in Import /\ cur[v] \in 1..(NumChunks + 1)
  BY DEF TypeOK
<1>2. \A c \in Chunk : c < cur[v] => c \in processed'[i]
  BY <1>1 DEF Progress, OnlyGrows
<1>3. CASE pc'[v] \notin {"load", "receipt", "finish"}
  BY <1>2, <1>3 DEF Progress
<1>4. CASE pc'[v] = pc[v] /\ batch'[v] = batch[v]
  <2>1. CASE pc[v] \in {"load", "receipt"}
    <3>1. cur[v] \in Chunk
      BY <2>1 DEF TypeOK
    <3>2. \A b \in DOMAIN Batches(i, cur[v]) :
            b < batch[v] => Present(Batches(i, cur[v])[b])'
      <4> SUFFICES ASSUME NEW b \in DOMAIN Batches(i, cur[v]), b < batch[v]
                   PROVE  Present(Batches(i, cur[v])[b])'
        OBVIOUS
      <4>1. Batches(i, cur[v])[b] \in SUBSET Key
        BY <1>1, <3>1, BatchesType
      <4>2. Present(Batches(i, cur[v])[b])
        BY <2>1 DEF Progress
      <4>3. \A k \in Batches(i, cur[v])[b] : measurement'[k] # "absent"
        BY <4>1, <4>2 DEF Present, OnlyGrows
      <4> QED
        BY <4>3, <3>1, <1>1 DEF Present, Batches
    <3> QED
      BY <1>2, <1>4, <2>1, <3>2 DEF Progress, Batches, Present
  <2>2. CASE pc[v] \notin {"load", "receipt"}
    BY <1>2, <1>4, <2>2 DEF Progress
  <2> QED
    BY <2>1, <2>2
<1> QED
  BY <1>3, <1>4

\* A worker's step leaves the local variables of the others alone.
LEMMA OthersStay ==
  ASSUME TypeOK, NEW w \in Worker, WorkerStep(w) \/ Crash(w),
         NEW v \in Worker, v # w
  PROVE  /\ pc'[v] = pc[v]
         /\ job'[v] = job[v]
         /\ cur'[v] = cur[v]
         /\ batch'[v] = batch[v]
<1> USE DEF TypeOK
<1>1. ASSUME Idle(w)
      PROVE  pc'[v] = pc[v] /\ job'[v] = job[v] /\ cur'[v] = cur[v] /\ batch'[v] = batch[v]
  BY <1>1 DEF Idle
<1>2. CASE \/ LeaseLost(w) \/ MarkDataLoaded(w) \/ FailureIgnored(w)
           \/ Requeue(w) \/ CleanupFailed(w) \/ Crash(w)
  BY <1>1, <1>2
  DEF LeaseLost, MarkDataLoaded, FailureIgnored, Requeue, CleanupFailed, Crash
<1>3. CASE \E i \in Import : claim_import(w, i)
  BY <1>3 DEF claim_import, Goto
<1>4. CASE SkipChunk(w) \/ OpenChunk(w) \/ LastHeartbeat(w)
  BY <1>4 DEF SkipChunk, OpenChunk, LastHeartbeat, Goto
<1>5. CASE flush_stage_batch(w) \/ ReadCounters(w)
  BY <1>5 DEF flush_stage_batch, ReadCounters, Goto
<1>6. CASE CommitChunk(w)
  BY <1>6 DEF CommitChunk, Goto
<1>7. CASE LoadError(w) \/ ReadFailure(w) \/ Terminate(w)
  BY <1>7 DEF LoadError, ReadFailure, Terminate, Goto
<1> QED
  BY <1>2, <1>3, <1>4, <1>5, <1>6, <1>7 DEF WorkerStep

\* The worker that takes the step makes progress, or none.
LEMMA OwnProgress ==
  ASSUME TypeOK, LoadInv, OnlyGrows, NEW w \in Worker, WorkerStep(w) \/ Crash(w)
  PROVE  Progress(w)' /\ (pc'[w] = "idle" => cur'[w] = 1)
<1> DEFINE Goal == Progress(w)' /\ (pc'[w] = "idle" => cur'[w] = 1)
<1>p. Progress(w) /\ (pc[w] = "idle" => cur[w] = 1)
  BY DEF LoadInv
<1>t. /\ pc \in [Worker -> PC] /\ cur \in [Worker -> 1..(NumChunks + 1)]
      /\ job \in [Worker -> Import \union {NoJob}]
      /\ batch \in [Worker -> Nat]
      /\ pc[w] # "idle" => job[w] \in Import
      /\ pc[w] \in {"load", "receipt"} => cur[w] \in Chunk
  BY DEF TypeOK
<1>1. ASSUME Idle(w) PROVE Goal
  BY <1>1, <1>t DEF Idle, Progress
<1>2. CASE \/ LeaseLost(w) \/ MarkDataLoaded(w) \/ FailureIgnored(w)
           \/ Requeue(w) \/ CleanupFailed(w) \/ Crash(w)
  BY <1>1, <1>2
  DEF LeaseLost, MarkDataLoaded, FailureIgnored, Requeue, CleanupFailed, Crash
<1>3. CASE \E i \in Import : claim_import(w, i)
  BY <1>3, <1>t, <1>p DEF claim_import, Goto, Progress, Chunk
<1>4. CASE LoadError(w) \/ ReadFailure(w) \/ Terminate(w)
  <2>1. /\ pc[w] # "idle" /\ pc'[w] \notin {"idle", "load", "receipt", "finish"}
        /\ job'[w] = job[w] /\ cur'[w] = cur[w]
    BY <1>4, <1>t DEF LoadError, ReadFailure, Terminate, Goto
  <2> QED
    BY <2>1, <1>p, ProgressStays
<1>5. CASE SkipChunk(w)
  <2>1. /\ pc'[w] = "heartbeat" /\ job'[w] = job[w] /\ cur'[w] = cur[w] + 1
        /\ cur[w] \in processed[job[w]] /\ job[w] \in Import
        /\ cur[w] \in Nat
    BY <1>5, <1>t DEF SkipChunk, heartbeat
  <2>2. \A c \in Chunk : c < cur'[w] => c \in processed'[job[w]]
    BY <1>p, <2>1 DEF Progress, OnlyGrows, Chunk
  <2> QED
    BY <2>1, <2>2 DEF Progress
<1>6. CASE OpenChunk(w)
  <2>1. /\ pc'[w] \in {"load", "fail"} /\ job'[w] = job[w] /\ cur'[w] = cur[w]
        /\ cur[w] \in Chunk /\ job[w] \in Import /\ batch'[w] = 1
        /\ pc[w] = "heartbeat"
    BY <1>6, <1>t DEF OpenChunk, heartbeat, Goto
  <2>2. \A c \in Chunk : c < cur'[w] => c \in processed'[job[w]]
    BY <1>p, <2>1 DEF Progress, OnlyGrows
  <2>3. /\ Len(Batches(job[w], cur[w])) \in Nat
        /\ DOMAIN Batches(job[w], cur[w]) = 1..Len(Batches(job[w], cur[w]))
    BY <2>1, BatchesType
  <2> DEFINE n == Len(Batches(job[w], cur[w]))
             D == DOMAIN Batches(job[w], cur[w])
  <2>4. batch'[w] \in 1..(n + 1) /\ \A b \in D : ~(b < batch'[w])
    <3> HIDE DEF n, D
    <3> QED
      BY <2>1, <2>3 DEF n, D
  <2> QED
    BY <2>1, <2>2, <2>4 DEF Progress, Batches
<1>7. CASE flush_stage_batch(w)
  <2> DEFINE i == job[w]
             B == Batches(i, cur[w])
  <2>1. /\ pc[w] = "load" /\ pc'[w] = "load" /\ job'[w] = i /\ cur'[w] = cur[w]
        /\ cur[w] \in Chunk /\ i \in Import /\ batch'[w] = batch[w] + 1
        /\ batch[w] \in DOMAIN B
    BY <1>7, <1>t DEF flush_stage_batch
  <2>2. B \in Seq(SUBSET Key)
    BY <2>1, BatchesType
  <2>3. \A k \in B[batch[w]] : measurement'[k] # "absent"
    <3>1. B[batch[w]] \in SUBSET Key
      BY <2>1, <2>2
    <3> QED
      BY <1>7, <2>1, <3>1, InserterAssumption DEF flush_stage_batch
  <2>4. ASSUME NEW b \in DOMAIN B, b < batch[w] + 1
        PROVE  \A k \in B[b] : measurement'[k] # "absent"
    <3>1. CASE b = batch[w]
      BY <2>3, <3>1
    <3>2. CASE b # batch[w]
      <4>1. b < batch[w]
        BY <2>1, <2>2, <2>4, <3>2
      <4>2. Present(B[b])
        BY <4>1, <2>1, <1>p DEF Progress
      <4>3. B[b] \in SUBSET Key
        BY <2>2
      <4> QED
        BY <4>2, <4>3 DEF Present, OnlyGrows
    <3> QED
      BY <3>1, <3>2
  <2>5. batch'[w] \in 1..(Len(B) + 1)
    BY <2>1, <2>2
  <2>6. \A c \in Chunk : c < cur'[w] => c \in processed'[i]
    BY <1>p, <2>1 DEF Progress, OnlyGrows
  <2> QED
    BY <2>1, <2>4, <2>5, <2>6 DEF Progress, Batches, Present
<1>8. CASE ReadCounters(w)
  <2> DEFINE i == job[w]
             B == Batches(i, cur[w])
  <2>1. /\ pc[w] = "load" /\ pc'[w] = "receipt" /\ job'[w] = i /\ cur'[w] = cur[w]
        /\ batch'[w] = batch[w] /\ batch[w] = Len(B) + 1
        /\ measurement' = measurement /\ processed' = processed
    BY <1>8, <1>t DEF ReadCounters, Goto, receiptVars
  <2> QED
    BY <1>p, <2>1 DEF Progress, Batches, Present
<1>9. CASE CommitChunk(w)
  <2>1. /\ pc'[w] = "heartbeat" /\ job'[w] = job[w] /\ cur'[w] = cur[w] + 1
        /\ cur[w] \in Chunk /\ job[w] \in Import /\ pc[w] = "receipt"
        /\ cur[w] \in processed'[job[w]]
    BY <1>9, <1>t DEF CommitChunk, Goto, TypeOK
  <2>2. \A c \in Chunk : c < cur'[w] => c \in processed'[job[w]]
    BY <1>p, <2>1 DEF Progress, OnlyGrows, Chunk
  <2> QED
    BY <2>1, <2>2 DEF Progress
<1>10. CASE LastHeartbeat(w)
  <2>1. /\ pc'[w] = "finish" /\ job'[w] = job[w] /\ cur'[w] = cur[w]
        /\ cur[w] = NumChunks + 1 /\ job[w] \in Import /\ pc[w] = "heartbeat"
    BY <1>10, <1>t DEF LastHeartbeat, heartbeat, Goto
  <2> QED
    BY <1>p, <2>1 DEF Progress, OnlyGrows
<1> QED
  BY <1>2, <1>3, <1>4, <1>5, <1>6, <1>7, <1>8, <1>9, <1>10 DEF WorkerStep

\* Only the last commit of process_claimed_import makes an import loaded.
LEMMA OnlyFinishLoads ==
  ASSUME TypeOK, [Next]_vars, NEW i \in Import, ~Loaded(i), Loaded(i)'
  PROVE  \E w \in Worker : MarkDataLoaded(w) /\ job[w] = i
<1> USE DEF Loaded, TypeOK, RecordTypeOK
<1>1. status' # status
  OBVIOUS
<1>2. ASSUME NEW w \in Worker, NEW j \in Import, claim_import(w, j) PROVE FALSE
  BY <1>2 DEF claim_import
<1>3. ASSUME NEW w \in Worker, Requeue(w) \/ Terminate(w) PROVE FALSE
  BY <1>3 DEF Requeue, Terminate, ReleaseAs
<1>4. PICK w \in Worker : MarkDataLoaded(w)
  BY <1>1, <1>2, <1>3
  DEF Next, WorkerStep, Crash, LeaseLost, SkipChunk, OpenChunk, heartbeat,
      flush_stage_batch, ReadCounters, LastHeartbeat, CommitChunk, LoadError,
      FailureIgnored, ReadFailure, CleanupFailed, OrphanExpires, Stall,
      vars, recordVars
<1>5. job[w] = i
  BY <1>4 DEF MarkDataLoaded
<1> QED
  BY <1>4, <1>5

LEMMA LoadInvInit == Init => LoadInv
<1> SUFFICES ASSUME Init PROVE LoadInv
  OBVIOUS
<1>1. /\ \A i \in Import : processed[i] = {} /\ status[i] = "queued"
      /\ \A w \in Worker : pc[w] = "idle" /\ cur[w] = 1
  BY DEF Init
<1> QED
  BY <1>1 DEF LoadInv, ReceiptIsDurable, Progress, Loaded

LEMMA LoadInvStep == TypeOK /\ LoadInv /\ [Next]_vars => LoadInv'
<1> SUFFICES ASSUME TypeOK, LoadInv, [Next]_vars PROVE LoadInv'
  OBVIOUS
<1>g. OnlyGrows
  BY NothingIsTakenBack
<1>1. ASSUME NEW i \in Import, NEW c \in processed'[i], NEW k \in KeysOf(i, c)
      PROVE  measurement'[k] # "absent"
  <2>1. ASSUME c \in processed[i] PROVE measurement[k] # "absent" /\ k \in Key
    <3>1. c \in Chunk
      BY <2>1 DEF TypeOK
    <3> QED
      BY <2>1, <3>1, BatchesType DEF LoadInv, ReceiptIsDurable, KeysOf
  <2>2. CASE c \in processed[i]
    BY <2>1, <2>2, <1>g DEF OnlyGrows
  <2>3. CASE c \notin processed[i]
    <3>1. PICK w \in Worker : CommitChunk(w)
      BY ZenonT(60), <2>3
      DEF Next, WorkerStep, Crash, claim_import, LeaseLost, SkipChunk, OpenChunk,
          heartbeat, flush_stage_batch, ReadCounters, LastHeartbeat,
          MarkDataLoaded, LoadError, FailureIgnored, ReadFailure, Requeue,
          Terminate, ReleaseAs, CleanupFailed, OrphanExpires, Stall, Expire,
          vars, receiptVars
    <3>2. i = job[w] /\ c = cur[w] /\ pc[w] = "receipt" /\ c \in Chunk
          /\ measurement' = measurement
      BY <2>3, <3>1 DEF CommitChunk, TypeOK
    <3>3. /\ Len(Batches(i, c)) \in Nat
          /\ DOMAIN Batches(i, c) = 1..Len(Batches(i, c))
      BY <3>2, BatchesType
    <3>4. \A b \in DOMAIN Batches(i, c) : Present(Batches(i, c)[b])
      <4> DEFINE n == Len(Batches(i, c))
      <4>1. pc[w] = "receipt" /\ batch[w] = n + 1
        BY <3>2 DEF LoadInv, Progress
      <4>2. \A b \in DOMAIN Batches(i, c) :
              b < batch[w] => Present(Batches(i, c)[b])
        BY <3>2 DEF LoadInv, Progress
      <4>3. \A b \in 1..n : b < n + 1
        <5> HIDE DEF n
        <5> QED
          BY <3>3 DEF n
      <4> QED
        BY <4>1, <4>2, <4>3, <3>3
    <3> QED
      BY <3>2, <3>4 DEF KeysOf, Present
  <2> QED
    BY <2>2, <2>3
<1>2. ASSUME NEW w \in Worker, WorkerStep(w) \/ Crash(w), NEW v \in Worker
      PROVE  Progress(v)' /\ (pc'[v] = "idle" => cur'[v] = 1)
  <2>1. CASE v = w
    BY <1>2, <1>g, <2>1, OwnProgress
  <2>2. CASE v # w
    <3>1. /\ pc'[v] = pc[v] /\ job'[v] = job[v]
          /\ cur'[v] = cur[v] /\ batch'[v] = batch[v]
      BY <1>2, <2>2, OthersStay
    <3>2. Progress(v) /\ (pc[v] = "idle" => cur[v] = 1)
      BY DEF LoadInv
    <3>3. CASE pc[v] = "idle"
      BY <3>1, <3>2, <3>3 DEF Progress
    <3>4. CASE pc[v] # "idle"
      BY <3>1, <3>2, <3>4, <1>g, ProgressStays
    <3> QED
      BY <3>3, <3>4
  <2> QED
    BY <2>1, <2>2
<1>3. ASSUME UNCHANGED localVars, NEW v \in Worker
      PROVE  Progress(v)' /\ (pc'[v] = "idle" => cur'[v] = 1)
  <2>1. /\ pc'[v] = pc[v] /\ job'[v] = job[v]
        /\ cur'[v] = cur[v] /\ batch'[v] = batch[v]
    BY <1>3 DEF localVars
  <2>2. Progress(v) /\ (pc[v] = "idle" => cur[v] = 1)
    BY DEF LoadInv
  <2>3. CASE pc[v] = "idle"
    BY <2>1, <2>2, <2>3 DEF Progress
  <2>4. CASE pc[v] # "idle"
    BY <2>1, <2>2, <2>4, <1>g, ProgressStays
  <2> QED
    BY <2>3, <2>4
<1>4. \A v \in Worker : Progress(v)' /\ (pc'[v] = "idle" => cur'[v] = 1)
  BY <1>2, <1>3 DEF Next, OrphanExpires, Stall, Expire, vars
<1>5. ASSUME NEW i \in Import, Loaded(i)' PROVE processed'[i] = Chunk
  <2>1. processed'[i] \subseteq Chunk
    BY TypeOKStep DEF TypeOK
  <2>2. CASE Loaded(i)
    BY <2>1, <2>2, <1>g DEF LoadInv, OnlyGrows
  <2>3. CASE ~Loaded(i)
    <3>1. PICK w \in Worker : MarkDataLoaded(w) /\ job[w] = i
      BY <1>5, <2>3, OnlyFinishLoads
    <3>2. pc[w] = "finish" /\ cur[w] = NumChunks + 1
      BY <3>1 DEF MarkDataLoaded, LoadInv, Progress
    <3>3. \A c \in Chunk : c < cur[w]
      BY <3>2, NumChunksAssumption DEF Chunk
    <3>4. \A c \in Chunk : c \in processed[i]
      BY <3>1, <3>2, <3>3 DEF LoadInv, Progress
    <3> QED
      BY <3>4, <2>1, <1>g DEF OnlyGrows
  <2> QED
    BY <2>2, <2>3
<1> QED
  BY <1>1, <1>4, <1>5 DEF LoadInv, ReceiptIsDurable, KeysOf, Batches

LEMMA LoadInvCorrect == Spec => []LoadInv
BY TypeOKInit, TypeOKStep, LoadInvInit, LoadInvStep, PTL DEF Spec

(***************************************************************************)
(* A chunk whose receipt says processed has all its values in              *)
(* measurements, so process_claimed_import may skip it after any number of *)
(* crashes and take-overs.                                                 *)
(***************************************************************************)
THEOREM ReceiptsAreDurable == Spec => []ReceiptIsDurable
<1>1. LoadInv => ReceiptIsDurable
  BY DEF LoadInv
<1> QED
  BY <1>1, LoadInvCorrect, PTL

(***************************************************************************)
(* An import that process_claimed_import marks data_loaded is complete:    *)
(* a receipt for every chunk and every value in measurements, whatever     *)
(* workers have claimed it.                                                *)
(***************************************************************************)
THEOREM LoadedImportsAreComplete == Spec => []LoadedIsComplete
<1>1. LoadInv => LoadedIsComplete
  BY DEF LoadInv, LoadedIsComplete, ReceiptIsDurable
<1> QED
  BY <1>1, LoadInvCorrect, PTL
-----------------------------------------------------------------------------
(***************************************************************************)
(* A row that is processing has a token and a lease, and no other has: by  *)
(* itself inductive, since every claim writes a token that is not NULL.    *)
(***************************************************************************)
LEMMA NeverOrphanedStep ==
  TypeOK /\ NeverOrphaned /\ [Next]_vars => NeverOrphaned'
<1> SUFFICES ASSUME TypeOK, NeverOrphaned, [Next]_vars PROVE NeverOrphaned'
  OBVIOUS
<1> USE DEF NeverOrphaned
<1>t. /\ status \in [Import -> Status] /\ lease \in [Import -> Lease]
      /\ worker_token \in [Import -> Nat] /\ attempts \in [Import -> Nat]
      /\ \A w \in Worker : pc[w] # "idle" => job[w] \in Import
  BY DEF TypeOK, RecordTypeOK
<1>1. ASSUME NEW w \in Worker, NEW i \in Import, claim_import(w, i)
      PROVE  NeverOrphaned'
  <2>1. attempts[i] + 1 # 0
    BY <1>t
  <2> QED
    BY <1>1, <1>t, <2>1 DEF claim_import
<1>2. ASSUME NEW w \in Worker, heartbeat(w), status' = status
      PROVE  NeverOrphaned'
  BY <1>2, <1>t DEF heartbeat, Owns
<1>3. ASSUME NEW w \in Worker, MarkDataLoaded(w) PROVE NeverOrphaned'
  BY <1>3, <1>t DEF MarkDataLoaded
<1>4. ASSUME NEW w \in Worker, Requeue(w) \/ Terminate(w) PROVE NeverOrphaned'
  BY <1>4, <1>t DEF Requeue, Terminate, ReleaseAs
<1>5. ASSUME NEW i \in Import, Expire(i), status' = status PROVE NeverOrphaned'
  BY <1>5, <1>t DEF Expire
<1>6. ASSUME UNCHANGED <<status, worker_token, lease>> PROVE NeverOrphaned'
  BY <1>6
<1> QED
  BY <1>1, <1>2, <1>3, <1>4, <1>5, <1>6
  DEF Next, WorkerStep, Crash, LeaseLost, SkipChunk, OpenChunk, heartbeat,
      flush_stage_batch, ReadCounters, LastHeartbeat, CommitChunk, LoadError,
      FailureIgnored, ReadFailure, CleanupFailed, OrphanExpires, Stall,
      vars, recordVars, rowVars

(***************************************************************************)
(* claim_import, process_claimed_import and mark_import_failure never      *)
(* leave an import in processing without a lease that can run out, however *)
(* workers crash between them.                                             *)
(***************************************************************************)
THEOREM NoImportIsOrphaned == Spec => []NeverOrphaned
<1>1. Init => NeverOrphaned
  BY DEF Init, NeverOrphaned
<1> QED
  BY <1>1, TypeOKInit, TypeOKStep, NeverOrphanedStep, PTL DEF Spec
-----------------------------------------------------------------------------
(***************************************************************************)
(* The deployment of the README, one worker: nobody takes its claim over,  *)
(* so what it read is still true when it writes.                           *)
(***************************************************************************)
Working == {"heartbeat", "load", "receipt", "finish", "fail", "requeue", "terminate"}

SoleInv ==
  /\ \A w \in Worker : pc[w] \in Working => Owns(w)
  /\ \A w \in Worker : pc[w] = "cleanup" => status[job[w]] = "failed"
  /\ \A w \in Worker : pc[w] \in {"load", "receipt"} => cur[w] \notin processed[job[w]]

LEMMA SoleInvStep ==
  ASSUME \A v, w \in Worker : v = w
  PROVE  TypeOK /\ SoleInv /\ [Next]_vars => SoleInv'
<1> SUFFICES ASSUME TypeOK, SoleInv, [Next]_vars PROVE SoleInv'
  OBVIOUS
<1>s. ASSUME NEW w \in Worker,
             pc'[w] \in Working => Owns(w)',
             pc'[w] = "cleanup" => status'[job'[w]] = "failed",
             pc'[w] \in {"load", "receipt"} => cur'[w] \notin processed'[job'[w]]
      PROVE  SoleInv'
  BY <1>s DEF SoleInv, Owns
<1>t. /\ status \in [Import -> Status] /\ worker_token \in [Import -> Nat]
      /\ pc \in [Worker -> PC] /\ held \in [Worker -> Nat]
      /\ cur \in [Worker -> 1..(NumChunks + 1)]
      /\ job \in [Worker -> Import \union {NoJob}]
      /\ processed \in [Import -> SUBSET Chunk]
      /\ \A w \in Worker : pc[w] # "idle" => job[w] \in Import
  BY DEF TypeOK, RecordTypeOK
<1>i. ASSUME NEW w \in Worker, Idle(w) PROVE SoleInv'
  <2>1. pc'[w] = "idle"
    BY <1>i, <1>t DEF Idle
  <2> QED
    BY <1>i, <1>s, <2>1 DEF Working
<1>1. ASSUME NEW w \in Worker, NEW i \in Import, claim_import(w, i) PROVE SoleInv'
  <2>1. /\ pc'[w] = "heartbeat" /\ job'[w] = i /\ held'[w] = attempts[i] + 1
        /\ status'[i] = "processing" /\ worker_token'[i] = attempts[i] + 1
    BY <1>1, <1>t DEF claim_import, Goto, Claimable
  <2> QED
    BY <1>s, <2>1 DEF SoleInv, Owns
<1>2. ASSUME NEW w \in Worker, LeaseLost(w) \/ FailureIgnored(w) \/ Crash(w)
      PROVE  SoleInv'
  BY <1>2, <1>i DEF LeaseLost, FailureIgnored, Crash
<1>3. ASSUME NEW w \in Worker,
             SkipChunk(w) \/ OpenChunk(w) \/ LastHeartbeat(w)
      PROVE  SoleInv'
  <2>1. /\ pc'[w] \in {"heartbeat", "load", "fail", "finish"}
        /\ pc'[w] = "load" => cur'[w] \notin processed'[job'[w]]
        /\ job'[w] = job[w] /\ held'[w] = held[w] /\ Owns(w)
        /\ UNCHANGED <<status, worker_token>>
    BY <1>3, <1>t
    DEF SkipChunk, OpenChunk, LastHeartbeat, heartbeat, Goto, recordVars, receiptVars
  <2> QED
    BY <1>s, <2>1 DEF SoleInv, Owns
<1>4. ASSUME NEW w \in Worker, flush_stage_batch(w) \/ ReadCounters(w)
      PROVE  SoleInv'
  <2>1. /\ pc[w] = "load" /\ pc'[w] \in {"load", "receipt"}
        /\ job'[w] = job[w] /\ held'[w] = held[w] /\ cur'[w] = cur[w]
        /\ UNCHANGED <<status, worker_token, processed>>
    BY <1>4, <1>t
    DEF flush_stage_batch, ReadCounters, Goto, recordVars, rowVars, receiptVars
  <2> QED
    BY <1>s, <2>1 DEF SoleInv, Owns, Working
<1>5. ASSUME NEW w \in Worker,
             CommitChunk(w) \/ LoadError(w) \/ ReadFailure(w)
      PROVE  SoleInv'
  <2>1. /\ pc[w] \in Working
        /\ pc'[w] \in {"heartbeat", "fail", "requeue", "terminate"}
        /\ job'[w] = job[w] /\ held'[w] = held[w]
        /\ UNCHANGED <<status, worker_token>>
    BY <1>5, <1>t
    DEF CommitChunk, LoadError, ReadFailure, Goto, recordVars, rowVars, Working
  <2> QED
    BY <1>s, <2>1 DEF SoleInv, Owns
<1>6. ASSUME NEW w \in Worker, MarkDataLoaded(w) \/ Requeue(w) \/ CleanupFailed(w)
      PROVE  SoleInv'
  BY <1>6, <1>i DEF MarkDataLoaded, Requeue, CleanupFailed
<1>7. ASSUME NEW w \in Worker, Terminate(w) PROVE SoleInv'
  <2>1. /\ pc'[w] = "cleanup" /\ job'[w] = job[w] /\ job[w] \in Import
        /\ status'[job[w]] = "failed"
    BY <1>7, <1>t DEF Terminate, ReleaseAs, Goto
  <2> QED
    BY <1>s, <2>1 DEF SoleInv, Working
<1>8. ASSUME UNCHANGED <<status, worker_token, processed, localVars>>
      PROVE  SoleInv'
  BY <1>8 DEF localVars, SoleInv, Owns
<1> QED
  BY <1>1, <1>2, <1>3, <1>4, <1>5, <1>6, <1>7, <1>8
  DEF Next, WorkerStep, OrphanExpires, Stall, Expire, vars, recordVars, rowVars,
      receiptVars

LEMMA SoleInvCorrect ==
  ASSUME \A v, w \in Worker : v = w
  PROVE  Spec => []SoleInv
<1>1. Init => SoleInv
  BY DEF Init, SoleInv, Working
<1>2. TypeOK /\ SoleInv /\ [Next]_vars => SoleInv'
  BY SoleInvStep
<1> QED
  BY <1>1, <1>2, TypeOKInit, TypeOKStep, PTL DEF Spec

\* A status that changes is one of an import that is still to be loaded.
LEMMA SoleStepIsFinal ==
  ASSUME \A v, w \in Worker : v = w
  PROVE  TypeOK /\ SoleInv /\ [Next]_vars =>
           \A i \in Import :
             status'[i] # status[i] =>
               status[i] \in {"queued", "processing"} /\ status'[i] # "completed"
<1> SUFFICES ASSUME TypeOK, SoleInv, [Next]_vars, NEW i \in Import, status'[i] # status[i]
             PROVE  status[i] \in {"queued", "processing"} /\ status'[i] # "completed"
  OBVIOUS
<1> DEFINE Goal == status[i] \in {"queued", "processing"} /\ status'[i] # "completed"
<1> USE DEF TypeOK, RecordTypeOK
<1>1. ASSUME NEW w \in Worker, NEW j \in Import, claim_import(w, j)
      PROVE  Goal
  BY <1>1 DEF claim_import, Claimable
<1>2. ASSUME NEW w \in Worker, MarkDataLoaded(w) \/ Requeue(w) \/ Terminate(w)
      PROVE  Goal
  <2>1. job[w] \in Import /\ status[job[w]] = "processing"
    BY <1>2 DEF MarkDataLoaded, Requeue, Terminate, SoleInv, Owns, Working
  <2> QED
    BY <1>2, <2>1 DEF MarkDataLoaded, Requeue, Terminate, ReleaseAs
<1> QED
  BY <1>1, <1>2
  DEF Next, WorkerStep, Crash, LeaseLost, SkipChunk, OpenChunk, heartbeat,
      flush_stage_batch, ReadCounters, LastHeartbeat, CommitChunk, LoadError,
      FailureIgnored, ReadFailure, CleanupFailed, OrphanExpires, Stall,
      vars, recordVars

\* Files go after the row has failed.
KeptInv == \A i \in Import : i \notin files => status[i] = "failed"

LEMMA KeptStep ==
  ASSUME \A v, w \in Worker : v = w
  PROVE  TypeOK /\ SoleInv /\ KeptInv /\ [Next]_vars => KeptInv'
<1> SUFFICES ASSUME TypeOK, SoleInv, KeptInv, [Next]_vars, NEW i \in Import, i \notin files'
             PROVE  status'[i] = "failed"
  BY DEF KeptInv
<1>1. status[i] = "failed" => status'[i] = "failed"
  BY SoleStepIsFinal
<1>2. ASSUME NEW w \in Worker, CleanupFailed(w), i \in files PROVE status[i] = "failed"
  BY <1>2 DEF CleanupFailed, cleanup_import_storage, SoleInv
<1>3. files' = files \/ \E w \in Worker : CleanupFailed(w)
  BY ZenonT(60) DEF Next, WorkerStep, Crash, claim_import, LeaseLost, SkipChunk, OpenChunk, heartbeat,
      flush_stage_batch, ReadCounters, LastHeartbeat, MarkDataLoaded, CommitChunk, LoadError,
      FailureIgnored, ReadFailure, Requeue, Terminate, ReleaseAs, OrphanExpires, Stall,
      vars, recordVars
<1> QED
  BY <1>1, <1>2, <1>3 DEF KeptInv

(***************************************************************************)
(* With one worker, cleanup_import_storage never removes the files of an   *)
(* import that is queued, processing or loaded.                            *)
(***************************************************************************)
THEOREM SoleWorkerKeepsFiles ==
  ASSUME \A v, w \in Worker : v = w
  PROVE  Spec => []ActiveImportKeepsFiles
<1>1. Init => KeptInv
  BY DEF Init, KeptInv
<1>2. TypeOK /\ SoleInv /\ KeptInv /\ [Next]_vars => KeptInv'
  BY KeptStep
<1>3. KeptInv => ActiveImportKeepsFiles
  BY DEF KeptInv, ActiveImportKeepsFiles, TERMINAL_IMPORT_STATUSES
<1> QED
  BY <1>1, <1>2, <1>3, TypeCorrect, SoleInvCorrect, PTL DEF Spec

(***************************************************************************)
(* With one worker, no ingestion step leaves failed or data_loaded: the    *)
(* unconditional writes of process_claimed_import and mark_import_failure  *)
(* still find the claim they were made for.                                *)
(***************************************************************************)
THEOREM SoleWorkerEndsIngestion ==
  ASSUME \A v, w \in Worker : v = w
  PROVE  Spec => IngestionEnds
<1>1. TypeOK /\ SoleInv /\ [Next]_vars =>
        [\A i \in Import :
          status[i] \in {"failed", "data_loaded"} => status'[i] = status[i]]_vars
  BY SoleStepIsFinal
<1> QED
  BY <1>1, SoleInvCorrect, TypeCorrect, PTL DEF Spec, IngestionEnds

LEMMA SoleStepKeepsReceipts ==
  ASSUME \A v, w \in Worker : v = w
  PROVE  TypeOK /\ SoleInv /\ [Next]_vars =>
           \A i \in Import : \A c \in processed[i] :
             c \in processed'[i] /\ chunk_inserted'[i][c] = chunk_inserted[i][c]
<1> SUFFICES ASSUME TypeOK, SoleInv, [Next]_vars,
                    NEW i \in Import, NEW c \in processed[i]
             PROVE  c \in processed'[i] /\ chunk_inserted'[i][c] = chunk_inserted[i][c]
  OBVIOUS
<1>1. c \in processed'[i]
  BY NothingIsTakenBack DEF OnlyGrows
<1>2. ASSUME NEW w \in Worker, CommitChunk(w)
      PROVE  chunk_inserted'[i][c] = chunk_inserted[i][c]
  <2>1. ~(job[w] = i /\ cur[w] = c) /\ job[w] \in Import
    BY <1>2 DEF CommitChunk, SoleInv, TypeOK
  <2>2. c \in Chunk
    BY DEF TypeOK
  <2>3. chunk_inserted' = [chunk_inserted EXCEPT
          ![job[w]] = [chunk_inserted[job[w]] EXCEPT ![cur[w]] = tally[w]]]
    BY <1>2 DEF CommitChunk
  <2> QED
    BY <2>1, <2>2, <2>3 DEF TypeOK
<1>3. ASSUME chunk_inserted' = chunk_inserted
      PROVE  chunk_inserted'[i][c] = chunk_inserted[i][c]
  BY <1>3
<1>4. chunk_inserted'[i][c] = chunk_inserted[i][c]
  BY <1>2, <1>3
  DEF Next, WorkerStep, Crash, claim_import, LeaseLost, SkipChunk, OpenChunk,
      heartbeat, flush_stage_batch, ReadCounters, LastHeartbeat, MarkDataLoaded,
      LoadError, FailureIgnored, ReadFailure, Requeue, Terminate, ReleaseAs,
      CleanupFailed, OrphanExpires, Stall, Expire, vars, receiptVars
<1> QED
  BY <1>1, <1>4

(***************************************************************************)
(* With one worker, the receipt of a chunk is written once, although the   *)
(* commit of process_claimed_import does not check the token.              *)
(***************************************************************************)
THEOREM SoleWorkerKeepsReceipts ==
  ASSUME \A v, w \in Worker : v = w
  PROVE  Spec => ReceiptImmutable
<1>1. TypeOK /\ SoleInv /\ [Next]_vars =>
        [\A i \in Import : \A c \in processed[i] :
          c \in processed'[i] /\ chunk_inserted'[i][c] = chunk_inserted[i][c]]_vars
  BY SoleStepKeepsReceipts
<1> QED
  BY <1>1, SoleInvCorrect, TypeCorrect, PTL DEF Spec, ReceiptImmutable
-----------------------------------------------------------------------------
(***************************************************************************)
(* The counters. A measurement is counted by the flush that inserted it and*)
(* by no other, so behind the numbers are sets of keys: V[i] those that the*)
(* row of i has counted, T[w] those in w's tally, B[w] those in the counter*)
(* as w has read it. No key is in two tallies, nor in a tally and in what  *)
(* the tally will be added to.                                             *)
(***************************************************************************)
Counting == {"load", "receipt"}

RowsCounted(V) ==
  \A i \in Import : V[i] \subseteq Inserted(i) /\ values_inserted[i] = Cardinality(V[i])

TalliesCounted(V, T) ==
  \A w \in Worker : pc[w] \in Counting =>
    /\ T[w] \subseteq Inserted(job[w]) /\ tally[w] = Cardinality(T[w])
    /\ \A i \in Import : V[i] \cap T[w] = {}
    /\ \A v \in Worker : pc[v] \in Counting /\ v # w => T[v] \cap T[w] = {}

BasesCounted(T, B) ==
  \A w \in Worker : pc[w] = "receipt" =>
    /\ B[w] \subseteq Inserted(job[w]) /\ base[w].values_inserted = Cardinality(B[w])
    /\ \A v \in Worker : pc[v] \in Counting => B[w] \cap T[v] = {}

Counted(V, T, B) == RowsCounted(V) /\ TalliesCounted(V, T) /\ BasesCounted(T, B)

CountInv ==
  \E V \in [Import -> SUBSET Key], T, B \in [Worker -> SUBSET Key] : Counted(V, T, B)

LEMMA NothingCounted == Init => CountInv
<1> SUFFICES ASSUME Init PROVE CountInv
  OBVIOUS
<1> DEFINE V == [i \in Import |-> {}]
           T == [w \in Worker |-> {}]
<1>1. Counted(V, T, T)
  BY FS_EmptySet DEF Init, Counted, RowsCounted, TalliesCounted, BasesCounted, Counting
<1> QED
  BY <1>1 DEF CountInv

LEMMA DisjointKeys ==
  ASSUME NEW S \in SUBSET Key, NEW T \in SUBSET Key, S \cap T = {}
  PROVE  Cardinality(S \union T) = Cardinality(S) + Cardinality(T)
<1>1. IsFiniteSet(S) /\ IsFiniteSet(T)
  BY KeyAssumption, FS_Subset
<1>2. Cardinality(S \union T) = Cardinality(S) + Cardinality(T) - Cardinality(S \cap T)
  BY <1>1, FS_Union
<1>3. Cardinality(S \cap T) = 0
  BY FS_EmptySet
<1>4. Cardinality(S) \in Nat /\ Cardinality(T) \in Nat
  BY FreshKeysAreFinite
<1> QED
  BY <1>2, <1>3, <1>4

\* Whoever counts goes on as before, and nothing is inserted or recorded.
LEMMA CountedStays ==
  ASSUME NEW V, NEW T, NEW B, Counted(V, T, B),
         UNCHANGED <<measurement, values_inserted>>,
         \A w \in Worker : pc'[w] \in Counting =>
           /\ pc'[w] = pc[w] /\ job'[w] = job[w] /\ tally'[w] = tally[w]
           /\ base'[w] = base[w]
  PROVE  Counted(V, T, B)'
<1>1. \A i : Inserted(i)' = Inserted(i)
  BY DEF Inserted
<1> QED
  BY <1>1 DEF Counted, RowsCounted, TalliesCounted, BasesCounted, Counting

LEMMA CountStep == TypeOK /\ CountInv /\ [Next]_vars => CountInv'
<1> SUFFICES ASSUME TypeOK, [Next]_vars,
                    NEW V \in [Import -> SUBSET Key], NEW T \in [Worker -> SUBSET Key],
                    NEW B \in [Worker -> SUBSET Key], Counted(V, T, B)
             PROVE  CountInv'
  BY DEF CountInv
<1>t. /\ pc \in [Worker -> PC] /\ job \in [Worker -> Import \union {NoJob}]
      /\ tally \in [Worker -> Nat] /\ measurement \in [Key -> Inserter]
      /\ base \in [Worker -> [rows_read : Nat, values_inserted : Nat]]
      /\ values_inserted \in [Import -> Nat]
      /\ \A w \in Worker : pc[w] # "idle" => job[w] \in Import
      /\ \A w \in Worker : pc[w] \in Counting => cur[w] \in Chunk
  BY DEF TypeOK, Counting
<1> DEFINE Quiet(w) ==
      /\ UNCHANGED <<measurement, values_inserted>>
      /\ pc'[w] \notin Counting
      /\ \A v \in Worker : v # w =>
           pc'[v] = pc[v] /\ job'[v] = job[v] /\ tally'[v] = tally[v] /\ base'[v] = base[v]
<1>q. ASSUME NEW w \in Worker, Quiet(w) PROVE CountInv'
  BY <1>q, CountedStays DEF CountInv
<1>1. ASSUME NEW w \in Worker,
             \/ LeaseLost(w) \/ MarkDataLoaded(w) \/ FailureIgnored(w)
             \/ Requeue(w) \/ CleanupFailed(w) \/ Crash(w)
      PROVE  CountInv'
  <2>1. Idle(w) /\ UNCHANGED <<measurement, values_inserted>>
    BY <1>1 DEF LeaseLost, MarkDataLoaded, FailureIgnored, Requeue, ReleaseAs,
       CleanupFailed, Crash, receiptVars
  <2>2. Quiet(w)
    BY <2>1, <1>t DEF Idle, Counting
  <2> QED
    BY <2>2, <1>q
<1>2. ASSUME NEW w \in Worker, NEW i \in Import, claim_import(w, i) PROVE CountInv'
  <2>1. Quiet(w)
    BY <1>2, <1>t DEF claim_import, Goto, receiptVars, Counting
  <2> QED
    BY <2>1, <1>q
<1>3. ASSUME NEW w \in Worker, SkipChunk(w) \/ LastHeartbeat(w) PROVE CountInv'
  <2>1. Quiet(w)
    BY <1>3, <1>t DEF SkipChunk, LastHeartbeat, heartbeat, Goto, receiptVars, Counting
  <2> QED
    BY <2>1, <1>q
<1>4. ASSUME NEW w \in Worker, LoadError(w) \/ ReadFailure(w) \/ Terminate(w)
      PROVE  CountInv'
  <2>1. Quiet(w)
    BY <1>4, <1>t DEF LoadError, ReadFailure, Terminate, ReleaseAs, Goto, receiptVars,
       Counting
  <2> QED
    BY <2>1, <1>q
<1>5. ASSUME UNCHANGED <<measurement, values_inserted, localVars>> PROVE CountInv'
  BY <1>5, CountedStays DEF CountInv, localVars
<1>6. ASSUME NEW w \in Worker, OpenChunk(w) PROVE CountInv'
  <2>1. PICK T2 \in [Worker -> SUBSET Key] :
          T2[w] = {} /\ \A v \in Worker : v # w => T2[v] = T[v]
    <3> WITNESS [T EXCEPT ![w] = {}] \in [Worker -> SUBSET Key]
    <3> QED
      OBVIOUS
  <2>2. /\ pc'[w] \in {"load", "fail"} /\ job'[w] = job[w] /\ tally'[w] = 0
        /\ UNCHANGED <<measurement, values_inserted>>
        /\ \A v \in Worker : v # w =>
             pc'[v] = pc[v] /\ job'[v] = job[v] /\ tally'[v] = tally[v] /\ base'[v] = base[v]
    BY <1>6, <1>t DEF OpenChunk, heartbeat, Goto, receiptVars
  <2>3. \A i : Inserted(i)' = Inserted(i)
    BY <2>2 DEF Inserted
  <2>4. Counted(V, T2, B)'
    BY ZenonT(60), <2>1, <2>2, <2>3, FS_EmptySet
    DEF Counted, RowsCounted, TalliesCounted, BasesCounted, Counting
  <2> QED
    BY <2>1, <2>4 DEF CountInv
<1>7. ASSUME NEW w \in Worker, flush_stage_batch(w) PROVE CountInv'
  <2> DEFINE fresh == {k \in Batches(job[w], cur[w])[batch[w]] : measurement[k] = "absent"}
  <2>0. pc[w] = "load" /\ job[w] \in Import /\ cur[w] \in Chunk
    BY <1>7, <1>t DEF flush_stage_batch, Counting
  <2>1. fresh \in SUBSET Key
    BY <1>7, <2>0, BatchesType DEF flush_stage_batch
  <2>2. \A k \in fresh : measurement[k] = "absent" /\ measurement'[k] = job[w]
    BY <1>7, <2>1 DEF flush_stage_batch
  <2>3. /\ measurement' = [k \in Key |-> IF k \in fresh THEN job[w] ELSE measurement[k]]
        /\ tally' = [tally EXCEPT ![w] = tally[w] + Cardinality(fresh)]
        /\ UNCHANGED <<values_inserted, pc, job, base>>
    BY <1>7 DEF flush_stage_batch, receiptVars
  <2> HIDE DEF fresh
  <2>4. \A i \in Import : Inserted(i) \subseteq Inserted(i)' /\ Inserted(i) \cap fresh = {}
    BY <2>2, <2>3, InserterAssumption DEF Inserted
  <2>5. fresh \subseteq Inserted(job[w])'
    BY <2>1, <2>2, <2>3 DEF Inserted
  <2>6. PICK T2 \in [Worker -> SUBSET Key] :
          T2[w] = T[w] \union fresh /\ \A v \in Worker : v # w => T2[v] = T[v]
    <3> USE <2>1
    <3> WITNESS [T EXCEPT ![w] = T[w] \union fresh] \in [Worker -> SUBSET Key]
    <3> QED
      OBVIOUS
  <2>7. tally'[w] = Cardinality(T2[w])
    <3>1. tally[w] = Cardinality(T[w]) /\ T[w] \cap fresh = {} /\ T[w] \in SUBSET Key
      BY <2>0, <2>4 DEF Counted, TalliesCounted, Counting
    <3> QED
      BY <1>t, <2>1, <2>3, <2>6, <3>1, DisjointKeys
  <2>8. RowsCounted(V)'
    BY <2>3, <2>4 DEF Counted, RowsCounted
  <2>9. TalliesCounted(V, T2)'
    <3> SUFFICES ASSUME NEW v \in Worker, pc[v] \in Counting
                 PROVE  /\ T2[v] \subseteq Inserted(job[v])' /\ tally'[v] = Cardinality(T2[v])
                        /\ \A i \in Import : V[i] \cap T2[v] = {}
                        /\ \A u \in Worker : pc[u] \in Counting /\ u # v => T2[u] \cap T2[v] = {}
      BY <2>3 DEF TalliesCounted
    <3>1. \A u \in Worker : pc[u] \in Counting =>
            /\ T[u] \subseteq Inserted(job[u])' /\ job[u] \in Import
            /\ T[u] \cap fresh = {}
            /\ \A i \in Import : V[i] \cap T[u] = {}
            /\ \A x \in Worker : pc[x] \in Counting /\ x # u => T[x] \cap T[u] = {}
      <4>1. \A u \in Worker : pc[u] \in Counting => job[u] \in Import
        BY <1>t DEF Counting
      <4>2. \A u \in Worker : Inserted(job[u])' = {k \in Key : measurement'[k] = job[u]}
        BY <2>3 DEF Inserted
      <4> QED
        BY <2>3, <2>4, <4>1, <4>2 DEF Counted, TalliesCounted, Inserted
    <3>2. \A i \in Import : V[i] \cap fresh = {}
      BY <2>4 DEF Counted, RowsCounted
    <3>3. CASE v = w
      BY <2>5, <2>6, <2>7, <3>1, <3>2, <3>3
    <3>4. CASE v # w
      <4>1. tally'[v] = Cardinality(T[v])
        BY <1>t, <2>3, <3>4 DEF Counted, TalliesCounted
      <4> QED
        BY <2>6, <3>1, <3>4, <4>1
    <3> QED
      BY <3>3, <3>4
  <2>10. BasesCounted(T2, B)'
    BY <1>t, <2>0, <2>3, <2>4, <2>6 DEF Counted, BasesCounted, Counting
  <2> QED
    BY <2>6, <2>8, <2>9, <2>10 DEF CountInv, Counted
<1>8. ASSUME NEW w \in Worker, ReadCounters(w) PROVE CountInv'
  <2>0. pc[w] = "load" /\ job[w] \in Import
    BY <1>8, <1>t DEF ReadCounters
  <2>1. PICK B2 \in [Worker -> SUBSET Key] :
          B2[w] = V[job[w]] /\ \A v \in Worker : v # w => B2[v] = B[v]
    <3> USE <2>0
    <3> WITNESS [B EXCEPT ![w] = V[job[w]]] \in [Worker -> SUBSET Key]
    <3> QED
      OBVIOUS
  <2>2. /\ pc' = [pc EXCEPT ![w] = "receipt"]
        /\ base'[w].values_inserted = values_inserted[job[w]]
        /\ \A v \in Worker : v # w => base'[v] = base[v]
        /\ UNCHANGED <<measurement, values_inserted, job, tally>>
    BY <1>8, <1>t DEF ReadCounters, Goto, receiptVars
  <2>3. \A i : Inserted(i)' = Inserted(i)
    BY <2>2 DEF Inserted
  <2>4. RowsCounted(V)'
    BY <2>2, <2>3 DEF Counted, RowsCounted
  <2>5. TalliesCounted(V, T)'
    BY <1>t, <2>0, <2>2, <2>3 DEF Counted, TalliesCounted, Counting
  <2>6. BasesCounted(T, B2)'
    BY <1>t, <2>0, <2>1, <2>2, <2>3
    DEF Counted, RowsCounted, TalliesCounted, BasesCounted, Counting
  <2> QED
    BY <2>1, <2>4, <2>5, <2>6 DEF CountInv, Counted
<1>9. ASSUME NEW w \in Worker, CommitChunk(w) PROVE CountInv'
  <2>0. pc[w] = "receipt" /\ job[w] \in Import
    BY <1>9, <1>t DEF CommitChunk
  <2>1. PICK V2 \in [Import -> SUBSET Key] :
          V2[job[w]] = B[w] \union T[w] /\ \A i \in Import : i # job[w] => V2[i] = V[i]
    <3> WITNESS [V EXCEPT ![job[w]] = B[w] \union T[w]] \in [Import -> SUBSET Key]
    <3> QED
      BY <2>0
  <2>2. /\ pc' = [pc EXCEPT ![w] = "heartbeat"]
        /\ values_inserted' = [values_inserted EXCEPT
              ![job[w]] = base[w].values_inserted + tally[w]]
        /\ \A v \in Worker : v # w => base'[v] = base[v]
        /\ UNCHANGED <<measurement, job, tally>>
    BY <1>9, <1>t DEF CommitChunk, Goto
  <2>3. \A i : Inserted(i)' = Inserted(i)
    BY <2>2 DEF Inserted
  <2>4. /\ B[w] \subseteq Inserted(job[w]) /\ T[w] \subseteq Inserted(job[w])
        /\ base[w].values_inserted + tally[w] = Cardinality(B[w] \union T[w])
    <3>1. /\ B[w] \cap T[w] = {} /\ B[w] \in SUBSET Key /\ T[w] \in SUBSET Key
          /\ base[w].values_inserted = Cardinality(B[w]) /\ tally[w] = Cardinality(T[w])
          /\ B[w] \subseteq Inserted(job[w]) /\ T[w] \subseteq Inserted(job[w])
      BY <2>0 DEF Counted, TalliesCounted, BasesCounted, Counting
    <3> QED
      BY <3>1, DisjointKeys
  <2>5. RowsCounted(V2)'
    BY <1>t, <2>0, <2>1, <2>2, <2>3, <2>4 DEF Counted, RowsCounted
  <2>6. TalliesCounted(V2, T)'
    BY <1>t, <2>0, <2>1, <2>2, <2>3 DEF Counted, TalliesCounted, BasesCounted, Counting
  <2>7. BasesCounted(T, B)'
    BY <1>t, <2>0, <2>2, <2>3 DEF Counted, BasesCounted, Counting
  <2> QED
    BY <2>1, <2>5, <2>6, <2>7 DEF CountInv, Counted
<1> QED
  BY <1>1, <1>2, <1>3, <1>4, <1>5, <1>6, <1>7, <1>8, <1>9
  DEF Next, WorkerStep, OrphanExpires, Stall, Expire, vars, receiptVars

(***************************************************************************)
(* values_inserted claims no row that the import has not inserted, however *)
(* many workers load the same chunk at a time, take it over, or write over *)
(* the counter that another has written.                                   *)
(***************************************************************************)
THEOREM CountersAreNeverOverstated == Spec => []InsertedNeverOverstated
<1>1. CountInv => InsertedNeverOverstated
  <2> SUFFICES ASSUME NEW V \in [Import -> SUBSET Key], RowsCounted(V), NEW i \in Import
               PROVE  values_inserted[i] <= Cardinality(Inserted(i))
    BY DEF CountInv, Counted, InsertedNeverOverstated
  <2>1. IsFiniteSet(Inserted(i))
    BY KeyAssumption, FS_Subset DEF Inserted
  <2>2. V[i] \in SUBSET Inserted(i) /\ values_inserted[i] = Cardinality(V[i])
    BY DEF RowsCounted
  <2> QED
    BY <2>1, <2>2, FS_Subset
<1> QED
  BY <1>1, NothingCounted, CountStep, TypeCorrect, PTL DEF Spec
=============================================================================
