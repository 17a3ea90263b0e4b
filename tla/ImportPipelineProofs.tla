------------------------ MODULE ImportPipelineProofs -------------------------
(***************************************************************************)
(* Theorems about ImportPipeline. First post-processing alone, the         *)
(* instance P, for any processes, sensors, crashes and stalls. Then the    *)
(* two together: with one process that polls for ingestion, any number     *)
(* that poll for post-processing, any content, crashes and stalls, the     *)
(* pipeline implements ImportLifecycle, and what ImportWorker and          *)
(* PostProcess promise alone they promise together.                        *)
(*                                                                         *)
(* The ingestion worker's invariants and step lemmas are those of its own  *)
(* proof module, the instance WP. What is new in the composition is that   *)
(* neither disturbs the other: the rows that the one changes are not those *)
(* that the other's invariants are about.                                  *)
(***************************************************************************)
EXTENDS ImportPipeline, TLAPS

WP == INSTANCE ImportWorkerProofs WITH pc <- ingestPc, job <- ingestJob, held <- ingestHeld

\* What the instances assume of their constants.
LEMMA WPAssumptions ==
  /\ WP!IsFiniteSet(Import)
  /\ WP!NoJob \notin Import
  /\ NumChunks \in Nat \ {0}
  /\ Content \in [Import -> [WP!Chunk -> Seq(SUBSET Key)]]
  /\ WP!IsFiniteSet(Key) /\ Earlier \subseteq Key
  /\ "earlier" \notin Import /\ "absent" \notin Import
  /\ \A i \in Import \cap Unmapped : \A c \in WP!Chunk : Content[i][c] = <<>>
  /\ MaxAttempts \in Nat \ {0} /\ MaxFaults \in Nat
BY ImportAssumption, NoJobAssumption, ContentAssumption, MaxAttemptsAssumption,
   MaxFaultsAssumption
DEF WP!IsFiniteSet, IsFiniteSet, WP!NoJob, NoJob, WP!Chunk

-----------------------------------------------------------------------------
(***************************************************************************)
(* Post-processing alone, P, for any number of processes: whoever ingests  *)
(* changes none of what these invariants are about.                        *)
(***************************************************************************)
\* What the post-processing worker assumes of its constants.
LEMMA PAssumptions ==
  P!NoJob \notin Import /\ MaxAttempts \in Nat \ {0} /\ MaxFaults \in Nat
BY NoJobAssumption, MaxAttemptsAssumption, MaxFaultsAssumption DEF P!NoJob, NoJob

USE DEF P!NoToken

LEMMA IdleKeepsTypes ==
  ASSUME P!TypeOK, NEW w \in PostWorker, P!Idle(w)
  PROVE  /\ postPc' = [postPc EXCEPT ![w] = "idle"]
         /\ postJob' = [postJob EXCEPT ![w] = P!NoJob]
         /\ postPc' \in [PostWorker -> P!PPC]
         /\ postJob' \in [PostWorker -> Import \union {P!NoJob}]
         /\ postHeld' \in [PostWorker -> Nat]
         /\ todo' \in [PostWorker -> SUBSET Sensor]
         /\ sensor' \in [PostWorker -> Sensor \union {P!NoSensor}]
         /\ \A v \in PostWorker : postPc'[v] # "idle" <=> postJob'[v] \in Import
         /\ \A v \in PostWorker : postPc'[v] \in {"delete", "refresh"} => sensor'[v] \in Sensor
BY PAssumptions DEF P!Idle, P!Goto, P!TypeOK, P!PPC

\* TypeOK in two halves: the rows with what is derived, and the processes.
RowTypes ==
  /\ P!RecordTypeOK
  /\ post_processing_status \in [Import -> P!PPStatus]
  /\ post_processing_attempts \in [Import -> Nat]
  /\ post_processing_token \in [Import -> Nat]
  /\ post_processing_lease \in [Import -> P!Lease]
  /\ post_processing_stage \in [Import -> P!Stage]
  /\ statistics \in [Import -> [Sensor -> P!Derived]]
  /\ geometry \in [Import -> {"stale", "fresh"}]
  /\ overrun \subseteq Import
  /\ \A i \in Import :
       LET claimed == post_processing_status[i] = "processing" IN
       /\ claimed <=> post_processing_token[i] # P!NoToken
       /\ claimed <=> post_processing_lease[i] # "none"
       /\ claimed => post_processing_stage[i] # "none"
       /\ status[i] = "completed" <=> post_processing_status[i] = "completed"

LocalTypes ==
  /\ postPc \in [PostWorker -> P!PPC]
  /\ postJob \in [PostWorker -> Import \union {P!NoJob}]
  /\ postHeld \in [PostWorker -> Nat]
  /\ todo \in [PostWorker -> SUBSET Sensor]
  /\ sensor \in [PostWorker -> Sensor \union {P!NoSensor}]
  /\ \A w \in PostWorker : postPc[w] # "idle" <=> postJob[w] \in Import
  /\ \A w \in PostWorker : postPc[w] \in {"delete", "refresh"} => sensor[w] \in Sensor

LEMMA TypesOfBoth == P!TypeOK <=> RowTypes /\ LocalTypes
BY DEF P!TypeOK, RowTypes, LocalTypes

LEMMA TypesOfBothNext == P!TypeOK' <=> RowTypes' /\ LocalTypes'
BY DEF P!TypeOK, RowTypes, LocalTypes

LEMMA RefreshTypeInit == P!Init => P!TypeOK
BY PAssumptions
DEF P!Init, P!PPRowInit, P!PPLocalInit, P!TypeOK, P!RecordTypeOK, P!Status, P!Lease,
   P!PPStatus, P!Stage, P!Derived, P!PPC

LEMMA RowStep == P!TypeOK /\ [P!Next]_(P!ppVars) => RowTypes'
<1> SUFFICES ASSUME P!TypeOK, [P!Next]_(P!ppVars) PROVE RowTypes'
  OBVIOUS
<1> USE DEF P!TypeOK, RowTypes
<1>1. ASSUME UNCHANGED <<P!recordVars, P!ppRow, P!derived, overrun>> PROVE RowTypes'
  BY <1>1 DEF P!recordVars, P!ppRow, P!derived, P!RecordTypeOK
<1>2. ASSUME NEW w \in PostWorker, NEW i \in Import, P!claim_post_processing(w, i),
             UNCHANGED overrun
      PROVE  RowTypes'
  BY <1>2
  DEF P!claim_post_processing, P!ClaimWith, P!Claimable, P!recordVars, P!derived,
     P!RecordTypeOK, P!PPStatus, P!Lease, P!Stage
<1>3. ASSUME NEW w \in PostWorker, P!WorkerAction(w), UNCHANGED overrun PROVE RowTypes'
  <2>1. CASE \E i \in Import : P!claim_post_processing(w, i)
    BY <2>1, <1>2, <1>3
  <2>2. CASE P!LeaseLost(w)
    BY <2>2, <1>1, <1>3 DEF P!LeaseLost
  <2>h. ASSUME NEW label, P!heartbeat_post_processing(w, label), label # "idle" PROVE RowTypes'
    BY <2>h, <1>3
    DEF P!heartbeat_post_processing, P!Owns, P!recordVars, P!derived, P!RecordTypeOK,
       P!Lease
  <2>3. CASE P!StartStatistics(w)
    BY <2>3, <2>h DEF P!StartStatistics
  <2>4. CASE \E s \in Sensor : P!NextSensor(w, s)
    BY <2>4, <2>h DEF P!NextSensor
  <2>5. CASE P!delete_sensor_statistics(w)
    BY <2>5, <1>3
    DEF P!delete_sensor_statistics, P!recordVars, P!ppRow, P!RecordTypeOK, P!Derived
  <2>6. CASE P!refresh_sensor_statistics(w)
    BY <2>6, <1>3
    DEF P!refresh_sensor_statistics, P!recordVars, P!ppRow, P!RecordTypeOK, P!Derived
  <2>7. CASE P!AdvanceStage(w)
    BY <2>7, <1>3
    DEF P!AdvanceStage, P!Owns, P!recordVars, P!derived, P!RecordTypeOK, P!Stage
  <2>8. CASE P!StartGeometry(w)
    BY <2>8, <2>h DEF P!StartGeometry
  <2>9. CASE P!refresh_geometry(w)
    BY <2>9, <1>3 DEF P!refresh_geometry, P!recordVars, P!ppRow, P!RecordTypeOK
  <2>10. CASE P!Complete(w)
    BY <2>10, <1>3
    DEF P!Complete, P!Owns, P!derived, P!RecordTypeOK, P!Status, P!PPStatus, P!Stage,
       P!Lease
  <2>11. CASE P!StageError(w)
    BY <2>11, <1>1, <1>3 DEF P!StageError
  <2>12. CASE P!FailureIgnored(w)
    BY <2>12, <1>1, <1>3 DEF P!FailureIgnored
  <2>13. CASE P!mark_post_processing_failure(w)
    BY <2>13, <1>3
    DEF P!mark_post_processing_failure, P!Owns, P!recordVars, P!derived, P!RecordTypeOK,
       P!PPStatus, P!Lease
  <2>14. CASE P!Cleanup(w)
    BY <2>14, <1>3
    DEF P!Cleanup, P!cleanup_import_storage, P!ppRow, P!derived, P!RecordTypeOK
  <2> QED
    BY <1>3, <2>1, <2>2, <2>3, <2>4, <2>5, <2>6, <2>7, <2>8, <2>9, <2>10, <2>11, <2>12,
       <2>13, <2>14 DEF P!WorkerAction
<1>4. ASSUME NEW w \in PostWorker, P!Crash(w), UNCHANGED overrun PROVE RowTypes'
  BY <1>4, PAssumptions DEF P!Crash, P!Fault, P!ppRow, P!derived, P!RecordTypeOK
<1>5. ASSUME NEW i \in Import, P!OrphanExpires(i) PROVE RowTypes'
  BY <1>5 DEF P!OrphanExpires, P!Expire, P!recordVars, P!derived, P!RecordTypeOK, P!Lease
<1>6. ASSUME NEW i \in Import, P!Stall(i) PROVE RowTypes'
  BY <1>6, PAssumptions DEF P!Stall, P!Fault, P!Expire, P!derived, P!RecordTypeOK, P!Lease
<1> QED
  BY <1>1, <1>3, <1>4, <1>5, <1>6 DEF P!Next, P!WorkerStep, P!ppVars

LEMMA LocalStep == P!TypeOK /\ [P!Next]_(P!ppVars) => LocalTypes'
<1> SUFFICES ASSUME P!TypeOK, [P!Next]_(P!ppVars) PROVE LocalTypes'
  OBVIOUS
<1>1. ASSUME UNCHANGED P!ppLocal PROVE LocalTypes'
  BY <1>1 DEF P!ppLocal, LocalTypes, P!TypeOK
<1>2. ASSUME NEW w \in PostWorker, P!Idle(w) PROVE LocalTypes'
  BY <1>2, IdleKeepsTypes DEF LocalTypes
<1>3. ASSUME NEW w \in PostWorker, NEW i \in Import, P!claim_post_processing(w, i)
      PROVE  LocalTypes'
  <2>1. PICK stage \in {"statistics", "geometry"}, token \in Nat : P!ClaimWith(w, i, stage, token)
    BY <1>3 DEF P!claim_post_processing, P!TypeOK, P!Stage
  <2> QED
    BY <2>1 DEF P!ClaimWith, P!Goto, LocalTypes, P!TypeOK, P!PPC
<1>4. ASSUME NEW w \in PostWorker, NEW label \in P!PPC \ {"idle", "delete", "refresh"},
             P!Goto(w, label), postPc[w] # "idle", UNCHANGED <<postJob, postHeld>>,
             todo' \in [PostWorker -> SUBSET Sensor], UNCHANGED sensor
      PROVE  LocalTypes'
  BY <1>4 DEF P!Goto, LocalTypes, P!TypeOK, P!PPC
<1> HIDE DEF P!TypeOK
<1>5. P!TypeOK => /\ todo \in [PostWorker -> SUBSET Sensor]
                /\ \A w \in PostWorker : [todo EXCEPT ![w] = Sensor] \in [PostWorker -> SUBSET Sensor]
  BY DEF P!TypeOK
<1>6. ASSUME NEW w \in PostWorker, P!WorkerAction(w) PROVE LocalTypes'
  <2>1. CASE \E i \in Import : P!claim_post_processing(w, i)
    BY <2>1, <1>3
  <2>2. CASE P!LeaseLost(w)
    BY <2>2, <1>2 DEF P!LeaseLost
  <2>3. CASE P!StartStatistics(w)
    BY <2>3, <1>4, <1>5 DEF P!StartStatistics, P!heartbeat_post_processing, P!PPC
  <2>4. CASE \E s \in Sensor : P!NextSensor(w, s)
    BY <2>4
    DEF P!NextSensor, P!heartbeat_post_processing, P!Goto, LocalTypes, P!TypeOK, P!PPC
  <2>5. CASE P!delete_sensor_statistics(w)
    BY <2>5 DEF P!delete_sensor_statistics, P!Goto, LocalTypes, P!TypeOK, P!PPC
  <2>6. CASE P!refresh_sensor_statistics(w)
    BY <2>6, <1>4, <1>5 DEF P!refresh_sensor_statistics, P!PPC
  <2>7. CASE P!AdvanceStage(w)
    BY <2>7, <1>4, <1>5 DEF P!AdvanceStage, P!PPC
  <2>8. CASE P!StartGeometry(w)
    BY <2>8, <1>4, <1>5 DEF P!StartGeometry, P!heartbeat_post_processing, P!PPC
  <2>9. CASE P!refresh_geometry(w)
    BY <2>9, <1>4, <1>5 DEF P!refresh_geometry, P!PPC
  <2>10. CASE P!Complete(w)
    BY <2>10, <1>4, <1>5 DEF P!Complete, P!PPC
  <2>11. CASE P!StageError(w)
    BY <2>11, <1>4, <1>5 DEF P!StageError, P!PPC
  <2>12. CASE P!FailureIgnored(w)
    BY <2>12, <1>2 DEF P!FailureIgnored
  <2>13. CASE P!mark_post_processing_failure(w)
    <3>1. \/ P!Goto(w, "cleanup") /\ UNCHANGED <<postJob, postHeld, todo, sensor>>
          \/ P!Idle(w)
      BY <2>13 DEF P!mark_post_processing_failure
    <3> QED
      BY <3>1, <2>13, <1>2, <1>4, <1>5 DEF P!mark_post_processing_failure, P!PPC
  <2>14. CASE P!Cleanup(w)
    BY <2>14, <1>2 DEF P!Cleanup
  <2> QED
    BY <1>6, <2>1, <2>2, <2>3, <2>4, <2>5, <2>6, <2>7, <2>8, <2>9, <2>10, <2>11, <2>12,
       <2>13, <2>14 DEF P!WorkerAction
<1>7. ASSUME NEW i \in Import, P!Expire(i) PROVE LocalTypes'
  BY <1>7, <1>1 DEF P!Expire
<1> QED
  BY <1>1, <1>2, <1>6, <1>7
  DEF P!Next, P!WorkerStep, P!Crash, P!OrphanExpires, P!Stall, P!ppVars

LEMMA RefreshTypeStep == P!TypeOK /\ [P!Next]_(P!ppVars) => P!TypeOK'
BY RowStep, LocalStep, TypesOfBothNext

(***************************************************************************)
(* Every variable keeps its type, and a claim comes and goes whole: status,*)
(* token, lease and stage agree, whoever crashes, stalls or takes over.    *)
(***************************************************************************)
THEOREM RefreshingTypes == P!Spec => []P!TypeOK
BY RefreshTypeInit, RefreshTypeStep, PTL DEF P!Spec
-----------------------------------------------------------------------------
(***************************************************************************)
(* The result of an import: only the owner's, and final.                   *)
(***************************************************************************)
LEMMA StatusStep ==
  ASSUME P!TypeOK, [P!Next]_(P!ppVars), NEW i \in Import, status'[i] # status[i]
  PROVE  \E w \in PostWorker : P!Complete(w) /\ postJob[w] = i
<1>1. PICK w \in PostWorker : P!Complete(w)
  BY DEF P!Next, P!WorkerStep, P!WorkerAction, P!claim_post_processing, P!ClaimWith,
     P!LeaseLost, P!StartStatistics, P!NextSensor, P!heartbeat_post_processing,
     P!delete_sensor_statistics, P!refresh_sensor_statistics, P!AdvanceStage,
     P!StartGeometry, P!refresh_geometry, P!StageError, P!FailureIgnored,
     P!mark_post_processing_failure, P!Cleanup, P!Crash, P!OrphanExpires, P!Stall,
     P!recordVars, P!ppVars
<1> QED
  BY <1>1 DEF P!Complete, P!TypeOK, P!RecordTypeOK

LEMMA OwnersResult ==
  ASSUME P!TypeOK, [P!Next]_(P!ppVars), NEW i \in Import
  PROVE  /\ status[i] = "completed" => status'[i] = "completed"
         /\ status[i] = "data_loaded" /\ status'[i] # status[i] =>
              /\ status'[i] = "completed"
              /\ \E w \in PostWorker : /\ postJob[w] = i /\ postPc[w] = "complete"
                                       /\ postHeld[w] = post_processing_token[i]
<1>1. SUFFICES ASSUME status'[i] # status[i]
               PROVE  \E w \in PostWorker :
                        /\ status[i] = "data_loaded" /\ status'[i] = "completed"
                        /\ postJob[w] = i /\ postPc[w] = "complete"
                        /\ postHeld[w] = post_processing_token[i]
  OBVIOUS
<1>2. PICK w \in PostWorker : P!Complete(w) /\ postJob[w] = i
  BY <1>1, StatusStep
<1> QED
  BY <1>2 DEF P!Complete, P!Owns, P!TypeOK, P!RecordTypeOK

LEMMA ColumnStep ==
  ASSUME P!TypeOK, [P!Next]_(P!ppVars), NEW i \in Import,
         post_processing_status'[i] # post_processing_status[i]
  PROVE  status[i] = "data_loaded"
<1>1. ASSUME NEW w \in PostWorker, NEW j \in Import, P!claim_post_processing(w, j)
      PROVE  status[i] = "data_loaded"
  BY <1>1 DEF P!claim_post_processing, P!ClaimWith, P!Claimable, P!TypeOK
<1>2. ASSUME NEW w \in PostWorker, P!Complete(w) \/ P!mark_post_processing_failure(w)
      PROVE  status[i] = "data_loaded"
  BY <1>2 DEF P!Complete, P!mark_post_processing_failure, P!Owns, P!TypeOK
<1> QED
  BY <1>1, <1>2
  DEF P!Next, P!WorkerStep, P!WorkerAction, P!LeaseLost, P!StartStatistics,
     P!NextSensor, P!heartbeat_post_processing, P!delete_sensor_statistics,
     P!refresh_sensor_statistics, P!AdvanceStage, P!StartGeometry, P!refresh_geometry,
     P!StageError, P!FailureIgnored, P!Cleanup, P!Crash, P!OrphanExpires, P!Stall,
     P!Expire, P!ppRow, P!ppVars

(***************************************************************************)
(* A loaded import is completed only by the worker whose token its row     *)
(* carries, and nothing takes the result back, with any number of workers  *)
(* that have lost their claims.                                            *)
(***************************************************************************)
THEOREM OwnersDecide == P!Spec => P!ResultIsTheOwners
<1>1. P!TypeOK /\ [P!Next]_(P!ppVars) =>
        [\A i \in Import :
           /\ status[i] = "completed" => status'[i] = "completed"
           /\ status[i] = "data_loaded" /\ status'[i] # status[i] =>
                /\ status'[i] = "completed"
                /\ \E w \in PostWorker : /\ postJob[w] = i /\ postPc[w] = "complete"
                                         /\ postHeld[w] = post_processing_token[i]]_(P!ppVars)
  BY OwnersResult
<1> QED
  BY <1>1, RefreshingTypes, PTL DEF P!Spec, P!ResultIsTheOwners
-----------------------------------------------------------------------------
(***************************************************************************)
(* Files. An import is at its end when it is completed, or failed with no  *)
(* attempt left; a row that failed has none left, a worker that cleans up  *)
(* works for an import at its end, and nothing leaves the end.             *)
(***************************************************************************)
AtEnd(i) ==
  \/ post_processing_status[i] = "completed"
  \/ post_processing_status[i] = "failed" /\ post_processing_attempts[i] >= MaxAttempts

EndInv ==
  \A i \in Import :
    /\ post_processing_status[i] = "failed" => post_processing_attempts[i] >= MaxAttempts
    /\ \A w \in PostWorker : postPc[w] = "cleanup" /\ postJob[w] = i => AtEnd(i)

FilesInv == \A i \in Import : i \notin files => AtEnd(i)

LEMMA NoClaimAtEnd ==
  ASSUME P!TypeOK, NEW i \in Import, AtEnd(i) PROVE ~P!Claimable(i)
BY PAssumptions DEF AtEnd, P!Claimable, P!TypeOK

\* Beside the steps of the post-processing columns, rows and stages stay.
LEMMA EndStays ==
  ASSUME P!TypeOK, [P!Next]_(P!ppVars), NEW i \in Import, AtEnd(i) PROVE AtEnd(i)'
<1>1. ASSUME NEW w \in PostWorker, P!claim_post_processing(w, i) PROVE FALSE
  BY <1>1, NoClaimAtEnd DEF P!claim_post_processing, P!ClaimWith
<1>2. ASSUME NEW w \in PostWorker, P!Owns(w), postJob[w] = i PROVE FALSE
  BY <1>2 DEF P!Owns, AtEnd
<1>3. /\ post_processing_status'[i] = post_processing_status[i]
      /\ post_processing_attempts'[i] = post_processing_attempts[i]
  <2>1. ASSUME NEW w \in PostWorker, P!WorkerAction(w)
        PROVE  /\ post_processing_status'[i] = post_processing_status[i]
               /\ post_processing_attempts'[i] = post_processing_attempts[i]
    <3>1. CASE \E j \in Import : P!claim_post_processing(w, j)
      <4>1. PICK j \in Import : P!claim_post_processing(w, j)
        BY <3>1
      <4>2. j # i
        BY <4>1, <1>1
      <4> QED
        BY <4>1, <4>2 DEF P!claim_post_processing, P!ClaimWith, P!TypeOK
    <3>2. CASE P!Complete(w)
      BY <3>2, <1>2 DEF P!Complete, P!TypeOK
    <3>3. CASE P!mark_post_processing_failure(w)
      BY <3>3, <1>2 DEF P!mark_post_processing_failure, P!TypeOK
    <3> QED
      BY <2>1, <3>1, <3>2, <3>3
      DEF P!WorkerAction, P!LeaseLost, P!StartStatistics, P!NextSensor,
         P!heartbeat_post_processing, P!delete_sensor_statistics,
         P!refresh_sensor_statistics, P!AdvanceStage, P!StartGeometry,
         P!refresh_geometry, P!StageError, P!FailureIgnored, P!Cleanup, P!ppRow
  <2> QED
    BY <2>1
    DEF P!Next, P!WorkerStep, P!Crash, P!OrphanExpires, P!Stall, P!Expire, P!ppRow,
       P!ppVars
<1> QED
  BY <1>3 DEF AtEnd

LEMMA EndInit == P!PPRowInit /\ P!PPLocalInit => EndInv
BY DEF P!PPRowInit, P!PPLocalInit, EndInv

LEMMA EndStep == P!TypeOK /\ P!TypeOK' /\ EndInv /\ [P!Next]_(P!ppVars) => EndInv'
<1> SUFFICES ASSUME P!TypeOK, P!TypeOK', EndInv, [P!Next]_(P!ppVars), NEW i \in Import
             PROVE  /\ (post_processing_status[i] = "failed" =>
                          post_processing_attempts[i] >= MaxAttempts)'
                    /\ \A w \in PostWorker : (postPc[w] = "cleanup" /\ postJob[w] = i => AtEnd(i))'
  BY DEF EndInv
<1>1. AtEnd(i) => AtEnd(i)'
  BY EndStays
<1>2. (post_processing_status[i] = "failed" => post_processing_attempts[i] >= MaxAttempts)'
  <2>1. CASE \E w \in PostWorker : P!mark_post_processing_failure(w)
    BY <2>1 DEF P!mark_post_processing_failure, P!Exhausted, P!TypeOK, EndInv
  <2>2. CASE \E w \in PostWorker, j \in Import : P!claim_post_processing(w, j)
    BY <2>2, PAssumptions DEF P!claim_post_processing, P!ClaimWith, P!TypeOK, EndInv
  <2>3. CASE \E w \in PostWorker : P!Complete(w)
    BY <2>3 DEF P!Complete, P!TypeOK, EndInv
  <2>4. CASE UNCHANGED <<post_processing_status, post_processing_attempts>>
    BY <2>4 DEF EndInv
  <2> QED
    BY <2>1, <2>2, <2>3, <2>4
    DEF P!Next, P!WorkerStep, P!WorkerAction, P!LeaseLost, P!StartStatistics,
       P!NextSensor, P!heartbeat_post_processing, P!delete_sensor_statistics,
       P!refresh_sensor_statistics, P!AdvanceStage, P!StartGeometry, P!refresh_geometry,
       P!StageError, P!FailureIgnored, P!Cleanup, P!Crash, P!OrphanExpires, P!Stall,
       P!Expire, P!ppRow, P!ppVars
<1>3. ASSUME NEW w \in PostWorker, (postPc[w] = "cleanup" /\ postJob[w] = i)' PROVE AtEnd(i)'
  <2>1. CASE postPc[w] = "cleanup" /\ postJob[w] = i
    BY <2>1, <1>1 DEF EndInv
  <2>2. CASE P!Complete(w)
    BY <2>2, <1>3 DEF P!Complete, AtEnd, P!TypeOK
  <2>3. CASE P!mark_post_processing_failure(w)
    <3>1. P!Exhausted(w) /\ UNCHANGED postJob
      BY <2>3, <1>3 DEF P!mark_post_processing_failure, P!Idle, P!Goto, P!TypeOK
    <3> QED
      BY <2>3, <3>1, <1>3, PAssumptions
      DEF P!mark_post_processing_failure, P!Exhausted, AtEnd, P!TypeOK
  <2>4. \/ postPc'[w] = postPc[w] /\ postJob'[w] = postJob[w]
        \/ P!Complete(w) \/ P!mark_post_processing_failure(w)
    <3>1. ASSUME NEW v \in PostWorker, v # w, P!WorkerAction(v) \/ P!Crash(v)
          PROVE  postPc'[w] = postPc[w] /\ postJob'[w] = postJob[w]
      BY <3>1
      DEF P!WorkerAction, P!claim_post_processing, P!ClaimWith, P!LeaseLost,
         P!StartStatistics, P!NextSensor, P!heartbeat_post_processing,
         P!delete_sensor_statistics, P!refresh_sensor_statistics, P!AdvanceStage,
         P!StartGeometry, P!refresh_geometry, P!Complete, P!StageError,
         P!FailureIgnored, P!mark_post_processing_failure, P!Cleanup, P!Crash, P!Idle,
         P!Goto, P!TypeOK
    <3>2. ASSUME P!WorkerAction(w) \/ P!Crash(w)
          PROVE  P!Complete(w) \/ P!mark_post_processing_failure(w)
      <4>1. ASSUME NEW j \in Import, P!claim_post_processing(w, j) PROVE FALSE
        BY <4>1, <1>3 DEF P!claim_post_processing, P!ClaimWith, P!Goto, P!TypeOK, P!Stage
      <4>2. ASSUME P!Idle(w) PROVE FALSE
        BY <4>2, <1>3 DEF P!Idle, P!Goto, P!TypeOK
      <4> QED
        BY <3>2, <4>1, <4>2, <1>3
        DEF P!WorkerAction, P!LeaseLost, P!StartStatistics, P!NextSensor,
           P!heartbeat_post_processing, P!delete_sensor_statistics,
           P!refresh_sensor_statistics, P!AdvanceStage, P!StartGeometry,
           P!refresh_geometry, P!StageError, P!FailureIgnored, P!Cleanup, P!Crash,
           P!Goto, P!TypeOK
    <3> QED
      BY <3>1, <3>2
      DEF P!Next, P!WorkerStep, P!OrphanExpires, P!Stall, P!Expire, P!ppLocal, P!ppVars
  <2> QED
    BY <1>3, <2>1, <2>2, <2>3, <2>4
<1> QED
  BY <1>2, <1>3

LEMMA FilesStep == P!TypeOK /\ EndInv /\ FilesInv /\ [P!Next]_(P!ppVars) => FilesInv'
<1> SUFFICES ASSUME P!TypeOK, EndInv, FilesInv, [P!Next]_(P!ppVars), NEW i \in Import, i \notin files'
             PROVE  AtEnd(i)'
  BY DEF FilesInv
<1>1. AtEnd(i) => AtEnd(i)'
  BY EndStays
<1>2. CASE i \notin files
  BY <1>1, <1>2 DEF FilesInv
<1>3. CASE i \in files
  <2>1. PICK w \in PostWorker : P!Cleanup(w)
    BY <1>3
    DEF P!Next, P!WorkerStep, P!WorkerAction, P!claim_post_processing, P!ClaimWith,
       P!LeaseLost, P!StartStatistics, P!NextSensor, P!heartbeat_post_processing,
       P!delete_sensor_statistics, P!refresh_sensor_statistics, P!AdvanceStage,
       P!StartGeometry, P!refresh_geometry, P!Complete, P!StageError, P!FailureIgnored,
       P!mark_post_processing_failure, P!Crash, P!OrphanExpires, P!Stall, P!recordVars,
       P!ppVars
  <2> QED
    BY <1>1, <1>3, <2>1 DEF P!Cleanup, P!cleanup_import_storage, EndInv
<1> QED
  BY <1>2, <1>3

(***************************************************************************)
(* An import that may be claimed again has its files, however many workers *)
(* fail, die or lose their claims.                                         *)
(***************************************************************************)
THEOREM RetriesHaveFiles == P!Spec => []P!RetryableKeepsFiles
<1>1. P!Init => EndInv /\ FilesInv
  BY EndInit DEF P!Init, FilesInv
<1>2. P!Spec => [](P!TypeOK /\ EndInv /\ FilesInv)
  BY <1>1, RefreshTypeInit, RefreshTypeStep, EndStep, FilesStep, PTL DEF P!Spec
<1>3. P!TypeOK /\ FilesInv => P!RetryableKeepsFiles
  BY NoClaimAtEnd DEF FilesInv, AtEnd, P!RetryableKeepsFiles
<1> QED
  BY <1>2, <1>3, PTL
-----------------------------------------------------------------------------
(***************************************************************************)
(* What a completed import has. On an import whose claims never outlive    *)
(* their leases, a worker at work owns its row, is the only one, and has   *)
(* done what its label says; the durable stage vouches for the statistics, *)
(* whoever refreshed them.                                                 *)
(***************************************************************************)
Working(w, i) == postJob[w] = i /\ postPc[w] \notin {"idle", "cleanup"}

AllFresh(i) == \A s \in Sensor : statistics[i][s] = "fresh"

Progress(w, i) ==
  /\ postPc[w] \in {"statistics", "sensor", "delete", "refresh", "advance"} =>
       post_processing_stage[i] = "statistics"
  /\ postPc[w] \in {"geometry", "bounds", "complete"} =>
       post_processing_stage[i] = "geometry"
  /\ postPc[w] = "sensor" =>
       \A s \in Sensor \ todo[w] : statistics[i][s] = "fresh"
  /\ postPc[w] \in {"delete", "refresh"} =>
       \A s \in Sensor \ (todo[w] \union {sensor[w]}) : statistics[i][s] = "fresh"
  /\ postPc[w] = "refresh" => statistics[i][sensor[w]] = "absent"
  /\ postPc[w] = "advance" => AllFresh(i)
  /\ postPc[w] = "complete" => geometry[i] = "fresh"

RowVouches(i) ==
  /\ post_processing_stage[i] = "geometry" => AllFresh(i)
  /\ status[i] = "completed" => AllFresh(i) /\ geometry[i] = "fresh"

SoleOwner(i) ==
  \A w \in PostWorker : Working(w, i) =>
    /\ P!Owns(w)
    /\ Progress(w, i)
    /\ post_processing_lease[i] # "expired"
    /\ \A v \in PostWorker : Working(v, i) => v = w

RefreshInv == \A i \in Import \ overrun : RowVouches(i) /\ SoleOwner(i)

\* What an import's row and derived data are.
RowKept(i) ==
  /\ status'[i] = status[i]
  /\ post_processing_status'[i] = post_processing_status[i]
  /\ post_processing_token'[i] = post_processing_token[i]
  /\ post_processing_stage'[i] = post_processing_stage[i]
  /\ statistics'[i] = statistics[i]
  /\ geometry'[i] = geometry[i]

ProcessKept(w) ==
  /\ postPc'[w] = postPc[w] /\ postJob'[w] = postJob[w] /\ postHeld'[w] = postHeld[w]
  /\ todo'[w] = todo[w] /\ sensor'[w] = sensor[w]

LEMMA RefreshInit ==
  P!PPRowInit /\ P!PPLocalInit /\ (\A i \in Import : status[i] # "completed") => RefreshInv
BY DEF P!PPRowInit, P!PPLocalInit, RefreshInv, RowVouches, SoleOwner, Working

\* Steps that leave an import's row alone, and bring no worker to it.
LEMMA FrameStep ==
  ASSUME NEW i \in Import, RowVouches(i), SoleOwner(i), RowKept(i),
         post_processing_lease'[i] \in {post_processing_lease[i], "live"},
         \A w \in PostWorker : Working(w, i)' => Working(w, i) /\ ProcessKept(w)
  PROVE  RowVouches(i)' /\ SoleOwner(i)'
<1>1. RowVouches(i)'
  BY DEF RowVouches, AllFresh, RowKept
<1>2. ASSUME NEW w \in PostWorker, Working(w, i)'
      PROVE  /\ P!Owns(w)' /\ Progress(w, i)'
             /\ post_processing_lease'[i] # "expired"
             /\ \A v \in PostWorker : Working(v, i)' => v = w
  <2>1. /\ Working(w, i) /\ ProcessKept(w)
        /\ P!Owns(w) /\ Progress(w, i) /\ post_processing_lease[i] # "expired"
        /\ \A v \in PostWorker : Working(v, i) => v = w
    BY <1>2 DEF SoleOwner
  <2>2. P!Owns(w)'
    BY <2>1 DEF P!Owns, Working, RowKept, ProcessKept
  <2>3. Progress(w, i)'
    BY <2>1 DEF Progress, AllFresh, RowKept, ProcessKept
  <2> QED
    BY <2>1, <2>2, <2>3
<1> QED
  BY <1>1, <1>2 DEF SoleOwner

\* A worker that works for another import, or only cleans up for this one.
LEMMA OthersStep ==
  ASSUME P!TypeOK, NEW i \in Import, RowVouches(i), SoleOwner(i),
         NEW w \in PostWorker, P!WorkerAction(w) \/ P!Crash(w),
         ~Working(w, i), ~P!claim_post_processing(w, i)
  PROVE  RowVouches(i)' /\ SoleOwner(i)'
<1>1. \A v \in PostWorker \ {w} : ProcessKept(v)
  BY DEF P!WorkerAction, P!claim_post_processing, P!ClaimWith, P!LeaseLost,
     P!StartStatistics, P!NextSensor, P!heartbeat_post_processing,
     P!delete_sensor_statistics, P!refresh_sensor_statistics, P!AdvanceStage,
     P!StartGeometry, P!refresh_geometry, P!Complete, P!StageError, P!FailureIgnored,
     P!mark_post_processing_failure, P!Cleanup, P!Crash, P!Idle, P!Goto, P!TypeOK,
     ProcessKept
<1>2. RowKept(i) /\ post_processing_lease'[i] = post_processing_lease[i] /\ ~Working(w, i)'
  <2>1. ASSUME UNCHANGED <<status, P!ppRow, P!derived>>, P!Idle(w)
        PROVE  RowKept(i) /\ post_processing_lease'[i] = post_processing_lease[i] /\ ~Working(w, i)'
    BY <2>1 DEF P!ppRow, P!derived, RowKept, P!Idle, P!Goto, Working, P!TypeOK
  <2>2. CASE \E j \in Import : P!claim_post_processing(w, j)
    <3>1. PICK j \in Import : P!claim_post_processing(w, j) /\ j # i
      BY <2>2
    <3> QED
      BY <3>1
      DEF P!claim_post_processing, P!ClaimWith, P!recordVars, P!derived, RowKept,
         Working, P!TypeOK
  <2>3. CASE P!LeaseLost(w) \/ P!FailureIgnored(w) \/ P!Cleanup(w) \/ P!Crash(w)
    BY <2>3, <2>1 DEF P!LeaseLost, P!FailureIgnored, P!Cleanup, P!Crash, P!recordVars
  <2>h. ASSUME NEW label, P!heartbeat_post_processing(w, label), label \notin {"idle", "cleanup"},
               postJob' = postJob
        PROVE  RowKept(i) /\ post_processing_lease'[i] = post_processing_lease[i] /\ ~Working(w, i)'
    BY <2>h
    DEF P!heartbeat_post_processing, P!recordVars, P!derived, RowKept, Working, P!TypeOK
  <2>4. CASE P!StartStatistics(w) \/ (\E s \in Sensor : P!NextSensor(w, s)) \/ P!StartGeometry(w)
    BY <2>4, <2>h DEF P!StartStatistics, P!NextSensor, P!StartGeometry
  <2>5. CASE P!delete_sensor_statistics(w) \/ P!refresh_sensor_statistics(w) \/ P!refresh_geometry(w)
    BY <2>5
    DEF P!delete_sensor_statistics, P!refresh_sensor_statistics, P!refresh_geometry,
       P!recordVars, P!ppRow, RowKept, Working, P!TypeOK
  <2>6. CASE P!AdvanceStage(w)
    BY <2>6 DEF P!AdvanceStage, P!recordVars, P!derived, RowKept, Working, P!TypeOK
  <2>7. CASE P!Complete(w)
    <3>1. postJob[w] # i /\ postJob' = postJob
      BY <2>7 DEF P!Complete, Working
    <3> QED
      BY <2>7, <3>1 DEF P!Complete, P!derived, RowKept, Working, P!TypeOK, P!RecordTypeOK
  <2>8. CASE P!StageError(w)
    BY <2>8 DEF P!StageError, P!recordVars, P!ppRow, P!derived, RowKept, Working, P!TypeOK
  <2>9. CASE P!mark_post_processing_failure(w)
    <3>1. postJob[w] # i
      BY <2>9 DEF P!mark_post_processing_failure, Working
    <3>2. RowKept(i) /\ post_processing_lease'[i] = post_processing_lease[i]
      BY <2>9, <3>1
      DEF P!mark_post_processing_failure, P!recordVars, P!derived, RowKept, P!TypeOK
    <3>3. postPc'[w] \in {"idle", "cleanup"}
      BY <2>9 DEF P!mark_post_processing_failure, P!Idle, P!Goto, P!TypeOK
    <3> QED
      BY <3>2, <3>3 DEF Working
  <2> QED
    BY <2>2, <2>3, <2>4, <2>5, <2>6, <2>7, <2>8, <2>9 DEF P!WorkerAction
<1> QED
  <2>1. \A v \in PostWorker : Working(v, i)' => Working(v, i) /\ ProcessKept(v)
    BY <1>1, <1>2 DEF Working, ProcessKept
  <2> QED
    BY <1>2, <2>1, FrameStep

\* A claim finds nobody at work.
LEMMA ClaimStep ==
  ASSUME P!TypeOK, NEW i \in Import, RowVouches(i), SoleOwner(i),
         NEW w \in PostWorker, P!claim_post_processing(w, i)
  PROVE  RowVouches(i)' /\ SoleOwner(i)'
<1>1. \A v \in PostWorker : ~Working(v, i)
  BY DEF P!claim_post_processing, P!ClaimWith, P!Claimable, SoleOwner, P!Owns, Working
<1>2. PICK stage \in {"statistics", "geometry"}, token \in Nat :
        /\ P!ClaimWith(w, i, stage, token)
        /\ stage = "geometry" => post_processing_stage[i] = "geometry"
  BY DEF P!claim_post_processing, P!TypeOK, P!Stage
<1>3. /\ status'[i] = "data_loaded" /\ UNCHANGED <<statistics, geometry>>
      /\ post_processing_status'[i] = "processing" /\ post_processing_token'[i] = token
      /\ post_processing_lease'[i] = "live" /\ post_processing_stage'[i] = stage
  BY <1>2 DEF P!ClaimWith, P!Claimable, P!recordVars, P!derived, P!TypeOK
<1>4. /\ postPc'[w] = stage /\ postJob'[w] = i /\ postHeld'[w] = token
      /\ \A v \in PostWorker \ {w} : postPc'[v] = postPc[v] /\ postJob'[v] = postJob[v]
  BY <1>2 DEF P!ClaimWith, P!Goto, P!TypeOK
<1>5. RowVouches(i)'
  BY <1>2, <1>3 DEF RowVouches, AllFresh
<1>6. P!Owns(w)'
  BY <1>3, <1>4 DEF P!Owns
<1>7. Progress(w, i)'
  BY <1>3, <1>4 DEF Progress
<1>8. \A v \in PostWorker : Working(v, i)' => v = w
  BY <1>1, <1>4 DEF Working
<1> QED
  BY <1>3, <1>5, <1>6, <1>7, <1>8 DEF SoleOwner

\* The step of the owner: only its own label, its row and its data move.
OwnerKeeps(w, i) ==
  /\ RowVouches(i)'
  /\ Working(w, i)' => /\ P!Owns(w)' /\ Progress(w, i)'
                       /\ post_processing_lease'[i] # "expired"

LEMMA HeartbeatStep ==
  ASSUME P!TypeOK, NEW i \in Import, NEW w \in PostWorker, NEW label,
         Working(w, i), P!Owns(w), RowVouches(i),
         P!heartbeat_post_processing(w, label), UNCHANGED <<postJob, postHeld>>
  PROVE  /\ RowVouches(i)' /\ P!Owns(w)'
         /\ post_processing_lease'[i] # "expired"
         /\ UNCHANGED <<post_processing_stage, statistics, geometry>>
BY DEF P!heartbeat_post_processing, P!recordVars, P!derived, RowVouches, AllFresh,
   P!Owns, Working, P!TypeOK

LEMMA OwnerStep ==
  ASSUME P!TypeOK, NEW i \in Import, RowVouches(i), SoleOwner(i),
         NEW w \in PostWorker, Working(w, i), P!WorkerAction(w) \/ P!Crash(w)
  PROVE  OwnerKeeps(w, i)
<1> DEFINE leased == post_processing_lease[i] # "expired"
<1>1. P!Owns(w) /\ Progress(w, i) /\ leased /\ postJob[w] = i /\ postPc[w] \notin {"idle", "cleanup"}
  BY DEF SoleOwner, Working
<1>2. ASSUME P!Idle(w), UNCHANGED <<status, P!derived>>,
             post_processing_stage'[i] = post_processing_stage[i]
      PROVE  OwnerKeeps(w, i)
  BY <1>2
  DEF P!Idle, P!Goto, P!TypeOK, P!derived, OwnerKeeps, RowVouches, AllFresh, Working
<1>3. CASE P!LeaseLost(w) \/ P!FailureIgnored(w)
  BY <1>1, <1>3 DEF P!LeaseLost, P!FailureIgnored
<1>4. CASE P!Crash(w)
  BY <1>4, <1>2 DEF P!Crash, P!ppRow
<1>5. CASE P!StartStatistics(w)
  <2>1. /\ RowVouches(i)' /\ P!Owns(w)' /\ post_processing_lease'[i] # "expired"
        /\ UNCHANGED <<post_processing_stage, statistics, geometry>>
    BY <1>1, <1>5, HeartbeatStep DEF P!StartStatistics
  <2>2. postPc[w] = "statistics" /\ postPc'[w] = "sensor" /\ todo'[w] = Sensor
    BY <1>5 DEF P!StartStatistics, P!heartbeat_post_processing, P!Goto, P!TypeOK
  <2> QED
    BY <1>1, <2>1, <2>2 DEF OwnerKeeps, Progress
<1>6. CASE \E s \in Sensor : P!NextSensor(w, s)
  <2>0. PICK s \in Sensor : P!NextSensor(w, s)
    BY <1>6
  <2>1. /\ RowVouches(i)' /\ P!Owns(w)' /\ post_processing_lease'[i] # "expired"
        /\ UNCHANGED <<post_processing_stage, statistics, geometry>>
    BY <1>1, <2>0, HeartbeatStep DEF P!NextSensor
  <2>2. /\ postPc[w] = "sensor" /\ postPc'[w] = "delete"
        /\ todo'[w] = todo[w] \ {s} /\ sensor'[w] = s
    BY <2>0 DEF P!NextSensor, P!heartbeat_post_processing, P!Goto, P!TypeOK
  <2> QED
    BY <1>1, <2>1, <2>2 DEF OwnerKeeps, Progress
<1>7. CASE P!delete_sensor_statistics(w)
  <2>1. /\ postPc[w] = "delete" /\ postPc'[w] = "refresh" /\ UNCHANGED <<postJob, postHeld, todo, sensor>>
        /\ UNCHANGED <<status, P!ppRow, geometry>> /\ sensor[w] \in Sensor
    BY <1>7 DEF P!delete_sensor_statistics, P!Goto, P!TypeOK, P!recordVars
  <2>2. /\ statistics'[i][sensor[w]] = "absent"
        /\ \A s \in Sensor \ {sensor[w]} : statistics'[i][s] = statistics[i][s]
    BY <1>1, <1>7, <2>1 DEF P!delete_sensor_statistics, P!TypeOK
  <2>3. post_processing_stage[i] = "statistics" /\ status[i] = "data_loaded"
    BY <1>1, <2>1 DEF Progress, P!Owns
  <2>4. RowVouches(i)'
    BY <2>1, <2>3 DEF RowVouches, P!ppRow
  <2>5. P!Owns(w)' /\ post_processing_lease'[i] # "expired"
    BY <1>1, <2>1 DEF P!Owns, P!ppRow
  <2>6. Progress(w, i)'
    BY <1>1, <2>1, <2>2, <2>3 DEF Progress, P!ppRow
  <2> QED
    BY <2>4, <2>5, <2>6 DEF OwnerKeeps
<1>8. CASE P!refresh_sensor_statistics(w)
  <2>1. /\ postPc[w] = "refresh" /\ UNCHANGED <<postJob, postHeld, todo, sensor>>
        /\ UNCHANGED <<status, P!ppRow, geometry>> /\ sensor[w] \in Sensor
        /\ postPc'[w] = IF todo[w] = {} THEN "advance" ELSE "sensor"
    BY <1>8 DEF P!refresh_sensor_statistics, P!Goto, P!TypeOK, P!recordVars
  <2>2. /\ statistics'[i][sensor[w]] = "fresh"
        /\ \A s \in Sensor \ {sensor[w]} : statistics'[i][s] = statistics[i][s]
    BY <1>1, <1>8, <2>1 DEF P!refresh_sensor_statistics, Progress, P!TypeOK
  <2>3. post_processing_stage[i] = "statistics" /\ status[i] = "data_loaded"
    BY <1>1, <2>1 DEF Progress, P!Owns
  <2>4. RowVouches(i)'
    BY <2>1, <2>3 DEF RowVouches, P!ppRow
  <2>5. P!Owns(w)' /\ post_processing_lease'[i] # "expired"
    BY <1>1, <2>1 DEF P!Owns, P!ppRow
  <2>6. \A s \in Sensor \ todo[w] : statistics'[i][s] = "fresh"
    BY <1>1, <2>1, <2>2 DEF Progress
  <2>7. Progress(w, i)'
    BY <2>1, <2>3, <2>6 DEF Progress, P!ppRow, AllFresh
  <2> QED
    BY <2>4, <2>5, <2>7 DEF OwnerKeeps
<1>9. CASE P!AdvanceStage(w)
  <2>1. /\ postPc[w] = "advance" /\ postPc'[w] = "geometry" /\ UNCHANGED <<postJob, postHeld, statistics, geometry>>
        /\ UNCHANGED <<status, post_processing_status, post_processing_token,
                       post_processing_lease>>
        /\ post_processing_stage'[i] = "geometry"
    BY <1>1, <1>9 DEF P!AdvanceStage, P!Goto, P!TypeOK, P!recordVars, P!derived
  <2>2. AllFresh(i)'
    BY <1>1, <2>1 DEF Progress, AllFresh
  <2>3. RowVouches(i)'
    BY <1>1, <2>1, <2>2 DEF RowVouches, P!Owns
  <2>4. P!Owns(w)' /\ post_processing_lease'[i] # "expired"
    BY <1>1, <2>1 DEF P!Owns
  <2>5. Progress(w, i)'
    BY <2>1 DEF Progress
  <2> QED
    BY <2>3, <2>4, <2>5 DEF OwnerKeeps
<1>10. CASE P!StartGeometry(w)
  <2>1. /\ RowVouches(i)' /\ P!Owns(w)' /\ post_processing_lease'[i] # "expired"
        /\ UNCHANGED <<post_processing_stage, statistics, geometry>>
    BY <1>1, <1>10, HeartbeatStep DEF P!StartGeometry
  <2>2. postPc[w] = "geometry" /\ postPc'[w] = "bounds"
    BY <1>10 DEF P!StartGeometry, P!heartbeat_post_processing, P!Goto, P!TypeOK
  <2> QED
    BY <1>1, <2>1, <2>2 DEF OwnerKeeps, Progress
<1>11. CASE P!refresh_geometry(w)
  <2>1. /\ postPc[w] = "bounds" /\ postPc'[w] = "complete" /\ UNCHANGED <<postJob, postHeld, statistics>>
        /\ UNCHANGED <<status, P!ppRow>> /\ geometry'[i] = "fresh"
    BY <1>1, <1>11 DEF P!refresh_geometry, P!Goto, P!TypeOK, P!recordVars
  <2> QED
    BY <1>1, <2>1 DEF OwnerKeeps, RowVouches, AllFresh, P!Owns, Progress, P!ppRow
<1>12. CASE P!Complete(w)
  <2>1. /\ postPc[w] = "complete" /\ postPc'[w] = "cleanup" /\ UNCHANGED <<statistics, geometry>>
        /\ post_processing_stage'[i] = "none"
    BY <1>1, <1>12 DEF P!Complete, P!Goto, P!TypeOK, P!derived
  <2>2. AllFresh(i) /\ geometry[i] = "fresh"
    BY <1>1, <2>1 DEF Progress, RowVouches
  <2> QED
    BY <2>1, <2>2 DEF OwnerKeeps, RowVouches, AllFresh, Working
<1>13. CASE P!StageError(w)
  <2>1. postPc'[w] = "fail" /\ UNCHANGED <<postJob, postHeld, status, P!ppRow, P!derived>>
    BY <1>13 DEF P!StageError, P!Goto, P!TypeOK, P!recordVars
  <2> QED
    BY <1>1, <2>1
    DEF OwnerKeeps, RowVouches, AllFresh, P!Owns, Progress, P!ppRow, P!derived
<1>14. CASE P!mark_post_processing_failure(w)
  <2>1. /\ UNCHANGED <<status, P!derived>> /\ UNCHANGED post_processing_stage
        /\ postPc'[w] \in {"cleanup", "idle"}
    BY <1>14 DEF P!mark_post_processing_failure, P!Idle, P!Goto, P!TypeOK, P!recordVars
  <2> QED
    BY <2>1 DEF OwnerKeeps, RowVouches, AllFresh, Working, P!derived
<1>15. CASE P!Cleanup(w)
  BY <1>1, <1>15 DEF P!Cleanup
<1>16. CASE \E j \in Import : P!claim_post_processing(w, j)
  BY <1>1, <1>16 DEF P!claim_post_processing, P!ClaimWith
<1> QED
  BY <1>3, <1>4, <1>5, <1>6, <1>7, <1>8, <1>9, <1>10, <1>11, <1>12, <1>13, <1>14, <1>15,
     <1>16
  DEF P!WorkerAction

LEMMA RefreshStep == P!TypeOK /\ RefreshInv /\ [P!Next]_(P!ppVars) => RefreshInv'
<1> SUFFICES ASSUME P!TypeOK, RefreshInv, [P!Next]_(P!ppVars), NEW i \in Import, i \notin overrun'
             PROVE  RowVouches(i)' /\ SoleOwner(i)'
  BY DEF RefreshInv
<1>1. i \notin overrun
  BY DEF P!Next, P!WorkerStep, P!OrphanExpires, P!Stall, P!ppVars
<1>2. RowVouches(i) /\ SoleOwner(i)
  BY <1>1 DEF RefreshInv
<1>3. ASSUME NEW w \in PostWorker, P!WorkerAction(w) \/ P!Crash(w)
      PROVE  RowVouches(i)' /\ SoleOwner(i)'
  <2>1. CASE P!claim_post_processing(w, i)
    BY <1>2, <2>1, ClaimStep
  <2>2. CASE ~Working(w, i) /\ ~P!claim_post_processing(w, i)
    BY <1>2, <1>3, <2>2, OthersStep
  <2>3. CASE Working(w, i)
    <3>1. OwnerKeeps(w, i)
      BY <1>2, <1>3, <2>3, OwnerStep
    <3>2. \A v \in PostWorker : Working(v, i)' => v = w
      <4>1. \A v \in PostWorker \ {w} : postPc'[v] = postPc[v] /\ postJob'[v] = postJob[v]
        BY <1>3
        DEF P!WorkerAction, P!claim_post_processing, P!ClaimWith, P!LeaseLost,
           P!StartStatistics, P!NextSensor, P!heartbeat_post_processing,
           P!delete_sensor_statistics, P!refresh_sensor_statistics, P!AdvanceStage,
           P!StartGeometry, P!refresh_geometry, P!Complete, P!StageError,
           P!FailureIgnored, P!mark_post_processing_failure, P!Cleanup, P!Crash, P!Idle,
           P!Goto, P!TypeOK
      <4> QED
        BY <1>2, <2>3, <4>1 DEF SoleOwner, Working
    <3> QED
      BY <3>1, <3>2 DEF OwnerKeeps, SoleOwner
  <2> QED
    BY <2>1, <2>2, <2>3
<1>4. ASSUME NEW j \in Import, P!OrphanExpires(j) PROVE RowVouches(i)' /\ SoleOwner(i)'
  <2>1. RowKept(i) /\ \A w \in PostWorker : ProcessKept(w)
    BY <1>4
    DEF P!OrphanExpires, P!Expire, P!recordVars, P!derived, P!ppLocal, RowKept,
       ProcessKept
  <2>2. CASE post_processing_lease'[i] = post_processing_lease[i]
    BY <1>2, <2>1, <2>2, FrameStep DEF Working, ProcessKept
  <2>3. CASE j = i
    <3>1. \A w \in PostWorker : ~Working(w, i)
      BY <1>2, <1>4, <2>3 DEF P!OrphanExpires, P!Held, SoleOwner, P!Owns, Working
    <3> QED
      BY <1>2, <2>1, <3>1
      DEF RowVouches, AllFresh, SoleOwner, Working, RowKept, ProcessKept
  <2> QED
    BY <1>4, <2>2, <2>3 DEF P!OrphanExpires, P!Expire, P!TypeOK
<1>5. ASSUME NEW j \in Import, P!Stall(j) PROVE RowVouches(i)' /\ SoleOwner(i)'
  <2>1. j # i
    BY <1>5 DEF P!Stall
  <2>2. RowKept(i) /\ post_processing_lease'[i] = post_processing_lease[i]
    BY <1>5, <2>1 DEF P!Stall, P!Expire, P!derived, RowKept, P!TypeOK
  <2>3. \A w \in PostWorker : ProcessKept(w)
    BY <1>5 DEF P!Stall, P!Expire, P!ppLocal, ProcessKept
  <2> QED
    BY <1>2, <2>2, <2>3, FrameStep DEF Working, ProcessKept
<1>6. CASE UNCHANGED P!ppVars
  <2>1. /\ RowKept(i) /\ post_processing_lease'[i] = post_processing_lease[i]
        /\ \A w \in PostWorker : ProcessKept(w)
    BY <1>6
    DEF P!ppVars, P!recordVars, P!ppRow, P!derived, P!ppLocal, RowKept, ProcessKept
  <2> QED
    BY <1>2, <2>1, FrameStep DEF Working, ProcessKept
<1> QED
  BY <1>3, <1>4, <1>5, <1>6 DEF P!Next, P!WorkerStep

LEMMA RefreshInvCorrect == P!Spec => [](P!TypeOK /\ RefreshInv)
<1>1. P!Init => RefreshInv
  BY RefreshInit DEF P!Init
<1> QED
  BY <1>1, RefreshTypeInit, RefreshTypeStep, RefreshStep, PTL DEF P!Spec

(***************************************************************************)
(* A completed import has fresh statistics for each of its sensors and a   *)
(* fresh geometry, whichever claims did the two stages and however often   *)
(* workers failed and died, unless a live worker outlived its lease on it. *)
(***************************************************************************)
THEOREM CompletedImportsAreRefreshed == P!Spec => []P!CompletedIsRefreshed
<1>1. RefreshInv => P!CompletedIsRefreshed
  BY DEF RefreshInv, RowVouches, AllFresh, P!CompletedIsRefreshed
<1> QED
  BY <1>1, RefreshInvCorrect, PTL

LEMMA StageStep ==
  ASSUME P!TypeOK, RefreshInv, [P!Next]_(P!ppVars), NEW i \in Import \ overrun,
         post_processing_stage[i] = "geometry"
  PROVE  /\ statistics'[i] = statistics[i]
         /\ post_processing_stage'[i] # "statistics"
<1>1. ASSUME NEW w \in PostWorker, postJob[w] = i,
             postPc[w] \in {"statistics", "sensor", "delete", "refresh", "advance"}
      PROVE  FALSE
  BY <1>1 DEF RefreshInv, SoleOwner, Working, Progress
<1>2. statistics'[i] = statistics[i]
  <2>1. ASSUME NEW w \in PostWorker, P!delete_sensor_statistics(w) \/ P!refresh_sensor_statistics(w)
        PROVE  statistics'[i] = statistics[i]
    <3>1. postJob[w] # i
      BY <2>1, <1>1 DEF P!delete_sensor_statistics, P!refresh_sensor_statistics
    <3> QED
      BY <2>1, <3>1 DEF P!delete_sensor_statistics, P!refresh_sensor_statistics, P!TypeOK
  <2> QED
    BY <2>1
    DEF P!Next, P!WorkerStep, P!WorkerAction, P!claim_post_processing, P!ClaimWith,
       P!LeaseLost, P!StartStatistics, P!NextSensor, P!heartbeat_post_processing,
       P!AdvanceStage, P!StartGeometry, P!refresh_geometry, P!Complete, P!StageError,
       P!FailureIgnored, P!mark_post_processing_failure, P!Cleanup, P!Crash,
       P!OrphanExpires, P!Stall, P!Expire, P!derived, P!ppVars
<1>3. post_processing_stage'[i] # "statistics"
  <2>1. ASSUME NEW w \in PostWorker, NEW j \in Import, P!claim_post_processing(w, j)
        PROVE  post_processing_stage'[i] # "statistics"
    BY <2>1 DEF P!claim_post_processing, P!ClaimWith, P!TypeOK
  <2>2. ASSUME NEW w \in PostWorker, P!AdvanceStage(w) \/ P!Complete(w)
        PROVE  post_processing_stage'[i] # "statistics"
    BY <2>2 DEF P!AdvanceStage, P!Complete, P!TypeOK
  <2> QED
    BY <2>1, <2>2
    DEF P!Next, P!WorkerStep, P!WorkerAction, P!LeaseLost, P!StartStatistics,
       P!NextSensor, P!heartbeat_post_processing, P!delete_sensor_statistics,
       P!refresh_sensor_statistics, P!StartGeometry, P!refresh_geometry, P!StageError,
       P!FailureIgnored, P!mark_post_processing_failure, P!Cleanup, P!Crash,
       P!OrphanExpires, P!Stall, P!Expire, P!ppRow, P!ppVars
<1> QED
  BY <1>2, <1>3

(***************************************************************************)
(* Once the durable stage is geometry, no worker touches the statistics    *)
(* again, unless one outlived its lease.                                   *)
(***************************************************************************)
THEOREM StatisticsAreNotRepeated == P!Spec => P!StatisticsNotRepeated
<1>1. P!TypeOK /\ RefreshInv /\ [P!Next]_(P!ppVars) =>
        [\A i \in Import \ overrun : post_processing_stage[i] = "geometry" =>
           /\ statistics'[i] = statistics[i]
           /\ post_processing_stage'[i] # "statistics"]_(P!ppVars)
  BY StageStep
<1> QED
  BY <1>1, RefreshInvCorrect, PTL DEF P!Spec, P!StatisticsNotRepeated

-----------------------------------------------------------------------------
(* The steps of the composition, in terms of WP and of P. *)

LoaderStep == WP!Next /\ UNCHANGED postVars
RefresherStep == P!Next /\ UNCHANGED ingestVars

LEMMA LoaderActions ==
  ASSUME NEW p, NEW i
  PROVE  /\ W!WorkerStep(p) => WP!WorkerStep(p)
         /\ W!Crash(p) => WP!Crash(p)
         /\ W!OrphanExpires(i) => WP!OrphanExpires(i)
         /\ W!Stall(i) => WP!Stall(i)
BY DEF W!WorkerStep, WP!WorkerStep, W!Crash, WP!Crash, W!OrphanExpires,
    WP!OrphanExpires, W!Stall, WP!Stall, W!claim_import, WP!claim_import,
    W!LeaseLost, WP!LeaseLost, W!SkipChunk, WP!SkipChunk, W!OpenChunk, WP!OpenChunk,
    W!heartbeat, WP!heartbeat, W!flush_stage_batch, WP!flush_stage_batch,
    W!ReadCounters, WP!ReadCounters, W!CommitChunk, WP!CommitChunk, W!LastHeartbeat,
    WP!LastHeartbeat, W!MarkDataLoaded, WP!MarkDataLoaded, W!LoadError,
    WP!LoadError, W!FailureIgnored, WP!FailureIgnored, W!ReadFailure,
    WP!ReadFailure, W!ReleaseAs, WP!ReleaseAs, W!Requeue, WP!Requeue, W!Terminate,
    WP!Terminate, W!CleanupFailed, WP!CleanupFailed, W!cleanup_import_storage,
    WP!cleanup_import_storage, W!Claimable, WP!Claimable, W!Owns, WP!Owns, W!Idle,
    WP!Idle, W!Goto, WP!Goto, W!Unparsable, WP!Unparsable, W!Batches, WP!Batches,
    W!Held, WP!Held, W!Expire, WP!Expire, W!Fault, WP!Fault, W!Chunk, WP!Chunk,
    W!NoRead, WP!NoRead, W!NoToken, WP!NoToken, W!NoJob, WP!NoJob, W!recordVars,
    WP!recordVars, W!rowVars, WP!rowVars, W!receiptVars, WP!receiptVars,
    W!localVars, WP!localVars, W!Cardinality, WP!Cardinality

-----------------------------------------------------------------------------
(* The invariant. *)

\* A process polls one of its queues.
Turns ==
  /\ turn \in [Process -> {"ingestion", "post"}]
  /\ \A p \in Process : turn[p] \in Polls[p]

\* Only what is loaded has ever been claimed for post-processing.
Coupled ==
  \A i \in Import :
    post_processing_status[i] # "pending" => status[i] \in {"data_loaded", "completed"}

PipeInv ==
  /\ Turns
  /\ WP!TypeOK /\ WP!LoadInv /\ WP!SoleInv
  /\ P!TypeOK /\ EndInv /\ RefreshInv
  /\ Coupled

LEMMA TurnsInit == Init => Turns
BY PollsAssumption DEF Init, Turns, First, Worker

LEMMA TurnsStep == Turns /\ [Next]_vars => Turns'
<1> SUFFICES ASSUME Turns, [Next]_vars PROVE Turns'
  OBVIOUS
<1>1. ASSUME NEW p \in Process, Poll(p) PROVE Turns'
  <2>1. \/ UNCHANGED turn
        \/ \E queue \in Polls[p] \cap {"ingestion", "post"} : turn' = [turn EXCEPT ![p] = queue]
    BY <1>1, PollsAssumption DEF Poll, run_once, run_post_process_once, Turn, Turns
  <2> QED
    BY <2>1 DEF Turns
<1>2. ASSUME NEW p \in Process, Crash(p) PROVE Turns'
  <2>1. First(p) \in Polls[p] /\ First(p) \in {"ingestion", "post"}
    BY PollsAssumption DEF First, Worker
  <2> QED
    BY <1>2, <2>1 DEF Crash, Turns
<1> QED
  BY <1>1, <1>2 DEF Next, OrphanExpires, Stall, Turns, vars

LEMMA NextSteps ==
  ASSUME Turns, [Next]_vars
  PROVE  LoaderStep \/ RefresherStep \/ UNCHANGED <<recordVars, ingestVars, postVars>>
<1>1. ASSUME NEW p \in Worker, W!WorkerStep(p) \/ W!Crash(p), UNCHANGED postVars
      PROVE  LoaderStep
  BY <1>1, LoaderActions DEF LoaderStep, WP!Next
<1>2. ASSUME NEW p \in PostWorker, P!WorkerStep(p) \/ (P!Crash(p) /\ UNCHANGED overrun),
             UNCHANGED ingestVars
      PROVE  RefresherStep
  BY <1>2 DEF RefresherStep, P!Next
<1>3. ASSUME NEW p \in Process, run_once(p)
      PROVE  LoaderStep \/ UNCHANGED <<recordVars, ingestVars, postVars>>
  BY <1>1, <1>3 DEF run_once, Turns, Worker
<1>4. ASSUME NEW p \in Process, run_post_process_once(p)
      PROVE  RefresherStep \/ UNCHANGED <<recordVars, ingestVars, postVars>>
  BY <1>2, <1>4 DEF run_post_process_once, Turns, PostWorker
<1>5. ASSUME NEW p \in Process, Crash(p) PROVE LoaderStep \/ RefresherStep
  BY <1>1, <1>2, <1>5 DEF Crash
<1>6. ASSUME NEW i \in Import, OrphanExpires(i) \/ Stall(i) PROVE LoaderStep \/ RefresherStep
  <2>1. CASE (W!OrphanExpires(i) \/ W!Stall(i)) /\ UNCHANGED postVars
    BY <2>1, LoaderActions DEF LoaderStep, WP!Next
  <2>2. CASE (P!OrphanExpires(i) \/ P!Stall(i)) /\ UNCHANGED ingestVars
    BY <2>2 DEF RefresherStep, P!Next
  <2> QED
    BY <1>6, <2>1, <2>2 DEF OrphanExpires, Stall
<1> QED
  BY <1>3, <1>4, <1>5, <1>6 DEF Next, Poll, vars

LEMMA PipeInvInit == Init => PipeInv
<1> SUFFICES ASSUME Init PROVE PipeInv
  OBVIOUS
<1>1. WP!Init
  BY DEF Init, W!Init, WP!Init, W!NoToken, WP!NoToken, W!NoJob, WP!NoJob, W!Chunk,
     WP!Chunk, W!NoRead, WP!NoRead
<1>2. WP!TypeOK /\ WP!LoadInv
  BY <1>1, WP!TypeOKInit, WP!LoadInvInit, WPAssumptions
<1>3. WP!SoleInv
  BY <1>1 DEF WP!Init, WP!SoleInv, WP!Working
<1>4. P!PPRowInit /\ P!PPLocalInit /\ \A i \in Import : status[i] = "queued"
  BY <1>1 DEF Init, P!PPRowInit, P!PPLocalInit, WP!Init, P!NoToken, P!NoJob, P!NoSensor
<1>5. EndInv /\ RefreshInv
  BY <1>4, EndInit, RefreshInit, PAssumptions
<1>6. P!TypeOK
  BY <1>2, <1>4, PAssumptions
  DEF P!PPRowInit, P!PPLocalInit, P!TypeOK, WP!TypeOK, WP!RecordTypeOK, P!RecordTypeOK,
      P!Status, WP!Status, P!Lease, P!PPStatus, P!Stage, P!Derived, P!PPC, P!NoToken
<1>7. \A i \in Import : post_processing_status[i] = "pending"
  BY <1>4 DEF P!PPRowInit
<1> QED
  BY <1>2, <1>3, <1>5, <1>6, <1>7, TurnsInit DEF PipeInv, Coupled

-----------------------------------------------------------------------------
(***************************************************************************)
(* The README's deployment: one process takes imports in.                  *)
(***************************************************************************)
OneLoader == \A v, w \in Worker : v = w

\* A status that the loader changes is one of an import nobody has refreshed.
LEMMA LoaderChanges ==
  ASSUME OneLoader, PipeInv, LoaderStep, NEW i \in Import, status'[i] # status[i]
  PROVE  /\ status[i] \in {"queued", "processing"} /\ status'[i] # "completed"
         /\ post_processing_status[i] = "pending"
<1>1. status[i] \in {"queued", "processing"} /\ status'[i] # "completed"
  BY WP!SoleStepIsFinal, WPAssumptions DEF OneLoader, PipeInv, LoaderStep
<1> QED
  BY <1>1 DEF PipeInv, Coupled

LEMMA LoaderKeepsIngestion ==
  ASSUME OneLoader, PipeInv, LoaderStep
  PROVE  WP!TypeOK' /\ WP!LoadInv' /\ WP!SoleInv'
<1>1. WP!TypeOK /\ WP!LoadInv /\ WP!SoleInv /\ [WP!Next]_(WP!vars)
  BY DEF PipeInv, LoaderStep
<1>2. WP!TypeOK'
  BY <1>1, WP!TypeOKStep, WPAssumptions
<1>3. WP!LoadInv'
  BY <1>1, WP!LoadInvStep, WPAssumptions
<1>4. WP!SoleInv'
  BY <1>1, WP!SoleInvStep, WPAssumptions DEF OneLoader
<1> QED
  BY <1>2, <1>3, <1>4

LEMMA LoaderKeepsRefreshing ==
  ASSUME OneLoader, PipeInv, LoaderStep
  PROVE  P!TypeOK' /\ EndInv' /\ RefreshInv' /\ Coupled'
<1>1. UNCHANGED postVars /\ P!TypeOK /\ EndInv /\ RefreshInv
  BY DEF LoaderStep, PipeInv
<1>2. P!RecordTypeOK'
  BY LoaderKeepsIngestion
  DEF WP!TypeOK, WP!RecordTypeOK, P!RecordTypeOK, WP!Status, P!Status
<1>3. \A i \in Import : status'[i] = "completed" <=> status[i] = "completed"
  BY LoaderChanges
<1>4. P!TypeOK'
  BY <1>1, <1>2, <1>3 DEF P!TypeOK, postVars
<1>5. EndInv'
  BY <1>1 DEF EndInv, AtEnd, postVars
<1>6. ASSUME NEW i \in Import \ overrun'
      PROVE  RowVouches(i)' /\ SoleOwner(i)'
  <2>1. RowVouches(i) /\ SoleOwner(i)
    BY <1>1 DEF RefreshInv, postVars
  <2>2. CASE status'[i] = status[i]
    BY <1>1, <2>1, <2>2
    DEF postVars, RowVouches, SoleOwner, AllFresh, Working, P!Owns, Progress
  <2>3. CASE status'[i] # status[i]
    <3>1. post_processing_status[i] = "pending" /\ status'[i] # "completed"
      BY <2>3, LoaderChanges
    <3>2. \A w \in PostWorker : ~Working(w, i)
      BY <2>1, <3>1 DEF SoleOwner, P!Owns, Working
    <3> QED
      BY <1>1, <2>1, <3>1, <3>2
      DEF postVars, RowVouches, SoleOwner, AllFresh, Working
  <2> QED
    BY <2>2, <2>3
<1>7. RefreshInv'
  BY <1>6 DEF RefreshInv
<1>8. Coupled'
  <2> SUFFICES ASSUME NEW i \in Import, post_processing_status'[i] # "pending"
               PROVE  status'[i] \in {"data_loaded", "completed"}
    BY DEF Coupled
  <2>1. post_processing_status[i] # "pending" /\ status[i] \in {"data_loaded", "completed"}
    BY <1>1 DEF postVars, PipeInv, Coupled
  <2> QED
    BY <2>1, LoaderChanges
<1> QED
  BY <1>4, <1>5, <1>7, <1>8

LEMMA RefresherKeepsRefreshing ==
  ASSUME PipeInv, RefresherStep
  PROVE  P!TypeOK' /\ EndInv' /\ RefreshInv' /\ Coupled'
<1>1. P!TypeOK /\ EndInv /\ RefreshInv /\ [P!Next]_(P!ppVars) /\ Coupled
  BY DEF PipeInv, RefresherStep
<1>2. P!TypeOK'
  BY <1>1, RefreshTypeStep, PAssumptions
<1>3. EndInv'
  BY <1>1, <1>2, EndStep, PAssumptions
<1>4. RefreshInv'
  BY <1>1, RefreshStep, PAssumptions
<1>5. Coupled'
  <2> SUFFICES ASSUME NEW i \in Import, post_processing_status'[i] # "pending"
               PROVE  status'[i] \in {"data_loaded", "completed"}
    BY DEF Coupled
  <2>1. status[i] \in {"data_loaded", "completed"}
    BY <1>1, ColumnStep, PAssumptions DEF Coupled
  <2> QED
    BY <1>1, <2>1, OwnersResult, PAssumptions
<1> QED
  BY <1>2, <1>3, <1>4, <1>5

\* A status that a refresher changes is the one of an import it completes.
LEMMA RefresherChanges ==
  ASSUME PipeInv, RefresherStep, NEW i \in Import, status'[i] # status[i]
  PROVE  status[i] = "data_loaded" /\ status'[i] = "completed"
<1>1. P!TypeOK /\ [P!Next]_(P!ppVars)
  BY DEF PipeInv, RefresherStep
<1>2. PICK w \in PostWorker : P!Complete(w) /\ postJob[w] = i
  BY <1>1, StatusStep, PAssumptions
<1> QED
  BY <1>1, <1>2 DEF P!Complete, P!Owns, P!TypeOK, P!RecordTypeOK
LEMMA RefresherKeepsIngestion ==
  ASSUME PipeInv, RefresherStep
  PROVE  WP!TypeOK' /\ WP!LoadInv' /\ WP!SoleInv'
<1>1. UNCHANGED ingestVars /\ WP!TypeOK /\ WP!LoadInv /\ WP!SoleInv
  BY DEF PipeInv, RefresherStep
<1>2. WP!RecordTypeOK'
  BY RefresherKeepsRefreshing
  DEF P!TypeOK, WP!RecordTypeOK, P!RecordTypeOK, WP!Status, P!Status
<1>3. WP!TypeOK'
  BY <1>1, <1>2 DEF WP!TypeOK, ingestVars
<1>4. \A i \in Import : WP!Loaded(i)' <=> WP!Loaded(i)
  BY RefresherChanges DEF WP!Loaded
<1>5. WP!LoadInv'
  <2>1. WP!ReceiptIsDurable'
    BY <1>1 DEF WP!LoadInv, WP!ReceiptIsDurable, WP!KeysOf, WP!Batches, ingestVars
  <2>2. \A w \in Worker : (WP!Progress(w) /\ (ingestPc[w] = "idle" => cur[w] = 1))'
    BY <1>1 DEF WP!LoadInv, WP!Progress, WP!Present, WP!Batches, ingestVars
  <2> QED
    BY <1>1, <1>4, <2>1, <2>2 DEF WP!LoadInv, ingestVars
<1>6. WP!SoleInv'
  <2>1. ASSUME NEW w \in Worker, WP!Owns(w), ingestJob[w] \in Import PROVE WP!Owns(w)'
    BY <1>1, <2>1, RefresherChanges DEF WP!Owns, ingestVars
  <2>2. ASSUME NEW w \in Worker, ingestPc[w] = "cleanup" PROVE status'[ingestJob[w]] = "failed"
    BY <1>1, <2>2, RefresherChanges DEF WP!SoleInv, WP!TypeOK
  <2> QED
    BY <1>1, <2>1, <2>2 DEF WP!SoleInv, WP!TypeOK, WP!Working, ingestVars
<1> QED
  BY <1>3, <1>5, <1>6

LEMMA PipeInvStep ==
  ASSUME OneLoader PROVE PipeInv /\ [Next]_vars => PipeInv'
<1> SUFFICES ASSUME PipeInv, [Next]_vars PROVE PipeInv'
  OBVIOUS
<1>1. Turns'
  BY TurnsStep DEF PipeInv
<1>2. CASE LoaderStep
  BY <1>1, <1>2, LoaderKeepsIngestion, LoaderKeepsRefreshing DEF PipeInv
<1>3. CASE RefresherStep
  BY <1>1, <1>3, RefresherKeepsIngestion, RefresherKeepsRefreshing DEF PipeInv
<1>4. CASE UNCHANGED <<recordVars, ingestVars, postVars>>
  <2>1. WP!TypeOK' /\ WP!LoadInv' /\ WP!SoleInv'
    BY <1>4
    DEF PipeInv, recordVars, ingestVars, WP!TypeOK, WP!RecordTypeOK, WP!LoadInv,
       WP!ReceiptIsDurable, WP!KeysOf, WP!Batches, WP!Progress, WP!Present, WP!Loaded,
       WP!SoleInv, WP!Owns
  <2>2. P!TypeOK' /\ EndInv' /\ RefreshInv' /\ Coupled'
    BY <1>4
    DEF PipeInv, recordVars, postVars, P!TypeOK, P!RecordTypeOK, EndInv, AtEnd,
        RefreshInv, RowVouches, SoleOwner, AllFresh, Working, P!Owns,
        Progress, Coupled
  <2> QED
    BY <1>1, <2>1, <2>2 DEF PipeInv
<1> QED
  BY <1>2, <1>3, <1>4, NextSteps DEF PipeInv

LEMMA PipeInvCorrect ==
  ASSUME OneLoader PROVE Spec => []PipeInv
<1>1. PipeInv /\ [Next]_vars => PipeInv'
  BY PipeInvStep
<1> QED
  BY <1>1, PipeInvInit, PTL DEF Spec

(***************************************************************************)
(* With one process that takes imports in, a completed import has fresh    *)
(* statistics and a fresh geometry, whichever processes did the two stages *)
(* and however many died, unless a live one outlived its lease on it.      *)
(***************************************************************************)
THEOREM CompletedMeansRefreshed ==
  ASSUME OneLoader PROVE Spec => []CompletedIsRefreshed
<1>1. PipeInv => CompletedIsRefreshed
  BY DEF PipeInv, RefreshInv, RowVouches, AllFresh, CompletedIsRefreshed,
         P!CompletedIsRefreshed
<1> QED
  BY <1>1, PipeInvCorrect, PTL
(***************************************************************************)
(* The receipt of a chunk is written once: by the retry that finds it as   *)
(* little as by those that refresh the import.                             *)
(***************************************************************************)
THEOREM ReceiptsStay ==
  ASSUME OneLoader PROVE Spec => ReceiptImmutable
<1>1. ASSUME PipeInv, [Next]_vars, NEW i \in Import, NEW c \in processed[i]
      PROVE  c \in processed'[i] /\ chunk_inserted'[i][c] = chunk_inserted[i][c]
  <2>1. CASE LoaderStep
    BY <1>1, <2>1, WP!SoleStepKeepsReceipts, WPAssumptions
    DEF OneLoader, PipeInv, LoaderStep
  <2>2. CASE UNCHANGED ingestVars
    BY <1>1, <2>2 DEF ingestVars
  <2> QED
    BY <1>1, <2>1, <2>2, NextSteps DEF PipeInv, RefresherStep
<1>2. PipeInv /\ [Next]_vars =>
        [\A i \in Import : \A c \in processed[i] :
           c \in processed'[i] /\ chunk_inserted'[i][c] = chunk_inserted[i][c]]_(W!vars)
  BY <1>1
<1> QED
  BY <1>2, PipeInvCorrect, PTL DEF Spec, ReceiptImmutable, W!ReceiptImmutable

(***************************************************************************)
(* What is loaded is completed only by the process whose token the row     *)
(* carries, and the loader, whose writes are not conditional, takes        *)
(* nothing back.                                                           *)
(***************************************************************************)
THEOREM OwnersComplete ==
  ASSUME OneLoader PROVE Spec => ResultIsTheOwners
<1> DEFINE Kept(i) ==
      /\ status[i] = "completed" => status'[i] = "completed"
      /\ status[i] = "data_loaded" /\ status'[i] # status[i] =>
           /\ status'[i] = "completed"
           /\ \E w \in PostWorker : /\ postJob[w] = i /\ postPc[w] = "complete"
                                    /\ postHeld[w] = post_processing_token[i]
<1>1. ASSUME PipeInv, [Next]_vars, NEW i \in Import PROVE Kept(i)
  <2>1. CASE LoaderStep
    BY <1>1, <2>1, LoaderChanges
  <2>2. CASE RefresherStep
    BY <1>1, <2>2, OwnersResult, PAssumptions DEF PipeInv, RefresherStep
  <2>3. CASE UNCHANGED recordVars
    BY <2>3 DEF recordVars
  <2> QED
    BY <1>1, <2>1, <2>2, <2>3, NextSteps DEF PipeInv
<1>2. PipeInv /\ [Next]_vars => [\A i \in Import : Kept(i)]_(P!ppVars)
  BY <1>1
<1> QED
  BY <1>2, PipeInvCorrect, PTL DEF Spec, ResultIsTheOwners, P!ResultIsTheOwners

(***************************************************************************)
(* Once the durable stage is geometry nobody touches the statistics again, *)
(* unless a live process outlived its lease.                               *)
(***************************************************************************)
THEOREM StagesAreNotRepeated ==
  ASSUME OneLoader PROVE Spec => StatisticsNotRepeated
<1> DEFINE Kept(i) == post_processing_stage[i] = "geometry" =>
                        /\ statistics'[i] = statistics[i]
                        /\ post_processing_stage'[i] # "statistics"
<1>1. ASSUME PipeInv, [Next]_vars, NEW i \in Import \ overrun PROVE Kept(i)
  <2>1. CASE RefresherStep
    BY <1>1, <2>1, StageStep, PAssumptions DEF PipeInv, RefresherStep
  <2>2. CASE UNCHANGED postVars
    BY <2>2 DEF postVars
  <2> QED
    BY <1>1, <2>1, <2>2, NextSteps DEF PipeInv, LoaderStep
<1>2. PipeInv /\ [Next]_vars => [\A i \in Import \ overrun : Kept(i)]_(P!ppVars)
  BY <1>1
<1> QED
  BY <1>2, PipeInvCorrect, PTL DEF Spec, StatisticsNotRepeated, P!StatisticsNotRepeated
-----------------------------------------------------------------------------
(***************************************************************************)
(* The pipeline implements the promised life, step by step: what the       *)
(* lifecycle shows changes in flush_stage_batch, at the end of loading, at *)
(* the end of refreshing and when files are removed, and nowhere else.     *)
(***************************************************************************)
\* Phases of rows whose two statuses are kept, or change among loading ones.
SamePhases == \A i \in Import : PhaseOf(i)' = PhaseOf(i)

LEMMA Stutters ==
  ASSUME SamePhases, UNCHANGED <<measurement, files>>
  PROVE  UNCHANGED Lifecycle!vars
BY DEF SamePhases, Lifecycle!vars

LEMMA StatusesShow ==
  ASSUME UNCHANGED <<status, post_processing_status>> PROVE SamePhases
BY DEF SamePhases, PhaseOf

LEMMA LoadingSteps ==
  ASSUME OneLoader, PipeInv, PipeInv', UNCHANGED postVars,
         NEW w \in Worker, WP!WorkerStep(w) \/ WP!Crash(w)
  PROVE  [Lifecycle!Next]_(Lifecycle!vars)
<1> DEFINE i == ingestJob[w]
<1>t. /\ status \in [Import -> WP!Status] /\ measurement \in [Key -> WP!Inserter]
      /\ ingestPc[w] # "idle" => i \in Import
      /\ \A k \in Import : k # "absent"
  BY WPAssumptions DEF PipeInv, WP!TypeOK, WP!RecordTypeOK
<1>o. ingestPc[w] \in WP!Working => i \in Import /\ status[i] = "processing"
                                    /\ post_processing_status[i] = "pending"
  BY <1>t DEF PipeInv, WP!SoleInv, WP!Owns, WP!Working, Coupled
<1>p. UNCHANGED post_processing_status
  BY DEF postVars
<1>1. ASSUME NEW j \in Import, WP!claim_import(w, j) PROVE [Lifecycle!Next]_(Lifecycle!vars)
  <2>1. \A k \in Import : status'[k] = IF k = j THEN "processing" ELSE status[k]
    BY <1>1, <1>t DEF WP!claim_import
  <2>2. status[j] \in {"queued", "processing"}
    BY <1>1 DEF WP!claim_import, WP!Claimable
  <2>3. SamePhases
    BY <1>p, <2>1, <2>2 DEF SamePhases, PhaseOf
  <2> QED
    BY <1>1, <2>3, Stutters DEF WP!claim_import
<1>2. CASE WP!flush_stage_batch(w)
  <2> DEFINE seen == {k \in Key : measurement[k] # "absent"}
             keys == WP!Batches(i, cur[w])[batch[w]]
  <2>1. ingestPc[w] = "load" /\ i \in Import /\ status[i] = "processing" /\ cur[w] \in 1..NumChunks
    BY <1>2, <1>o DEF WP!flush_stage_batch, WP!Working, PipeInv, WP!TypeOK, WP!Chunk
  <2>2. PhaseOf(i) = "loading"
    BY <2>1 DEF PhaseOf
  <2>3. SamePhases /\ UNCHANGED files
    BY <1>2, <1>p, StatusesShow DEF WP!flush_stage_batch, WP!recordVars
  <2>4. \A k \in Key : measurement'[k] = IF k \in keys /\ measurement[k] = "absent"
                                         THEN i ELSE measurement[k]
    BY <1>2 DEF WP!flush_stage_batch
  <2>5. keys \subseteq W!KeysOf(i, cur[w])
    BY <1>2 DEF WP!flush_stage_batch, WP!Batches, W!KeysOf, W!Batches
  <2>6. keys \subseteq UNION {W!KeysOf(i, c) : c \in 1..NumChunks}
    BY <2>1, <2>5
  <2>7. seen \subseteq seen' /\ seen' \subseteq seen \union keys
    BY <2>4, <1>t, <2>1
  <2>8. PICK j \in Import : j = i
    BY <2>1
  <2>9. Lifecycle!Insert(j)
    BY <2>2, <2>3, <2>6, <2>7, <2>8 DEF Lifecycle!Insert, SamePhases
  <2> QED
    BY <2>9 DEF Lifecycle!Next
<1>3. CASE WP!MarkDataLoaded(w)
  <2>1. i \in Import /\ status[i] = "processing" /\ post_processing_status[i] = "pending"
    BY <1>3, <1>o DEF WP!MarkDataLoaded, WP!Working
  <2>2. /\ \A k \in Import : status'[k] = IF k = i THEN "data_loaded" ELSE status[k]
        /\ UNCHANGED <<files, measurement, processed>>
    BY <1>3, <1>t DEF WP!MarkDataLoaded, WP!receiptVars
  <2>3. /\ PhaseOf(i) = "loading"
        /\ \A k \in Import : PhaseOf(k)' = IF k = i THEN "loaded" ELSE PhaseOf(k)
    BY <2>1, <2>2, <1>p DEF PhaseOf
  <2>4. \A c \in 1..NumChunks : \A k \in W!KeysOf(i, c) : k \in Key /\ measurement[k] # "absent"
    <3>1. processed'[i] = WP!Chunk
      BY <2>1, <2>2 DEF PipeInv, WP!LoadInv, WP!Loaded
    <3>2. \A c \in WP!Chunk : \A k \in WP!KeysOf(i, c) : measurement[k] # "absent"
      BY <2>1, <2>2, <3>1 DEF PipeInv, WP!LoadInv, WP!ReceiptIsDurable
    <3>3. \A c \in WP!Chunk : WP!Batches(i, c) \in Seq(SUBSET Key)
      BY <2>1, WPAssumptions DEF WP!Batches
    <3> QED
      BY <3>2, <3>3 DEF WP!KeysOf, WP!Batches, W!KeysOf, W!Batches, WP!Chunk
  <2>5. Lifecycle!FinishLoading(i)
    BY <2>1, <2>2, <2>3, <2>4 DEF Lifecycle!FinishLoading
  <2> QED
    BY <2>1, <2>5 DEF Lifecycle!Next
<1>4. CASE WP!Requeue(w)
  <2>1. i \in Import /\ status[i] = "processing"
    BY <1>4, <1>o DEF WP!Requeue, WP!Working
  <2>2. /\ \A k \in Import : status'[k] = IF k = i THEN "queued" ELSE status[k]
        /\ UNCHANGED <<files, measurement>>
    BY <1>4, <1>t DEF WP!Requeue, WP!ReleaseAs
  <2>3. SamePhases
    BY <1>p, <2>1, <2>2 DEF SamePhases, PhaseOf
  <2> QED
    BY <2>2, <2>3, Stutters
<1>5. CASE WP!Terminate(w)
  <2>1. i \in Import /\ status[i] = "processing"
    BY <1>5, <1>o DEF WP!Terminate, WP!Working
  <2>2. /\ \A k \in Import : status'[k] = IF k = i THEN "failed" ELSE status[k]
        /\ UNCHANGED <<files, measurement>>
    BY <1>5, <1>t DEF WP!Terminate, WP!ReleaseAs
  <2>3. /\ PhaseOf(i) = "loading"
        /\ \A k \in Import : PhaseOf(k)' = IF k = i THEN "failed" ELSE PhaseOf(k)
    BY <2>1, <2>2, <1>p DEF PhaseOf
  <2>4. Lifecycle!FailLoading(i)
    BY <2>1, <2>2, <2>3 DEF Lifecycle!FailLoading
  <2> QED
    BY <2>1, <2>4 DEF Lifecycle!Next
<1>6. CASE WP!CleanupFailed(w)
  <2>1. i \in Import /\ status[i] = "failed" /\ PhaseOf(i) = "failed"
    BY <1>6, <1>t DEF WP!CleanupFailed, PipeInv, WP!SoleInv, PhaseOf
  <2>2. SamePhases /\ UNCHANGED measurement /\ files' \in {files, files \ {i}}
    BY <1>6, <1>p, StatusesShow DEF WP!CleanupFailed, WP!cleanup_import_storage
  <2>3. CASE files' = files
    BY <2>2, <2>3, Stutters
  <2>4. CASE files' = files \ {i}
    <3>1. Lifecycle!Discard(i)
      BY <2>1, <2>2, <2>4 DEF Lifecycle!Discard, Lifecycle!AtAnEnd, SamePhases
    <3> QED
      BY <2>1, <3>1 DEF Lifecycle!Next
  <2> QED
    BY <2>2, <2>3, <2>4
<1>7. ASSUME UNCHANGED <<status, files, measurement>> PROVE [Lifecycle!Next]_(Lifecycle!vars)
  BY <1>7, <1>p, StatusesShow, Stutters
<1> QED
  BY <1>1, <1>2, <1>3, <1>4, <1>5, <1>6, <1>7
  DEF WP!WorkerStep, WP!Crash, WP!LeaseLost, WP!SkipChunk, WP!OpenChunk, WP!heartbeat,
      WP!ReadCounters, WP!LastHeartbeat, WP!CommitChunk, WP!LoadError, WP!FailureIgnored,
      WP!ReadFailure, WP!recordVars
LEMMA RefreshingSteps ==
  ASSUME PipeInv, UNCHANGED ingestVars,
         NEW w \in PostWorker, P!WorkerStep(w) \/ P!Crash(w)
  PROVE  [Lifecycle!Next]_(Lifecycle!vars)
<1> DEFINE i == postJob[w]
<1>t. /\ status \in [Import -> P!Status]
      /\ post_processing_status \in [Import -> P!PPStatus]
      /\ post_processing_attempts \in [Import -> Nat]
      /\ postPc[w] # "idle" => i \in Import
  BY DEF PipeInv, P!TypeOK, P!RecordTypeOK
<1>m. UNCHANGED measurement
  BY DEF ingestVars
<1>1. ASSUME NEW j \in Import, P!claim_post_processing(w, j)
      PROVE  [Lifecycle!Next]_(Lifecycle!vars)
  <2>1. UNCHANGED <<status, files>>
    BY <1>1 DEF P!claim_post_processing, P!ClaimWith, P!recordVars
  <2>2. \A k \in Import : post_processing_status'[k] =
          IF k = j THEN "processing" ELSE post_processing_status[k]
    BY <1>1, <1>t DEF P!claim_post_processing, P!ClaimWith
  <2>3. status[j] = "data_loaded" /\ post_processing_status[j] # "failed"
    <3>1. post_processing_status[j] = "failed" =>
            post_processing_attempts[j] >= MaxAttempts /\ post_processing_attempts[j] < MaxAttempts
      BY <1>1 DEF P!claim_post_processing, P!ClaimWith, P!Claimable, PipeInv, EndInv
    <3> QED
      BY <1>1, <1>t, <3>1, PAssumptions
      DEF P!claim_post_processing, P!ClaimWith, P!Claimable
  <2>4. SamePhases
    BY <2>1, <2>2, <2>3 DEF SamePhases, PhaseOf
  <2> QED
    BY <1>m, <2>1, <2>4, Stutters
<1>2. CASE P!Complete(w)
  <2>1. PICK j \in Import : j = i
    BY <1>2, <1>t DEF P!Complete
  <2>2. /\ status[j] = "data_loaded" /\ post_processing_status[j] = "processing"
        /\ \A k \in Import : status'[k] = IF k = j THEN "completed" ELSE status[k]
        /\ \A k \in Import \ {j} : post_processing_status'[k] = post_processing_status[k]
        /\ UNCHANGED files
    BY <1>2, <1>t, <2>1 DEF P!Complete, P!Owns
  <2>3. /\ PhaseOf(j) = "loaded"
        /\ \A k \in Import : PhaseOf(k)' = IF k = j THEN "completed" ELSE PhaseOf(k)
    BY <2>2 DEF PhaseOf
  <2>4. Lifecycle!FinishRefreshing(j)
    BY <1>m, <2>2, <2>3 DEF Lifecycle!FinishRefreshing
  <2> QED
    BY <2>4 DEF Lifecycle!Next
<1>3. CASE P!mark_post_processing_failure(w)
  <2>1. PICK j \in Import : j = i
    BY <1>3, <1>t DEF P!mark_post_processing_failure
  <2>2. status[j] = "data_loaded" /\ post_processing_status[j] = "processing"
    BY <1>3, <2>1 DEF P!mark_post_processing_failure, P!Owns
  <2>3. /\ UNCHANGED <<status, files>>
        /\ \E s \in {"failed", "pending"} :
             post_processing_status' = [post_processing_status EXCEPT ![j] = s]
    BY <1>3, <2>1 DEF P!mark_post_processing_failure, P!recordVars
  <2>4. CASE post_processing_status' = [post_processing_status EXCEPT ![j] = "pending"]
    <3>1. \A k \in Import : post_processing_status'[k] =
            IF k = j THEN "pending" ELSE post_processing_status[k]
      BY <1>t, <2>4
    <3>2. SamePhases
      BY <2>2, <2>3, <3>1 DEF SamePhases, PhaseOf
    <3> QED
      BY <1>m, <2>3, <3>2, Stutters
  <2>5. CASE post_processing_status' = [post_processing_status EXCEPT ![j] = "failed"]
    <3>1. \A k \in Import : post_processing_status'[k] =
            IF k = j THEN "failed" ELSE post_processing_status[k]
      BY <1>t, <2>5
    <3>2. /\ PhaseOf(j) = "loaded"
          /\ \A k \in Import : PhaseOf(k)' = IF k = j THEN "abandoned" ELSE PhaseOf(k)
      BY <2>2, <2>3, <3>1 DEF PhaseOf
    <3>3. Lifecycle!FinishRefreshing(j)
      BY <1>m, <2>3, <3>2 DEF Lifecycle!FinishRefreshing
    <3> QED
      BY <3>3 DEF Lifecycle!Next
  <2> QED
    BY <2>3, <2>4, <2>5
<1>4. CASE P!Cleanup(w)
  <2>1. PICK j \in Import : j = i
    BY <1>4, <1>t DEF P!Cleanup
  <2>2. SamePhases /\ files' \in {files, files \ {j}}
    BY <1>4, <2>1, StatusesShow DEF P!Cleanup, P!cleanup_import_storage, P!ppRow
  <2>3. post_processing_status[j] \in {"completed", "failed"}
    BY <1>4, <2>1 DEF P!Cleanup, PipeInv, EndInv, AtEnd
  <2>4. \/ status[j] = "completed"
        \/ status[j] = "data_loaded" /\ post_processing_status[j] = "failed"
    BY <2>3 DEF PipeInv, Coupled, P!TypeOK
  <2>5. PhaseOf(j) \in {"completed", "abandoned"}
    BY <2>4 DEF PhaseOf
  <2>6. CASE files' = files
    BY <1>m, <2>2, <2>6, Stutters
  <2>7. CASE files' = files \ {j}
    <3>1. Lifecycle!Discard(j)
      BY <1>m, <2>2, <2>5, <2>7 DEF Lifecycle!Discard, Lifecycle!AtAnEnd, SamePhases
    <3> QED
      BY <3>1 DEF Lifecycle!Next
  <2> QED
    BY <2>2, <2>6, <2>7
<1>5. ASSUME UNCHANGED <<status, files, post_processing_status>>
      PROVE  [Lifecycle!Next]_(Lifecycle!vars)
  BY <1>5, <1>m, StatusesShow, Stutters
<1> QED
  BY <1>1, <1>2, <1>3, <1>4, <1>5
  DEF P!WorkerStep, P!WorkerAction, P!Crash, P!LeaseLost, P!StartStatistics,
      P!NextSensor, P!heartbeat_post_processing, P!delete_sensor_statistics,
      P!refresh_sensor_statistics, P!AdvanceStage, P!StartGeometry,
      P!refresh_geometry, P!StageError, P!FailureIgnored, P!recordVars, P!ppRow

LEMMA PipelineSteps ==
  ASSUME OneLoader, PipeInv, PipeInv', [Next]_vars
  PROVE  [Lifecycle!Next]_(Lifecycle!vars)
<1>1. ASSUME UNCHANGED <<status, files, post_processing_status, measurement>>
      PROVE  [Lifecycle!Next]_(Lifecycle!vars)
  BY <1>1, StatusesShow, Stutters
<1>2. CASE LoaderStep
  <2>1. ASSUME NEW i \in Import, WP!OrphanExpires(i) \/ WP!Stall(i), UNCHANGED postVars
        PROVE  [Lifecycle!Next]_(Lifecycle!vars)
    BY <1>1, <2>1 DEF WP!OrphanExpires, WP!Stall, WP!Expire, WP!recordVars, postVars
  <2> QED
    BY <1>2, <2>1, LoadingSteps DEF LoaderStep, WP!Next
<1>3. CASE RefresherStep
  <2>1. ASSUME NEW i \in Import, P!OrphanExpires(i) \/ P!Stall(i), UNCHANGED ingestVars
        PROVE  [Lifecycle!Next]_(Lifecycle!vars)
    BY <1>1, <2>1 DEF P!OrphanExpires, P!Stall, P!Expire, P!recordVars, ingestVars
  <2> QED
    BY <1>3, <2>1, RefreshingSteps DEF RefresherStep, P!Next
<1>4. CASE UNCHANGED <<recordVars, ingestVars, postVars>>
  BY <1>1, <1>4 DEF recordVars, ingestVars, postVars
<1> QED
  BY <1>2, <1>3, <1>4, NextSteps DEF PipeInv

LEMMA PipelineBegins == Init => Lifecycle!Init
<1> SUFFICES ASSUME Init PROVE Lifecycle!Init
  OBVIOUS
<1>1. (\A i \in Import : status[i] = "queued") /\ files = Import
  BY DEF Init, W!Init
<1>2. \A i \in Import : PhaseOf(i) = "loading"
  BY <1>1 DEF PhaseOf
<1> QED
  BY <1>1, <1>2 DEF Lifecycle!Init

(***************************************************************************)
(* With one process that takes imports in, the pipeline implements the     *)
(* safety of the promised life: only an import that is loading adds        *)
(* values, and only its own; loaded means all of them; no phase is left    *)
(* backwards; files go after the end. That loading ends is liveness, and   *)
(* is checked and not proved.                                              *)
(***************************************************************************)
THEOREM PipelineImplementsLife ==
  ASSUME OneLoader PROVE Spec => Lifecycle!Life
<1>1. PipeInv /\ PipeInv' /\ [Next]_vars => [Lifecycle!Next]_(Lifecycle!vars)
  BY PipelineSteps
<1> QED
  BY <1>1, PipelineBegins, PipeInvCorrect, PTL DEF Spec, Lifecycle!Life
=============================================================================
