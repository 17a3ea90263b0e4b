-------------------------- MODULE MeasurementProofs --------------------------
(***************************************************************************)
(* Theorems about the measurements of a sensor: how the requests of a      *)
(* synchronous session write them (UploadSession, for any number of        *)
(* requests, chunks and failures), the figures kept beside them            *)
(* (SensorStatistics, for any number of uploads, forced refreshes, purges  *)
(* and failures), and how they are read (MeasurementRead, for tables,      *)
(* limits, thresholds and writers of any size).                            *)
(***************************************************************************)
EXTENDS UploadSession, SensorStatistics, MeasurementRead, FiniteSetTheorems,
        WellFoundedInduction, TLAPS

USE DEF Goto, Reply

LEMMA TimesFacts == \A c \in Chunk : Times[c] \subseteq AllTimes
  BY DEF AllTimes

LEMMA LastChunk == 0 \in Chunk /\ total_chunks - 1 \in Chunk
  BY ChunkAssumption DEF Chunk

-----------------------------------------------------------------------------
(***************************************************************************)
(* Type correctness.                                                       *)
(***************************************************************************)
LEMMA TypeInit == Init => TypeOK
<1> SUFFICES ASSUME Init PROVE TypeOK
  OBVIOUS
<1>1. /\ pc \in [Request -> Running \union {"idle", "done"}]
      /\ \A r \in Request : pc[r] = "idle"
  BY DEF Init
<1>2. "idle" \notin Running /\ PostProcessing \subseteq Running
  BY DEF PostProcessing, Running
<1>3. /\ chunk \in [Request -> Chunk] /\ todo \in [Request -> SUBSET AllTimes]
      /\ count \in [Request -> Nat] /\ inserted \in [Request -> Nat \union {None}]
  BY LastChunk DEF Init
<1>4. sensors = {} /\ stored = {} /\ statistics = {} /\ geometry = {}
  BY DEF Init
<1> QED
  BY <1>1, <1>2, <1>3, <1>4, BoundAssumption DEF Init, TypeOK, Running

LEMMA TypeStep == TypeOK /\ [Next]_vars => TypeOK'
<1> SUFFICES ASSUME TypeOK, [Next]_vars PROVE TypeOK'
  OBVIOUS
<1> USE NoneAssumption, BoundAssumption, TimesFacts
    DEF TypeOK, receipts, data, locals, env, Running, PostProcessing, Answer
<1>1. ASSUME NEW r \in Request, NEW c \in Chunk, NEW m \in Mode, Arrive(r, c, m)
      PROVE  TypeOK'
  BY <1>1 DEF Arrive
<1>2. ASSUME NEW r \in Request, create_upload_event(r) PROVE TypeOK'
  BY <1>2 DEF create_upload_event
<1>3. ASSUME NEW r \in Request, LookUpSensor(r) PROVE TypeOK'
  BY <1>3 DEF LookUpSensor
<1>4. ASSUME NEW r \in Request, create_sensors(r) PROVE TypeOK'
  BY <1>4 DEF create_sensors
<1>5. ASSUME NEW r \in Request, NEW t \in AllTimes, process_batch(r, t) PROVE TypeOK'
  BY <1>5 DEF process_batch, Inserts
<1>6. ASSUME NEW r \in Request, Receipt(r) PROVE TypeOK'
  <2>1. count[r] \in Nat /\ inserted' = [inserted EXCEPT ![r] = count[r]]
    BY <1>6 DEF Receipt
  <2> QED
    BY <1>6, <2>1 DEF Receipt
<1>7. ASSUME NEW r \in Request, Find(r) PROVE TypeOK'
  BY <1>7 DEF Find
<1>8. ASSUME NEW r \in Request, Verify(r) PROVE TypeOK'
  BY <1>8 DEF Verify
<1>9. ASSUME NEW r \in Request, delete_sensor_statistics(r) PROVE TypeOK'
  BY <1>9 DEF delete_sensor_statistics, Of
<1>10. ASSUME NEW r \in Request, refresh_sensor_statistics(r) PROVE TypeOK'
  BY <1>10 DEF refresh_sensor_statistics, Of
<1>11. ASSUME NEW r \in Request, refresh_geometry(r) PROVE TypeOK'
  BY <1>11 DEF refresh_geometry
<1>12. ASSUME NEW r \in Request, Finalize(r) PROVE TypeOK'
  BY <1>12 DEF Finalize
<1>13. ASSUME NEW r \in Request, Fail(r) PROVE TypeOK'
  BY <1>13 DEF Fail
<1>14. CASE UNCHANGED vars
  BY <1>14 DEF vars
<1> QED
  BY <1>1, <1>2, <1>3, <1>4, <1>5, <1>6, <1>7, <1>8, <1>9, <1>10, <1>11, <1>12,
     <1>13, <1>14 DEF Next, Handle

\* Every variable keeps its type, and a request post-processes only when its
\* own receipt is committed.
THEOREM TypeCorrect == Spec => []TypeOK
  BY TypeInit, TypeStep, PTL DEF Spec

-----------------------------------------------------------------------------
(***************************************************************************)
(* Completeness. A receipt with counts stands for a chunk whose values are *)
(* all stored, a loading request has stored what it has no longer to do,   *)
(* and post-processing begins only when all is stored.                     *)
(***************************************************************************)
Kept(t) == \E s \in sensors : <<s, t>> \in stored
AllKept == \A t \in AllTimes : Kept(t)

Complete ==
  /\ \A r \in Request :
       /\ pc[r] = "idle" => inserted[r] = None
       /\ pc[r] \in {"event", "sensors", "new_sensor"} => todo[r] = Times[chunk[r]]
       /\ pc[r] = "load" => \A t \in Times[chunk[r]] \ todo[r] : Kept(t)
       /\ inserted[r] # None => \A t \in Times[chunk[r]] : Kept(t)
       /\ pc[r] \in PostProcessing => AllKept
  /\ finalized # {} => AllKept

LEMMA CompleteInit == Init => Complete
  BY DEF Init, Complete, PostProcessing

\* Nothing that is stored, and no sensor, is ever removed.
LEMMA KeptStays ==
  ASSUME sensors \subseteq sensors', stored \subseteq stored'
  PROVE  /\ \A t : Kept(t) => Kept(t)'
         /\ AllKept => AllKept'
  BY DEF Kept, AllKept

LEMMA CompleteStep == TypeOK /\ TypeOK' /\ Complete /\ [Next]_vars => Complete'
<1> SUFFICES ASSUME TypeOK, TypeOK', Complete, [Next]_vars PROVE Complete'
  OBVIOUS
<1> USE NoneAssumption, TimesFacts
    DEF TypeOK, receipts, data, locals, env, Running, PostProcessing, Complete
<1>0. ASSUME UNCHANGED <<sensors, stored>>
      PROVE  (\A t : Kept(t)' <=> Kept(t)) /\ (AllKept' <=> AllKept)
  BY <1>0 DEF Kept, AllKept
<1>1. ASSUME NEW r \in Request, NEW c \in Chunk, NEW m \in Mode, Arrive(r, c, m)
      PROVE  Complete'
  BY <1>0, <1>1 DEF Arrive
<1>2. ASSUME NEW r \in Request, create_upload_event(r) PROVE Complete'
  BY <1>0, <1>2 DEF create_upload_event
<1>3. ASSUME NEW r \in Request, LookUpSensor(r) PROVE Complete'
  BY <1>0, <1>3 DEF LookUpSensor
<1>4. ASSUME NEW r \in Request, create_sensors(r) PROVE Complete'
  <2>1. (\A t : Kept(t) => Kept(t)') /\ (AllKept => AllKept')
    BY <1>4, KeptStays DEF create_sensors
  <2> QED
    BY <1>4, <2>1 DEF create_sensors
<1>5. ASSUME NEW r \in Request, NEW t \in AllTimes, process_batch(r, t) PROVE Complete'
  <2>1. (\A u : Kept(u) => Kept(u)') /\ (AllKept => AllKept')
    BY <1>5, KeptStays DEF process_batch
  <2>2. Kept(t)'
    BY <1>5 DEF process_batch, Kept
  <2> QED
    BY <1>5, <2>1, <2>2 DEF process_batch
<1>6. ASSUME NEW r \in Request, Receipt(r) PROVE Complete'
  BY <1>0, <1>6 DEF Receipt
<1>7. ASSUME NEW r \in Request, Find(r) PROVE Complete'
  BY <1>0, <1>7 DEF Find
<1>8. ASSUME NEW r \in Request, Verify(r) PROVE Complete'
  <2>1. CASE Chunk \subseteq successful_receipt_chunk_indexes
    <3>1. ASSUME NEW c \in Chunk, NEW t \in Times[c] PROVE Kept(t)
      BY <2>1, <3>1 DEF successful_receipt_chunk_indexes
    <3>2. AllKept
      BY <3>1 DEF AllKept, AllTimes
    <3> QED
      BY <1>0, <1>8, <3>2 DEF Verify
  <2>2. CASE ~ (Chunk \subseteq successful_receipt_chunk_indexes)
    BY <1>0, <1>8, <2>2 DEF Verify
  <2> QED
    BY <2>1, <2>2
<1>9. ASSUME NEW r \in Request, delete_sensor_statistics(r) PROVE Complete'
  BY <1>0, <1>9 DEF delete_sensor_statistics
<1>10. ASSUME NEW r \in Request, refresh_sensor_statistics(r) PROVE Complete'
  BY <1>0, <1>10 DEF refresh_sensor_statistics
<1>11. ASSUME NEW r \in Request, refresh_geometry(r) PROVE Complete'
  BY <1>0, <1>11 DEF refresh_geometry
<1>12. ASSUME NEW r \in Request, Finalize(r) PROVE Complete'
  BY <1>0, <1>12 DEF Finalize
<1>13. ASSUME NEW r \in Request, Fail(r) PROVE Complete'
  BY <1>0, <1>13 DEF Fail
<1>14. CASE UNCHANGED vars
  BY <1>0, <1>14 DEF vars
<1> QED
  BY <1>1, <1>2, <1>3, <1>4, <1>5, <1>6, <1>7, <1>8, <1>9, <1>10, <1>11, <1>12,
     <1>13, <1>14 DEF Next, Handle

\* However requests overlap and fail, every value of every chunk of a finalized
\* session is stored.
THEOREM FinalizedSessionsAreComplete == Spec => []FinalizedIsComplete
<1>1. TypeOK /\ Complete => FinalizedIsComplete
  BY DEF Complete, FinalizedIsComplete, AllKept, Kept
<1>2. Spec => [](TypeOK /\ Complete)
  <2>1. Init => TypeOK /\ Complete
    BY TypeInit, CompleteInit
  <2>2. TypeOK /\ Complete /\ [Next]_vars => (TypeOK /\ Complete)'
    BY TypeStep, CompleteStep
  <2> QED
    BY <2>1, <2>2, PTL DEF Spec
<1> QED
  BY <1>1, <1>2, PTL

-----------------------------------------------------------------------------
(***************************************************************************)
(* A sequential client. One request runs at a time, so what it has read is *)
(* still so when it acts on it.                                            *)
(***************************************************************************)
Sequential ==
  sequential =>
    /\ \A q, r \in Request : pc[q] \in Running /\ pc[r] \in Running => q = r
    /\ OneMode /\ OneSensor
    /\ \A q, r \in finalized : q = r
    /\ \A r \in Request :
         /\ pc[r] = "event" => session_ingestion_modes \subseteq {wanted[r]}
         /\ pc[r] = "new_sensor" => sensors = {}
         /\ pc[r] \in {"verify"} \union PostProcessing => finalized = {}
         /\ answer[r] = "completed" => r \in finalized

LEMMA SequentialInit == Init => Sequential
<1> SUFFICES ASSUME Init PROVE Sequential
  OBVIOUS
<1>1. session_ingestion_modes = {} /\ sensors = {} /\ finalized = {}
  BY DEF Init, session_ingestion_modes
<1>2. \A r \in Request : pc[r] = "idle" /\ answer[r] = None
  BY DEF Init
<1> QED
  BY <1>1, <1>2, NoneAssumption DEF Sequential, Running, OneMode, OneSensor, PostProcessing,
     Answer

LEMMA SequentialStep == TypeOK /\ TypeOK' /\ Sequential /\ [Next]_vars => Sequential'
<1> SUFFICES ASSUME TypeOK, TypeOK', Sequential, [Next]_vars, sequential'
             PROVE  Sequential'
  BY DEF Sequential
<1> USE NoneAssumption
    DEF TypeOK, receipts, data, locals, env, Running, PostProcessing, Sequential,
        OneMode, OneSensor
<1>0. ASSUME mode' = mode PROVE session_ingestion_modes' = session_ingestion_modes
  BY <1>0 DEF session_ingestion_modes
<1>1. ASSUME NEW r \in Request, NEW c \in Chunk, NEW m \in Mode, Arrive(r, c, m)
      PROVE  Sequential'
  BY <1>0, <1>1 DEF Arrive
<1>2. ASSUME NEW r \in Request, create_upload_event(r) PROVE Sequential'
  <2>1. session_ingestion_modes' \subseteq {wanted[r]}
    BY <1>2 DEF create_upload_event, session_ingestion_modes
  <2> QED
    BY <1>2, <2>1 DEF create_upload_event
<1>3. ASSUME NEW r \in Request, LookUpSensor(r) PROVE Sequential'
  BY <1>0, <1>3 DEF LookUpSensor
<1>4. ASSUME NEW r \in Request, create_sensors(r) PROVE Sequential'
  BY <1>0, <1>4 DEF create_sensors
<1>5. ASSUME NEW r \in Request, NEW t \in AllTimes, process_batch(r, t) PROVE Sequential'
  BY <1>0, <1>5 DEF process_batch
<1>6. ASSUME NEW r \in Request, Receipt(r) PROVE Sequential'
  BY <1>0, <1>6 DEF Receipt
<1>7. ASSUME NEW r \in Request, Find(r) PROVE Sequential'
  BY <1>0, <1>7 DEF Find, find_finalized_receipt
<1>8. ASSUME NEW r \in Request, Verify(r) PROVE Sequential'
  BY <1>0, <1>8 DEF Verify
<1>9. ASSUME NEW r \in Request, delete_sensor_statistics(r) PROVE Sequential'
  BY <1>0, <1>9 DEF delete_sensor_statistics
<1>10. ASSUME NEW r \in Request, refresh_sensor_statistics(r) PROVE Sequential'
  BY <1>0, <1>10 DEF refresh_sensor_statistics
<1>11. ASSUME NEW r \in Request, refresh_geometry(r) PROVE Sequential'
  BY <1>0, <1>11 DEF refresh_geometry
<1>12. ASSUME NEW r \in Request, Finalize(r) PROVE Sequential'
  BY <1>0, <1>12 DEF Finalize
<1>13. ASSUME NEW r \in Request, Fail(r) PROVE Sequential'
  BY <1>0, <1>13 DEF Fail
<1>14. CASE UNCHANGED vars
  BY <1>0, <1>14 DEF vars
<1> QED
  BY <1>1, <1>2, <1>3, <1>4, <1>5, <1>6, <1>7, <1>8, <1>9, <1>10, <1>11, <1>12,
     <1>13, <1>14 DEF Next, Handle

\* A client that waits for each answer gets one mode, one sensor for the alias
\* and one post-processing, whatever it retries.
THEOREM SequentialSessionsAreClean == Spec => []SequentialSession
<1>1. TypeOK /\ Sequential => SequentialSession
  BY DEF TypeOK, Sequential, SequentialSession, RunsOnce, PostProcessed, Running,
         PostProcessing
<1>2. Spec => [](TypeOK /\ Sequential)
  <2>1. Init => TypeOK /\ Sequential
    BY TypeInit, SequentialInit
  <2>2. TypeOK /\ Sequential /\ [Next]_vars => (TypeOK /\ Sequential)'
    BY TypeStep, SequentialStep
  <2> QED
    BY <2>1, <2>2, PTL DEF Spec
<1> QED
  BY <1>1, <1>2, PTL
-----------------------------------------------------------------------------
(***************************************************************************)
(* What a finalized session has derived. As long as there is one sensor, a *)
(* complete session stores nothing more, every deletion of the statistics  *)
(* is followed by a refresh of the same request, unless that request fails,*)
(* and a failure of a sequential client comes before any finalization.     *)
(***************************************************************************)
Tidy == OneSensor /\ (sequential \/ faults = 0)

Located ==
  \A r \in Request :
    pc[r] \in {"load", "find", "verify"} \union PostProcessing => sensor[r] \in sensors

Covered ==
  finalized # {} \/ (\E r \in Request : pc[r] \in {"geometry", "finalize"}) =>
    statistics = stored \/ \E r \in Request : pc[r] = "refresh"

Measured ==
  finalized # {} \/ (\E r \in Request : pc[r] = "finalize") => geometry = stored

Derived == Located /\ (Tidy => Covered /\ Measured)

LEMMA LocatedStep == TypeOK /\ Located /\ [Next]_vars => Located'
<1> SUFFICES ASSUME TypeOK, Located, [Next]_vars PROVE Located'
  OBVIOUS
<1> USE DEF TypeOK, receipts, data, locals, env, PostProcessing, Located
<1>1. ASSUME NEW r \in Request, NEW c \in Chunk, NEW m \in Mode, Arrive(r, c, m)
      PROVE  Located'
  BY <1>1 DEF Arrive
<1>2. ASSUME NEW r \in Request, LookUpSensor(r) \/ create_sensors(r) PROVE Located'
  BY <1>2 DEF LookUpSensor, create_sensors
<1>3. ASSUME NEW r \in Request, Receipt(r) \/ Find(r) \/ Verify(r) PROVE Located'
  BY <1>3 DEF Receipt, Find, Verify
<1>4. ASSUME NEW r \in Request, Handle(r),
             ~ (LookUpSensor(r) \/ create_sensors(r) \/ Receipt(r) \/ Find(r) \/ Verify(r))
      PROVE  Located'
  BY ZenonT(60), <1>4 DEF Handle, create_upload_event, process_batch, delete_sensor_statistics,
     refresh_sensor_statistics, refresh_geometry, Finalize, Fail
<1>5. CASE UNCHANGED vars
  BY <1>5 DEF vars
<1> QED
  BY <1>1, <1>2, <1>3, <1>4, <1>5 DEF Next

\* No step undoes a failure or removes a second sensor.
LEMMA TidyBefore == TypeOK /\ [Next]_vars /\ Tidy' => Tidy
<1> SUFFICES ASSUME TypeOK, [Next]_vars, Tidy' PROVE Tidy
  OBVIOUS
<1> DEFINE Onward == /\ sensors \subseteq sensors' /\ sequential' = sequential
                     /\ faults' = 0 => faults = 0
<1> USE DEF receipts, data, locals, env, TypeOK
<1>1. ASSUME NEW r \in Request, NEW c \in Chunk, NEW m \in Mode, Arrive(r, c, m)
      PROVE  Onward
  BY <1>1 DEF Arrive
<1>2. ASSUME NEW r \in Request, Fail(r) PROVE Onward
  BY <1>2 DEF Fail
<1>3. ASSUME NEW r \in Request, Handle(r), ~Fail(r) PROVE Onward
  BY <1>3 DEF Handle, create_upload_event, LookUpSensor, create_sensors, process_batch,
     Receipt, Find, Verify, delete_sensor_statistics, refresh_sensor_statistics,
     refresh_geometry, Finalize
<1>4. ASSUME UNCHANGED vars PROVE Onward
  BY <1>4 DEF vars
<1>5. Onward
  BY <1>1, <1>2, <1>3, <1>4 DEF Next
<1> QED
  BY <1>5 DEF Tidy, OneSensor

\* A complete session of one sensor has stored all that it ever will.
LEMMA StoredIsFull ==
  ASSUME TypeOK, AllKept, OneSensor, NEW s \in sensors
  PROVE  stored = {s} \X AllTimes /\ Of(s) = stored
<1>1. \A t \in AllTimes : <<s, t>> \in stored
  BY DEF AllKept, Kept, OneSensor
<1>2. stored \subseteq {s} \X AllTimes
  BY DEF TypeOK, OneSensor
<1> QED
  BY <1>1, <1>2 DEF Of

LEMMA DerivedStep ==
  TypeOK /\ TypeOK' /\ Complete /\ Sequential /\ Derived /\ [Next]_vars => Derived'
<1> SUFFICES ASSUME TypeOK, TypeOK', Complete, Sequential, Derived, [Next]_vars,
                    Tidy, Tidy'
             PROVE  Covered' /\ Measured'
  BY LocatedStep, TidyBefore DEF Derived
<1> USE DEF receipts, data, locals, env, Covered, Measured
<1>1. Located /\ Covered /\ Measured /\ OneSensor /\ OneSensor'
  BY DEF Derived, Tidy
<1>2. pc \in [Request -> Running \union {"idle", "done"}]
  BY DEF TypeOK
<1>3. finalized # {} \/ (\E r \in Request : pc[r] \in PostProcessing) =>
        /\ AllKept
        /\ \A s \in sensors : stored = {s} \X AllTimes /\ Of(s) = stored
  BY <1>1, StoredIsFull DEF Complete
<1>4. ASSUME NEW r \in Request, pc[r] \in PostProcessing
      PROVE  sensor[r] \in sensors /\ Of(sensor[r]) = stored
  BY <1>1, <1>3, <1>4 DEF Located
<1> USE DEF PostProcessing
<1>5. ASSUME NEW r \in Request, NEW c \in Chunk, NEW m \in Mode, Arrive(r, c, m)
      PROVE  Covered' /\ Measured'
  BY <1>1, <1>2, <1>5 DEF Arrive
<1>6. ASSUME NEW r \in Request,
             create_upload_event(r) \/ LookUpSensor(r) \/ create_sensors(r)
               \/ Receipt(r) \/ Find(r) \/ Verify(r)
      PROVE  Covered' /\ Measured'
  BY <1>1, <1>2, <1>6 DEF create_upload_event, LookUpSensor, create_sensors, Receipt,
     Find, Verify
<1>7. ASSUME NEW r \in Request, NEW t \in AllTimes, process_batch(r, t)
      PROVE  Covered' /\ Measured'
  <2>1. sensor[r] \in sensors
    BY <1>1, <1>7 DEF process_batch, Located
  <2>2. finalized # {} \/ (\E q \in Request : pc[q] \in PostProcessing)
          => stored' = stored
    BY <1>3, <1>7, <2>1 DEF process_batch
  <2> QED
    BY <1>1, <1>7, <2>2 DEF process_batch
<1>8. ASSUME NEW r \in Request, delete_sensor_statistics(r)
      PROVE  Covered' /\ Measured'
  BY <1>1, <1>2, <1>8 DEF delete_sensor_statistics
<1>9. ASSUME NEW r \in Request, refresh_sensor_statistics(r)
      PROVE  Covered' /\ Measured'
  <2>1. statistics' = stored
    BY <1>4, <1>9 DEF refresh_sensor_statistics, TypeOK
  <2> QED
    BY <1>1, <1>2, <1>9, <2>1 DEF refresh_sensor_statistics
<1>10. ASSUME NEW r \in Request, refresh_geometry(r) PROVE Covered' /\ Measured'
  BY <1>1, <1>2, <1>10 DEF refresh_geometry
<1>11. ASSUME NEW r \in Request, Finalize(r) PROVE Covered' /\ Measured'
  BY <1>1, <1>2, <1>11 DEF Finalize
<1>12. ASSUME NEW r \in Request, Fail(r) PROVE Covered' /\ Measured'
  \* A client that does not wait has no failures, and one that does has no
  \* finalized session to post-process again.
  <2>1. faults' # 0 /\ sequential' = sequential
    BY <1>12 DEF Fail, TypeOK
  <2>2. sequential
    BY <2>1 DEF Tidy
  <2>3. pc[r] = "refresh" => finalized = {}
    BY <2>2 DEF Sequential
  <2>4. \A q \in Request : pc[q] \in Running => q = r
    BY <1>12, <2>2 DEF Sequential, Fail
  <2> QED
    BY <1>1, <1>2, <1>12, <2>3, <2>4 DEF Fail, Running
<1>13. CASE UNCHANGED vars
  BY <1>1, <1>13 DEF vars
<1> QED
  BY <1>5, <1>6, <1>7, <1>8, <1>9, <1>10, <1>11, <1>12, <1>13 DEF Next, Handle

\* Whatever requests overlap, a finalized session that nobody post-processes has
\* derived its statistics and its geometry from all that it has stored, unless it
\* has two sensors or a request of a client that does not wait has failed.
THEOREM FinalizedSessionsAreRefreshed == Spec => []FinalizedIsRefreshed
<1> DEFINE Inv == TypeOK /\ Complete /\ Sequential /\ Derived
<1>1. Init => Inv
  <2>1. Init => Derived
    BY DEF Init, Derived, Located, Covered, Measured, PostProcessing
  <2> QED
    BY <2>1, TypeInit, CompleteInit, SequentialInit
<1>2. Inv /\ [Next]_vars => Inv'
  BY TypeStep, CompleteStep, SequentialStep, DerivedStep
<1>3. Inv => FinalizedIsRefreshed
  BY DEF Derived, Tidy, Covered, Measured, FinalizedIsRefreshed, PostProcessing
<1> QED
  BY <1>1, <1>2, <1>3, PTL DEF Spec

-----------------------------------------------------------------------------
(***************************************************************************)
(* SensorStatistics. What a row can be.                                    *)
(***************************************************************************)
USE DEF At, Proceed

LEMMA RowFacts ==
  /\ Absent \in Row /\ Outdated \in Row
  /\ \A S \in SUBSET Upload : Updated(S) \in Row
  /\ Absent # Outdated
  /\ \A S : /\ Updated(S) # Absent /\ Updated(S) # Outdated
            /\ Updated(S).covers = S /\ Updated(S).state = "updated"
  /\ Absent.covers = {} /\ Outdated.covers = {}
  /\ \A r \in Row : \/ r = Absent \/ r = Outdated
                    \/ r.state = "updated" /\ r = Updated(r.covers)
  /\ Absent.state = "absent" /\ Outdated.state = "outdated"
<1>1. /\ \A S \in SUBSET Upload : Updated(S) \in Row
      /\ \A r \in Row : r \in {Absent, Outdated} \/ \E S \in SUBSET Upload : r = Updated(S)
  BY DEF Row
<1>2. /\ Absent.state = "absent" /\ Outdated.state = "outdated"
      /\ Absent.covers = {} /\ Outdated.covers = {}
      /\ \A S : Updated(S).covers = S /\ Updated(S).state = "updated"
  BY DEF Absent, Outdated, Updated
<1>3. Absent # Outdated /\ \A S : Updated(S) # Absent /\ Updated(S) # Outdated
  BY <1>2
<1>4. Absent \in Row /\ Outdated \in Row
  BY DEF Row
<1> QED
  BY <1>1, <1>2, <1>3, <1>4

-----------------------------------------------------------------------------
(***************************************************************************)
(* Type correctness.                                                       *)
(***************************************************************************)
LEMMA StatisticsTypeInit == StatisticsInit => StatisticsTypes
<1> SUFFICES ASSUME StatisticsInit PROVE StatisticsTypes
  OBVIOUS
<1>1. stage \in [Writer -> PC]
  BY DEF StatisticsInit, PC
<1>2. row \in Row /\ pending \in Row
  BY RowFacts DEF StatisticsInit
<1> QED
  BY <1>1, <1>2 DEF StatisticsInit, StatisticsTypes

LEMMA StatisticsTypeStep == StatisticsTypes /\ [StatisticsNext]_statisticsVars => StatisticsTypes'
<1> SUFFICES ASSUME StatisticsTypes, [StatisticsNext]_statisticsVars PROVE StatisticsTypes'
  OBVIOUS
<1> USE WriterAssumption, FailureAssumption, RowFacts DEF StatisticsTypes, PC, Started
<1>1. ASSUME NEW u \in Upload, Load(u) PROVE StatisticsTypes'
  BY <1>1 DEF Load, Writer
<1>2. ASSUME NEW w \in Writer, DeleteStatistics(w) PROVE StatisticsTypes'
  BY <1>2 DEF DeleteStatistics, Alone
<1>3. ASSUME NEW w \in Writer, Seed(w) PROVE StatisticsTypes'
  BY <1>3 DEF Seed
<1>4. ASSUME NEW w \in Writer, Update(w) PROVE StatisticsTypes'
  BY <1>4 DEF Update, Fill
<1>5. ASSUME NEW w \in Writer, Commit(w) PROVE StatisticsTypes'
  BY <1>5 DEF Commit, Release
<1>6. ASSUME NEW w \in Writer, DeleteMeasurements(w) PROVE StatisticsTypes'
  BY <1>6 DEF DeleteMeasurements
<1>7. ASSUME NEW w \in Writer, RollBack(w) PROVE StatisticsTypes'
  BY <1>7 DEF RollBack, Release
<1>8. CASE UNCHANGED statisticsVars
  BY <1>8 DEF statisticsVars
<1> QED
  BY <1>1, <1>2, <1>3, <1>4, <1>5, <1>6, <1>7, <1>8 DEF StatisticsNext, Transact

\* Every variable keeps its type, and only a writer between its seed and its
\* commit holds an uncommitted version of the row.
THEOREM StatisticsTypesHold == StatisticsSpec => []StatisticsTypes
  BY StatisticsTypeInit, StatisticsTypeStep, PTL DEF StatisticsSpec

-----------------------------------------------------------------------------
(***************************************************************************)
(* A refresh that runs alone. While nothing disturbs it the row is absent  *)
(* to all but the one writer that is at work, and the uploads its figures  *)
(* lack are late: loaded, but with their own refresh to come.              *)
(***************************************************************************)
Late(S) == \A u \in loaded : u \in S \/ stage[u] = "delete"

\* A figure on its way: complete but for the late uploads.
Sound(r) == r.covers \subseteq loaded /\ Late(r.covers)

Working(w) ==
  /\ row = Absent
  /\ holder \in {Nobody, w}
  /\ stage[w] \in {"seed", "purge"} => holder = Nobody
  /\ stage[w] \in {"update", "commit"} /\ holder = Nobody => Late({})
  /\ stage[w] = "update" /\ holder = w => pending = Outdated
  /\ stage[w] = "commit" /\ holder = w => Sound(pending)

Undisturbed ==
  ~disturbed =>
    /\ \A v, w \in Writer : stage[v] \in Started /\ stage[w] \in Started => v = w
    /\ \A w \in Writer : stage[w] \in Started => Working(w)
    /\ Quiet => Sound(row)

LEMMA UndisturbedInit == StatisticsInit => Undisturbed
  BY RowFacts DEF StatisticsInit, Undisturbed, Quiet, Sound, Late, Started

LEMMA UndisturbedStep ==
  StatisticsTypes /\ StatisticsTypes' /\ Undisturbed /\ [StatisticsNext]_statisticsVars => Undisturbed'
<1> SUFFICES ASSUME StatisticsTypes, StatisticsTypes', Undisturbed, [StatisticsNext]_statisticsVars, ~disturbed'
             PROVE  Undisturbed'
  BY DEF Undisturbed
<1> USE WriterAssumption, RowFacts DEF StatisticsTypes, PC, Started, Working, Sound, Late, Quiet, Undisturbed
<1>1. ASSUME NEW u \in Upload, Load(u) PROVE Undisturbed'
  BY <1>1 DEF Load, Writer
<1>2. ASSUME NEW w \in Writer, DeleteStatistics(w) PROVE Undisturbed'
  <2>1. /\ \A v \in Writer \ {w} : stage[v] \notin Started
        /\ holder = Nobody
    BY <1>2 DEF DeleteStatistics, Alone
  <2>2. /\ row' = Absent /\ holder' = Nobody
        /\ stage'[w] \in {"seed", "purge"}
        /\ \A v \in Writer \ {w} : stage'[v] \notin Started
    BY <1>2, <2>1 DEF DeleteStatistics
  <2> QED
    BY <2>2
<1>3. ASSUME NEW w \in Writer, Seed(w) PROVE Undisturbed'
  BY <1>3 DEF Seed, Seeds
<1>4. ASSUME NEW w \in Writer, Update(w) PROVE Undisturbed'
  BY <1>4 DEF Update, Fill
<1>5. ASSUME NEW w \in Writer, Commit(w) PROVE Undisturbed'
  BY <1>5 DEF Commit, Release
<1>6. ASSUME NEW w \in Writer, DeleteMeasurements(w) PROVE Undisturbed'
  BY <1>6 DEF DeleteMeasurements
<1>7. ASSUME NEW w \in Writer, RollBack(w) PROVE Undisturbed'
  BY <1>7 DEF RollBack
<1>8. CASE UNCHANGED statisticsVars
  BY <1>8 DEF statisticsVars
<1> QED
  BY <1>1, <1>2, <1>3, <1>4, <1>5, <1>6, <1>7, <1>8 DEF StatisticsNext, Transact

\* A refresh that began alone and ran to its end leaves the figures of all the
\* measurements, whatever happened before it.
THEOREM LoneRefreshRepairs == StatisticsSpec => []UndisturbedIsFresh
<1>1. StatisticsTypes /\ Undisturbed => UndisturbedIsFresh
  BY RowFacts DEF StatisticsTypes, Undisturbed, UndisturbedIsFresh, Sound, Late, Refreshed, Fresh
<1>2. StatisticsSpec => [](StatisticsTypes /\ Undisturbed)
  <2>1. StatisticsInit => StatisticsTypes /\ Undisturbed
    BY StatisticsTypeInit, UndisturbedInit
  <2>2. StatisticsTypes /\ Undisturbed /\ [StatisticsNext]_statisticsVars => (StatisticsTypes /\ Undisturbed)'
    BY StatisticsTypeStep, UndisturbedStep
  <2> QED
    BY <2>1, <2>2, PTL DEF StatisticsSpec
<1> QED
  BY <1>1, <1>2, PTL

-----------------------------------------------------------------------------
(***************************************************************************)
(* Interleaved refreshes. While there are measurements and no figures, in  *)
(* the row or on their way, some writer still has to provide them.         *)
(***************************************************************************)
Responsible(w) ==
  \/ stage[w] \in {"load", "delete", "failed", "seed", "purge"}
  \/ stage[w] = "update" /\ (holder = w \/ row = Outdated)

Provided ==
  /\ holder # Nobody /\ pending = Outdated => row = Absent
  /\ \/ loaded = {}
     \/ row.state = "updated"
     \/ holder # Nobody /\ pending.state = "updated"
     \/ \E w \in Writer : Responsible(w)

LEMMA ProvidedInit == StatisticsInit => Provided
  BY DEF StatisticsInit, Provided

LEMMA ProvidedStep == StatisticsTypes /\ StatisticsTypes' /\ Provided /\ [StatisticsNext]_statisticsVars => Provided'
<1> SUFFICES ASSUME StatisticsTypes, StatisticsTypes', Provided, [StatisticsNext]_statisticsVars PROVE Provided'
  OBVIOUS
<1> USE WriterAssumption, RowFacts DEF StatisticsTypes, PC, Started, Responsible, Provided
<1>1. ASSUME NEW u \in Upload, Load(u) PROVE Provided'
  <2>1. u \in Writer /\ stage'[u] = "delete"
    BY <1>1 DEF Load, Writer
  <2> QED
    BY <1>1, <2>1 DEF Load
<1>2. ASSUME NEW w \in Writer, DeleteStatistics(w) PROVE Provided'
  <2>1. stage'[w] \in {"seed", "purge"}
    BY <1>2 DEF DeleteStatistics
  <2> QED
    BY <1>2, <2>1 DEF DeleteStatistics
<1>3. ASSUME NEW w \in Writer, Seed(w) PROVE Provided'
  <2>1. stage' = [stage EXCEPT ![w] = "update"] /\ loaded' = loaded /\ row' = row
    BY <1>3 DEF Seed
  <2>2. CASE Seeds /\ holder = Nobody
    BY <1>3, <2>1, <2>2 DEF Seed, Seeds
  <2>3. CASE ~Seeds
    BY <1>3, <2>1, <2>3 DEF Seed, Seeds
  <2> QED
    BY <1>3, <2>2, <2>3 DEF Seed
<1>4. ASSUME NEW w \in Writer, Update(w) PROVE Provided'
  BY <1>4 DEF Update, Fill
<1>5. ASSUME NEW w \in Writer, Commit(w) PROVE Provided'
  BY <1>5 DEF Commit, Release
<1>6. ASSUME NEW w \in Writer, DeleteMeasurements(w) PROVE Provided'
  BY <1>6 DEF DeleteMeasurements
<1>7. ASSUME NEW w \in Writer, RollBack(w) PROVE Provided'
  <2>1. stage'[w] \in {"delete", "failed"}
    BY <1>7 DEF RollBack
  <2> QED
    BY <1>7, <2>1 DEF RollBack, Release
<1>8. CASE UNCHANGED statisticsVars
  BY <1>8 DEF statisticsVars
<1> QED
  BY <1>1, <1>2, <1>3, <1>4, <1>5, <1>6, <1>7, <1>8 DEF StatisticsNext, Transact

\* However refreshes and purges interleave, when all are done a sensor that has
\* measurements has figures.
THEOREM FiguresExist == StatisticsSpec => []StatisticsExist
<1>1. StatisticsTypes /\ Provided => StatisticsExist
  BY DEF StatisticsTypes, Provided, StatisticsExist, AllDone, Responsible
<1>2. StatisticsSpec => [](StatisticsTypes /\ Provided)
  <2>1. StatisticsInit => StatisticsTypes /\ Provided
    BY StatisticsTypeInit, ProvidedInit
  <2>2. StatisticsTypes /\ Provided /\ [StatisticsNext]_statisticsVars => (StatisticsTypes /\ Provided)'
    BY StatisticsTypeStep, ProvidedStep
  <2> QED
    BY <2>1, <2>2, PTL DEF StatisticsSpec
<1> QED
  BY <1>1, <1>2, PTL

-----------------------------------------------------------------------------
(***************************************************************************)
(* Reading: quotients and products of numbers.                             *)
(***************************************************************************)
LEMMA Quotients ==
  ASSUME NEW x \in Nat, NEW b \in Nat \ {0}
  PROVE  /\ x \div b \in Nat /\ x % b \in Nat /\ x % b < b
         /\ x = b * (x \div b) + (x % b)
<1>1. x \div b \in Nat /\ x % b \in 0..(b - 1)
  OBVIOUS
<1>2. x % b = x - (x \div b) * b
  OBVIOUS
<1> DEFINE q == x \div b
           r == x % b
<1> HIDE DEF q, r
<1>3. q \in Nat /\ r \in Nat /\ r < b /\ r = x - q * b
  BY <1>1, <1>2 DEF q, r
<1>4. x = b * q + r
  BY <1>3
<1> QED
  BY <1>3, <1>4 DEF q, r

LEMMA Products ==
  ASSUME NEW b \in Nat, NEW p \in Nat, NEW q \in Nat
  PROVE  b * p \in Nat /\ (p <= q => b * p <= b * q)
OBVIOUS

-----------------------------------------------------------------------------
(***************************************************************************)
(* Types.                                                                  *)
(***************************************************************************)
Reading == [id : Nat, time : Nat, value : Value]
Paging == {"count", "page", "least", "greatest", "mean"}

RowTypes ==
  /\ rows \subseteq Reading /\ IsFiniteSet(rows)
  /\ \A r, q \in rows : r.id = q.id => r = q
  /\ writes \in Nat
  /\ \A r \in rows : r.id <= MaxRows + writes

RequestTypes ==
  /\ kind \in {"none", "list", "intervals"}
  /\ doing \in Paging \union {"idle", "reply", "lttb", "bucket", "intervals", "done"}
  /\ doing \in Paging \union {"reply", "lttb", "bucket"} => kind = "list"
  /\ doing = "intervals" => kind = "intervals"
  /\ doing \in {"lttb", "bucket"} => by > 2
  /\ doing = "idle" => walked = <<>> /\ page = 1
  /\ by \in Nat /\ limit \in Nat \ {0} /\ page \in Nat \ {0}
  /\ total \in Nat /\ items \in Seq(Reading) /\ walked \in Seq(Nat)

HistoryTypes ==
  /\ steady \subseteq Nat
  /\ doing # "idle" => \A i \in steady : i <= MaxRows + writes
  /\ "write" \notin upset => upset \subseteq {"tie"}
  /\ doing # "idle" /\ "tie" \notin upset => ~Tied(rows)

ReadTypes == RowTypes /\ RequestTypes /\ HistoryTypes

-----------------------------------------------------------------------------
(* The order of the rows. *)
Place(r, upwards) == Cardinality({q \in rows : Before(q, r, upwards)})

LEMMA OrderedFacts ==
  ASSUME RowTypes, NEW upwards \in BOOLEAN
  PROVE  /\ Ordered(upwards) \in Seq(rows) /\ Len(Ordered(upwards)) = Cardinality(rows)
         /\ Cardinality(rows) \in Nat
         /\ \A i \in 1..Cardinality(rows) : /\ Ordered(upwards)[i] \in rows
                                            /\ Place(Ordered(upwards)[i], upwards) = i - 1
         /\ \A r \in rows : /\ Place(r, upwards) + 1 \in 1..Cardinality(rows)
                            /\ Place(r, upwards) \in Nat
                            /\ Ordered(upwards)[Place(r, upwards) + 1] = r
<1> DEFINE n == Cardinality(rows)
           B(r) == {q \in rows : Before(q, r, upwards)}
           f == [r \in rows |-> Place(r, upwards)]
<1>1. n \in Nat /\ IsFiniteSet(rows)
  BY FS_CardinalityType DEF RowTypes
<1>2. \A r \in rows : r.id \in Nat /\ r.time \in Nat
  BY DEF RowTypes, Reading
<1>3. ASSUME NEW r \in rows PROVE ~Before(r, r, upwards)
  BY <1>2 DEF Before
<1>4. ASSUME NEW p \in rows, NEW q \in rows, NEW r \in rows,
             Before(p, q, upwards), Before(q, r, upwards)
      PROVE  Before(p, r, upwards)
  BY <1>2, <1>4 DEF Before
<1>5. ASSUME NEW q \in rows, NEW r \in rows, q # r
      PROVE  Before(q, r, upwards) \/ Before(r, q, upwards)
  <2>1. q.id # r.id
    BY <1>5 DEF RowTypes
  <2> QED
    BY <1>2, <2>1 DEF Before
<1>6. ASSUME NEW r \in rows
      PROVE  IsFiniteSet(B(r)) /\ Cardinality(B(r)) \in Nat /\ Cardinality(B(r)) < n
  <2>1. B(r) \subseteq rows /\ r \notin B(r)
    BY <1>3
  <2> HIDE DEF B
  <2> QED
    BY <1>1, <2>1, FS_Subset, FS_CardinalityType
<1>7. ASSUME NEW q \in rows, NEW r \in rows, Before(q, r, upwards)
      PROVE  Cardinality(B(q)) < Cardinality(B(r))
  <2>1. B(q) \subseteq B(r)
    BY <1>4, <1>7
  <2>2. q \in B(r) /\ q \notin B(q)
    BY <1>3, <1>7
  <2>3. IsFiniteSet(B(r)) /\ Cardinality(B(q)) \in Nat /\ Cardinality(B(r)) \in Nat
    BY <1>6
  <2> HIDE DEF B
  <2> QED
    BY <2>1, <2>2, <2>3, FS_Subset
<1>p. \A r \in rows : Place(r, upwards) = Cardinality(B(r))
  BY DEF Place
<1>8. \A r \in rows : Place(r, upwards) \in 0..(n - 1)
  <2> HIDE DEF B, n
  <2> QED
    BY <1>1, <1>6, <1>p
<1>9. \A q, r \in rows : Place(q, upwards) = Place(r, upwards) => q = r
  <2> SUFFICES ASSUME NEW q \in rows, NEW r \in rows, Place(q, upwards) = Place(r, upwards), q # r
               PROVE  FALSE
    OBVIOUS
  <2>1. Cardinality(B(q)) = Cardinality(B(r))
    BY <1>p
  <2>2. Cardinality(B(q)) \in Nat /\ Cardinality(B(r)) \in Nat
    BY <1>6
  <2>3. Cardinality(B(q)) < Cardinality(B(r)) \/ Cardinality(B(r)) < Cardinality(B(q))
    <3> HIDE DEF B
    <3> QED
      BY <1>5, <1>7
  <2> HIDE DEF B
  <2> QED
    BY <2>1, <2>2, <2>3
<1>10. f \in Injection(rows, 0..(n - 1))
  BY <1>8, <1>9 DEF Injection, IsInjective
<1>11. IsFiniteSet(0..(n - 1)) /\ Cardinality(0..(n - 1)) = n
  <2>1. 0 \in Int /\ n - 1 \in Int
    BY <1>1
  <2> HIDE DEF n
  <2> QED
    BY <1>1, <2>1, FS_Interval
<1>12. f \in Surjection(rows, 0..(n - 1))
  <2> HIDE DEF f, n
  <2> QED
    BY <1>1, <1>10, <1>11, FS_Injection DEF n
<1>13. \A i \in 1..n : \E r \in rows : Place(r, upwards) = i - 1
  <2> SUFFICES ASSUME NEW i \in 1..n PROVE \E r \in rows : f[r] = i - 1
    OBVIOUS
  <2>1. i - 1 \in 0..(n - 1)
    BY <1>1
  <2> HIDE DEF f, n
  <2> QED
    BY <1>12, <2>1 DEF Surjection
<1> DEFINE g == [i \in 1..n |-> CHOOSE r \in rows : Place(r, upwards) = i - 1]
<1>14. Ordered(upwards) = g
  BY DEF Ordered, Place
<1>15. \A i \in 1..n : g[i] \in rows /\ Place(g[i], upwards) = i - 1
  BY <1>13
<1>16. g \in Seq(rows) /\ Len(g) = n
  <2>1. g \in [1..n -> rows]
    BY <1>15
  <2> HIDE DEF g
  <2> QED
    BY <1>1, <2>1
<1> HIDE DEF g
<1>17. \A r \in rows : /\ Place(r, upwards) + 1 \in 1..n /\ Place(r, upwards) \in Nat
                       /\ g[Place(r, upwards) + 1] = r
  <2> SUFFICES ASSUME NEW r \in rows
               PROVE  /\ Place(r, upwards) + 1 \in 1..n /\ Place(r, upwards) \in Nat
                      /\ g[Place(r, upwards) + 1] = r
    OBVIOUS
  <2>1. Place(r, upwards) \in Nat /\ Place(r, upwards) + 1 \in 1..n
    BY <1>1, <1>8
  <2>2. /\ g[Place(r, upwards) + 1] \in rows
        /\ Place(g[Place(r, upwards) + 1], upwards) = Place(r, upwards)
    BY <1>15, <2>1
  <2> QED
    BY <1>9, <2>1, <2>2
<1> QED
  BY <1>1, <1>14, <1>15, <1>16, <1>17

\* The page is the slice of places from its offset on.
LEMMA PageFacts ==
  ASSUME RowTypes, RequestTypes, NEW upwards \in BOOLEAN
  PROVE  LET s == PageOf(Ordered(upwards))
             from == (page - 1) * limit IN
         /\ from \in Nat /\ page * limit = from + limit /\ page * limit \in Nat
         /\ s \in Seq(rows)
         /\ \A i \in DOMAIN s : /\ s[i] \in rows
                                /\ Place(s[i], upwards) >= from
                                /\ Place(s[i], upwards) < from + limit
         /\ \A i, j \in DOMAIN s : s[i] = s[j] => i = j
         /\ \A r \in rows : Place(r, upwards) >= from /\ Place(r, upwards) < from + limit
                              => \E i \in DOMAIN s : s[i] = r
<1> DEFINE n == Cardinality(rows)
           o == Ordered(upwards)
           from == (page - 1) * limit
           m == Min({from + limit, n})
           s == SubSeq(o, from + 1, m)
<1>1. n \in Nat /\ o \in Seq(rows) /\ Len(o) = n /\ limit \in Nat \ {0} /\ page \in Nat \ {0}
  BY OrderedFacts DEF RequestTypes
<1>2. from \in Nat /\ page * limit = from + limit
  BY <1>1
<1>3. PageOf(o) = s
  BY <1>1 DEF PageOf, OffsetOf
<1> HIDE DEF from
<1>4. m = IF from + limit <= n THEN from + limit ELSE n
  <2>1. \E x \in {from + limit, n} : \A y \in {from + limit, n} : x <= y
    BY <1>1, <1>2
  <2>2. m \in {from + limit, n} /\ m <= from + limit /\ m <= n
    BY <2>1 DEF Min
  <2> QED
    BY <1>1, <1>2, <2>2
<1> HIDE DEF m
<1> DEFINE l == IF from + 1 <= m THEN m - from ELSE 0
<1>5. l \in Nat /\ m \in Nat /\ m <= n
  BY <1>1, <1>2, <1>4
<1>6. s \in Seq(rows) /\ Len(s) = l /\ DOMAIN s = 1..l /\ \A i \in 1..l : s[i] = o[from + i]
  <2>1. CASE from + 1 <= m
    BY <1>1, <1>2, <1>5, <2>1
  <2>2. CASE ~(from + 1 <= m)
    BY <1>1, <1>2, <1>5, <2>2
  <2> QED
    BY <2>1, <2>2
<1> HIDE DEF s, o, l
<1>7. ASSUME NEW i \in 1..l PROVE from + i \in 1..n /\ from + i <= from + limit /\ i \in Nat \ {0}
  BY <1>1, <1>2, <1>4, <1>5 DEF l
<1>8. \A i \in 1..l : s[i] \in rows /\ Place(s[i], upwards) = from + i - 1
  <2> SUFFICES ASSUME NEW i \in 1..l
               PROVE  s[i] \in rows /\ Place(s[i], upwards) = from + i - 1
    OBVIOUS
  <2>1. s[i] = o[from + i] /\ from + i \in 1..n
    BY <1>6, <1>7
  <2> DEFINE k == from + i
  <2>2. k \in 1..n => o[k] \in rows /\ Place(o[k], upwards) = k - 1
    BY OrderedFacts DEF o
  <2>3. k \in 1..n /\ s[i] = o[k]
    BY <2>1
  <2>4. k - 1 = from + i - 1
    BY <1>2, <1>7
  <2> HIDE DEF k
  <2>5. s[i] \in rows /\ Place(s[i], upwards) = k - 1
    BY <2>2, <2>3
  <2> QED
    BY <2>4, <2>5
<1>9. ASSUME NEW i \in 1..l, NEW j \in 1..l, s[i] = s[j] PROVE i = j
  <2>1. from + i - 1 = from + j - 1
    BY <1>8, <1>9
  <2> QED
    BY <1>2, <1>7, <2>1
<1>10. \A i \in 1..l : Place(s[i], upwards) >= from /\ Place(s[i], upwards) < from + limit
  <2> SUFFICES ASSUME NEW i \in 1..l
               PROVE  from + i - 1 >= from /\ from + i - 1 < from + limit
    BY <1>8
  <2> QED
    BY <1>1, <1>2, <1>7
<1>11. ASSUME NEW r \in rows, Place(r, upwards) >= from, Place(r, upwards) < from + limit
       PROVE  \E i \in 1..l : s[i] = r
  <2> DEFINE i == Place(r, upwards) + 1 - from
  <2>1. /\ Place(r, upwards) + 1 \in 1..n /\ o[Place(r, upwards) + 1] = r
        /\ Place(r, upwards) \in Nat
    BY OrderedFacts DEF o
  <2>2. i \in 1..l /\ from + i = Place(r, upwards) + 1
    BY <1>1, <1>2, <1>4, <1>11, <2>1 DEF l
  <2> QED
    BY <1>6, <2>1, <2>2
<1>12. page * limit \in Nat
  BY <1>1, <1>2
<1>13. /\ s \in Seq(rows)
       /\ \A i \in DOMAIN s : /\ s[i] \in rows /\ Place(s[i], upwards) >= from
                              /\ Place(s[i], upwards) < from + limit
       /\ \A i, j \in DOMAIN s : s[i] = s[j] => i = j
       /\ \A r \in rows : Place(r, upwards) >= from /\ Place(r, upwards) < from + limit
                              => \E i \in DOMAIN s : s[i] = r
  BY <1>6, <1>8, <1>9, <1>10, <1>11
<1> QED
  BY <1>2, <1>3, <1>12, <1>13 DEF o, from

-----------------------------------------------------------------------------
USE DEF request, response, lttbVars, history, readVars

LEMMA ReadInitTypes == ReadInit => ReadTypes
<1> SUFFICES ASSUME ReadInit PROVE ReadTypes
  OBVIOUS
<1>1. RowTypes
  <2>1. PICK n \in 0..MaxRows : \E v \in [1..n -> Value] :
               rows = {[id |-> i, time |-> Opening[i], value |-> v[i]] : i \in 1..n}
    BY DEF ReadInit
  <2>2. PICK v \in [1..n -> Value] :
               rows = {[id |-> i, time |-> Opening[i], value |-> v[i]] : i \in 1..n}
    BY <2>1
  <2>3. n \in Nat /\ n <= MaxRows /\ MaxRows \in Nat
    BY CountsAssumption
  <2>4. \A i \in 1..n : /\ i \in Nat /\ i <= MaxRows
                        /\ Opening[i] \in Nat /\ v[i] \in Value
    BY <2>3, TimeAssumption
  <2> DEFINE RowOf(i) == [id |-> i, time |-> Opening[i], value |-> v[i]]
  <2>5. \A i \in 1..n : RowOf(i) \in Reading /\ RowOf(i).id = i
    BY <2>4 DEF Reading
  <2>6. rows = {RowOf(i) : i \in 1..n}
    BY <2>2
  <2>7. IsFiniteSet(1..n)
    <3>1. 1 \in Int /\ n \in Int
      BY <2>3
    <3> QED
      BY <3>1, FS_Interval
  <2>8. IsFiniteSet(rows)
    <3> DEFINE f == [i \in 1..n |-> RowOf(i)]
    <3>1. f \in Surjection(1..n, rows)
      BY <2>6 DEF Surjection
    <3> HIDE DEF f
    <3> QED
      BY <2>7, <3>1, FS_Surjection
  <2>9. writes = 0
    BY DEF ReadInit
  <2> HIDE DEF RowOf
  <2>10. \A r \in rows : r \in Reading /\ r.id <= MaxRows + writes
    BY <2>3, <2>4, <2>5, <2>6, <2>9
  <2>11. \A r, q \in rows : r.id = q.id => r = q
    BY <2>5, <2>6
  <2> QED
    BY <2>8, <2>9, <2>10, <2>11 DEF RowTypes
<1>2. RequestTypes
  BY DEF ReadInit, RequestTypes, Paging
<1>3. HistoryTypes
  BY DEF ReadInit, HistoryTypes
<1> QED
  BY <1>1, <1>2, <1>3 DEF ReadTypes

\* What a write does to the rows.
LEMMA CreateTypes ==
  ASSUME RowTypes, NEW t \in Time, NEW v \in Value, create_measurement(t, v)
  PROVE  RowTypes'
<1> DEFINE new == [id |-> MaxRows + writes + 1, time |-> t, value |-> v]
<1>1. rows' = rows \union {new} /\ writes' = writes + 1
  BY DEF create_measurement, Writes
<1>2. new \in Reading /\ new.id = MaxRows + writes + 1 /\ MaxRows \in Nat /\ writes \in Nat
  BY CountsAssumption, TimeAssumption DEF RowTypes, Reading
<1>3. \A r \in rows : r \in Reading /\ r.id \in Nat /\ r.id <= MaxRows + writes
  BY DEF RowTypes, Reading
<1>4. IsFiniteSet(rows')
  BY <1>1, FS_AddElement DEF RowTypes
<1> HIDE DEF new
<1>5. \A r, q \in rows' : r.id = q.id => r = q
  BY <1>1, <1>2, <1>3 DEF RowTypes
<1>6. \A r \in rows' : r.id <= MaxRows + writes'
  BY <1>1, <1>2, <1>3
<1> QED
  BY <1>1, <1>2, <1>3, <1>4, <1>5, <1>6 DEF RowTypes

LEMMA UpdateTypes ==
  ASSUME RowTypes, NEW t \in Time, NEW v \in Value, NEW r \in rows, update_measurement(r, t, v)
  PROVE  RowTypes'
<1> DEFINE new == [r EXCEPT !.time = t, !.value = v]
<1>1. rows' = (rows \ {r}) \union {new} /\ writes' = writes + 1
  BY DEF update_measurement, Writes
<1>2. new \in Reading /\ new.id = r.id /\ MaxRows \in Nat /\ writes \in Nat
  BY CountsAssumption, TimeAssumption DEF RowTypes, Reading
<1>3. \A q \in rows : q \in Reading /\ q.id \in Nat /\ q.id <= MaxRows + writes
  BY DEF RowTypes, Reading
<1>4. IsFiniteSet(rows')
  <2>1. IsFiniteSet(rows \ {r})
    BY FS_RemoveElement DEF RowTypes
  <2> QED
    BY <1>1, <2>1, FS_AddElement
<1> HIDE DEF new
<1>5. \A p, q \in rows' : p.id = q.id => p = q
  BY <1>1, <1>2, <1>3 DEF RowTypes
<1>6. \A q \in rows' : q.id <= MaxRows + writes'
  BY <1>1, <1>2, <1>3
<1> QED
  BY <1>1, <1>2, <1>3, <1>4, <1>5, <1>6 DEF RowTypes

LEMMA DeleteTypes ==
  ASSUME RowTypes, delete_sensor_measurements
  PROVE  RowTypes'
<1>1. rows' = {} /\ writes' = writes + 1
  BY DEF delete_sensor_measurements, Writes
<1> QED
  BY <1>1, FS_EmptySet DEF RowTypes

LEMMA RowStep == ReadTypes /\ [ReadNext]_readVars => RowTypes'
<1> SUFFICES ASSUME ReadTypes, [ReadNext]_readVars PROVE RowTypes'
  OBVIOUS
<1>1. ASSUME UNCHANGED <<rows, writes>> PROVE RowTypes'
  BY <1>1 DEF ReadTypes, RowTypes
<1>2. CASE Reads
  <2>1. UNCHANGED <<rows, writes>>
    BY <1>2 DEF Reads, Count, FetchPage, StatsMin, StatsMax, StatsAverage, Respond, LttbStart,
                LttbBucket, LttbEnd, Aggregate
  <2> QED
    BY <1>1, <2>1
<1>3. CASE UNCHANGED readVars
  BY <1>1, <1>3
<1>4. ASSUME NEW k, NEW n, NEW l, Ask(k, n, l) PROVE RowTypes'
  BY <1>1, <1>4 DEF Ask
<1> QED
  BY <1>2, <1>3, <1>4, CreateTypes, UpdateTypes, DeleteTypes DEF ReadNext, ReadTypes

LEMMA RequestStep == ReadTypes /\ [ReadNext]_readVars => RequestTypes'
<1> SUFFICES ASSUME RowTypes, RequestTypes, [ReadNext]_readVars PROVE RequestTypes'
  BY DEF ReadTypes
<1> USE DEF RequestTypes, Paging
<1>1. ASSUME NEW l \in Limits, NEW n \in Thresholds \union {0}, Ask("list", n, l)
      PROVE  RequestTypes'
  BY <1>1, CountsAssumption DEF Ask
<1>2. ASSUME NEW l \in Limits, NEW n \in Widths, Ask("intervals", n, l) PROVE RequestTypes'
  BY <1>2, CountsAssumption DEF Ask
<1>3. ASSUME Count PROVE RequestTypes'
  <2>1. Cardinality(rows) \in Nat
    BY FS_CardinalityType DEF RowTypes
  <2> QED
    BY <1>3, <2>1 DEF Count
<1>4. ASSUME FetchPage PROVE RequestTypes'
  <2>1. PICK upwards \in BOOLEAN : items' = PageOf(Ordered(upwards))
    BY <1>4 DEF FetchPage
  <2>2. items' \in Seq(rows)
    BY <2>1, PageFacts
  <2>3. items' \in Seq(Reading)
    BY <2>2 DEF RowTypes
  <2> QED
    BY <1>4, <2>3 DEF FetchPage
<1>5. ASSUME StatsMin PROVE RequestTypes'
  BY <1>5 DEF StatsMin
<1>6. ASSUME StatsMax PROVE RequestTypes'
  BY <1>6 DEF StatsMax
<1>7. ASSUME StatsAverage PROVE RequestTypes'
  BY <1>7 DEF StatsAverage
<1>8. ASSUME Respond PROVE RequestTypes'
  <2> DEFINE listed == [i \in DOMAIN items |-> items[i].id]
  <2>1. listed \in Seq(Nat)
    <3>1. DOMAIN items = 1..Len(items) /\ Len(items) \in Nat
      OBVIOUS
    <3>2. \A i \in 1..Len(items) : items[i] \in Reading
      OBVIOUS
    <3>3. \A i \in DOMAIN items : items[i].id \in Nat
      BY <3>1, <3>2 DEF Reading
    <3> QED
      BY <3>1, <3>3
  <2>2. walked' = walked \o listed
    BY <1>8 DEF Respond
  <2>3. walked' \in Seq(Nat)
    <3> HIDE DEF listed
    <3> QED
      BY <2>1, <2>2
  <2>4. page' \in Nat \ {0} /\ doing' \in {"count", "done"} /\ kind' = "list"
    BY <1>8 DEF Respond
  <2> QED
    BY <1>8, <2>3, <2>4 DEF Respond
<1>9. ASSUME LttbStart PROVE RequestTypes'
  BY <1>9 DEF LttbStart
<1>10. ASSUME LttbBucket PROVE RequestTypes'
  BY <1>10 DEF LttbBucket
<1>11. ASSUME LttbEnd PROVE RequestTypes'
  BY <1>11 DEF LttbEnd
<1>12. ASSUME Aggregate PROVE RequestTypes'
  BY <1>12 DEF Aggregate
<1>13. ASSUME NEW kept, NEW added, Writes(kept, added) PROVE RequestTypes'
  BY <1>13 DEF Writes
<1>14. CASE UNCHANGED readVars
  BY <1>14
<1>15. ASSUME NEW t \in Time, NEW v \in Value, create_measurement(t, v) PROVE RequestTypes'
  BY <1>13, <1>15 DEF create_measurement
<1>16. ASSUME NEW t \in Time, NEW v \in Value, NEW r \in rows, update_measurement(r, t, v)
       PROVE  RequestTypes'
  BY <1>13, <1>16 DEF update_measurement
<1>17. ASSUME delete_sensor_measurements PROVE RequestTypes'
  BY <1>13, <1>17 DEF delete_sensor_measurements
<1> HIDE DEF RequestTypes
<1> QED
  BY <1>1, <1>2, <1>3, <1>4, <1>5, <1>6, <1>7, <1>8, <1>9, <1>10, <1>11, <1>12, <1>14, <1>15,
     <1>16, <1>17 DEF ReadNext, Reads

LEMMA HistoryStep == ReadTypes /\ [ReadNext]_readVars => HistoryTypes'
<1> SUFFICES ASSUME RowTypes, HistoryTypes, [ReadNext]_readVars PROVE HistoryTypes'
  BY DEF ReadTypes
<1>n. MaxRows \in Nat /\ writes \in Nat
  BY CountsAssumption DEF RowTypes
<1>1. ASSUME NEW k \in {"list", "intervals"}, NEW n, NEW l, Ask(k, n, l) PROVE HistoryTypes'
  <2>1. /\ steady' = Ids(rows) /\ doing' # "idle" /\ rows' = rows /\ writes' = writes
        /\ upset' = IF Tied(rows) THEN {"tie"} ELSE {}
    BY <1>1 DEF Ask
  <2>2. Ids(rows) \subseteq Nat /\ \A i \in Ids(rows) : i <= MaxRows + writes
    BY DEF RowTypes, Reading, Ids
  <2>3. Tied(rows)' = Tied(rows)
    BY <2>1
  <2> QED
    BY <2>1, <2>2, <2>3 DEF HistoryTypes
<1>2. ASSUME Count PROVE HistoryTypes'
  <2>1. /\ doing = "count" /\ UNCHANGED <<rows, steady, writes>> /\ upset' = upset \ {"late"}
    BY <1>2 DEF Count
  <2>2. Tied(rows)' = Tied(rows)
    BY <2>1
  <2> QED
    BY <2>1, <2>2 DEF HistoryTypes
<1>3. ASSUME UNCHANGED <<rows, steady, upset, writes>>, doing # "idle" \/ doing' = "idle"
      PROVE  HistoryTypes'
  <2>1. Tied(rows)' = Tied(rows)
    BY <1>3
  <2> QED
    BY <1>3, <2>1 DEF HistoryTypes
<1>4. ASSUME Reads, ~Count PROVE HistoryTypes'
  <2>1. UNCHANGED <<rows, steady, upset, writes>> /\ doing # "idle"
    BY <1>4 DEF Reads, FetchPage, StatsMin, StatsMax, StatsAverage, Respond, LttbStart,
                LttbBucket, LttbEnd, Aggregate
  <2> QED
    BY <1>3, <2>1
<1>5. ASSUME NEW kept, NEW added, Writes(kept, added) PROVE HistoryTypes'
  <2>1. /\ doing # "idle" /\ writes' = writes + 1
        /\ steady' = steady \intersect kept /\ "write" \in upset'
        /\ "tie" \notin upset' => ~Tied(rows')
    BY <1>5 DEF Writes
  <2>2. \A i \in steady : i \in Nat /\ i <= MaxRows + writes
    BY <2>1 DEF HistoryTypes
  <2>3. \A i \in steady' : i <= MaxRows + writes'
    BY <1>n, <2>1, <2>2
  <2>4. steady' \subseteq Nat /\ ("tie" \notin upset' => ~Tied(rows)')
    BY <2>1, <2>2 DEF Tied
  <2> QED
    BY <2>1, <2>3, <2>4 DEF HistoryTypes
<1>6. CASE UNCHANGED readVars
  BY <1>3, <1>6
<1>7. ASSUME NEW t \in Time, NEW v \in Value, create_measurement(t, v) PROVE HistoryTypes'
  BY <1>5, <1>7 DEF create_measurement
<1>8. ASSUME NEW t \in Time, NEW v \in Value, NEW r \in rows, update_measurement(r, t, v)
      PROVE  HistoryTypes'
  BY <1>5, <1>8 DEF update_measurement
<1>9. ASSUME delete_sensor_measurements PROVE HistoryTypes'
  BY <1>5, <1>9 DEF delete_sensor_measurements
<1> QED
  BY <1>1, <1>2, <1>4, <1>6, <1>7, <1>8, <1>9 DEF ReadNext

\* Readings have distinct ids, a request is a list or intervals in the stages of
\* its own, and without a tie in the history no two readings have one time.
\* (list_measurements)
THEOREM ReadTypesHold == ReadSpec => []ReadTypes
<1>1. ReadTypes /\ [ReadNext]_readVars => ReadTypes'
  BY RowStep, RequestStep, HistoryStep DEF ReadTypes
<1> QED
  BY <1>1, ReadInitTypes, PTL DEF ReadSpec

-----------------------------------------------------------------------------
(***************************************************************************)
(* Downsampling. A bucket is more than one reading long before the cut is  *)
(* rounded, so that it keeps one when a float falls short of a whole       *)
(* product: CutGrows.                                                      *)
(***************************************************************************)
LEMMA CutGrows ==
  ASSUME NEW a \in Nat, NEW b \in Nat \ {0}, a > b, NEW x \in Nat
  PROVE  /\ (x + a) \div b > x \div b
         /\ (x + a) % b = 0 => (x + a) \div b > x \div b + 1
<1> DEFINE q == x \div b
           r == x % b
           p == (x + a) \div b
           t == (x + a) % b
<1>1. q \in Nat /\ r \in Nat /\ r < b /\ x = b * q + r
  BY Quotients
<1>2. p \in Nat /\ t \in Nat /\ t < b /\ x + a = b * p + t
  <2>1. x + a \in Nat
    OBVIOUS
  <2> QED
    BY <2>1, Quotients
<1> HIDE DEF q, r, p, t
<1>3. b * q \in Nat /\ b * p \in Nat /\ b * (q + 1) = b * q + b /\ b * q + r + a = b * p + t
  BY <1>1, <1>2
<1>4. p > q
  <2>1. SUFFICES ASSUME p <= q PROVE FALSE
    BY <1>1, <1>2
  <2>2. b * p <= b * q
    BY <1>1, <1>2, <2>1, Products
  <2> DEFINE u == b * p
             v == b * q
  <2>3. u \in Nat /\ v \in Nat /\ v + r + a = u + t /\ u <= v
    BY <1>3, <2>2
  <2> HIDE DEF u, v
  <2> QED
    BY <1>1, <1>2, <2>3
<1>5. ASSUME t = 0 PROVE p > q + 1
  <2>1. SUFFICES ASSUME p <= q + 1 PROVE FALSE
    BY <1>1, <1>2
  <2>2. b * p <= b * (q + 1)
    <3>1. q + 1 \in Nat /\ b \in Nat
      BY <1>1
    <3> QED
      BY <1>2, <2>1, <3>1, Products
  <2> DEFINE u == b * p
             v == b * q
  <2>3. u \in Nat /\ v \in Nat /\ v + r + a = u + t /\ u <= v + b
    BY <1>3, <2>2
  <2> HIDE DEF u, v
  <2> QED
    BY <1>1, <1>2, <1>5, <2>3
<1> QED
  BY <1>4, <1>5 DEF p, q, t

\* Where b buckets of a list of n readings begin.
Cuts(c, b, n) ==
  /\ c \in [0..b -> Nat] /\ c[0] = 0
  /\ \A k \in 0..(b - 1) : c[k] < c[k + 1]
  /\ \A k \in 0..b : c[k] + 2 <= n

LEMMA CutFacts ==
  ASSUME NEW b \in Nat \ {0}, by = b + 2, NEW a \in Nat, Len(items) = a + 2, a > b,
         NEW c \in [0..b -> Nat], \A k \in 0..b : c[k] \in CutsAt(k)
  PROVE  Cuts(c, b, Len(items))
<1>1. by - 2 = b /\ Len(items) - 2 = a
  OBVIOUS
<1> DEFINE whole(k) == (k * a) \div b
           short(k) == (k * a) % b = 0 /\ a % b # 0 /\ k > 0
<1>2. \A k \in 0..b : c[k] \in (IF short(k) THEN {whole(k), whole(k) - 1} ELSE {whole(k)})
  BY <1>1 DEF CutsAt
<1>3. \A k \in 0..b : k * a \in Nat
  OBVIOUS
<1>4. \A k \in 0..b : whole(k) \in Nat
  BY <1>3, Quotients
<1>5. c[0] = 0
  <2>1. 0 * a = 0 /\ 0 \in 0..b /\ 0 \div b = 0
    OBVIOUS
  <2>2. ~short(0)
    OBVIOUS
  <2>3. c[0] = whole(0)
    BY <1>2, <2>1, <2>2
  <2> QED
    BY <2>1, <2>3
<1>6. ASSUME NEW k \in 0..(b - 1) PROVE c[k] < c[k + 1]
  <2>1. k \in 0..b /\ k + 1 \in 0..b /\ k \in Nat
    OBVIOUS
  <2>2. (k + 1) * a = k * a + a
    BY <2>1
  <2>3. whole(k + 1) > whole(k) /\ (short(k + 1) => whole(k + 1) > whole(k) + 1)
    BY <1>3, <2>1, <2>2, CutGrows
  <2>4. whole(k) \in Nat /\ whole(k + 1) \in Nat
    BY <1>4, <2>1
  <2>5. c[k] \in {whole(k), whole(k) - 1}
    BY <1>2, <2>1
  <2>6. c[k + 1] = whole(k + 1) \/ (short(k + 1) /\ c[k + 1] = whole(k + 1) - 1)
    BY <1>2, <2>1
  <2> HIDE DEF whole, short
  <2> QED
    BY <2>3, <2>4, <2>5, <2>6
<1>7. ASSUME NEW k \in 0..b PROVE c[k] + 2 <= Len(items)
  <2>1. c[k] <= whole(k) /\ whole(k) \in Nat /\ c[k] \in Nat
    <3>1. c[k] \in {whole(k), whole(k) - 1} /\ whole(k) \in Nat
      BY <1>2, <1>4
    <3> HIDE DEF whole
    <3> QED
      BY <3>1
  <2>2. whole(k) <= a
    <3> DEFINE q == whole(k)
               x == k * a
    <3>1. q \in Nat /\ x % b \in Nat /\ x = b * q + (x % b)
      BY <1>3, Quotients
    <3>2. b * q \in Nat /\ b * q <= x
      <4> DEFINE r == x % b
      <4>1. b * q \in Nat
        BY <3>1, Products
      <4> DEFINE v == b * q
      <4>2. v \in Nat /\ r \in Nat /\ x = v + r
        BY <3>1, <4>1
      <4> HIDE DEF v, r, x
      <4>3. v <= x
        BY <4>2
      <4> QED
        BY <4>1, <4>3 DEF v
    <3>3. x <= b * a
      <4>1. a * k <= a * b /\ a * k = k * a /\ a * b = b * a
        BY Products
      <4> QED
        BY <4>1
    <3> HIDE DEF q, x
    <3>4. SUFFICES ASSUME q >= a + 1 PROVE FALSE
      BY <3>1 DEF q
    <3>5. b * (a + 1) <= b * q
      BY <3>1, <3>4, Products
    <3>6. b * (a + 1) = b * a + b /\ b * a \in Nat
      OBVIOUS
    <3> DEFINE u == b * q
               w == b * a
    <3>7. u \in Nat /\ w \in Nat /\ x \in Nat /\ u <= x /\ x <= w /\ w + b <= u
      BY <1>3, <3>2, <3>3, <3>5, <3>6 DEF x
    <3> HIDE DEF u, w
    <3> QED
      BY <3>7
  <2> HIDE DEF whole
  <2> QED
    BY <2>1, <2>2
<1> QED
  BY <1>1, <1>5, <1>6, <1>7 DEF Cuts

\* The readings of list at the places pos, which rise from the first.
Picks(pos, list, from) ==
  /\ pos \in [1..Len(list) -> 1..Len(from)] /\ pos[1] = 1
  /\ \A i \in 1..Len(list) : list[i] = from[pos[i]]
  /\ \A i, j \in 1..Len(list) : i < j => pos[i] < pos[j]

LEMMA PicksGrow ==
  ASSUME NEW S, NEW list \in Seq(S), NEW from \in Seq(S), Len(list) > 0,
         NEW pos, Picks(pos, list, from),
         NEW m \in 1..Len(from), m > pos[Len(list)]
  PROVE  LET longer == Append(list, from[m]) IN
         \E next : Picks(next, longer, from) /\ next[Len(longer)] = m
<1> DEFINE n == Len(list)
           longer == Append(list, from[m])
           next == [i \in 1..(n + 1) |-> IF i = n + 1 THEN m ELSE pos[i]]
<1>1. n \in Nat /\ n > 0 /\ from[m] \in S
  OBVIOUS
<1>2. /\ longer \in Seq(S) /\ Len(longer) = n + 1 /\ longer[n + 1] = from[m]
      /\ \A i \in 1..n : longer[i] = list[i]
  BY <1>1
<1>3. /\ pos \in [1..n -> 1..Len(from)] /\ pos[1] = 1 /\ m > pos[n]
      /\ \A i \in 1..n : list[i] = from[pos[i]]
      /\ \A i, j \in 1..n : i < j => pos[i] < pos[j]
  BY DEF Picks
<1> HIDE DEF n, longer
<1>4. next \in [1..(n + 1) -> 1..Len(from)] /\ next[1] = 1 /\ next[n + 1] = m
  BY <1>1, <1>3
<1>5. \A i \in 1..(n + 1) : longer[i] = from[next[i]]
  <2> SUFFICES ASSUME NEW i \in 1..(n + 1) PROVE longer[i] = from[next[i]]
    OBVIOUS
  <2>1. CASE i = n + 1
    BY <1>2, <1>4, <2>1
  <2>2. CASE i # n + 1
    <3>1. i \in 1..n /\ next[i] = pos[i]
      BY <1>1, <2>2
    <3> HIDE DEF next
    <3> QED
      BY <1>2, <1>3, <3>1
  <2> QED
    BY <2>1, <2>2
<1>6. \A i \in 1..n : next[i] = pos[i] /\ pos[i] \in Nat /\ pos[i] <= pos[n]
  <2> SUFFICES ASSUME NEW i \in 1..n
               PROVE  next[i] = pos[i] /\ pos[i] \in Nat /\ pos[i] <= pos[n]
    OBVIOUS
  <2>1. i \in 1..(n + 1) /\ i # n + 1 /\ n \in 1..n
    BY <1>1
  <2>2. next[i] = pos[i]
    BY <2>1
  <2>3. pos[i] \in Nat /\ pos[n] \in Nat
    <3> DEFINE z == Len(from)
    <3>1. z \in Nat
      OBVIOUS
    <3>2. pos[i] \in 1..z /\ pos[n] \in 1..z
      BY <1>3, <2>1
    <3> HIDE DEF z
    <3> QED
      BY <3>1, <3>2
  <2>4. i = n \/ i < n
    BY <1>1
  <2> HIDE DEF next
  <2> QED
    BY <1>3, <2>1, <2>2, <2>3, <2>4
<1>7. \A i, j \in 1..(n + 1) : i < j => next[i] < next[j]
  <2> SUFFICES ASSUME NEW i \in 1..(n + 1), NEW j \in 1..(n + 1), i < j PROVE next[i] < next[j]
    OBVIOUS
  <2>1. i \in 1..n
    BY <1>1
  <2>2. CASE j = n + 1
    BY <1>1, <1>3, <1>4, <1>6, <2>1, <2>2
  <2>3. CASE j # n + 1
    <3>1. j \in 1..n
      BY <1>1, <2>3
    <3> QED
      BY <1>3, <1>6, <2>1, <3>1
  <2> QED
    BY <2>2, <2>3
<1> HIDE DEF next
<1>8. Picks(next, longer, from) /\ next[Len(longer)] = m
  BY <1>2, <1>4, <1>5, <1>7 DEF Picks
<1> QED
  BY <1>8 DEF longer

Sampling ==
  /\ doing = "bucket" =>
       /\ by > 2 /\ by < Len(items) /\ Cuts(cut, by - 2, Len(items))
       /\ sampled \in Seq(Reading) /\ Len(sampled) \in 1..(by - 1)
       /\ \E pos : /\ Picks(pos, sampled, items)
                   /\ pos[Len(sampled)] <= cut[Len(sampled) - 1] + 1
  /\ doing = "reply" /\ by > 2 /\ items # <<>> =>
       /\ sampled \in Seq(Reading)
       /\ Len(sampled) = IF by <= Len(items) THEN by ELSE Len(items)
       /\ \E pos : Picks(pos, sampled, items) /\ pos[Len(sampled)] = Len(items)

LEMMA BucketFacts ==
  ASSUME RequestTypes, Sampling, doing = "bucket", Len(sampled) <= by - 2
  PROVE  LET n == Len(sampled)
             first == cut[n - 1] + 2
             last == cut[n] + 1 IN
         /\ n \in Nat \ {0} /\ first \in Nat /\ last \in Nat /\ cut[n] \in Nat
         /\ cut[n - 1] \in Nat
         /\ first <= last /\ last < Len(items)
         /\ Bucket(n - 1) # <<>>
         /\ \A p \in Range(Bucket(n - 1)) : \E m \in first..last : p = items[m]
<1> DEFINE n == Len(sampled)
           first == cut[n - 1] + 2
           last == cut[n] + 1
<1>1. /\ n \in 1..(by - 2) /\ by \in Nat /\ by > 2 /\ items \in Seq(Reading)
      /\ Cuts(cut, by - 2, Len(items))
  BY DEF Sampling, RequestTypes
<1>2. n - 1 \in 0..((by - 2) - 1) /\ n \in 0..(by - 2) /\ n - 1 \in 0..(by - 2) /\ (n - 1) + 1 = n
  <2> HIDE DEF n
  <2> QED
    BY <1>1
<1>3. /\ cut[n - 1] \in Nat /\ cut[n] \in Nat /\ cut[n - 1] < cut[n]
      /\ cut[n] + 2 <= Len(items)
  BY <1>1, <1>2 DEF Cuts
<1>4. Bucket(n - 1) = SubSeq(items, first, last)
  BY <1>2 DEF Bucket
<1>9. n \in Nat \ {0}
  BY <1>1
<1> HIDE DEF n
<1>5. /\ first \in Nat \ {0} /\ last \in Nat /\ first <= last /\ last < Len(items)
      /\ Len(items) \in Nat
  <2> DEFINE x == cut[n - 1]
             y == cut[n]
             z == Len(items)
  <2>1. x \in Nat /\ y \in Nat /\ x < y /\ y + 2 <= z /\ z \in Nat
    BY <1>1, <1>3
  <2> HIDE DEF x, y, z
  <2>2. x + 2 \in Nat \ {0} /\ y + 1 \in Nat /\ x + 2 <= y + 1 /\ y + 1 < z
    BY <2>1
  <2> QED
    BY <2>1, <2>2 DEF x, y, z
<1> HIDE DEF first, last
<1> DEFINE s == SubSeq(items, first, last)
<1>6. /\ Len(s) = last - first + 1 /\ s \in Seq(Reading)
      /\ \A i \in 1..(last - first + 1) : s[i] = items[first + i - 1]
  BY <1>1, <1>5
<1>7. s # <<>>
  BY <1>5, <1>6
<1>8. \A p \in Range(s) : \E m \in first..last : p = items[m]
  <2> SUFFICES ASSUME NEW p \in Range(s) PROVE \E m \in first..last : p = items[m]
    OBVIOUS
  <2>1. PICK i \in DOMAIN s : p = s[i]
    BY DEF Range
  <2>2. i \in 1..(last - first + 1)
    BY <1>5, <1>6, <2>1
  <2>3. first + i - 1 \in first..last /\ p = items[first + i - 1]
    BY <1>5, <1>6, <2>1, <2>2
  <2> QED
    BY <2>3
<1> HIDE DEF s
<1> QED
  BY <1>3, <1>4, <1>5, <1>7, <1>8, <1>9 DEF n, first, last, s

LEMMA SamplingStep == ReadTypes /\ Sampling /\ [ReadNext]_readVars => Sampling'
<1> SUFFICES ASSUME RowTypes, RequestTypes, Sampling, [ReadNext]_readVars PROVE Sampling'
  BY DEF ReadTypes
<1>t. by \in Nat /\ items \in Seq(Reading)
  BY DEF RequestTypes
<1>1. ASSUME doing' \notin {"bucket", "reply"} PROVE Sampling'
  BY <1>1 DEF Sampling
<1>2. ASSUME UNCHANGED <<doing, by, items, cut, sampled>> PROVE Sampling'
  BY <1>2 DEF Sampling, Cuts
<1>3. ASSUME StatsAverage PROVE Sampling'
  <2>1. doing' = "lttb" \/ (doing' = "reply" /\ ~(by' > 2))
    BY <1>3 DEF StatsAverage
  <2> QED
    BY <2>1 DEF Sampling
<1>4. ASSUME LttbStart PROVE Sampling'
  <2>t. by > 2
    BY <1>4 DEF LttbStart, RequestTypes
  <2>1. CASE by >= Len(items)
    <3>1. doing' = "reply" /\ sampled' = items /\ items' = items /\ by' = by
      BY <1>4, <2>1 DEF LttbStart
    <3>2. ASSUME items # <<>>
          PROVE  \E pos : Picks(pos, items, items) /\ pos[Len(items)] = Len(items)
      <4> DEFINE pos == [i \in 1..Len(items) |-> i]
      <4>1. Len(items) \in Nat /\ Len(items) > 0
        BY <1>t, <3>2
      <4>2. Picks(pos, items, items) /\ pos[Len(items)] = Len(items)
        BY <4>1 DEF Picks
      <4> QED
        BY <4>2
    <3>3. Len(items) = IF by <= Len(items) THEN by ELSE Len(items)
      BY <1>t, <2>1
    <3> QED
      BY <1>t, <3>1, <3>2, <3>3 DEF Sampling
  <2>2. CASE ~(by >= Len(items))
    <3>1. /\ doing' = "bucket" /\ sampled' = <<items[1]>> /\ items' = items /\ by' = by
          /\ cut' \in [0..(by - 2) -> 0..Len(items)]
          /\ \A k \in 0..(by - 2) : cut'[k] \in CutsAt(k)
      BY <1>4, <2>2 DEF LttbStart
    <3> DEFINE b == by - 2
               a == Len(items) - 2
    <3>2. /\ b \in Nat \ {0} /\ by = b + 2 /\ a \in Nat /\ Len(items) = a + 2 /\ a > b
          /\ Len(items) \in Nat /\ by < Len(items)
      BY <1>t, <2>t, <2>2
    <3>3. Cuts(cut', b, Len(items))
      <4>1. cut' \in [0..b -> Nat]
        BY <3>1, <3>2
      <4>2. \A k \in 0..b : cut'[k] \in CutsAt(k)
        BY <3>1
      <4> HIDE DEF a, b
      <4> QED
        BY <3>2, <4>1, <4>2, CutFacts
    <3>4. sampled' \in Seq(Reading) /\ Len(sampled') = 1 /\ sampled'[1] = items[1]
      <4>1. items[1] \in Reading
        BY <1>t, <3>2
      <4> QED
        BY <3>1, <4>1
    <3> DEFINE pos == [i \in 1..1 |-> 1]
    <3>5. Picks(pos, sampled', items)
      <4>1. pos \in [1..1 -> 1..Len(items)] /\ pos[1] = 1
        BY <3>2
      <4>2. \A i \in 1..1 : sampled'[i] = items[pos[i]]
        BY <3>4
      <4>3. \A i, j \in 1..1 : i < j => pos[i] < pos[j]
        OBVIOUS
      <4> HIDE DEF pos
      <4> QED
        BY <3>4, <4>1, <4>2, <4>3 DEF Picks
    <3>6. pos[Len(sampled')] <= cut'[Len(sampled') - 1] + 1
      <4>1. cut'[0] = 0 /\ Len(sampled') - 1 = 0 /\ pos[1] = 1
        BY <3>3, <3>4 DEF Cuts
      <4> HIDE DEF pos
      <4> QED
        BY <3>4, <4>1
    <3>7. Len(sampled') \in 1..(by - 1)
      BY <3>2, <3>4
    <3> HIDE DEF pos, a
    <3> QED
      BY <2>t, <3>1, <3>2, <3>3, <3>4, <3>5, <3>6, <3>7 DEF Sampling
  <2> QED
    BY <2>1, <2>2
<1>5. ASSUME LttbBucket PROVE Sampling'
  <2> DEFINE n == Len(sampled)
             first == cut[n - 1] + 2
             last == cut[n] + 1
  <2>1. /\ doing = "bucket" /\ n <= by - 2
        /\ UNCHANGED <<doing, by, items, cut>>
        /\ \E p \in Range(Bucket(n - 1)) : sampled' = Append(sampled, p)
    BY <1>5 DEF LttbBucket
  <2>2. /\ by > 2 /\ by < Len(items) /\ Cuts(cut, by - 2, Len(items))
        /\ sampled \in Seq(Reading)
        /\ \E pos : Picks(pos, sampled, items) /\ pos[n] <= cut[n - 1] + 1
    BY <2>1 DEF Sampling
  <2>3. /\ n \in Nat \ {0} /\ first \in Nat /\ last \in Nat /\ cut[n - 1] \in Nat
        /\ first <= last /\ last < Len(items) /\ Len(items) \in Nat
        /\ \A p \in Range(Bucket(n - 1)) : \E m \in first..last : p = items[m]
    BY <1>t, <2>1, BucketFacts
  <2>4. PICK m \in first..last : sampled' = Append(sampled, items[m])
    BY <2>1, <2>3
  <2>5. PICK pos : Picks(pos, sampled, items) /\ pos[n] <= cut[n - 1] + 1
    BY <2>2
  <2>6. pos[n] \in Nat
    <3>1. pos \in [1..n -> 1..Len(items)] /\ n \in 1..n
      BY <2>3, <2>5 DEF Picks
    <3> HIDE DEF n
    <3> QED
      BY <2>3, <3>1
  <2> HIDE DEF n, last
  <2>7. m \in 1..Len(items) /\ m > pos[n] /\ m <= last
    <3> DEFINE c == cut[n - 1]
               x == pos[n]
               z == Len(items)
    <3>1. /\ c \in Nat /\ x \in Nat /\ z \in Nat /\ last \in Nat /\ last < z
          /\ x <= c + 1 /\ m \in (c + 2)..last
      BY <2>3, <2>4, <2>5, <2>6
    <3> HIDE DEF c, x, z
    <3>2. m \in 1..z /\ m > x /\ m <= last
      BY <3>1
    <3> QED
      BY <3>2 DEF x, z
  <2>8. PICK next : /\ Picks(next, Append(sampled, items[m]), items)
                    /\ next[Len(Append(sampled, items[m]))] = m
    BY <1>t, <2>2, <2>3, <2>5, <2>7, PicksGrow DEF n
  <2>9. Picks(next, sampled', items') /\ next[Len(sampled')] = m
    BY <2>1, <2>4, <2>8
  <2>10. sampled' \in Seq(Reading) /\ Len(sampled') = n + 1
    <3>1. items[m] \in Reading
      BY <1>t, <2>7
    <3> QED
      BY <2>2, <2>4, <3>1 DEF n
  <2>11. Len(sampled') - 1 = n /\ Len(sampled') \in 1..(by - 1)
    BY <1>t, <2>1, <2>3, <2>10
  <2>12. next[Len(sampled')] <= cut'[Len(sampled') - 1] + 1
    BY <2>1, <2>7, <2>9, <2>11 DEF last
  <2>13. doing' = "bucket" /\ by' > 2 /\ by' < Len(items') /\ Cuts(cut', by' - 2, Len(items'))
    BY <2>1, <2>2
  <2>14. Len(sampled') \in 1..(by' - 1)
    BY <2>1, <2>11
  <2> QED
    BY <2>9, <2>10, <2>12, <2>13, <2>14 DEF Sampling
<1>6. ASSUME LttbEnd PROVE Sampling'
  <2> DEFINE n == Len(sampled)
             m == Len(items)
  <2>1. /\ doing = "bucket" /\ n = by - 1 /\ doing' = "reply" /\ UNCHANGED <<by, items>>
        /\ sampled' = Append(sampled, items[m])
    BY <1>6 DEF LttbEnd, Last
  <2>2. /\ by > 2 /\ by < m /\ Cuts(cut, by - 2, m) /\ sampled \in Seq(Reading)
        /\ \E pos : Picks(pos, sampled, items) /\ pos[n] <= cut[n - 1] + 1
    BY <2>1 DEF Sampling
  <2>3. PICK pos : Picks(pos, sampled, items) /\ pos[n] <= cut[n - 1] + 1
    BY <2>2
  <2>4. n - 1 = by - 2 /\ n \in Nat \ {0} /\ m \in Nat
    BY <1>t, <2>1, <2>2
  <2>5. cut[n - 1] + 2 <= m /\ cut[n - 1] \in Nat /\ pos[n] \in Nat
    <3>1. by - 2 \in 0..(by - 2)
      BY <1>t, <2>2
    <3>2. cut[by - 2] + 2 <= m /\ cut[by - 2] \in Nat
      BY <2>2, <3>1 DEF Cuts
    <3>3. pos[n] \in Nat
      BY <2>3, <2>4 DEF Picks
    <3> QED
      BY <2>4, <3>2, <3>3
  <2>6. m > pos[n] /\ m \in 1..m
    <3> HIDE DEF n, m
    <3> QED
      BY <2>3, <2>4, <2>5
  <2>7. PICK next : /\ Picks(next, Append(sampled, items[m]), items)
                    /\ next[Len(Append(sampled, items[m]))] = m
    BY <1>t, <2>2, <2>3, <2>4, <2>6, PicksGrow
  <2>8. Picks(next, sampled', items') /\ next[Len(sampled')] = Len(items')
    BY <2>1, <2>7
  <2>9. sampled' \in Seq(Reading) /\ Len(sampled') = by'
    <3>1. items[m] \in Reading
      BY <1>t, <2>6
    <3> QED
      BY <1>t, <2>1, <2>2, <3>1
  <2>10. by' <= Len(items')
    BY <1>t, <2>1, <2>2
  <2> QED
    BY <2>1, <2>8, <2>9, <2>10 DEF Sampling
<1>7. CASE Count \/ FetchPage \/ StatsMin \/ StatsMax \/ Respond \/ Aggregate
  BY <1>1, <1>7 DEF Count, FetchPage, StatsMin, StatsMax, Respond, Aggregate
<1>8. ASSUME NEW k \in {"list", "intervals"}, NEW n, NEW l, Ask(k, n, l) PROVE Sampling'
  BY <1>1, <1>8 DEF Ask
<1>9. ASSUME NEW kept, NEW added, Writes(kept, added) PROVE Sampling'
  BY <1>1, <1>9 DEF Writes
<1>10. ASSUME NEW t \in Time, NEW v \in Value,
              \/ create_measurement(t, v)
              \/ \E r \in rows : update_measurement(r, t, v)
       PROVE  Sampling'
  BY <1>9, <1>10 DEF create_measurement, update_measurement
<1>11. CASE delete_sensor_measurements
  BY <1>9, <1>11 DEF delete_sensor_measurements
<1>12. CASE UNCHANGED readVars
  BY <1>2, <1>12
<1> QED
  BY <1>3, <1>4, <1>5, <1>6, <1>7, <1>8, <1>10, <1>11, <1>12 DEF ReadNext, Reads

LEMMA SamplingInit == ReadInit => Sampling
BY DEF ReadInit, Sampling

LEMMA SamplingMeans == ReadTypes /\ Sampling => SampleIsASelection
<1> SUFFICES ASSUME RequestTypes, Sampling PROVE SampleIsASelection
  BY DEF ReadTypes
<1>1. doing = "bucket" /\ Len(sampled) <= by - 2 => Bucket(Len(sampled) - 1) # <<>>
  BY BucketFacts
<1>2. ASSUME doing = "reply", by > 2, items # <<>>
      PROVE  /\ Len(sampled) = Min({by, Len(items)})
             /\ sampled[1] = items[1] /\ Last(sampled) = Last(items)
             /\ \A i, j \in DOMAIN sampled : i < j =>
                  \E m, n \in DOMAIN items : m < n /\ items[m] = sampled[i] /\ items[n] = sampled[j]
  <2> DEFINE a == Len(items)
             b == Len(sampled)
  <2>1. /\ sampled \in Seq(Reading) /\ items \in Seq(Reading) /\ by \in Nat /\ a \in Nat \ {0}
        /\ b = IF by <= a THEN by ELSE a
    BY <1>2 DEF Sampling, RequestTypes
  <2>2. PICK pos : Picks(pos, sampled, items) /\ pos[b] = a
    BY <1>2 DEF Sampling
  <2>3. Len(sampled) = Min({by, Len(items)})
    <3>1. \E x \in {by, a} : \A y \in {by, a} : x <= y
      BY <2>1
    <3>2. Min({by, a}) \in {by, a} /\ Min({by, a}) <= by /\ Min({by, a}) <= a
      BY <3>1 DEF Min
    <3> QED
      BY <2>1, <3>2
  <2>4. 1 \in 1..b /\ b \in 1..b /\ DOMAIN sampled = 1..b /\ DOMAIN items = 1..a
    BY <1>2, <2>1
  <2>5. /\ pos \in [1..b -> 1..a] /\ pos[1] = 1
        /\ \A i \in 1..b : sampled[i] = items[pos[i]]
        /\ \A i, j \in 1..b : i < j => pos[i] < pos[j]
    BY <2>2 DEF Picks
  <2>6. sampled[1] = items[1] /\ Last(sampled) = Last(items)
    BY <2>2, <2>4, <2>5 DEF Last
  <2>7. \A i, j \in DOMAIN sampled : i < j =>
          \E m, n \in DOMAIN items : m < n /\ items[m] = sampled[i] /\ items[n] = sampled[j]
    <3>1. ASSUME NEW i \in 1..b, NEW j \in 1..b, i < j
          PROVE  \E m, n \in 1..a : m < n /\ items[m] = sampled[i] /\ items[n] = sampled[j]
      <4>1. pos[i] \in 1..a /\ pos[j] \in 1..a /\ pos[i] < pos[j]
        BY <2>5, <3>1
      <4> QED
        BY <2>5, <4>1
    <3> DEFINE A == DOMAIN sampled
               B == DOMAIN items
    <3>2. A = 1..b /\ B = 1..a
      BY <2>4
    <3> HIDE DEF a, b, A, B
    <3>3. \A i, j \in A : i < j =>
            \E m, n \in B : m < n /\ items[m] = sampled[i] /\ items[n] = sampled[j]
      BY <3>1, <3>2
    <3> QED
      BY <3>3 DEF A, B
  <2> QED
    BY <2>3, <2>6, <2>7
<1> QED
  BY <1>1, <1>2 DEF SampleIsASelection

\* Downsampling keeps the first and the last reading, the order, and as many
\* readings as were asked for, and no bucket is empty, for lists and thresholds
\* of any length, whichever way the floats of the buckets' ends fall. (lttb)
THEOREM SamplesHold == ReadSpec => []SampleIsASelection
<1>1. ReadInit => Sampling
  BY SamplingInit
<1>2. ReadTypes /\ Sampling /\ [ReadNext]_readVars => Sampling'
  BY SamplingStep
<1>3. ReadTypes /\ Sampling => SampleIsASelection
  BY SamplingMeans
<1> QED
  BY <1>1, <1>2, <1>3, ReadTypesHold, PTL DEF ReadSpec
-----------------------------------------------------------------------------
(***************************************************************************)
(* The walk. Places are counted in ids, which a change of a value keeps.   *)
(***************************************************************************)
Above(t) == Ids({q \in rows : q.time > t})
Rank(t) == Cardinality(Above(t))
IdsOf(list) == {list[i].id : i \in DOMAIN list}
Answering == {"least", "greatest", "mean", "reply"}

LEMMA DistinctIds ==
  ASSUME NEW S, IsFiniteSet(S), \A r, q \in S : r.id = q.id => r = q
  PROVE  IsFiniteSet(Ids(S)) /\ Cardinality(Ids(S)) = Cardinality(S) /\ Cardinality(S) \in Nat
<1> DEFINE f == [r \in S |-> r.id]
<1>1. Cardinality(S) \in Nat
  BY FS_CardinalityType
<1>3. f \in Bijection(S, Ids(S))
  <2>1. f \in [S -> Ids(S)] /\ \A i \in Ids(S) : \E r \in S : f[r] = i
    BY DEF Ids
  <2>2. \A r, q \in S : f[r] = f[q] => r = q
    OBVIOUS
  <2> HIDE DEF f
  <2> QED
    BY <2>1, <2>2 DEF Bijection, Injection, Surjection, IsInjective
<1>4. \E g : g \in Bijection(S, Ids(S))
  BY <1>3
<1> HIDE DEF f
<1> QED
  BY <1>1, <1>3, FS_Surjection, FS_Bijection DEF ExistsBijection, Bijection

LEMMA IdsCount ==
  ASSUME RowTypes, NEW S \in SUBSET rows
  PROVE  IsFiniteSet(Ids(S)) /\ Cardinality(Ids(S)) = Cardinality(S) /\ Cardinality(S) \in Nat
<1>1. IsFiniteSet(S)
  BY FS_Subset DEF RowTypes
<1>2. \A r, q \in S : r.id = q.id => r = q
  BY DEF RowTypes
<1> QED
  BY <1>1, <1>2, DistinctIds

\* Without ties the order is that of the times.
LEMMA PlaceIsRank ==
  ASSUME RowTypes, ~Tied(rows), NEW upwards \in BOOLEAN, NEW r \in rows
  PROVE  Place(r, upwards) = Rank(r.time)
<1>1. {q \in rows : Before(q, r, upwards)} = {q \in rows : q.time > r.time}
  <2>1. \A q \in rows : q.time = r.time => q = r
    BY DEF Tied
  <2>2. r.id \in Nat /\ r.time \in Nat
    BY DEF RowTypes, Reading
  <2>3. ASSUME NEW q \in rows PROVE Before(q, r, upwards) <=> q.time > r.time
    <3>1. q.time = r.time => ~Before(q, r, upwards)
      BY <2>1, <2>2 DEF Before
    <3>2. q.time \in Nat
      BY DEF RowTypes, Reading
    <3> QED
      BY <2>2, <3>1, <3>2 DEF Before
  <2> QED
    BY <2>3
<1> DEFINE S == {q \in rows : q.time > r.time}
<1>2. Cardinality(Ids(S)) = Cardinality(S)
  <2>1. S \in SUBSET rows
    OBVIOUS
  <2> HIDE DEF S
  <2> QED
    BY <2>1, IdsCount
<1> QED
  BY <1>1, <1>2 DEF Place, Rank, Above

LEMMA RankFacts ==
  ASSUME RowTypes, NEW r \in rows
  PROVE  Rank(r.time) \in Nat /\ Rank(r.time) < Cardinality(Ids(rows))
         /\ Cardinality(Ids(rows)) \in Nat
<1> DEFINE A == Above(r.time)
           B == Ids(rows)
<1>1. IsFiniteSet(B) /\ Cardinality(B) \in Nat
  BY IdsCount
<1>2. A \subseteq B /\ r.id \in B
  BY DEF Above, Ids
<1>3. r.id \notin A
  <2>1. \A q \in rows : q.id = r.id => q = r
    BY DEF RowTypes
  <2>2. r.time \in Nat
    BY DEF RowTypes, Reading
  <2> QED
    BY <2>1, <2>2 DEF Above, Ids
<1> HIDE DEF A, B
<1>4. IsFiniteSet(A) /\ Cardinality(A) \in Nat /\ Cardinality(A) < Cardinality(B)
  BY <1>1, <1>2, <1>3, FS_Subset, FS_CardinalityType
<1> QED
  BY <1>1, <1>4 DEF A, B, Rank

KeptPlace == {"moved", "tie"} \intersect upset = {} /\ by <= 2

SteadyWalk ==
  KeptPlace =>
    /\ doing # "idle" => steady \subseteq Ids(rows)
    /\ doing \in {"count", "page"} =>
         \A r \in rows : r.id \in steady /\ Rank(r.time) < (page - 1) * limit
                           => r.id \in Range(walked)
    /\ doing = "page" /\ "late" \notin upset => Cardinality(Ids(rows)) <= total
    /\ doing \in Answering =>
         /\ \A r \in rows : r.id \in steady /\ Rank(r.time) < page * limit
                              => r.id \in Range(walked) \union IdsOf(items)
         /\ page >= Pages /\ "late" \notin upset
              => steady \subseteq Range(walked) \union IdsOf(items)
    /\ doing = "done" /\ kind = "list" /\ "late" \notin upset => steady \subseteq Range(walked)

LEMMA PagesSuffice ==
  ASSUME RequestTypes, page >= Pages
  PROVE  total < page * limit
<1> DEFINE q == total \div limit
           r == total % limit
<1>1. total \in Nat /\ limit \in Nat \ {0} /\ page \in Nat
  BY DEF RequestTypes
<1>2. q \in Nat /\ r \in Nat /\ r < limit /\ total = limit * q + r
  BY <1>1, Quotients
<1>3. page >= q + 1
  BY DEF Pages
<1> HIDE DEF q, r
<1>4. limit * (q + 1) <= limit * page
  BY <1>1, <1>2, <1>3, Products
<1>5. limit * (q + 1) = limit * q + limit /\ limit * page = page * limit /\ limit * q \in Nat
  BY <1>1, <1>2
<1> DEFINE x == limit * q
           y == page * limit
<1>6. x \in Nat /\ y \in Nat /\ total = x + r /\ x + limit <= y
  BY <1>1, <1>2, <1>4, <1>5
<1> HIDE DEF x, y
<1>7. total < y
  BY <1>1, <1>2, <1>6
<1> QED
  BY <1>7 DEF y

\* The ids that a page adds to the walk.
LEMMA RespondFacts ==
  ASSUME RequestTypes, Respond
  PROVE  LET n == Len(walked) IN
         /\ Range(walked') = Range(walked) \union IdsOf(items)
         /\ n \in Nat /\ Len(walked') = n + Len(items) /\ Len(items) \in Nat
         /\ walked' \in Seq(Nat)
         /\ \A i \in 1..n : walked'[i] = walked[i]
         /\ \A i \in 1..Len(items) : walked'[n + i] = items[i].id
<1> DEFINE listed == [i \in DOMAIN items |-> items[i].id]
           n == Len(walked)
           m == Len(items)
<1>1. items \in Seq(Reading) /\ walked \in Seq(Nat) /\ n \in Nat /\ m \in Nat
  BY DEF RequestTypes
<1>2. walked' = walked \o listed
  BY DEF Respond
<1>3. DOMAIN items = 1..m /\ \A i \in 1..m : items[i] \in Reading
  BY <1>1
<1>4. listed \in Seq(Nat) /\ Len(listed) = m /\ \A i \in 1..m : listed[i] = items[i].id
  <2>1. \A i \in 1..m : items[i].id \in Nat
    BY <1>3 DEF Reading
  <2> QED
    BY <1>1, <1>3, <2>1
<1> HIDE DEF listed
<1>5. /\ walked' \in Seq(Nat) /\ Len(walked') = n + m
      /\ \A i \in 1..n : walked'[i] = walked[i]
      /\ \A i \in 1..m : walked'[n + i] = listed[i]
  <2>1. walked' \in Seq(Nat) /\ Len(walked') = n + m
    <3>1. walked \in Seq(Nat) /\ listed \in Seq(Nat)
      BY <1>1, <1>4
    <3>2. walked \o listed \in Seq(Nat) /\ Len(walked \o listed) = n + Len(listed)
      BY <3>1
    <3> QED
      BY <1>2, <1>4, <3>2
  <2>2. ASSUME NEW i \in 1..n PROVE walked'[i] = walked[i]
    BY <1>1, <1>2, <1>4
  <2>3. ASSUME NEW i \in 1..m PROVE walked'[n + i] = listed[i]
    BY <1>1, <1>2, <1>4
  <2> HIDE DEF n, m
  <2> QED
    BY <2>1, <2>2, <2>3
<1>6. DOMAIN walked' = 1..(n + m) /\ DOMAIN walked = 1..n
  BY <1>1, <1>5
<1>7. \A i \in 1..(n + m) : i \in 1..n \/ (i - n \in 1..m /\ n + (i - n) = i)
  <2> HIDE DEF n, m
  <2> QED
    BY <1>1
<1>8. \A i \in 1..m : n + i \in 1..(n + m)
  <2> HIDE DEF n, m
  <2> QED
    BY <1>1
<1>9. 1..n \subseteq 1..(n + m)
  <2> HIDE DEF n, m
  <2> QED
    BY <1>1
<1> HIDE DEF n, m
<1>10. Range(walked') \subseteq Range(walked) \union IdsOf(items)
  <2> SUFFICES ASSUME NEW i \in 1..(n + m)
               PROVE  walked'[i] \in Range(walked) \union IdsOf(items)
    BY <1>6 DEF Range
  <2>1. CASE i \in 1..n
    BY <1>5, <1>6, <2>1 DEF Range
  <2>2. CASE i \notin 1..n
    <3> DEFINE j == i - n
    <3>1. j \in 1..m /\ n + j = i
      BY <1>7, <2>2
    <3> HIDE DEF j
    <3> QED
      BY <1>3, <1>4, <1>5, <3>1 DEF IdsOf
  <2> QED
    BY <2>1, <2>2
<1>11. Range(walked) \subseteq Range(walked')
  BY <1>5, <1>6, <1>9 DEF Range
<1>12. IdsOf(items) \subseteq Range(walked')
  <2> SUFFICES ASSUME NEW i \in 1..m PROVE items[i].id \in Range(walked')
    BY <1>3 DEF IdsOf
  <2>1. walked'[n + i] = items[i].id /\ n + i \in 1..(n + m)
    BY <1>4, <1>5, <1>8
  <2> QED
    BY <1>6, <2>1 DEF Range
<1> QED
  BY <1>1, <1>4, <1>5, <1>10, <1>11, <1>12 DEF n, m

LEMMA SteadyInit == ReadInit => SteadyWalk
BY DEF ReadInit, SteadyWalk, Answering

LEMMA SteadyFetch == ASSUME RowTypes, RequestTypes, HistoryTypes, SteadyWalk, FetchPage PROVE SteadyWalk'
<1> SUFFICES ASSUME KeptPlace' PROVE SteadyWalk'
  BY DEF SteadyWalk
<1>1. /\ doing = "page" /\ doing' = "least"
      /\ UNCHANGED <<rows, kind, by, limit, page, total, walked, steady, upset>>
  BY DEF FetchPage
<1>2. PICK upwards \in BOOLEAN : items' = PageOf(Ordered(upwards))
  BY DEF FetchPage
<1>3. KeptPlace /\ ~Tied(rows)
  BY <1>1 DEF KeptPlace, HistoryTypes
<1>4. /\ steady \subseteq Ids(rows)
      /\ \A r \in rows : r.id \in steady /\ Rank(r.time) < (page - 1) * limit
                           => r.id \in Range(walked)
      /\ "late" \notin upset => Cardinality(Ids(rows)) <= total
  BY <1>1, <1>3 DEF SteadyWalk
<1> DEFINE from == (page - 1) * limit
           to == page * limit
<1>5. /\ from \in Nat /\ to \in Nat /\ to = from + limit
      /\ \A r \in rows : Place(r, upwards) >= from /\ Place(r, upwards) < from + limit
                           => \E i \in DOMAIN items' : items'[i] = r
  BY <1>2, PageFacts
<1> HIDE DEF from, to
<1>6. ASSUME NEW r \in rows, r.id \in steady, Rank(r.time) < to
      PROVE  r.id \in Range(walked) \union IdsOf(items')
  <2>1. Place(r, upwards) = Rank(r.time) /\ Rank(r.time) \in Nat
    BY <1>3, PlaceIsRank, RankFacts
  <2>2. CASE Rank(r.time) < from
    BY <1>4, <1>6, <2>2 DEF from
  <2>3. CASE ~(Rank(r.time) < from)
    <3>1. Place(r, upwards) >= from /\ Place(r, upwards) < from + limit
      BY <1>5, <1>6, <2>1, <2>3
    <3>2. PICK i \in DOMAIN items' : items'[i] = r
      BY <1>5, <3>1
    <3> QED
      BY <3>2 DEF IdsOf
  <2> QED
    BY <2>2, <2>3
<1>7. ASSUME page >= Pages, "late" \notin upset
      PROVE  steady \subseteq Range(walked) \union IdsOf(items')
  <2>1. total < to /\ total \in Nat
    BY <1>7, PagesSuffice DEF to, RequestTypes
  <2>2. Cardinality(Ids(rows)) <= total
    BY <1>4, <1>7
  <2>3. ASSUME NEW i \in steady PROVE i \in Range(walked) \union IdsOf(items')
    <3>1. PICK r \in rows : i = r.id
      BY <1>4, <2>3 DEF Ids
    <3>2. Rank(r.time) \in Nat /\ Rank(r.time) < Cardinality(Ids(rows)) /\ Cardinality(Ids(rows)) \in Nat
      BY RankFacts
    <3>3. Rank(r.time) < to
      BY <1>5, <2>1, <2>2, <3>2
    <3> QED
      BY <1>6, <2>3, <3>1, <3>3
  <2> QED
    BY <2>3
<1>8. /\ Ids(rows)' = Ids(rows) /\ Pages' = Pages
      /\ \A r \in rows : Rank(r.time)' = Rank(r.time)
  BY <1>1 DEF Ids, Pages, Rank, Above
<1>9. \A r \in rows' : r.id \in steady' /\ Cardinality(Above(r.time)') < page' * limit'
        => r.id \in Range(walked') \union IdsOf(items')
  BY <1>1, <1>6, <1>8 DEF to, Rank
<1>10. page' >= Pages' /\ "late" \notin upset' => steady' \subseteq Range(walked') \union IdsOf(items')
  BY <1>1, <1>7, <1>8
<1> QED
  BY <1>1, <1>4, <1>8, <1>9, <1>10 DEF SteadyWalk, Answering, Rank

LEMMA SteadyAsk ==
  ASSUME RowTypes, RequestTypes, NEW k, NEW n, NEW l, l \in Nat, k \in {"list", "intervals"},
         Ask(k, n, l)
  PROVE  SteadyWalk'
<1>1. /\ doing' \in {"count", "intervals"} /\ steady' = Ids(rows) /\ rows' = rows /\ page' = 1
      /\ limit' \in Nat
  BY DEF Ask, RequestTypes
<1>2. Ids(rows)' = Ids(rows) /\ (page' - 1) * limit' = 0
  <2>1. \A x \in Nat : (1 - 1) * x = 0
    OBVIOUS
  <2> QED
    BY <1>1, <2>1 DEF Ids
<1>3. ASSUME NEW r \in rows' PROVE ~(Cardinality(Above(r.time)') < 0)
  <2>1. r \in rows /\ Rank(r.time) \in Nat
    BY <1>1, <1>3, RankFacts
  <2>2. Above(r.time)' = Above(r.time)
    BY <1>1 DEF Above, Ids
  <2> QED
    BY <2>1, <2>2 DEF Rank
<1> QED
  BY <1>1, <1>2, <1>3 DEF SteadyWalk, Answering, Rank

\* What is the same while neither the rows nor the request change.
LEMMA SameRanks ==
  ASSUME UNCHANGED rows
  PROVE  /\ Ids(rows)' = Ids(rows) /\ Cardinality(Ids(rows))' = Cardinality(Ids(rows))
         /\ \A r : Rank(r.time)' = Rank(r.time)
BY DEF Ids, Rank, Above

LEMMA SteadyCount == ASSUME RowTypes, SteadyWalk, Count PROVE SteadyWalk'
<1> SUFFICES ASSUME KeptPlace' PROVE SteadyWalk'
  BY DEF SteadyWalk
<1>1. /\ doing = "count" /\ doing' = "page" /\ total' = Cardinality(rows)
      /\ UNCHANGED <<rows, by, limit, page, walked, steady>> /\ upset' = upset \ {"late"}
  BY DEF Count
<1>2. KeptPlace
  BY <1>1 DEF KeptPlace
<1>3. Cardinality(Ids(rows)) = total' /\ total' \in Nat
  BY <1>1, IdsCount
<1>4. /\ steady \subseteq Ids(rows)
      /\ \A r \in rows : r.id \in steady /\ Rank(r.time) < (page - 1) * limit
                           => r.id \in Range(walked)
  BY <1>1, <1>2 DEF SteadyWalk
<1>5. /\ Ids(rows)' = Ids(rows) /\ Cardinality(Ids(rows)') = Cardinality(Ids(rows))
      /\ \A r \in rows : Rank(r.time)' = Rank(r.time)
  BY <1>1, SameRanks
<1>6. \A r \in rows' : r.id \in steady' /\ Rank(r.time)' < (page' - 1) * limit'
                         => r.id \in Range(walked')
  BY <1>1, <1>4, <1>5
<1>7. Cardinality(Ids(rows)') <= total'
  BY <1>3, <1>5
<1> QED
  BY <1>1, <1>4, <1>5, <1>6, <1>7 DEF SteadyWalk, Answering

LEMMA SteadyRespond == ASSUME RequestTypes, SteadyWalk, Respond PROVE SteadyWalk'
<1> SUFFICES ASSUME KeptPlace' PROVE SteadyWalk'
  BY DEF SteadyWalk
<1>1. /\ doing = "reply" /\ UNCHANGED <<rows, kind, by, limit, total, items, steady, upset>>
      /\ \/ page < Pages /\ by <= 2 /\ page' = page + 1 /\ doing' = "count"
         \/ ~(page < Pages /\ by <= 2) /\ doing' = "done"
  BY DEF Respond
<1>2. KeptPlace /\ by <= 2
  BY <1>1 DEF KeptPlace
<1>3. /\ steady \subseteq Ids(rows)
      /\ \A r \in rows : r.id \in steady /\ Rank(r.time) < page * limit
                           => r.id \in Range(walked) \union IdsOf(items)
      /\ page >= Pages /\ "late" \notin upset => steady \subseteq Range(walked) \union IdsOf(items)
  BY <1>1, <1>2 DEF SteadyWalk, Answering
<1>4. Range(walked') = Range(walked) \union IdsOf(items)
  BY RespondFacts
<1>5. /\ Ids(rows)' = Ids(rows)
      /\ \A r \in rows : Rank(r.time)' = Rank(r.time)
  BY <1>1, SameRanks
<1>6. CASE doing' = "count"
  <2>1. page' - 1 = page
    BY <1>1, <1>6 DEF RequestTypes
  <2>2. \A r \in rows' : r.id \in steady' /\ Rank(r.time)' < (page' - 1) * limit'
                           => r.id \in Range(walked')
    BY <1>1, <1>3, <1>4, <1>5, <2>1
  <2> QED
    BY <1>1, <1>3, <1>5, <1>6, <2>2 DEF SteadyWalk, Answering
<1>7. CASE doing' = "done"
  <2>1. page >= Pages
    <3>1. page \in Nat /\ total \in Nat /\ limit \in Nat \ {0}
      BY DEF RequestTypes
    <3>2. Pages \in Nat
      BY <3>1, Quotients DEF Pages
    <3> QED
      BY <1>1, <1>2, <1>7, <3>1, <3>2
  <2>2. "late" \notin upset' => steady' \subseteq Range(walked')
    BY <1>1, <1>3, <1>4, <2>1
  <2> QED
    BY <1>1, <1>3, <1>5, <1>7, <2>2 DEF SteadyWalk, Answering
<1> QED
  BY <1>1, <1>6, <1>7

\* Steps that change nothing the walk is about.
LEMMA SteadySame ==
  ASSUME RequestTypes, SteadyWalk,
         UNCHANGED <<rows, kind, by, limit, page, total, items, walked, steady, upset>>,
         \/ doing' = doing
         \/ doing \in Answering /\ doing' \in Answering
         \/ doing # "idle" /\ doing' \in {"lttb", "bucket", "intervals"}
         \/ by > 2
         \/ doing # "idle" /\ doing' = "done" /\ kind # "list"
  PROVE  SteadyWalk'
<1> SUFFICES ASSUME KeptPlace' PROVE SteadyWalk'
  BY DEF SteadyWalk
<1>1. KeptPlace /\ ~(by > 2) /\ Pages' = Pages
  BY DEF KeptPlace, Pages, RequestTypes
<1>2. /\ Ids(rows)' = Ids(rows) /\ Cardinality(Ids(rows)') = Cardinality(Ids(rows))
      /\ \A r \in rows : Rank(r.time)' = Rank(r.time)
  BY SameRanks
<1>3. doing' # "idle" => doing # "idle"
  BY <1>1 DEF Answering
<1> DEFINE A == doing # "idle" => steady \subseteq Ids(rows)
           B(s) == s \in {"count", "page"} =>
             \A r \in rows : r.id \in steady /\ Rank(r.time) < (page - 1) * limit
                               => r.id \in Range(walked)
           C(s) == s = "page" /\ "late" \notin upset => Cardinality(Ids(rows)) <= total
           D(s) == s \in Answering =>
             /\ \A r \in rows : r.id \in steady /\ Rank(r.time) < page * limit
                                  => r.id \in Range(walked) \union IdsOf(items)
             /\ page >= Pages /\ "late" \notin upset
                  => steady \subseteq Range(walked) \union IdsOf(items)
           E(s) == s = "done" /\ kind = "list" /\ "late" \notin upset => steady \subseteq Range(walked)
<1>4. A /\ B(doing) /\ C(doing) /\ D(doing) /\ E(doing)
  BY <1>1 DEF SteadyWalk
<1>5. B(doing') /\ C(doing') /\ D(doing') /\ E(doing')
  <2> HIDE DEF Answering
  <2>1. \A s \in Answering : s \notin {"count", "page", "done", "idle", "lttb", "bucket", "intervals"}
    BY DEF Answering
  <2>2. CASE doing' = doing
    BY <1>4, <2>2
  <2>3. CASE doing \in Answering /\ doing' \in Answering
    BY <1>4, <2>1, <2>3
  <2>4. CASE doing' \in {"lttb", "bucket", "intervals"}
    BY <2>1, <2>4
  <2>5. CASE doing' = "done" /\ kind # "list"
    BY <2>1, <2>5
  <2> QED
    BY <1>1, <2>2, <2>3, <2>4, <2>5
<1>6. doing' # "idle" => steady' \subseteq Ids(rows)'
  BY <1>2, <1>3, <1>4
<1>7. doing' \in {"count", "page"} =>
        \A r \in rows' : r.id \in steady' /\ Rank(r.time)' < (page' - 1) * limit'
                           => r.id \in Range(walked')
  BY <1>2, <1>5
<1>8. doing' = "page" /\ "late" \notin upset' => Cardinality(Ids(rows)') <= total'
  BY <1>2, <1>5
<1>9. doing' \in Answering =>
        /\ \A r \in rows' : r.id \in steady' /\ Rank(r.time)' < page' * limit'
                              => r.id \in Range(walked') \union IdsOf(items')
        /\ page' >= Pages' /\ "late" \notin upset'
             => steady' \subseteq Range(walked') \union IdsOf(items')
  BY <1>1, <1>2, <1>5
<1>10. doing' = "done" /\ kind' = "list" /\ "late" \notin upset' => steady' \subseteq Range(walked')
  BY <1>5
<1> HIDE DEF A, B, C, D, E
<1> QED
  BY <1>6, <1>7, <1>8, <1>9, <1>10 DEF SteadyWalk

\* A write that takes no reading away may push readings down, never up.
LEMMA SteadyWrite ==
  ASSUME RowTypes, RequestTypes, SteadyWalk, NEW kept, NEW added, Writes(kept, added),
         /\ Ids(rows) \subseteq Ids(rows)'
         /\ ~added => Ids(rows)' = Ids(rows)
         /\ \A t \in Nat : Rank(t) \in Nat /\ Rank(t)' \in Nat /\ Rank(t) <= Rank(t)'
         /\ \A q \in rows' : q.id \in steady => \E r \in rows : r.id = q.id /\ r.time = q.time
  PROVE  SteadyWalk'
<1> SUFFICES ASSUME KeptPlace' PROVE SteadyWalk'
  BY DEF SteadyWalk
<1>1. /\ doing \in Paging /\ doing' = doing /\ steady' \subseteq steady
      /\ UNCHANGED <<kind, by, limit, page, total, items, walked>>
      /\ upset \subseteq upset' /\ (doing = "page" /\ added => "late" \in upset')
  BY DEF Writes, Paging
<1>2. KeptPlace /\ Pages' = Pages
  BY <1>1 DEF KeptPlace, Pages
<1>3. doing # "idle" /\ doing # "done"
  BY <1>1 DEF Paging
<1>4. page \in Nat /\ limit \in Nat /\ (page - 1) * limit \in Nat /\ page * limit \in Nat
  BY DEF RequestTypes
<1>5. ASSUME NEW q \in rows', q.id \in steady'
      PROVE  \E r \in rows : /\ r.id = q.id /\ r.id \in steady
                             /\ \A m \in Nat : Rank(q.time)' < m => Rank(r.time) < m
  <2>1. PICK r \in rows : r.id = q.id /\ r.time = q.time
    BY <1>1, <1>5
  <2>2. r.time \in Nat
    BY DEF RowTypes, Reading
  <2>3. Rank(r.time) \in Nat /\ Rank(q.time)' \in Nat /\ Rank(r.time) <= Rank(q.time)'
    <3> DEFINE t == r.time
    <3>1. t \in Nat => Rank(t) \in Nat /\ Rank(t)' \in Nat /\ Rank(t) <= Rank(t)'
      OBVIOUS
    <3> QED
      BY <2>1, <2>2, <3>1
  <2>4. \A m \in Nat : Rank(q.time)' < m => Rank(r.time) < m
    BY <2>3
  <2> QED
    BY <1>1, <1>5, <2>1, <2>4
<1>6. steady' \subseteq Ids(rows)'
  BY <1>1, <1>2, <1>3 DEF SteadyWalk
<1>7. doing' \in {"count", "page"} =>
        \A r \in rows' : r.id \in steady' /\ Rank(r.time)' < (page' - 1) * limit'
                           => r.id \in Range(walked')
  <2>1. doing \in {"count", "page"} =>
          \A r \in rows : r.id \in steady /\ Rank(r.time) < (page - 1) * limit
                            => r.id \in Range(walked)
    BY <1>2 DEF SteadyWalk
  <2> DEFINE m == (page - 1) * limit
  <2>2. m \in Nat /\ (page' - 1) * limit' = m
    BY <1>1, <1>4
  <2> HIDE DEF m
  <2>3. doing \in {"count", "page"} =>
          \A r \in rows : r.id \in steady /\ Rank(r.time) < m => r.id \in Range(walked)
    BY <2>1 DEF m
  <2> QED
    BY <1>1, <1>5, <2>2, <2>3
<1>8. doing' = "page" /\ "late" \notin upset' => Cardinality(Ids(rows)') <= total'
  <2> SUFFICES ASSUME doing' = "page", "late" \notin upset' PROVE Cardinality(Ids(rows)') <= total'
    OBVIOUS
  <2>1. ~added /\ "late" \notin upset /\ doing = "page"
    BY <1>1
  <2>2. Cardinality(Ids(rows)) <= total
    BY <1>2, <2>1 DEF SteadyWalk
  <2> QED
    BY <1>1, <2>1, <2>2
<1>9. doing' \in Answering =>
        /\ \A r \in rows' : r.id \in steady' /\ Rank(r.time)' < page' * limit'
                              => r.id \in Range(walked') \union IdsOf(items')
        /\ page' >= Pages' /\ "late" \notin upset'
             => steady' \subseteq Range(walked') \union IdsOf(items')
  <2> SUFFICES ASSUME doing \in Answering
               PROVE  /\ \A r \in rows' : r.id \in steady' /\ Rank(r.time)' < page' * limit'
                              => r.id \in Range(walked') \union IdsOf(items')
                      /\ page' >= Pages' /\ "late" \notin upset'
                           => steady' \subseteq Range(walked') \union IdsOf(items')
    BY <1>1
  <2> DEFINE m == page * limit
             listed == Range(walked) \union IdsOf(items)
  <2>1. m \in Nat /\ page' * limit' = m /\ Range(walked') \union IdsOf(items') = listed
    BY <1>1, <1>4
  <2>2. /\ \A r \in rows : r.id \in steady /\ Rank(r.time) < m => r.id \in listed
        /\ page >= Pages /\ "late" \notin upset => steady \subseteq listed
    BY <1>2 DEF SteadyWalk
  <2> HIDE DEF m, listed, Answering
  <2>3. \A r \in rows' : r.id \in steady' /\ Rank(r.time)' < m => r.id \in listed
    BY <1>5, <2>1, <2>2
  <2>4. page' >= Pages' /\ "late" \notin upset' => steady' \subseteq listed
    BY <1>1, <1>2, <2>2
  <2> QED
    BY <2>1, <2>3, <2>4
<1> QED
  BY <1>1, <1>3, <1>6, <1>7, <1>8, <1>9 DEF SteadyWalk

LEMMA AboveFacts ==
  ASSUME RowTypes, NEW t
  PROVE  IsFiniteSet(Above(t)) /\ Rank(t) \in Nat
<1> DEFINE S == {q \in rows : q.time > t}
<1>1. S \in SUBSET rows
  OBVIOUS
<1> HIDE DEF S
<1>2. IsFiniteSet(Ids(S)) /\ Cardinality(Ids(S)) \in Nat
  BY <1>1, IdsCount
<1> QED
  BY <1>2 DEF S, Above, Rank

LEMMA SteadyCreate ==
  ASSUME RowTypes, RequestTypes, HistoryTypes, SteadyWalk, NEW t \in Time, NEW v \in Value,
         create_measurement(t, v)
  PROVE  SteadyWalk'
<1> DEFINE new == [id |-> MaxRows + writes + 1, time |-> t, value |-> v]
<1>1. rows' = rows \union {new} /\ Writes(Ids(rows), TRUE) /\ doing # "idle"
  BY DEF create_measurement, Writes
<1>2. new.id = MaxRows + writes + 1 /\ MaxRows \in Nat /\ writes \in Nat
  BY CountsAssumption DEF RowTypes
<1> HIDE DEF new
<1>3. Ids(rows) \subseteq Ids(rows)'
  BY <1>1 DEF Ids
<1>4. ASSUME NEW x \in Nat PROVE Rank(x) \in Nat /\ Rank(x)' \in Nat /\ Rank(x) <= Rank(x)'
  <2>1. Above(x)' = Above(x) \/ Above(x)' = Above(x) \union {new.id}
    BY <1>1 DEF Above, Ids
  <2>2. IsFiniteSet(Above(x)) /\ Cardinality(Above(x)) \in Nat
    BY AboveFacts DEF Rank
  <2> DEFINE A == Above(x)
             B == Above(x)'
  <2>3. (B = A \/ B = A \union {new.id}) /\ IsFiniteSet(A) /\ Cardinality(A) \in Nat
    BY <2>1, <2>2
  <2> HIDE DEF A, B
  <2>4. Cardinality(B) \in Nat /\ Cardinality(A) <= Cardinality(B)
    BY <2>3, FS_AddElement
  <2> QED
    BY <2>3, <2>4 DEF A, B, Rank
<1>5. \A q \in rows' : q.id \in steady => \E r \in rows : r.id = q.id /\ r.time = q.time
  <2>1. new.id \notin steady
    <3>1. \A i \in steady : i \in Nat /\ i <= MaxRows + writes
      BY <1>1 DEF HistoryTypes
    <3> QED
      BY <1>2, <3>1
  <2> QED
    BY <1>1, <2>1
<1> QED
  BY <1>1, <1>3, <1>4, <1>5, SteadyWrite

LEMMA SteadyUpdate ==
  ASSUME RowTypes, RequestTypes, SteadyWalk, NEW t \in Time, NEW v \in Value, NEW r \in rows,
         update_measurement(r, t, v)
  PROVE  SteadyWalk'
<1> DEFINE new == [r EXCEPT !.time = t, !.value = v]
           kept == IF t = r.time THEN Ids(rows) ELSE Ids(rows \ {r})
<1>1. rows' = (rows \ {r}) \union {new} /\ Writes(kept, FALSE)
  BY DEF update_measurement
<1>2. new.id = r.id /\ new.time = t
  BY DEF RowTypes, Reading
<1> HIDE DEF new
<1>3. CASE t = r.time
  <2>1. ASSUME NEW x \in Nat PROVE Above(x)' = Above(x)
    BY <1>1, <1>2, <1>3 DEF Above, Ids
  <2>2. Ids(rows)' = Ids(rows)
    BY <1>1, <1>2 DEF Ids
  <2>3. \A q \in rows' : \E p \in rows : p.id = q.id /\ p.time = q.time
    BY <1>1, <1>2, <1>3
  <2>4. \A x \in Nat : Rank(x) \in Nat /\ Rank(x)' \in Nat /\ Rank(x) <= Rank(x)'
    <3> SUFFICES ASSUME NEW x \in Nat PROVE Rank(x) \in Nat /\ Rank(x)' = Rank(x)
      OBVIOUS
    <3> QED
      BY <2>1, AboveFacts DEF Rank
  <2> HIDE DEF kept
  <2> QED
    BY <1>1, <2>2, <2>3, <2>4, SteadyWrite
<1>4. CASE t # r.time
  <2>1. kept # Ids(rows)
    <3>1. r.id \in Ids(rows)
      BY DEF Ids
    <3>2. r.id \notin Ids(rows \ {r})
      BY DEF Ids, RowTypes
    <3> QED
      BY <1>4, <3>1, <3>2
  <2> HIDE DEF kept
  <2>2. "moved" \in upset'
    BY <1>1, <2>1 DEF Writes
  <2> QED
    BY <2>2 DEF SteadyWalk, KeptPlace
<1> QED
  BY <1>3, <1>4

LEMMA SteadyDelete == ASSUME delete_sensor_measurements PROVE SteadyWalk'
<1>1. Writes({}, FALSE) /\ Ids(rows) # {}
  BY DEF delete_sensor_measurements, Ids
<1>2. "moved" \in upset'
  BY <1>1 DEF Writes
<1> QED
  BY <1>2 DEF SteadyWalk, KeptPlace

LEMMA SteadyStep == ReadTypes /\ SteadyWalk /\ [ReadNext]_readVars => SteadyWalk'
<1> SUFFICES ASSUME RowTypes, RequestTypes, HistoryTypes, SteadyWalk, [ReadNext]_readVars
             PROVE  SteadyWalk'
  BY DEF ReadTypes
<1>1. ASSUME NEW l \in Limits, NEW n, NEW k \in {"list", "intervals"}, Ask(k, n, l)
      PROVE  SteadyWalk'
  <2>1. l \in Nat
    BY CountsAssumption
  <2> QED
    BY <1>1, <2>1, SteadyAsk
<1>2. CASE StatsMin \/ StatsMax
  BY <1>2, SteadySame DEF StatsMin, StatsMax, Answering
<1>3. CASE StatsAverage
  <2>1. doing' \in {"reply", "lttb"} /\ doing = "mean"
    BY <1>3 DEF StatsAverage
  <2> QED
    BY <1>3, <2>1, SteadySame DEF StatsAverage, Answering
<1>4. CASE LttbStart \/ LttbBucket \/ LttbEnd
  <2>1. by > 2
    BY <1>4 DEF LttbStart, LttbBucket, LttbEnd, RequestTypes
  <2> QED
    BY <1>4, <2>1, SteadySame DEF LttbStart, LttbBucket, LttbEnd
<1>5. CASE Aggregate
  BY <1>5, SteadySame DEF Aggregate, RequestTypes
<1>6. CASE UNCHANGED readVars
  BY <1>6, SteadySame
<1> QED
  BY <1>1, <1>2, <1>3, <1>4, <1>5, <1>6, SteadyCount, SteadyFetch, SteadyRespond, SteadyCreate,
     SteadyUpdate, SteadyDelete DEF ReadNext, Reads

-----------------------------------------------------------------------------
(* The walk while nothing is written. *)
Calm == {"write", "tie"} \intersect upset = {} /\ by <= 2 /\ kind = "list"

Listed(m) == \A i \in DOMAIN walked : \E r \in rows : r.id = walked[i] /\ Rank(r.time) < m

OnPage ==
  /\ \A i \in DOMAIN items : /\ items[i] \in rows
                             /\ Rank(items[i].time) >= (page - 1) * limit
                             /\ Rank(items[i].time) < page * limit
  /\ \A i, j \in DOMAIN items : items[i] = items[j] => i = j

QuietWalk ==
  Calm =>
    /\ doing # "idle" => steady = Ids(rows)
    /\ doing \in {"count", "page"} \union Answering =>
         IsInjective(walked) /\ Listed((page - 1) * limit)
    /\ doing \in Answering => OnPage
    /\ doing \in {"page", "done"} \union Answering => total = Cardinality(Ids(rows))
    /\ doing = "done" => IsInjective(walked) /\ Range(walked) \subseteq Ids(rows)

LEMMA QuietInit == ReadInit => QuietWalk
BY DEF ReadInit, QuietWalk, Calm

LEMMA QuietAsk ==
  ASSUME RequestTypes, NEW k \in {"list", "intervals"}, NEW n, NEW l, Ask(k, n, l)
  PROVE  QuietWalk'
<1>1. /\ kind' = k /\ steady' = Ids(rows) /\ rows' = rows /\ walked' = <<>>
      /\ doing' = (IF k = "list" THEN "count" ELSE "intervals")
  BY DEF Ask, RequestTypes
<1>2. Ids(rows)' = Ids(rows)
  BY <1>1 DEF Ids
<1>3. DOMAIN walked' = {}
  BY <1>1
<1>4. IsInjective(walked') /\ \A m : Listed(m)'
  BY <1>3 DEF IsInjective, Listed
<1> QED
  BY <1>1, <1>2, <1>4 DEF QuietWalk, Calm, Answering

LEMMA QuietCount == ASSUME RowTypes, QuietWalk, Count PROVE QuietWalk'
<1> SUFFICES ASSUME Calm' PROVE QuietWalk'
  BY DEF QuietWalk
<1>1. /\ doing = "count" /\ doing' = "page" /\ total' = Cardinality(rows)
      /\ UNCHANGED <<rows, by, kind, limit, page, walked, steady>> /\ upset' = upset \ {"late"}
  BY DEF Count
<1>2. Calm
  BY <1>1 DEF Calm
<1>3. Cardinality(Ids(rows)) = total'
  BY <1>1, IdsCount
<1>4. steady = Ids(rows) /\ IsInjective(walked) /\ Listed((page - 1) * limit)
  BY <1>1, <1>2 DEF QuietWalk
<1>5. Ids(rows)' = Ids(rows) /\ \A r \in rows : Rank(r.time)' = Rank(r.time)
  BY <1>1, SameRanks
<1>6. IsInjective(walked)' /\ Listed((page - 1) * limit)'
  BY <1>1, <1>4, <1>5 DEF Listed, IsInjective
<1>7. total' = Cardinality(Ids(rows)')
  BY <1>3, <1>5
<1> QED
  BY <1>1, <1>4, <1>5, <1>6, <1>7 DEF QuietWalk, Answering

LEMMA QuietFetch == ASSUME RowTypes, RequestTypes, HistoryTypes, QuietWalk, FetchPage PROVE QuietWalk'
<1> SUFFICES ASSUME Calm' PROVE QuietWalk'
  BY DEF QuietWalk
<1>1. /\ doing = "page" /\ doing' = "least"
      /\ UNCHANGED <<rows, kind, by, limit, page, total, walked, steady, upset>>
  BY DEF FetchPage
<1>2. PICK upwards \in BOOLEAN : items' = PageOf(Ordered(upwards))
  BY DEF FetchPage
<1>3. Calm /\ ~Tied(rows)
  BY <1>1 DEF Calm, HistoryTypes
<1>4. /\ steady = Ids(rows) /\ IsInjective(walked) /\ Listed((page - 1) * limit)
      /\ total = Cardinality(Ids(rows))
  BY <1>1, <1>3 DEF QuietWalk
<1> DEFINE from == (page - 1) * limit
           to == page * limit
<1>5. /\ to = from + limit
      /\ \A i \in DOMAIN items' : /\ items'[i] \in rows /\ Place(items'[i], upwards) >= from
                                  /\ Place(items'[i], upwards) < from + limit
      /\ \A i, j \in DOMAIN items' : items'[i] = items'[j] => i = j
  BY <1>2, PageFacts
<1>6. /\ Ids(rows)' = Ids(rows)
      /\ \A r \in rows : Rank(r.time)' = Rank(r.time)
  BY <1>1, SameRanks
<1>7. from' = from /\ to' = to
  BY <1>1
<1> HIDE DEF from, to
<1>8. ASSUME NEW i \in DOMAIN items'
      PROVE  /\ items'[i] \in rows /\ Rank(items'[i].time) >= from /\ Rank(items'[i].time) < to
  <2>1. /\ items'[i] \in rows /\ Place(items'[i], upwards) >= from
        /\ Place(items'[i], upwards) < to
    BY <1>5
  <2>2. Place(items'[i], upwards) = Rank(items'[i].time)
    BY <1>3, <2>1, PlaceIsRank
  <2> QED
    BY <2>1, <2>2
<1>9. OnPage'
  <2> DEFINE IdsAbove(t) == Cardinality(Ids({q \in rows : q.time > t}))
  <2>1. \A i \in DOMAIN items' : /\ items'[i] \in rows' /\ IdsAbove(items'[i].time) >= from
                                 /\ IdsAbove(items'[i].time) < to
    BY <1>1, <1>8 DEF Rank, Above
  <2>2. \A i \in DOMAIN items' :
          IdsAbove(items'[i].time) = Cardinality(Ids({q \in rows' : q.time > items'[i].time}))
    BY <1>1
  <2>3. from = (page' - 1) * limit' /\ to = page' * limit'
    BY <1>1 DEF from, to
  <2> HIDE DEF IdsAbove
  <2>4. \A i \in DOMAIN items' :
          /\ items'[i] \in rows'
          /\ Cardinality(Ids({q \in rows' : q.time > items'[i].time})) >= (page' - 1) * limit'
          /\ Cardinality(Ids({q \in rows' : q.time > items'[i].time})) < page' * limit'
    BY <2>1, <2>2, <2>3
  <2> QED
    BY <1>5, <2>4 DEF OnPage, Rank, Above
<1>10. IsInjective(walked)' /\ Listed((page - 1) * limit)'
  BY <1>1, <1>4, <1>6 DEF Listed, IsInjective
<1>11. total' = Cardinality(Ids(rows)')
  BY <1>1, <1>4, <1>6
<1> QED
  BY <1>1, <1>4, <1>6, <1>9, <1>10, <1>11 DEF QuietWalk, Answering

LEMMA QuietRespond == ASSUME RowTypes, RequestTypes, QuietWalk, Respond PROVE QuietWalk'
<1> SUFFICES ASSUME Calm' PROVE QuietWalk'
  BY DEF QuietWalk
<1>1. /\ doing = "reply" /\ UNCHANGED <<rows, kind, by, limit, total, items, steady, upset>>
      /\ \/ page' = page + 1 /\ doing' = "count"
         \/ doing' = "done"
  BY DEF Respond
<1>2. Calm
  BY <1>1 DEF Calm
<1>3. /\ steady = Ids(rows) /\ IsInjective(walked) /\ Listed((page - 1) * limit) /\ OnPage
      /\ total = Cardinality(Ids(rows))
  BY <1>1, <1>2 DEF QuietWalk, Answering
<1> DEFINE n == Len(walked)
           m == Len(items)
           from == (page - 1) * limit
           to == page * limit
<1>4. /\ n \in Nat /\ m \in Nat /\ walked' \in Seq(Nat) /\ Len(walked') = n + m
      /\ \A i \in 1..n : walked'[i] = walked[i]
      /\ \A i \in 1..m : walked'[n + i] = items[i].id
  BY RespondFacts
<1>5. DOMAIN walked' = 1..(n + m) /\ DOMAIN walked = 1..n /\ DOMAIN items = 1..m
  BY <1>4 DEF RequestTypes
<1>6. from \in Nat /\ to \in Nat /\ from <= to
  <2>1. page \in Nat \ {0} /\ limit \in Nat
    BY DEF RequestTypes
  <2>2. to = from + limit
    BY <2>1
  <2>3. from \in Nat
    BY <2>1
  <2> HIDE DEF from, to
  <2> QED
    BY <2>1, <2>2, <2>3
<1>7. ASSUME NEW i \in 1..n
      PROVE  \E r \in rows : r.id = walked'[i] /\ Rank(r.time) < from
  BY <1>3, <1>4, <1>5 DEF Listed
<1>8. ASSUME NEW i \in 1..m
      PROVE  /\ items[i] \in rows /\ walked'[n + i] = items[i].id
             /\ Rank(items[i].time) >= from /\ Rank(items[i].time) < to
             /\ Rank(items[i].time) \in Nat
  <2>1. /\ items[i] \in rows /\ Rank(items[i].time) >= from /\ Rank(items[i].time) < to
    BY <1>3, <1>5 DEF OnPage
  <2>2. Rank(items[i].time) \in Nat
    BY AboveFacts
  <2> QED
    BY <1>4, <2>1, <2>2
<1> HIDE DEF n, m, from, to
<1>9. \A i \in 1..(n + m) : i \in 1..n \/ \E j \in 1..m : i = n + j
  <2> SUFFICES ASSUME NEW i \in 1..(n + m), i \notin 1..n PROVE \E j \in 1..m : i = n + j
    OBVIOUS
  <2>1. i - n \in 1..m /\ i = n + (i - n)
    BY <1>4
  <2> QED
    BY <2>1
<1>10. \A p, q \in rows : p.id = q.id => p = q
  BY DEF RowTypes
<1>11. ASSUME NEW i \in 1..n, NEW j \in 1..m PROVE walked'[i] # walked'[n + j]
  <2>1. PICK r \in rows : r.id = walked'[i] /\ Rank(r.time) < from
    BY <1>7
  <2>2. items[j] \in rows /\ walked'[n + j] = items[j].id /\ Rank(items[j].time) >= from
    BY <1>8
  <2>3. r # items[j]
    <3>1. Rank(r.time) \in Nat
      BY AboveFacts
    <3> QED
      BY <1>6, <2>1, <2>2, <3>1
  <2> QED
    BY <1>10, <2>1, <2>2, <2>3
<1>12. IsInjective(walked')
  <2> SUFFICES ASSUME NEW i \in 1..(n + m), NEW j \in 1..(n + m), walked'[i] = walked'[j]
               PROVE  i = j
    BY <1>5 DEF IsInjective
  <2>1. CASE i \in 1..n /\ j \in 1..n
    BY <1>3, <1>4, <1>5, <2>1 DEF IsInjective
  <2>2. ASSUME NEW x \in 1..m, i = n + x, NEW y \in 1..m, j = n + y PROVE i = j
    <3>1. items[x] = items[y]
      BY <1>8, <1>10, <2>2
    <3>2. x = y
      BY <1>3, <1>5, <3>1 DEF OnPage
    <3> QED
      BY <2>2, <3>2
  <2> QED
    BY <1>9, <1>11, <2>1, <2>2
<1>13. ASSUME NEW i \in 1..(n + m)
       PROVE  \E r \in rows : r.id = walked'[i] /\ Rank(r.time) < to
  <2>1. CASE i \in 1..n
    <3>1. PICK r \in rows : r.id = walked'[i] /\ Rank(r.time) < from
      BY <1>7, <2>1
    <3>2. Rank(r.time) \in Nat
      BY AboveFacts
    <3> QED
      BY <1>6, <3>1, <3>2
  <2>2. CASE i \notin 1..n
    <3>1. PICK j \in 1..m : i = n + j
      BY <1>9, <2>2
    <3> QED
      BY <1>8, <3>1
  <2> QED
    BY <2>1, <2>2
<1>14. /\ Ids(rows)' = Ids(rows)
       /\ \A r \in rows : Rank(r.time)' = Rank(r.time)
  BY <1>1, SameRanks
<1>15. Range(walked') \subseteq Ids(rows)
  BY <1>5, <1>13 DEF Range, Ids
<1>16. total' = Cardinality(Ids(rows)')
  BY <1>1, <1>3, <1>14
<1>17. CASE doing' = "count"
  <2>1. (page' - 1) * limit' = to
    <3>1. page' - 1 = page
      BY <1>1, <1>17 DEF RequestTypes
    <3> QED
      BY <1>1, <3>1 DEF to
  <2>2. \A i \in DOMAIN walked' : \E r \in rows' : r.id = walked'[i] /\ Rank(r.time)' < (page' - 1) * limit'
    BY <1>1, <1>5, <1>13, <1>14, <2>1
  <2>3. Listed((page - 1) * limit)'
    BY <2>2 DEF Listed
  <2> QED
    BY <1>1, <1>3, <1>12, <1>14, <1>16, <1>17, <2>3 DEF QuietWalk, Answering
<1>18. CASE doing' = "done"
  BY <1>1, <1>3, <1>12, <1>14, <1>15, <1>16, <1>18 DEF QuietWalk, Answering
<1> QED
  BY <1>1, <1>17, <1>18

LEMMA QuietSame ==
  ASSUME RequestTypes, QuietWalk,
         UNCHANGED <<rows, kind, by, limit, page, total, items, walked, steady, upset>>,
         \/ doing' = doing
         \/ doing \in Answering /\ doing' \in Answering
         \/ doing # "idle" /\ doing' \in {"lttb", "bucket", "intervals"}
         \/ by > 2
         \/ kind # "list"
  PROVE  QuietWalk'
<1> SUFFICES ASSUME Calm' PROVE QuietWalk'
  BY DEF QuietWalk
<1>1. Calm /\ ~(by > 2) /\ kind = "list"
  BY DEF Calm, RequestTypes
<1>2. /\ Ids(rows)' = Ids(rows) /\ Cardinality(Ids(rows)') = Cardinality(Ids(rows))
      /\ \A r \in rows : Rank(r.time)' = Rank(r.time)
  BY SameRanks
<1> DEFINE here == doing
           there == doing'
<1>3. Listed((page - 1) * limit) => Listed((page - 1) * limit)'
  BY <1>2 DEF Listed
<1>4. OnPage => OnPage'
  <2> SUFFICES ASSUME OnPage PROVE OnPage'
    OBVIOUS
  <2>1. /\ \A i \in DOMAIN items : /\ items[i] \in rows
                                   /\ Rank(items[i].time) >= (page - 1) * limit
                                   /\ Rank(items[i].time) < page * limit
        /\ \A i, j \in DOMAIN items : items[i] = items[j] => i = j
    BY DEF OnPage
  <2>2. \A i \in DOMAIN items : Rank(items[i].time)' = Rank(items[i].time)
    BY DEF Rank, Above, Ids
  <2> QED
    BY <2>1, <2>2 DEF OnPage
<1>5. IsInjective(walked)' = IsInjective(walked) /\ Range(walked)' = Range(walked)
  BY DEF IsInjective, Range
<1>6. CASE there = here
  BY <1>1, <1>2, <1>3, <1>4, <1>5, <1>6 DEF QuietWalk
<1>7. CASE here \in Answering /\ there \in Answering
  <2>1. /\ steady = Ids(rows) /\ IsInjective(walked) /\ Listed((page - 1) * limit) /\ OnPage
        /\ total = Cardinality(Ids(rows))
    BY <1>1, <1>7 DEF QuietWalk, Answering
  <2>2. there # "done" /\ total' = Cardinality(Ids(rows)')
    BY <1>2, <1>7, <2>1 DEF Answering
  <2> QED
    BY <1>2, <1>3, <1>4, <1>5, <2>1, <2>2 DEF QuietWalk
<1>8. CASE here # "idle" /\ there \in {"lttb", "bucket", "intervals"}
  <2>1. steady = Ids(rows)
    BY <1>1, <1>8 DEF QuietWalk
  <2> QED
    BY <1>2, <1>8, <2>1 DEF QuietWalk, Answering
<1> QED
  BY <1>1, <1>6, <1>7, <1>8

LEMMA QuietStep == ReadTypes /\ QuietWalk /\ [ReadNext]_readVars => QuietWalk'
<1> SUFFICES ASSUME RowTypes, RequestTypes, HistoryTypes, QuietWalk, [ReadNext]_readVars
             PROVE  QuietWalk'
  BY DEF ReadTypes
<1>1. CASE StatsMin \/ StatsMax
  BY <1>1, QuietSame DEF StatsMin, StatsMax, Answering
<1>2. CASE StatsAverage
  <2>1. doing' \in {"reply", "lttb"} /\ doing = "mean"
    BY <1>2 DEF StatsAverage
  <2> QED
    BY <1>2, <2>1, QuietSame DEF StatsAverage, Answering
<1>3. CASE LttbStart \/ LttbBucket \/ LttbEnd
  <2>1. by > 2
    BY <1>3 DEF LttbStart, LttbBucket, LttbEnd, RequestTypes
  <2> QED
    BY <1>3, <2>1, QuietSame DEF LttbStart, LttbBucket, LttbEnd
<1>4. CASE Aggregate
  BY <1>4, QuietSame DEF Aggregate, RequestTypes
<1>5. CASE UNCHANGED readVars
  BY <1>5, QuietSame
<1>6. ASSUME NEW kept, NEW added, Writes(kept, added) PROVE QuietWalk'
  <2>1. "write" \in upset'
    BY <1>6 DEF Writes
  <2> QED
    BY <2>1 DEF QuietWalk, Calm
<1>7. ASSUME NEW t \in Time, NEW v \in Value,
             \/ create_measurement(t, v)
             \/ \E r \in rows : update_measurement(r, t, v)
      PROVE  QuietWalk'
  BY <1>6, <1>7 DEF create_measurement, update_measurement
<1>8. CASE delete_sensor_measurements
  BY <1>6, <1>8 DEF delete_sensor_measurements
<1> QED
  BY <1>1, <1>2, <1>3, <1>4, <1>5, <1>7, <1>8, QuietAsk, QuietCount, QuietFetch, QuietRespond
     DEF ReadNext, Reads

LEMMA WalkMeans == ReadTypes /\ SteadyWalk /\ QuietWalk => WalkListsAll
<1> SUFFICES ASSUME ReadTypes, SteadyWalk, QuietWalk, doing = "done", kind = "list", by <= 2
             PROVE  /\ upset = {} => /\ IsInjective(walked) /\ Range(walked) = Ids(rows)
                                     /\ total = Len(walked)
                    /\ upset \subseteq {"write", "changed"} => steady \subseteq Range(walked)
  BY DEF WalkListsAll
<1>1. ASSUME upset \subseteq {"write", "changed"} PROVE steady \subseteq Range(walked)
  BY <1>1 DEF SteadyWalk, KeptPlace
<1>2. ASSUME upset = {}
      PROVE  IsInjective(walked) /\ Range(walked) = Ids(rows) /\ total = Len(walked)
  <2> DEFINE n == Len(walked)
  <2>1. /\ IsInjective(walked) /\ Range(walked) \subseteq Ids(rows) /\ steady = Ids(rows)
        /\ total = Cardinality(Ids(rows))
    BY <1>2 DEF QuietWalk, Calm
  <2>2. Range(walked) = Ids(rows)
    BY <1>1, <1>2, <2>1
  <2>3. n \in Nat /\ DOMAIN walked = 1..n /\ walked \in Seq(Nat)
    BY DEF ReadTypes, RequestTypes
  <2>4. walked \in Bijection(1..n, Ids(rows))
    <3>1. walked \in [1..n -> Ids(rows)]
      <4>1. walked \in [1..n -> Nat]
        BY <2>3
      <4>2. \A i \in 1..n : walked[i] \in Ids(rows)
        BY <2>2, <2>3 DEF Range
      <4> HIDE DEF n
      <4> QED
        BY <4>1, <4>2
    <3>2. \A x \in Ids(rows) : \E i \in 1..n : walked[i] = x
      BY <2>2, <2>3 DEF Range
    <3> HIDE DEF n
    <3> QED
      BY <2>1, <2>3, <3>1, <3>2 DEF Bijection, Injection, Surjection, IsInjective
  <2>5. IsFiniteSet(1..n) /\ Cardinality(1..n) = n
    <3>1. 1 \in Int /\ n \in Int
      BY <2>3
    <3> HIDE DEF n
    <3> QED
      BY <2>3, <3>1, FS_Interval
  <2>6. Cardinality(Ids(rows)) = n
    <3> HIDE DEF n
    <3>1. \E f : f \in Bijection(1..n, Ids(rows))
      BY <2>4
    <3>2. IsFiniteSet(Ids(rows))
      BY IdsCount DEF ReadTypes
    <3> QED
      BY <2>5, <3>1, <3>2, FS_Bijection DEF ExistsBijection
  <2> QED
    BY <2>1, <2>2, <2>6
<1> QED
  BY <1>1, <1>2

\* A walk over the pages lists every reading that was there and kept its time,
\* and each once if nothing was written; unless two readings have one time, one
\* was taken away or moved, or one came between the count and the page of the
\* last request: for any table, limit and writers. (list_measurements)
THEOREM WalksHold == ReadSpec => []WalkListsAll
<1>1. ReadInit => SteadyWalk /\ QuietWalk
  BY SteadyInit, QuietInit
<1>2. ReadTypes /\ SteadyWalk /\ QuietWalk /\ [ReadNext]_readVars => SteadyWalk' /\ QuietWalk'
  BY SteadyStep, QuietStep
<1>3. ReadTypes /\ SteadyWalk /\ QuietWalk => WalkListsAll
  BY WalkMeans
<1> QED
  BY <1>1, <1>2, <1>3, ReadTypesHold, PTL DEF ReadSpec

-----------------------------------------------------------------------------
(***************************************************************************)
(* Sums over finite sets. A claim about every subset is proved by a        *)
(* smallest one that breaks it.                                            *)
(***************************************************************************)
LEMMA SmallestSet ==
  ASSUME NEW S, IsFiniteSet(S), NEW D \in SUBSET (SUBSET S), D # {}
  PROVE  \E m \in D : \A d \in D : d \subseteq m => d = m
<1> DEFINE R == StrictSubsetOrdering(S)
<1>1. IsWellFoundedOn(R, FiniteSubsetsOf(S)) /\ D \subseteq FiniteSubsetsOf(S)
  BY FS_StrictSubsetOrderingWellFounded, FS_FiniteSubsetsOfFinite
<1>2. PICK m \in D : \A d \in D : ~(<<d, m>> \in R)
  <2> HIDE DEF R
  <2> QED
    BY <1>1, WFMin
<1>3. ASSUME NEW d \in D, d \subseteq m, d # m PROVE FALSE
  <2>1. <<d, m>> \in R
    BY <1>3 DEF StrictSubsetOrdering
  <2> QED
    BY <1>2, <2>1
<1> QED
  BY <1>3

\* The sums that the definition makes of the subsets of S: it takes out of each
\* the member that it happens to choose.
Chosen(s) == CHOOSE x \in s : TRUE
Sums(g, f, S) ==
  g = [s \in SUBSET S |-> IF s = {} THEN 0 ELSE f[Chosen(s)] + g[s \ {Chosen(s)}]]

LEMMA ChosenFacts == ASSUME NEW s, s # {} PROVE Chosen(s) \in s
BY DEF Chosen

LEMMA SumsExist ==
  ASSUME NEW S, IsFiniteSet(S), NEW f
  PROVE  \E g : Sums(g, f, S)
<1> DEFINE Upto(n) == {s \in SUBSET S : Cardinality(s) <= n}
           Good(g, n) == \A s \in Upto(n) :
             g[s] = IF s = {} THEN 0 ELSE f[Chosen(s)] + g[s \ {Chosen(s)}]
           Bad == {T \in SUBSET S : ~ \E g : Good(g, Cardinality(T))}
<1>1. \A s \in SUBSET S : IsFiniteSet(s) /\ Cardinality(s) \in Nat
  BY FS_Subset, FS_CardinalityType
<1>2. ASSUME NEW s \in SUBSET S, s # {}
      PROVE  /\ Chosen(s) \in s /\ s \ {Chosen(s)} \in SUBSET S
             /\ Cardinality(s \ {Chosen(s)}) = Cardinality(s) - 1
  BY <1>1, <1>2, ChosenFacts, FS_RemoveElement
<1>3. Bad = {}
  <2>1. SUFFICES ASSUME Bad # {} PROVE FALSE
    OBVIOUS
  <2>2. PICK T \in Bad : \A d \in Bad : d \subseteq T => d = T
    <3>1. Bad \in SUBSET (SUBSET S)
      OBVIOUS
    <3> HIDE DEF Bad
    <3> QED
      BY <2>1, <3>1, SmallestSet
  <2> DEFINE n == Cardinality(T)
  <2>3. T \in SUBSET S /\ IsFiniteSet(T) /\ n \in Nat /\ ~ \E g : Good(g, n)
    BY <1>1, <2>2
  <2>4. CASE T = {}
    <3>1. n = 0
      BY <2>4, FS_EmptySet
    <3>2. \A s \in Upto(n) : s = {}
      <4> SUFFICES ASSUME NEW s \in SUBSET S, Cardinality(s) <= n PROVE s = {}
        OBVIOUS
      <4>1. IsFiniteSet(s) /\ Cardinality(s) = 0
        BY <1>1, <3>1
      <4> QED
        BY <4>1, FS_EmptySet
    <3> DEFINE h == [s \in SUBSET S |-> 0]
    <3>3. Good(h, n)
      BY <3>2
    <3> QED
      BY <2>3, <3>3
  <2>5. CASE T # {}
    <3>1. PICK x \in T : TRUE
      BY <2>5
    <3>2. T \ {x} \in SUBSET S /\ T \ {x} # T /\ T \ {x} \subseteq T /\ Cardinality(T \ {x}) = n - 1
      BY <2>3, <3>1, FS_RemoveElement
    <3>3. PICK g : Good(g, n - 1)
      <4>1. T \ {x} \notin Bad
        BY <2>2, <3>2
      <4> QED
        BY <3>2, <4>1
    <3> DEFINE h == [s \in SUBSET S |-> IF Cardinality(s) <= n - 1 THEN g[s]
                                        ELSE f[Chosen(s)] + g[s \ {Chosen(s)}]]
    <3>4. ASSUME NEW s \in Upto(n)
          PROVE  h[s] = IF s = {} THEN 0 ELSE f[Chosen(s)] + h[s \ {Chosen(s)}]
      <4>1. s \in SUBSET S /\ Cardinality(s) \in Nat /\ Cardinality(s) <= n
        BY <1>1
      <4>2. CASE s = {}
        <5>1. Cardinality(s) = 0 /\ n - 1 \in Nat
          <6>1. n # 0
            BY <2>3, <2>5, FS_EmptySet
          <6> QED
            BY <2>3, <4>2, <6>1, FS_EmptySet
        <5>2. h[s] = g[s]
          BY <4>1, <5>1
        <5>3. g[s] = 0
          <6>1. s \in Upto(n - 1)
            BY <4>1, <5>1
          <6>2. g[s] = IF s = {} THEN 0 ELSE f[Chosen(s)] + g[s \ {Chosen(s)}]
            BY <3>3, <6>1
          <6> QED
            BY <4>2, <6>2
        <5> QED
          BY <4>2, <5>2, <5>3
      <4>3. CASE s # {}
        <5> DEFINE t == s \ {Chosen(s)}
        <5>1. t \in SUBSET S /\ Cardinality(t) <= n - 1 /\ Cardinality(t) = Cardinality(s) - 1
          BY <1>2, <2>3, <4>1, <4>3
        <5>2. h[t] = g[t]
          BY <5>1
        <5>3. CASE Cardinality(s) <= n - 1
          <6>1. h[s] = g[s] /\ g[s] = f[Chosen(s)] + g[t]
            BY <3>3, <4>1, <4>3, <5>3
          <6> QED
            BY <4>3, <5>2, <6>1
        <5>4. CASE ~(Cardinality(s) <= n - 1)
          BY <4>1, <4>3, <5>2, <5>4
        <5> QED
          BY <5>3, <5>4
      <4> QED
        BY <4>2, <4>3
    <3> HIDE DEF h
    <3>5. Good(h, n)
      BY <3>4
    <3> QED
      BY <2>3, <3>5
  <2> QED
    BY <2>4, <2>5
<1>4. PICK g : Good(g, Cardinality(S))
  BY <1>3
<1> DEFINE h == [s \in SUBSET S |-> g[s]]
<1>5. \A s \in SUBSET S : s \in Upto(Cardinality(S))
  BY FS_Subset
<1>6. \A s \in SUBSET S : h[s] = IF s = {} THEN 0 ELSE f[Chosen(s)] + h[s \ {Chosen(s)}]
  <2> SUFFICES ASSUME NEW s \in SUBSET S
               PROVE  h[s] = IF s = {} THEN 0 ELSE f[Chosen(s)] + h[s \ {Chosen(s)}]
    OBVIOUS
  <2>1. g[s] = IF s = {} THEN 0 ELSE f[Chosen(s)] + g[s \ {Chosen(s)}]
    BY <1>4, <1>5
  <2>2. s \ {Chosen(s)} \in SUBSET S
    OBVIOUS
  <2> QED
    BY <2>1, <2>2
<1>7. Sums(h, f, S)
  <2> DEFINE k == [s \in SUBSET S |-> IF s = {} THEN 0 ELSE f[Chosen(s)] + h[s \ {Chosen(s)}]]
  <2>1. \A s \in SUBSET S : h[s] = k[s]
    BY <1>6
  <2>2. h = k
    BY <2>1
  <2> QED
    BY <2>2 DEF Sums
<1> QED
  BY <1>7

\* A function's definition chooses it: what the definition says holds of it.
LEMMA SumIsOfSums ==
  ASSUME NEW S, IsFiniteSet(S), NEW f
  PROVE  \E g : Sums(g, f, S) /\ SumFunctionOnSet(f, S) = g[S]
<1> DEFINE h == CHOOSE g : Sums(g, f, S)
<1>1. SumFunctionOnSet(f, S) = h[S]
  BY DEF SumFunctionOnSet, FoldFunctionOnSet, MapThenFoldSet, Sums, Chosen
<1>2. Sums(h, f, S)
  BY SumsExist
<1> QED
  BY <1>1, <1>2

LEMMA SumsAgree ==
  ASSUME NEW S, IsFiniteSet(S), NEW f, NEW g, NEW h,
         NEW T \in SUBSET S, Sums(g, f, S), Sums(h, f, T)
  PROVE  g[T] = h[T]
<1> DEFINE D == {s \in SUBSET T : g[s] # h[s]}
<1>1. SUFFICES ASSUME D # {} PROVE FALSE
  OBVIOUS
<1>2. PICK m \in D : \A d \in D : d \subseteq m => d = m
  <2>1. D \in SUBSET (SUBSET T) /\ IsFiniteSet(T)
    BY FS_Subset
  <2> HIDE DEF D
  <2> QED
    BY <1>1, <2>1, SmallestSet
<1> DEFINE c == Chosen(m)
<1>3. m \in SUBSET S /\ m \in SUBSET T /\ g[m] # h[m]
  OBVIOUS
<1>4. /\ g[m] = (IF m = {} THEN 0 ELSE f[c] + g[m \ {c}])
      /\ h[m] = (IF m = {} THEN 0 ELSE f[c] + h[m \ {c}])
  BY <1>3 DEF Sums
<1>5. m # {} /\ g[m \ {c}] # h[m \ {c}]
  BY <1>3, <1>4
<1>6. c \in m /\ m \ {c} \in D
  BY <1>3, <1>5, ChosenFacts
<1> QED
  BY <1>2, <1>6

\* Any member can be taken out of a sum.
LEMMA SumsStep ==
  ASSUME NEW S, IsFiniteSet(S), NEW f \in [S -> Int], NEW g, Sums(g, f, S)
  PROVE  /\ g[{}] = 0 /\ \A s \in SUBSET S : g[s] \in Int
         /\ \A s \in SUBSET S : \A x \in s : g[s] = f[x] + g[s \ {x}]
<1>1. ASSUME NEW s \in SUBSET S
      PROVE  g[s] = IF s = {} THEN 0 ELSE f[Chosen(s)] + g[s \ {Chosen(s)}]
  BY DEF Sums
<1>2. g[{}] = 0
  BY <1>1
<1> DEFINE D == {s \in SUBSET S : g[s] \notin Int \/ \E x \in s : g[s] # f[x] + g[s \ {x}]}
<1>3. ASSUME D # {} PROVE FALSE
  <2>1. PICK m \in D : \A d \in D : d \subseteq m => d = m
    <3>1. D \in SUBSET (SUBSET S)
      OBVIOUS
    <3> HIDE DEF D
    <3> QED
      BY <1>3, <3>1, SmallestSet
  <2> DEFINE c == Chosen(m)
  <2>2. m \in SUBSET S
    OBVIOUS
  <2>3. ASSUME NEW s \in SUBSET m, s # m
        PROVE  s \in SUBSET S /\ g[s] \in Int /\ \A x \in s : g[s] = f[x] + g[s \ {x}]
    BY <2>1, <2>3
  <2>4. CASE m = {}
    BY <1>2, <2>4
  <2>5. CASE m # {}
    <3>1. c \in m /\ g[m] = f[c] + g[m \ {c}] /\ f[c] \in Int
      BY <1>1, <2>2, <2>5, ChosenFacts
    <3>2. g[m \ {c}] \in Int /\ \A x \in m \ {c} : g[m \ {c}] = f[x] + g[(m \ {c}) \ {x}]
      BY <2>3, <3>1
    <3>3. g[m] \in Int
      BY <3>1, <3>2
    <3>4. ASSUME NEW x \in m PROVE g[m] = f[x] + g[m \ {x}]
      <4>1. CASE x = c
        BY <3>1, <4>1
      <4>2. CASE x # c
        <5> DEFINE t == (m \ {c}) \ {x}
        <5>1. g[m \ {c}] = f[x] + g[t]
          BY <3>2, <4>2
        <5>2. g[m \ {x}] = f[c] + g[(m \ {x}) \ {c}]
          <6>1. m \ {x} \in SUBSET m /\ m \ {x} # m /\ c \in m \ {x}
            BY <3>1, <4>2
          <6> QED
            BY <2>3, <6>1
        <5>3. (m \ {x}) \ {c} = t /\ t \in SUBSET m /\ t # m
          BY <3>1
        <5>4. g[t] \in Int /\ f[x] \in Int
          BY <2>2, <2>3, <5>3
        <5> DEFINE v == g[t]
                   a == f[x]
                   b == f[c]
        <5>5. /\ v \in Int /\ a \in Int /\ b \in Int
              /\ g[m] = b + (a + v) /\ g[m \ {x}] = b + v
          BY <3>1, <5>1, <5>2, <5>3, <5>4
        <5> HIDE DEF v, a, b
        <5>6. g[m] = a + g[m \ {x}]
          BY <5>5
        <5> QED
          BY <5>6 DEF a
      <4> QED
        BY <4>1, <4>2
    <3> QED
      BY <2>1, <3>3, <3>4
  <2> QED
    BY <2>4, <2>5
<1>4. \A s \in SUBSET S : s \notin D
  BY <1>3
<1> QED
  BY <1>2, <1>4

LEMMA SumFacts ==
  ASSUME NEW S, IsFiniteSet(S), NEW f \in [S -> Int]
  PROVE  /\ SumFunctionOnSet(f, {}) = 0
         /\ \A s \in SUBSET S : SumFunctionOnSet(f, s) \in Int
         /\ \A s \in SUBSET S : \A x \in s :
              SumFunctionOnSet(f, s) = f[x] + SumFunctionOnSet(f, s \ {x})
<1>1. PICK g : Sums(g, f, S)
  BY SumsExist
<1>2. ASSUME NEW s \in SUBSET S PROVE SumFunctionOnSet(f, s) = g[s]
  <2>1. PICK h : Sums(h, f, s) /\ SumFunctionOnSet(f, s) = h[s]
    BY FS_Subset, SumIsOfSums
  <2> QED
    BY <1>1, <2>1, SumsAgree
<1>3. g[{}] = 0 /\ \A s \in SUBSET S : g[s] \in Int
  BY <1>1, SumsStep
<1>4. ASSUME NEW s \in SUBSET S, NEW x \in s
      PROVE  SumFunctionOnSet(f, s) = f[x] + SumFunctionOnSet(f, s \ {x})
  <2>1. g[s] = f[x] + g[s \ {x}]
    BY <1>1, SumsStep
  <2>2. s \ {x} \in SUBSET S
    OBVIOUS
  <2> QED
    BY <1>2, <2>1, <2>2
<1>5. {} \in SUBSET S
  OBVIOUS
<1> QED
  BY <1>2, <1>3, <1>4, <1>5

LEMMA SumSame ==
  ASSUME NEW S, IsFiniteSet(S), NEW e, NEW f, \A x \in S : e[x] = f[x]
  PROVE  SumFunctionOnSet(e, S) = SumFunctionOnSet(f, S)
<1>1. PICK g : Sums(g, e, S) /\ SumFunctionOnSet(e, S) = g[S]
  BY SumIsOfSums
<1>2. PICK h : Sums(h, f, S) /\ SumFunctionOnSet(f, S) = h[S]
  BY SumIsOfSums
<1>3. Sums(h, e, S)
  <2> DEFINE k == [s \in SUBSET S |-> IF s = {} THEN 0 ELSE e[Chosen(s)] + h[s \ {Chosen(s)}]]
             l == [s \in SUBSET S |-> IF s = {} THEN 0 ELSE f[Chosen(s)] + h[s \ {Chosen(s)}]]
  <2>1. \A s \in SUBSET S : s # {} => e[Chosen(s)] = f[Chosen(s)]
    BY ChosenFacts
  <2>2. k = l
    BY <2>1
  <2> HIDE DEF k, l
  <2>3. h = l
    BY <1>2 DEF Sums, l
  <2>4. h = k
    BY <2>2, <2>3
  <2> QED
    BY <2>4 DEF Sums, k
<1> QED
  BY <1>1, <1>2, <1>3, SumsAgree

\* The sum of a part of a function's domain.
Part(f, s) == SumFunction([x \in s |-> f[x]])

LEMMA PartSums ==
  ASSUME NEW S, IsFiniteSet(S), NEW f \in [S -> Int]
  PROVE  /\ Part(f, {}) = 0
         /\ \A s \in SUBSET S : Part(f, s) \in Int
         /\ \A s \in SUBSET S : \A z \in s :
              Part(f, s) = f[z] + Part(f, s \ {z})
<1>1. ASSUME NEW s \in SUBSET S PROVE Part(f, s) = SumFunctionOnSet(f, s)
  <2> DEFINE e == [x \in s |-> f[x]]
  <2>1. IsFiniteSet(s) /\ \A x \in s : e[x] = f[x]
    BY FS_Subset
  <2>2. Part(f, s) = SumFunctionOnSet(e, s)
    BY DEF SumFunction, Part
  <2> HIDE DEF e
  <2> QED
    BY <2>1, <2>2, SumSame
<1>2. /\ SumFunctionOnSet(f, {}) = 0
      /\ \A s \in SUBSET S : SumFunctionOnSet(f, s) \in Int
      /\ \A s \in SUBSET S : \A x \in s :
           SumFunctionOnSet(f, s) = f[x] + SumFunctionOnSet(f, s \ {x})
  BY SumFacts
<1>3. {} \in SUBSET S /\ \A s \in SUBSET S : \A x \in s : s \ {x} \in SUBSET S
  OBVIOUS
<1>4. ASSUME NEW s \in SUBSET S, NEW z \in s PROVE Part(f, s) = f[z] + Part(f, s \ {z})
  BY <1>1, <1>2, <1>3
<1>5. Part(f, {}) = 0 /\ \A s \in SUBSET S : Part(f, s) \in Int
  BY <1>1, <1>2, <1>3
<1> QED
  BY <1>4, <1>5

LEMMA TotalFacts ==
  ASSUME NEW S, IsFiniteSet(S), \A r \in S : r.value \in Int
  PROVE  /\ Total({}) = 0
         /\ \A s \in SUBSET S : Total(s) \in Int
         /\ \A s \in SUBSET S : \A x \in s : Total(s) = x.value + Total(s \ {x})
<1> DEFINE f == [r \in S |-> r.value]
<1>1. f \in [S -> Int] /\ \A x \in S : f[x] = x.value
  OBVIOUS
<1>2. ASSUME NEW s \in SUBSET S PROVE Total(s) = Part(f, s)
  <2>1. [x \in s |-> f[x]] = [r \in s |-> r.value]
    BY <1>1
  <2> QED
    BY <2>1 DEF Total, Part
<1>3. {} \in SUBSET S /\ \A s \in SUBSET S : \A x \in s : s \ {x} \in SUBSET S /\ x \in S
  OBVIOUS
<1> HIDE DEF f
<1>4. ASSUME NEW s \in SUBSET S, NEW x \in s PROVE Total(s) = x.value + Total(s \ {x})
  BY <1>1, <1>2, <1>3, PartSums
<1>5. Total({}) = 0 /\ \A s \in SUBSET S : Total(s) \in Int
  BY <1>1, <1>2, <1>3, PartSums
<1> QED
  BY <1>4, <1>5

\* The least and greatest of a finite set of numbers.
LEMMA ExtremesExist ==
  ASSUME NEW S \in SUBSET Int, IsFiniteSet(S), S # {}
  PROVE  (\E x \in S : \A y \in S : x <= y) /\ (\E x \in S : \A y \in S : x >= y)
<1> DEFINE Has(T) == (\E x \in T : \A y \in T : x <= y) /\ (\E x \in T : \A y \in T : x >= y)
           D == {T \in SUBSET S : T # {} /\ ~Has(T)}
<1>1. SUFFICES ASSUME D # {} PROVE FALSE
  OBVIOUS
<1>2. PICK m \in D : \A d \in D : d \subseteq m => d = m
  <2>1. D \in SUBSET (SUBSET S) /\ IsFiniteSet(S)
    OBVIOUS
  <2> DEFINE U == S
  <2>2. D \in SUBSET (SUBSET U) /\ IsFiniteSet(U)
    BY <2>1
  <2> HIDE DEF D, U
  <2> QED
    BY <1>1, <2>2, SmallestSet
<1>3. m \in SUBSET S /\ m # {} /\ ~Has(m)
  OBVIOUS
<1>4. PICK z \in m : TRUE
  BY <1>3
<1>5. CASE m \ {z} = {}
  <2>1. \A y \in m : y = z
    BY <1>5
  <2>2. Has(m)
    BY <1>3, <2>1
  <2> QED
    BY <1>3, <2>2
<1>6. CASE m \ {z} # {}
  <2>1. Has(m \ {z})
    <3> DEFINE d == m \ {z}
    <3>1. d \subseteq m /\ d # m /\ d \in SUBSET S /\ d # {}
      BY <1>3, <1>4, <1>6
    <3>2. d \notin D
      <4> HIDE DEF D, d
      <4> QED
        BY <1>2, <3>1
    <3> HIDE DEF d, Has
    <3> QED
      BY <3>1, <3>2 DEF d
  <2>2. PICK a \in m \ {z} : \A y \in m \ {z} : a <= y
    BY <2>1
  <2>3. PICK b \in m \ {z} : \A y \in m \ {z} : b >= y
    BY <2>1
  <2>4. a \in Int /\ b \in Int /\ z \in Int
    BY <1>3, <1>4
  <2>5. \E x \in m : \A y \in m : x <= y
    <3>1. CASE a <= z
      BY <2>2, <3>1
    <3>2. CASE ~(a <= z)
      <4>1. z <= a
        BY <2>4, <3>2
      <4>2. \A y \in m : y \in Int
        BY <1>3
      <4>3. \A y \in m : z <= y
        BY <2>2, <2>4, <4>1, <4>2
      <4> QED
        BY <1>4, <4>3
    <3> QED
      BY <3>1, <3>2
  <2>6. \E x \in m : \A y \in m : x >= y
    <3>1. CASE b >= z
      BY <2>3, <3>1
    <3>2. CASE ~(b >= z)
      <4>1. z >= b
        BY <2>4, <3>2
      <4>2. \A y \in m : y \in Int
        BY <1>3
      <4>3. \A y \in m : z >= y
        BY <2>3, <2>4, <4>1, <4>2
      <4> QED
        BY <1>4, <4>3
    <3> QED
      BY <3>1, <3>2
  <2> QED
    BY <1>3, <2>5, <2>6
<1> QED
  BY <1>5, <1>6

LEMMA MinMaxFacts ==
  ASSUME NEW S \in SUBSET Int, IsFiniteSet(S), S # {}
  PROVE  /\ Min(S) \in S /\ \A y \in S : Min(S) <= y
         /\ Max(S) \in S /\ \A y \in S : Max(S) >= y
BY ExtremesExist DEF Min, Max

\* A total lies between the least and the greatest, as often as there are terms.
LEMMA TotalIsBounded ==
  ASSUME NEW S, IsFiniteSet(S), \A r \in S : r.value \in Int,
         NEW a \in Int, NEW b \in Int, \A r \in S : a <= r.value /\ r.value <= b
  PROVE  /\ Cardinality(S) \in Nat /\ Total(S) \in Int
         /\ Cardinality(S) * a <= Total(S) /\ Total(S) <= Cardinality(S) * b
<1> DEFINE Between(T) == Cardinality(T) * a <= Total(T) /\ Total(T) <= Cardinality(T) * b
           D == {T \in SUBSET S : ~Between(T)}
<1>1. ASSUME D # {} PROVE FALSE
  <2>1. PICK m \in D : \A d \in D : d \subseteq m => d = m
    <3>1. D \in SUBSET (SUBSET S)
      OBVIOUS
    <3> HIDE DEF D
    <3> QED
      BY <1>1, <3>1, SmallestSet
  <2>2. m \in SUBSET S /\ ~Between(m)
    OBVIOUS
  <2>3. IsFiniteSet(m) /\ Cardinality(m) \in Nat /\ Total(m) \in Int
    BY <2>2, FS_Subset, FS_CardinalityType, TotalFacts
  <2>4. CASE m = {}
    <3>1. Cardinality(m) = 0 /\ Total(m) = 0
      BY <2>4, FS_EmptySet, TotalFacts
    <3>2. 0 * a = 0 /\ 0 * b = 0
      OBVIOUS
    <3>3. Between(m)
      BY <3>1, <3>2
    <3> QED
      BY <2>2, <3>3
  <2>5. CASE m # {}
    <3>1. PICK x \in m : TRUE
      BY <2>5
    <3> DEFINE t == m \ {x}
    <3>2. t \in SUBSET S /\ t # m /\ t \subseteq m
      BY <2>2, <3>1
    <3>3. Between(t)
      BY <2>1, <3>2
    <3>4. Cardinality(t) = Cardinality(m) - 1 /\ Total(m) = x.value + Total(t) /\ Total(t) \in Int
      BY <2>2, <2>3, <3>1, <3>2, FS_RemoveElement, TotalFacts
    <3>5. x.value \in Int /\ a <= x.value /\ x.value <= b
      BY <2>2, <3>1
    <3> DEFINE n == Cardinality(t)
               v == x.value
               u == Total(t)
    <3>6. Cardinality(m) = n + 1 /\ n \in Int /\ Total(m) = v + u /\ u \in Int /\ v \in Int
      BY <2>3, <3>4, <3>5
    <3>7. n * a <= u /\ u <= n * b /\ a <= v /\ v <= b
      BY <3>3, <3>5
    <3> HIDE DEF n, v, u, Between
    <3>8. (n + 1) * a = n * a + a /\ (n + 1) * b = n * b + b /\ n * a \in Int /\ n * b \in Int
      BY <3>6
    <3> DEFINE p == n * a
               q == n * b
    <3>9. /\ p \in Int /\ q \in Int /\ p <= u /\ u <= q
          /\ (n + 1) * a = p + a /\ (n + 1) * b = q + b
      BY <3>7, <3>8
    <3> HIDE DEF p, q
    <3>10. p + a <= v + u /\ v + u <= q + b
      BY <3>6, <3>7, <3>9
    <3>11. Between(m)
      BY <3>6, <3>9, <3>10 DEF Between
    <3> QED
      BY <2>2, <3>11
  <2> QED
    BY <2>4, <2>5
<1>2. S \notin D
  BY <1>1
<1> QED
  BY <1>2, FS_CardinalityType, TotalFacts

-----------------------------------------------------------------------------
(***************************************************************************)
(* The statistics of a list beside the writers.                            *)
(***************************************************************************)
\* While nothing is written, each statement has answered for the same rows.
Fetched == {"least", "greatest", "mean", "lttb", "bucket", "reply"}

Answers ==
  "write" \notin upset /\ rows # {} =>
    /\ doing \in Fetched \union {"page"} => total = Cardinality(rows)
    /\ doing \in Fetched => \A i \in DOMAIN items : items[i] \in rows
    /\ doing \in Fetched \ {"least"} => least = Min(ValuesOf(rows))
    /\ doing \in Fetched \ {"least", "greatest"} => greatest = Max(ValuesOf(rows))
    /\ doing \in Fetched \ {"least", "greatest", "mean"}
         => mean = <<Total(rows), Cardinality(rows)>>

LEMMA AnswersInit == ReadInit => Answers
BY DEF ReadInit, Answers, Fetched

LEMMA AnswersFetch == ASSUME RowTypes, RequestTypes, Answers, FetchPage PROVE Answers'
<1>1. /\ doing = "page" /\ doing' = "least"
      /\ UNCHANGED <<rows, total, upset>>
  BY DEF FetchPage, history
<1>2. PICK upwards \in BOOLEAN : items' = PageOf(Ordered(upwards))
  BY DEF FetchPage
<1>3. \A i \in DOMAIN items' : items'[i] \in rows
  BY <1>2, PageFacts
<1> QED
  BY <1>1, <1>3 DEF Answers, Fetched

LEMMA AnswersSame ==
  ASSUME Answers, UNCHANGED <<rows, items, total, least, greatest, mean, upset>>,
         \/ doing' = doing \/ doing' \notin Fetched \union {"page"}
         \/ doing \in {"lttb", "bucket", "reply"} /\ doing' \in {"lttb", "bucket", "reply"}
  PROVE  Answers'
<1> SUFFICES ASSUME "write" \notin upset, rows # {} PROVE Answers'
  BY DEF Answers
<1> DEFINE T == Total(rows)
           C == Cardinality(rows)
           L == Min(ValuesOf(rows))
           G == Max(ValuesOf(rows))
<1>1. T' = T /\ C' = C /\ L' = L /\ G' = G
  OBVIOUS
<1>2. /\ doing \in Fetched \union {"page"} => total = C
      /\ doing \in Fetched => \A i \in DOMAIN items : items[i] \in rows
      /\ doing \in Fetched \ {"least"} => least = L
      /\ doing \in Fetched \ {"least", "greatest"} => greatest = G
      /\ doing \in Fetched \ {"least", "greatest", "mean"} => mean = <<T, C>>
  BY DEF Answers
<1> HIDE DEF T, C, L, G
<1>3. /\ doing' \in Fetched \union {"page"} => total' = C
      /\ doing' \in Fetched => \A i \in DOMAIN items' : items'[i] \in rows'
      /\ doing' \in Fetched \ {"least"} => least' = L
      /\ doing' \in Fetched \ {"least", "greatest"} => greatest' = G
      /\ doing' \in Fetched \ {"least", "greatest", "mean"} => mean' = <<T, C>>
  BY <1>2 DEF Fetched
<1> QED
  BY <1>1, <1>3 DEF Answers, T, C, L, G

LEMMA AnswersAverage == ASSUME Answers, StatsAverage PROVE Answers'
<1> SUFFICES ASSUME "write" \notin upset, rows # {} PROVE Answers'
  BY DEF Answers, StatsAverage, history
<1>1. /\ doing = "mean" /\ UNCHANGED <<rows, items, total, least, greatest, upset>>
      /\ mean' = <<Total(rows), Cardinality(rows)>>
  BY DEF StatsAverage, StatsRows, history
<1> DEFINE T == Total(rows)
           C == Cardinality(rows)
           L == Min(ValuesOf(rows))
           G == Max(ValuesOf(rows))
<1>2. T' = T /\ C' = C /\ L' = L /\ G' = G
  BY <1>1
<1>3. total = C /\ (\A i \in DOMAIN items : items[i] \in rows) /\ least = L /\ greatest = G
  BY <1>1 DEF Answers, Fetched
<1>4. mean' = <<T, C>>
  BY <1>1
<1> HIDE DEF T, C, L, G
<1>5. total' = C' /\ (\A i \in DOMAIN items' : items'[i] \in rows') /\ least' = L' /\ greatest' = G'
      /\ mean' = <<T', C'>>
  BY <1>1, <1>2, <1>3, <1>4
<1> QED
  BY <1>5 DEF Answers, T, C, L, G

LEMMA AnswersStep == ReadTypes /\ Answers /\ [ReadNext]_readVars => Answers'
<1> SUFFICES ASSUME RowTypes, RequestTypes, Answers, [ReadNext]_readVars PROVE Answers'
  BY DEF ReadTypes
<1>1. ASSUME NEW k \in {"list", "intervals"}, NEW n, NEW l, Ask(k, n, l) PROVE Answers'
  <2>1. doing' \in {"count", "intervals"}
    BY <1>1 DEF Ask
  <2> QED
    BY <2>1 DEF Answers, Fetched
<1>2. CASE Count
  <2>1. doing' = "page" /\ total' = Cardinality(rows) /\ rows' = rows
    BY <1>2 DEF Count
  <2> QED
    BY <2>1 DEF Answers, Fetched
<1>3. CASE StatsMin
  <2>1. doing = "least" /\ doing' = "greatest" /\ UNCHANGED <<rows, items, total, upset>>
    BY <1>3 DEF StatsMin, history
  <2>2. rows # {} => least' = Min(ValuesOf(rows))
    BY <1>3 DEF StatsMin, StatsRows
  <2> QED
    BY <2>1, <2>2 DEF Answers, Fetched
<1>4. CASE StatsMax
  <2>1. doing = "greatest" /\ doing' = "mean" /\ UNCHANGED <<rows, items, total, least, upset>>
    BY <1>4 DEF StatsMax, history
  <2>2. rows # {} => greatest' = Max(ValuesOf(rows))
    BY <1>4 DEF StatsMax, StatsRows
  <2> QED
    BY <2>1, <2>2 DEF Answers, Fetched
<1>5. CASE Respond
  <2>1. doing' \notin Fetched \union {"page"}
    BY <1>5 DEF Respond, Fetched
  <2> QED
    BY <2>1 DEF Answers
<1>6. CASE Aggregate
  <2>1. doing' \notin Fetched \union {"page"}
    BY <1>6 DEF Aggregate, Fetched
  <2> QED
    BY <2>1 DEF Answers
<1>7. CASE LttbStart \/ LttbBucket \/ LttbEnd
  <2>1. doing \in {"lttb", "bucket", "reply"} /\ doing' \in {"lttb", "bucket", "reply"}
    BY <1>7 DEF LttbStart, LttbBucket, LttbEnd
  <2>2. UNCHANGED <<rows, items, total, least, greatest, mean, upset>>
    BY <1>7 DEF LttbStart, LttbBucket, LttbEnd, response, history
  <2> QED
    BY <2>1, <2>2, AnswersSame
<1>8. ASSUME NEW kept, NEW added, Writes(kept, added) PROVE Answers'
  <2>1. "write" \in upset'
    BY <1>8 DEF Writes
  <2> QED
    BY <2>1 DEF Answers
<1>9. ASSUME NEW t \in Time, NEW v \in Value,
             \/ create_measurement(t, v)
             \/ \E r \in rows : update_measurement(r, t, v)
      PROVE  Answers'
  BY <1>8, <1>9 DEF create_measurement, update_measurement
<1>10. CASE delete_sensor_measurements
  BY <1>8, <1>10 DEF delete_sensor_measurements
<1>11. CASE UNCHANGED readVars
  BY <1>11, AnswersSame DEF readVars, response, history
<1> QED
  BY <1>1, <1>2, <1>3, <1>4, <1>5, <1>6, <1>7, <1>9, <1>10, <1>11, AnswersAverage, AnswersFetch
  DEF ReadNext, Reads

LEMMA AnswersBound ==
  ASSUME ReadTypes, Answers, doing = "reply", "write" \notin upset, rows # {}
  PROVE  /\ mean[2] * least <= mean[1] /\ mean[1] <= mean[2] * greatest
         /\ mean[2] = total
<1> USE DEF ReadTypes
<1> DEFINE V == ValuesOf(rows)
<1>1. /\ total = Cardinality(rows) /\ least = Min(V) /\ greatest = Max(V)
      /\ mean = <<Total(rows), Cardinality(rows)>>
  BY DEF Answers, Fetched
<1>2. IsFiniteSet(rows) /\ \A r \in rows : r.value \in Int /\ r.value \in V
  BY TimeAssumption DEF RowTypes, Reading, ValuesOf
<1>3. V \in SUBSET Int /\ V # {} /\ IsFiniteSet(V)
  <2> DEFINE f == [r \in rows |-> r.value]
  <2>1. f \in Surjection(rows, V)
    BY DEF Surjection, ValuesOf
  <2>2. IsFiniteSet(V)
    <3> HIDE DEF f, V
    <3> QED
      BY <1>2, <2>1, FS_Surjection
  <2> QED
    BY <1>2, <2>2 DEF ValuesOf
<1> HIDE DEF V
<1>4. least \in Int /\ greatest \in Int /\ \A y \in V : least <= y /\ greatest >= y
  BY <1>1, <1>3, MinMaxFacts
<1>5. \A r \in rows : r.value \in Int /\ least <= r.value /\ r.value <= greatest
  BY <1>2, <1>4
<1>6. /\ Cardinality(rows) * least <= Total(rows)
      /\ Total(rows) <= Cardinality(rows) * greatest
  <2>1. \A r \in rows : r.value \in Int
    BY <1>2
  <2>2. \A r \in rows : least <= r.value /\ r.value <= greatest
    BY <1>5
  <2> QED
    BY <1>2, <1>4, <2>1, <2>2, TotalIsBounded
<1> QED
  BY <1>1, <1>6

\* While readings are only added or moved, the rows grow, and an answer holds for
\* those that were there when it was given.
Growing ==
  "changed" \notin upset =>
    /\ doing \in Fetched \union {"page"} => total <= Cardinality(rows)
    /\ doing \in {"least", "greatest", "mean"} =>
         \A i \in DOMAIN items : \E r \in rows : r.value = items[i].value
    /\ doing \in Fetched \ {"least"} => \A i \in DOMAIN items : least <= items[i].value
    /\ doing \in Fetched \ {"least", "greatest"} =>
         \A i \in DOMAIN items : items[i].value <= greatest
    /\ doing \in {"lttb", "bucket", "reply"} => total <= mean[2]

Extremes == least \in Int /\ greatest \in Int /\ (doing \in {"lttb", "bucket", "reply"} => mean[2] \in Nat)

LEMMA RowValues ==
  ASSUME RowTypes
  PROVE  /\ Cardinality(rows) \in Nat
         /\ ValuesOf(rows) \in SUBSET Int /\ IsFiniteSet(ValuesOf(rows))
         /\ \A r \in rows : r.value \in ValuesOf(rows)
         /\ rows # {} => ValuesOf(rows) # {}
<1>1. IsFiniteSet(rows) /\ \A r \in rows : r.value \in Int
  BY TimeAssumption DEF RowTypes, Reading
<1> DEFINE f == [r \in rows |-> r.value]
           V == ValuesOf(rows)
<1>2. f \in Surjection(rows, V)
  BY DEF Surjection, ValuesOf
<1>3. IsFiniteSet(V)
  <2> HIDE DEF f, V
  <2> QED
    BY <1>1, <1>2, FS_Surjection
<1> QED
  BY <1>1, <1>3, FS_CardinalityType DEF ValuesOf

LEMMA ExtremesStep == ReadTypes /\ Extremes /\ [ReadNext]_readVars => Extremes'
<1> SUFFICES ASSUME RowTypes, Extremes, [ReadNext]_readVars PROVE Extremes'
  BY DEF ReadTypes
<1>1. CASE StatsMin
  <2>1. least' \in Int /\ UNCHANGED <<greatest, mean>> /\ doing' = "greatest"
    <3>1. rows # {} => Min(ValuesOf(rows)) \in Int
      BY RowValues, MinMaxFacts
    <3> QED
      BY <1>1, <3>1 DEF StatsMin, StatsRows
  <2> QED
    BY <2>1 DEF Extremes
<1>2. CASE StatsMax
  <2>1. greatest' \in Int /\ UNCHANGED <<least, mean>> /\ doing' = "mean"
    <3>1. rows # {} => Max(ValuesOf(rows)) \in Int
      BY RowValues, MinMaxFacts
    <3> QED
      BY <1>2, <3>1 DEF StatsMax, StatsRows
  <2> QED
    BY <2>1 DEF Extremes
<1>3. CASE StatsAverage
  <2>1. mean'[2] \in Nat /\ UNCHANGED <<least, greatest>>
    BY <1>3, RowValues DEF StatsAverage, StatsRows
  <2> QED
    BY <2>1 DEF Extremes
<1>4. ASSUME UNCHANGED <<least, greatest, mean>>,
             doing' \in {"lttb", "bucket", "reply"} => doing \in {"lttb", "bucket", "reply"}
      PROVE  Extremes'
  BY <1>4 DEF Extremes
<1>5. CASE \E k \in {"list", "intervals"} : \E n, l : Ask(k, n, l)
  BY <1>4, <1>5 DEF Ask, response
<1>6. CASE Count \/ FetchPage \/ Respond \/ Aggregate
  BY <1>4, <1>6 DEF Count, FetchPage, Respond, Aggregate, response
<1>7. CASE LttbStart \/ LttbBucket \/ LttbEnd
  BY <1>4, <1>7 DEF LttbStart, LttbBucket, LttbEnd, response
<1>8. ASSUME NEW kept, NEW added, Writes(kept, added) PROVE Extremes'
  BY <1>4, <1>8 DEF Writes, response
<1>9. ASSUME NEW t \in Time, NEW v \in Value,
             \/ create_measurement(t, v)
             \/ \E r \in rows : update_measurement(r, t, v)
      PROVE  Extremes'
  BY <1>8, <1>9 DEF create_measurement, update_measurement
<1>10. CASE delete_sensor_measurements
  BY <1>8, <1>10 DEF delete_sensor_measurements
<1>11. CASE UNCHANGED readVars
  BY <1>4, <1>11 DEF readVars, response
<1> QED
  BY <1>1, <1>2, <1>3, <1>5, <1>6, <1>7, <1>9, <1>10, <1>11 DEF ReadNext, Reads

\* A write that changes no value keeps the ids and the values.
LEMMA GrowingWrite ==
  ASSUME RowTypes, RowTypes', RequestTypes, Growing, NEW kept, NEW added, Writes(kept, added)
  PROVE  Growing'
<1> SUFFICES ASSUME "changed" \notin upset' PROVE Growing'
  BY DEF Growing
<1>1. /\ doing \in Paging /\ doing' = doing /\ UNCHANGED <<total, items, least, greatest, mean>>
      /\ "changed" \notin upset
      /\ \A r \in rows : \E q \in rows' : q.id = r.id /\ q.value = r.value
  BY DEF Writes, Paging, response
<1>2. Ids(rows) \subseteq Ids(rows)'
  BY <1>1 DEF Ids
<1>3. /\ Cardinality(Ids(rows)) = Cardinality(rows) /\ IsFiniteSet(Ids(rows)')
      /\ Cardinality(Ids(rows)') = Cardinality(rows')
  <2>1. IsFiniteSet(rows) /\ \A r, q \in rows : r.id = q.id => r = q
    BY DEF RowTypes
  <2>2. IsFiniteSet(rows') /\ \A r, q \in rows' : r.id = q.id => r = q
    BY DEF RowTypes
  <2>3. Cardinality(Ids(rows)) = Cardinality(rows)
    BY <2>1, DistinctIds
  <2>4. IsFiniteSet(Ids(rows')) /\ Cardinality(Ids(rows')) = Cardinality(rows')
    BY <2>2, DistinctIds
  <2>5. Ids(rows)' = Ids(rows')
    BY DEF Ids
  <2> QED
    BY <2>3, <2>4, <2>5
<1>4. Cardinality(rows) \in Nat /\ Cardinality(rows') \in Nat
  BY FS_CardinalityType DEF RowTypes
<1>5. Cardinality(rows) <= Cardinality(rows')
  BY <1>2, <1>3, FS_Subset
<1>6. total \in Nat
  BY DEF RequestTypes
<1>7. doing \in Fetched \union {"page"} => total' <= Cardinality(rows')
  BY <1>1, <1>4, <1>5, <1>6 DEF Growing
<1>8. doing \in {"least", "greatest", "mean"} =>
        \A i \in DOMAIN items : \E r \in rows' : r.value = items[i].value
  BY <1>1 DEF Growing
<1> QED
  BY <1>1, <1>7, <1>8 DEF Growing, Fetched, Paging

LEMMA GrowingStep ==
  ReadTypes /\ ReadTypes' /\ Extremes /\ Growing /\ [ReadNext]_readVars => Growing'
<1> SUFFICES ASSUME RowTypes, RowTypes', RequestTypes, Extremes, Growing, [ReadNext]_readVars
             PROVE  Growing'
  BY DEF ReadTypes
<1>1. ASSUME NEW k \in {"list", "intervals"}, NEW n, NEW l, Ask(k, n, l) PROVE Growing'
  <2>1. doing' \in {"count", "intervals"}
    BY <1>1 DEF Ask
  <2> QED
    BY <2>1 DEF Growing, Fetched
<1>2. CASE Count
  <2>1. doing' = "page" /\ total' = Cardinality(rows) /\ rows' = rows /\ Cardinality(rows) \in Nat
    BY <1>2, RowValues DEF Count
  <2>2. total' <= Cardinality(rows')
    BY <2>1
  <2> QED
    BY <2>1, <2>2 DEF Growing, Fetched
<1>3. CASE FetchPage
  <2>1. doing = "page" /\ doing' = "least" /\ UNCHANGED <<rows, total, upset>>
    BY <1>3 DEF FetchPage, history
  <2>2. PICK upwards \in BOOLEAN : items' = PageOf(Ordered(upwards))
    BY <1>3 DEF FetchPage
  <2>3. \A i \in DOMAIN items' : items'[i] \in rows
    BY <2>2, PageFacts
  <2> QED
    BY <2>1, <2>3 DEF Growing, Fetched
<1>4. ASSUME "changed" \notin upset, doing \in {"least", "greatest", "mean"}, NEW i \in DOMAIN items
      PROVE  rows # {} /\ items[i].value \in ValuesOf(rows)
  <2>1. \E r \in rows : r.value = items[i].value
    BY <1>4 DEF Growing
  <2> QED
    BY <2>1 DEF ValuesOf
<1>5. CASE StatsMin
  <2>1. doing = "least" /\ doing' = "greatest" /\ UNCHANGED <<rows, items, total, upset>>
    BY <1>5 DEF StatsMin, history
  <2>2. rows # {} => least' = Min(ValuesOf(rows))
    BY <1>5 DEF StatsMin, StatsRows
  <2>3. rows # {} => \A y \in ValuesOf(rows) : Min(ValuesOf(rows)) <= y
    BY RowValues, MinMaxFacts
  <2>4. "changed" \notin upset => \A i \in DOMAIN items : least' <= items[i].value
    BY <1>4, <2>1, <2>2, <2>3
  <2> QED
    BY <2>1, <2>4 DEF Growing, Fetched
<1>6. CASE StatsMax
  <2>1. doing = "greatest" /\ doing' = "mean" /\ UNCHANGED <<rows, items, total, least, upset>>
    BY <1>6 DEF StatsMax, history
  <2>2. rows # {} => greatest' = Max(ValuesOf(rows))
    BY <1>6 DEF StatsMax, StatsRows
  <2>3. /\ rows # {} => \A y \in ValuesOf(rows) : Max(ValuesOf(rows)) >= y
        /\ rows # {} => Max(ValuesOf(rows)) \in Int
        /\ ValuesOf(rows) \subseteq Int
    BY RowValues, MinMaxFacts
  <2>4. "changed" \notin upset => \A i \in DOMAIN items : items[i].value <= greatest'
    <3> SUFFICES ASSUME "changed" \notin upset, NEW i \in DOMAIN items
                 PROVE  items[i].value <= greatest'
      OBVIOUS
    <3>1. rows # {} /\ items[i].value \in ValuesOf(rows)
      BY <1>4, <2>1
    <3> DEFINE y == items[i].value
               g == Max(ValuesOf(rows))
    <3>2. g >= y /\ g \in Int /\ y \in Int /\ greatest' = g
      BY <2>2, <2>3, <3>1
    <3> HIDE DEF y, g
    <3>3. y <= greatest'
      BY <3>2
    <3> QED
      BY <3>3 DEF y
  <2> QED
    BY <2>1, <2>4 DEF Growing, Fetched
<1>7. CASE StatsAverage
  <2>1. /\ doing = "mean" /\ doing' \in {"lttb", "reply"}
        /\ UNCHANGED <<rows, items, total, least, greatest, upset>>
    BY <1>7 DEF StatsAverage, history
  <2>2. mean'[2] = IF rows = {} THEN 1 ELSE Cardinality(rows)
    BY <1>7 DEF StatsAverage, StatsRows
  <2>3. total \in Nat /\ (rows = {} => Cardinality(rows) = 0)
    BY FS_EmptySet DEF RequestTypes
  <2>4. "changed" \notin upset => total <= mean'[2]
    BY <2>1, <2>2, <2>3 DEF Growing, Fetched
  <2> QED
    BY <2>1, <2>4 DEF Growing, Fetched
<1>8. CASE Respond \/ Aggregate
  <2>1. doing' \notin Fetched \union {"page"}
    BY <1>8 DEF Respond, Aggregate, Fetched
  <2> QED
    BY <2>1 DEF Growing, Fetched
<1>9. CASE LttbStart \/ LttbBucket \/ LttbEnd
  <2>1. doing \in {"lttb", "bucket", "reply"} /\ doing' \in {"lttb", "bucket", "reply"}
    BY <1>9 DEF LttbStart, LttbBucket, LttbEnd
  <2>2. UNCHANGED <<rows, items, total, least, greatest, mean, upset>>
    BY <1>9 DEF LttbStart, LttbBucket, LttbEnd, response, history
  <2> QED
    BY <2>1, <2>2 DEF Growing, Fetched
<1>10. ASSUME NEW t \in Time, NEW v \in Value,
              \/ create_measurement(t, v)
              \/ \E r \in rows : update_measurement(r, t, v)
       PROVE  Growing'
  BY <1>10, GrowingWrite DEF create_measurement, update_measurement
<1>11. CASE delete_sensor_measurements
  BY <1>11, GrowingWrite DEF delete_sensor_measurements
<1>12. CASE UNCHANGED readVars
  BY <1>12 DEF readVars, response, history, Growing
<1> QED
  BY <1>1, <1>2, <1>3, <1>5, <1>6, <1>7, <1>8, <1>9, <1>10, <1>11, <1>12 DEF ReadNext, Reads

LEMMA GrowingBound ==
  ASSUME ReadTypes, Extremes, Growing, doing = "reply", "changed" \notin upset
  PROVE  total <= mean[2] /\ \A i \in DOMAIN items : items[i].value \in least..greatest
<1>1. \A i \in DOMAIN items : items[i].value \in Int
  <2>1. items \in Seq(Reading)
    BY DEF ReadTypes, RequestTypes
  <2>2. \A i \in DOMAIN items : items[i] \in Reading
    BY <2>1
  <2>3. \A r \in Reading : r.value \in Int
    BY TimeAssumption DEF Reading
  <2> QED
    BY <2>2, <2>3
<1>2. /\ total <= mean[2]
      /\ \A i \in DOMAIN items : least <= items[i].value
      /\ \A i \in DOMAIN items : items[i].value <= greatest
  BY DEF Growing, Fetched
<1> QED
  BY <1>1, <1>2 DEF Extremes

\* The minimum, maximum and average of a list come from statements after that of
\* its page. While readings only come or move, the extremes bound every reading
\* of the page and the average is over no fewer than were counted; while nothing
\* is written, all answer for the same readings: for any table, values, limit,
\* threshold and number of writes. (stats_query)
THEOREM StatisticsHold == ReadSpec => []StatisticsBoundThePages
<1>1. ReadInit => Extremes /\ Growing
  BY DEF ReadInit, Extremes, Growing, Fetched
<1>2. ReadTypes /\ Answers /\ [ReadNext]_readVars => Answers'
  BY AnswersStep
<1>3. ReadTypes /\ Extremes /\ [ReadNext]_readVars => Extremes'
  BY ExtremesStep
<1>4. ReadTypes /\ ReadTypes' /\ Extremes /\ Growing /\ [ReadNext]_readVars => Growing'
  BY GrowingStep
<1>5. ReadTypes /\ Answers /\ Extremes /\ Growing => StatisticsBoundThePages
  BY AnswersBound, GrowingBound DEF StatisticsBoundThePages
<1> QED
  BY <1>1, <1>2, <1>3, <1>4, <1>5, AnswersInit, ReadTypesHold, PTL DEF ReadSpec

-----------------------------------------------------------------------------
(***************************************************************************)
(* The intervals of the aggregation, which part the rows.                  *)
(***************************************************************************)
\* What counts each member of a set once is the sum of the set.
LEMMA SumIs ==
  ASSUME NEW S, IsFiniteSet(S), NEW f \in [S -> Int], NEW g, g[{}] = 0,
         \A s \in SUBSET S : \A z \in s : g[s] = f[z] + g[s \ {z}]
  PROVE  Part(f, S) = g[S]
<1>f. Part(f, {}) = 0 /\ \A s \in SUBSET S : Part(f, s) \in Int
  BY PartSums
<1>g. ASSUME NEW s \in SUBSET S, NEW z \in s PROVE Part(f, s) = f[z] + Part(f, s \ {z})
  BY PartSums
<1> DEFINE D == {s \in SUBSET S : Part(f, s) # g[s]}
<1>1. ASSUME D # {} PROVE FALSE
  <2>1. PICK m \in D : \A d \in D : d \subseteq m => d = m
    <3>1. D \in SUBSET (SUBSET S)
      OBVIOUS
    <3> HIDE DEF D
    <3> QED
      BY <1>1, <3>1, SmallestSet
  <2>2. m \in SUBSET S /\ Part(f, m) # g[m]
    OBVIOUS
  <2>3. m # {}
    BY <1>f, <2>2
  <2>4. PICK z \in m : TRUE
    BY <2>3
  <2>5. m \ {z} \in SUBSET S /\ m \ {z} # m /\ m \ {z} \subseteq m
    BY <2>2, <2>4
  <2>6. Part(f, m \ {z}) = g[m \ {z}]
    BY <2>1, <2>5
  <2>7. Part(f, m) = f[z] + Part(f, m \ {z})
    BY <1>g, <2>2, <2>4
  <2>8. g[m] = f[z] + g[m \ {z}]
    BY <2>2, <2>4
  <2> QED
    BY <2>2, <2>6, <2>7, <2>8
<1>2. S \notin D
  BY <1>1
<1> QED
  BY <1>2

LEMMA TotalUnion ==
  ASSUME NEW S, IsFiniteSet(S), \A r \in S : r.value \in Int,
         NEW X \in SUBSET S, NEW Y \in SUBSET S, X \intersect Y = {}
  PROVE  Total(X \union Y) = Total(X) + Total(Y)
<1> DEFINE D == {T \in SUBSET Y : Total(X \union T) # Total(X) + Total(T)}
<1>1. ASSUME D # {} PROVE FALSE
  <2>1. PICK m \in D : \A d \in D : d \subseteq m => d = m
    <3>1. D \in SUBSET (SUBSET Y) /\ IsFiniteSet(Y)
      BY FS_Subset
    <3> HIDE DEF D
    <3> QED
      BY <1>1, <3>1, SmallestSet
  <2>2. m \in SUBSET Y /\ Total(X \union m) # Total(X) + Total(m)
    OBVIOUS
  <2>3. \A s \in SUBSET S : Total(s) \in Int
    BY TotalFacts
  <2>4. CASE m = {}
    <3>1. X \union m = X /\ Total(m) = 0
      BY <2>4, TotalFacts
    <3>2. Total(X \union m) = Total(X) /\ Total(X) \in Int
      BY <2>3, <3>1
    <3> QED
      BY <2>2, <3>1, <3>2
  <2>5. CASE m # {}
    <3>1. PICK z \in m : TRUE
      BY <2>5
    <3> DEFINE t == m \ {z}
    <3>2. t \in SUBSET Y /\ t # m /\ t \subseteq m
      BY <2>2, <3>1
    <3>3. Total(X \union t) = Total(X) + Total(t)
      BY <2>1, <3>2
    <3>4. /\ X \union m \in SUBSET S /\ z \in X \union m /\ (X \union m) \ {z} = X \union t
          /\ m \in SUBSET S /\ t \in SUBSET S /\ X \union t \in SUBSET S /\ z.value \in Int
      BY <2>2, <3>1
    <3> HIDE DEF t
    <3>5. Total(X \union m) = z.value + Total(X \union t)
      <4> DEFINE u == X \union m
                 v == X \union t
      <4>1. u \in SUBSET S /\ z \in u /\ u \ {z} = v
        BY <3>4
      <4> HIDE DEF u, v
      <4>2. Total(u) = z.value + Total(u \ {z})
        BY <4>1, TotalFacts
      <4> QED
        BY <4>1, <4>2 DEF u, v
    <3>6. Total(m) = z.value + Total(t)
      BY <2>2, <3>1, <3>4, TotalFacts DEF t
    <3>7. Total(X) \in Int /\ Total(t) \in Int
      BY <2>3, <3>4
    <3> QED
      BY <2>2, <3>3, <3>4, <3>5, <3>6, <3>7
  <2> QED
    BY <2>4, <2>5
<1>2. Y \notin D
  BY <1>1
<1> QED
  BY <1>2

\* The answer of the SQL function.
Grouped == {IntervalOf(s) : s \in Starts}
\* The rows that a set of intervals holds.
Held(set) == UNION {GroupOf(b.start) : b \in set}

LEMMA GroupedFacts ==
  ASSUME RowTypes
  PROVE  /\ IsFiniteSet(Grouped) /\ Held(Grouped) = rows /\ Held({}) = {}
         /\ \A r \in rows : \E b \in Grouped : b.start = IntervalStart(r.time) /\ r \in GroupOf(b.start)
         /\ \A b \in Grouped :
              LET group == GroupOf(b.start) IN
              /\ group \in SUBSET rows /\ group # {}
              /\ b.count = Cardinality(group) /\ b.sum = Total(group)
              /\ b.least = Min(ValuesOf(group)) /\ b.greatest = Max(ValuesOf(group))
         /\ \A set \in SUBSET Grouped : \A b \in set :
              /\ Held(set) \in SUBSET rows
              /\ GroupOf(b.start) \subseteq Held(set)
              /\ Held(set \ {b}) = Held(set) \ GroupOf(b.start)
<1>1. \A s : /\ IntervalOf(s).start = s
             /\ IntervalOf(s).count = Cardinality(GroupOf(s)) /\ IntervalOf(s).sum = Total(GroupOf(s))
             /\ IntervalOf(s).least = Min(ValuesOf(GroupOf(s)))
             /\ IntervalOf(s).greatest = Max(ValuesOf(GroupOf(s)))
  BY DEF IntervalOf
<1>2. ASSUME NEW r \in rows
      PROVE  IntervalStart(r.time) \in Starts /\ r \in GroupOf(IntervalStart(r.time))
  <2> DEFINE g == GroupOf(IntervalStart(r.time))
  <2>1. r \in g /\ g \subseteq rows
    BY DEF GroupOf
  <2>2. IsFiniteSet(g) /\ Cardinality(g) \in Nat /\ Cardinality(g) # 0
    <3> HIDE DEF g
    <3>1. IsFiniteSet(g)
      BY <2>1, FS_Subset DEF RowTypes
    <3> QED
      BY <2>1, <3>1, FS_CardinalityType, FS_EmptySet
  <2>3. Counted(g)
    BY <2>2 DEF Counted
  <2> QED
    BY <2>1, <2>3 DEF Starts
<1>3. \A s : GroupOf(s) \in SUBSET rows
  BY DEF GroupOf
<1>4. \A s \in Starts : GroupOf(s) # {}
  BY DEF Starts, GroupOf
<1>5. IsFiniteSet(Grouped)
  <2> DEFINE f == [r \in rows |-> IntervalOf(IntervalStart(r.time))]
             W == {f[r] : r \in rows}
  <2>1. f \in Surjection(rows, W)
    BY DEF Surjection
  <2>2. IsFiniteSet(W)
    <3> HIDE DEF f, W
    <3> QED
      BY <2>1, FS_Surjection DEF RowTypes
  <2>3. Grouped \subseteq W
    BY DEF Grouped, Starts
  <2> HIDE DEF W
  <2> QED
    BY <2>2, <2>3, FS_Subset
<1>6. \A b \in Grouped : b.start \in Starts /\ b = IntervalOf(b.start)
  BY <1>1 DEF Grouped
<1>7. \A r \in rows : \E b \in Grouped : b.start = IntervalStart(r.time) /\ r \in GroupOf(b.start)
  BY <1>1, <1>2 DEF Grouped
<1>8. \A set : Held(set) \in SUBSET rows
  BY <1>3 DEF Held
<1>9. Held(Grouped) = rows
  BY <1>7, <1>8 DEF Held
<1>10. ASSUME NEW set \in SUBSET Grouped, NEW b \in set
       PROVE  /\ GroupOf(b.start) \subseteq Held(set)
              /\ Held(set \ {b}) = Held(set) \ GroupOf(b.start)
  <2>1. \A c \in set : c # b => GroupOf(c.start) \intersect GroupOf(b.start) = {}
    <3>1. \A c \in set : c # b => c.start # b.start
      BY <1>6
    <3> QED
      BY <3>1 DEF GroupOf
  <2> QED
    BY <2>1 DEF Held
<1>11. Held({}) = {}
  BY DEF Held
<1>12. \A b \in Grouped :
         LET group == GroupOf(b.start) IN
         /\ group \in SUBSET rows /\ group # {}
         /\ b.count = Cardinality(group) /\ b.sum = Total(group)
         /\ b.least = Min(ValuesOf(group)) /\ b.greatest = Max(ValuesOf(group))
  BY <1>1, <1>3, <1>4, <1>6
<1> QED
  BY <1>5, <1>7, <1>8, <1>9, <1>10, <1>11, <1>12

LEMMA GroupedSums ==
  ASSUME RowTypes
  PROVE  /\ SumFunction([b \in Grouped |-> b.count]) = Cardinality(rows)
         /\ SumFunction([b \in Grouped |-> b.sum]) = Total(rows)
<1>1. IsFiniteSet(rows) /\ \A r \in rows : r.value \in Int
  BY TimeAssumption DEF RowTypes, Reading
<1>2. \A s \in SUBSET rows : IsFiniteSet(s) /\ Cardinality(s) \in Nat /\ Total(s) \in Int
  BY <1>1, FS_Subset, FS_CardinalityType, TotalFacts
<1> DEFINE counts == [b \in Grouped |-> b.count]
           sums == [b \in Grouped |-> b.sum]
           held == [set \in SUBSET Grouped |-> Cardinality(Held(set))]
           heldSum == [set \in SUBSET Grouped |-> Total(Held(set))]
<1>3. \A b \in Grouped :
        /\ GroupOf(b.start) \in SUBSET rows
        /\ b.count = Cardinality(GroupOf(b.start)) /\ b.sum = Total(GroupOf(b.start))
  BY GroupedFacts
<1>4. counts \in [Grouped -> Int] /\ sums \in [Grouped -> Int] /\ IsFiniteSet(Grouped)
  BY <1>2, <1>3, GroupedFacts
<1>5. held[{}] = 0 /\ heldSum[{}] = 0
  BY <1>1, GroupedFacts, TotalFacts, FS_EmptySet
<1>6. ASSUME NEW set \in SUBSET Grouped, NEW b \in set
      PROVE  /\ held[set] = counts[b] + held[set \ {b}]
             /\ heldSum[set] = sums[b] + heldSum[set \ {b}]
  <2> DEFINE group == GroupOf(b.start)
             h == Held(set)
             rest == Held(set \ {b})
  <2>1. b \in Grouped /\ set \ {b} \in SUBSET Grouped
    OBVIOUS
  <2>2. h \in SUBSET rows /\ group \subseteq h /\ rest = h \ group
    BY GroupedFacts
  <2>3. /\ counts[b] = Cardinality(group) /\ sums[b] = Total(group)
        /\ held[set] = Cardinality(h) /\ held[set \ {b}] = Cardinality(rest)
        /\ heldSum[set] = Total(h) /\ heldSum[set \ {b}] = Total(rest)
    BY <1>3, <2>1
  <2> HIDE DEF group, h, rest, held, heldSum, counts, sums
  <2>4. Cardinality(h) = Cardinality(group) + Cardinality(rest)
    <3>1. h = group \union rest /\ group \intersect rest = {}
      BY <2>2
    <3>2. IsFiniteSet(group) /\ IsFiniteSet(rest)
      BY <1>2, <2>2
    <3>3. Cardinality(group \union rest) =
            Cardinality(group) + Cardinality(rest) - Cardinality(group \intersect rest)
      BY <3>2, FS_Union
    <3>4. Cardinality(group \intersect rest) = 0
      BY <3>1, FS_EmptySet
    <3>5. Cardinality(group) \in Nat /\ Cardinality(rest) \in Nat
      BY <3>2, FS_CardinalityType
    <3> QED
      BY <3>1, <3>3, <3>4, <3>5
  <2>5. Total(h) = Total(group) + Total(rest)
    <3>1. h = group \union rest /\ group \intersect rest = {}
      BY <2>2
    <3>2. group \in SUBSET rows /\ rest \in SUBSET rows
      BY <2>2
    <3> QED
      BY <1>1, <3>1, <3>2, TotalUnion
  <2> QED
    BY <2>3, <2>4, <2>5
<1>7. held[Grouped] = Cardinality(rows) /\ heldSum[Grouped] = Total(rows)
  BY GroupedFacts
<1>8. /\ [b \in Grouped |-> counts[b]] = counts
      /\ [b \in Grouped |-> sums[b]] = sums
  OBVIOUS
<1> HIDE DEF held, heldSum, counts, sums
<1>9. Part(counts, Grouped) = held[Grouped]
  <2>1. \A s \in SUBSET Grouped : \A z \in s : held[s] = counts[z] + held[s \ {z}]
    BY <1>6
  <2> QED
    BY <1>4, <1>5, <2>1, SumIs
<1>10. Part(sums, Grouped) = heldSum[Grouped]
  <2>1. \A s \in SUBSET Grouped : \A z \in s : heldSum[s] = sums[z] + heldSum[s \ {z}]
    BY <1>6
  <2> QED
    BY <1>4, <1>5, <2>1, SumIs
<1>11. SumFunction(counts) = Cardinality(rows) /\ SumFunction(sums) = Total(rows)
  BY <1>7, <1>8, <1>9, <1>10 DEF Part
<1> QED
  BY <1>11 DEF counts, sums

-----------------------------------------------------------------------------
(* The start of an interval, in half seconds. *)
\* A quotient is known by what it leaves.
LEMMA QuotientIs ==
  ASSUME NEW x \in Nat, NEW b \in Nat \ {0}, NEW q \in Nat, b * q <= x, x < b * q + b
  PROVE  x \div b = q
<1> DEFINE k == x \div b
           m == x % b
<1>1. k \in Nat /\ m \in Nat /\ m < b /\ x = b * k + m
  BY Quotients
<1> HIDE DEF k, m
<1>2. ASSUME k < q PROVE FALSE
  <2>1. k + 1 \in Nat /\ k + 1 <= q
    BY <1>1, <1>2
  <2>2. b * (k + 1) <= b * q
    BY <2>1, Products
  <2>3. b * (k + 1) = b * k + b
    BY <1>1
  <2>4. b * k \in Nat /\ b * q \in Nat
    BY <1>1, Products
  <2> QED
    BY <1>1, <2>2, <2>3, <2>4
<1>3. ASSUME q < k PROVE FALSE
  <2>1. q + 1 \in Nat /\ q + 1 <= k
    BY <1>1, <1>3
  <2>2. b * (q + 1) <= b * k
    BY <1>1, <2>1, Products
  <2>3. b * (q + 1) = b * q + b
    OBVIOUS
  <2>4. b * k \in Nat /\ b * q \in Nat
    BY <1>1, Products
  <2> QED
    BY <1>1, <2>2, <2>3, <2>4
<1> QED
  BY <1>1, <1>2, <1>3 DEF k

\* A time that is less than a minute after the start of a minute is of this minute.
LEMMA MinuteFacts ==
  ASSUME NEW t \in Nat
  PROVE  /\ MinuteOf(t) \in Nat /\ MinuteOf(t) <= t /\ t < MinuteOf(t) + 2 * Minute
         /\ \A x \in Nat : MinuteOf(t) <= x /\ x < MinuteOf(t) + 2 * Minute
              => MinuteOf(x) = MinuteOf(t)
         /\ \E k \in Nat : Minute * k \in Nat /\ MinuteOf(t) = 2 * (Minute * k)
<1> DEFINE b == 2 * Minute
           k == t \div b
           m == t % b
<1>1. b \in Nat \ {0}
  BY CountsAssumption
<1> HIDE DEF b
<1>2. k \in Nat /\ m \in Nat /\ m < b /\ t = b * k + m
  BY <1>1, Quotients
<1>3. MinuteOf(t) = b * k
  <2>1. MinuteOf(t) = k * b
    BY DEF MinuteOf, b
  <2> HIDE DEF k
  <2> QED
    BY <1>1, <1>2, <2>1
<1>4. b * k \in Nat
  BY <1>1, <1>2, Products
<1>5. ASSUME NEW x \in Nat, b * k <= x, x < b * k + b PROVE MinuteOf(x) = MinuteOf(t)
  <2>1. x \div b = k
    BY <1>1, <1>2, <1>5, QuotientIs
  <2> QED
    BY <2>1 DEF MinuteOf, b
<1>7. Minute * k \in Nat /\ b * k = 2 * (Minute * k)
  <2> HIDE DEF k
  <2>1. Minute \in Nat
    BY CountsAssumption
  <2>2. Minute * k \in Nat
    BY <1>2, <2>1, Products
  <2> QED
    BY <1>2, <2>1, <2>2 DEF b
<1> HIDE DEF k, m
<1>6. b * k <= t /\ t < b * k + b
  <2> DEFINE p == b * k
  <2>1. p \in Nat /\ t = p + m
    BY <1>2, <1>4
  <2> HIDE DEF p
  <2>2. p <= t /\ t < p + b
    BY <1>1, <1>2, <2>1
  <2> QED
    BY <2>2 DEF p
<1> QED
  BY <1>2, <1>3, <1>4, <1>5, <1>6, <1>7 DEF b

LEMMA SecondsFacts ==
  ASSUME NEW t \in Nat, by \in Nat \ {0}, by # 1
  PROVE  LET s == IntervalStart(t) IN
         /\ s \in Nat /\ MinuteOf(t) <= s /\ s < MinuteOf(t) + 2 * Minute
         /\ t % 2 = 0 => s <= t /\ t < s + 2 * by
<1> DEFINE first == MinuteOf(t)
           h == (t + 1) \div 2
           e == SecondOf(t)
           d == e \div by
           p == by * d
<1>1. Minute \in Nat \ {0}
  BY CountsAssumption
<1>2. h \in Nat /\ t + 1 = 2 * h + ((t + 1) % 2) /\ (t + 1) % 2 \in 0..1
  BY Quotients
<1>3. e = h % Minute
  BY DEF SecondOf
<1> HIDE DEF h, e
<1>4. e \in Nat /\ e < Minute /\ h = Minute * (h \div Minute) + e
  BY <1>1, <1>2, <1>3, Quotients
<1>5. d \in Nat /\ p \in Nat /\ p <= e /\ e < p + by
  <2>1. d \in Nat /\ e % by \in Nat /\ e % by < by /\ e = by * d + (e % by)
    BY <1>4, Quotients
  <2>2. by * d \in Nat
    BY <2>1, Products
  <2> HIDE DEF d
  <2> DEFINE r == e % by
  <2>3. r \in Nat /\ r < by /\ e = p + r /\ p \in Nat
    BY <2>1, <2>2
  <2> HIDE DEF r, p
  <2> QED
    BY <2>1, <2>3
<1>6. IntervalStart(t) = first + 2 * p
  <2>1. IntervalStart(t) = first + 2 * by * d
    BY DEF IntervalStart, e
  <2>2. 2 * by * d = 2 * (by * d)
    <3> HIDE DEF d
    <3> QED
      BY <1>5
  <2> HIDE DEF d, first
  <2> QED
    BY <2>1, <2>2
<1> HIDE DEF first, p, d
<1>7. first \in Nat /\ first <= t /\ t < first + 2 * Minute
  BY MinuteFacts DEF first
<1>8. PICK k \in Nat : Minute * k \in Nat /\ first = 2 * (Minute * k)
  BY MinuteFacts DEF first
<1>9. ASSUME t % 2 = 0 PROVE t = first + 2 * e
  <2>1. t = 2 * h
    BY <1>2, <1>9
  <2>2. Minute * k <= h /\ h < Minute * k + Minute
    BY <1>1, <1>2, <1>7, <1>8, <2>1
  <2>3. h \div Minute = k
    BY <1>1, <1>2, <2>2, QuotientIs
  <2>4. h = Minute * k + e
    BY <1>4, <2>3
  <2> QED
    BY <1>4, <1>8, <2>1, <2>4
<1> DEFINE s == IntervalStart(t)
<1>10. s \in Nat /\ first <= s /\ s < first + 2 * Minute
  BY <1>1, <1>4, <1>5, <1>6, <1>7
<1>11. t % 2 = 0 => s <= t /\ t < s + 2 * by
  <2> HIDE DEF s
  <2>1. s = first + 2 * p
    BY <1>6 DEF s
  <2> QED
    BY <1>4, <1>5, <1>7, <1>9, <2>1
<1> HIDE DEF s
<1> QED
  BY <1>10, <1>11 DEF s, first

LEMMA OneSecondFacts ==
  ASSUME NEW t \in Nat, by = 1
  PROVE  LET s == IntervalStart(t) IN
         /\ s \in Nat /\ MinuteOf(t) <= s /\ s < MinuteOf(t) + 2 * Minute
         /\ s <= t /\ t < s + 2
<1> DEFINE first == MinuteOf(t)
           h == t \div 2
           m == t % 2
<1>1. h \in Nat /\ t = 2 * h + m /\ m \in 0..1
  BY Quotients
<1>2. IntervalStart(t) = h * 2
  BY DEF IntervalStart
<1> HIDE DEF h, m, first
<1>3. first \in Nat /\ first <= t /\ t < first + 2 * Minute
  BY MinuteFacts DEF first
<1>4. PICK k \in Nat : Minute * k \in Nat /\ first = 2 * (Minute * k)
  BY MinuteFacts DEF first
<1>5. Minute \in Nat
  BY CountsAssumption
<1> DEFINE s == IntervalStart(t)
<1>6. /\ s \in Nat /\ first <= s /\ s < first + 2 * Minute
      /\ s <= t /\ t < s + 2
  BY <1>1, <1>2, <1>3, <1>4, <1>5
<1> HIDE DEF s
<1> QED
  BY <1>6 DEF s, first

LEMMA StartFacts ==
  ASSUME NEW t \in Nat, by \in Nat \ {0}
  PROVE  LET s == IntervalStart(t) IN
         /\ MinuteOf(s) = MinuteOf(t)
         /\ t % 2 = 0 \/ by = 1 => t \in s..(s + 2 * by - 1)
<1> DEFINE s == IntervalStart(t)
<1>1. /\ s \in Nat /\ MinuteOf(t) <= s /\ s < MinuteOf(t) + 2 * Minute
      /\ t % 2 = 0 \/ by = 1 => s <= t /\ t < s + 2 * by
  <2> HIDE DEF s
  <2>1. CASE by = 1
    BY <2>1, OneSecondFacts DEF s
  <2>2. CASE by # 1
    BY <2>2, SecondsFacts DEF s
  <2> QED
    BY <2>1, <2>2
<1> HIDE DEF s
<1>2. MinuteOf(s) = MinuteOf(t)
  BY <1>1, MinuteFacts
<1>3. t % 2 = 0 \/ by = 1 => t \in s..(s + 2 * by - 1)
  BY <1>1
<1> QED
  BY <1>2, <1>3 DEF s

-----------------------------------------------------------------------------
\* The answer is that of the SQL function.
Aggregated ==
  /\ doing = "intervals" => by \in Nat \ {0}
  /\ doing = "done" /\ kind = "intervals" => by \in Nat \ {0} /\ intervals = Grouped

LEMMA AggregatedInit == ReadInit => Aggregated
BY DEF ReadInit, Aggregated

LEMMA GroupedSame ==
  ASSUME UNCHANGED <<rows, by>> PROVE Grouped' = Grouped
BY DEF Grouped, Starts, IntervalOf, GroupOf, Counted, IntervalStart

LEMMA AggregatedStep == ReadTypes /\ Aggregated /\ [ReadNext]_readVars => Aggregated'
<1> SUFFICES ASSUME RequestTypes, Aggregated, [ReadNext]_readVars PROVE Aggregated'
  BY DEF ReadTypes
<1>1. ASSUME NEW l \in Limits,
             \/ \E n \in Thresholds \union {0} : Ask("list", n, l)
             \/ \E n \in Widths : Ask("intervals", n, l)
      PROVE  Aggregated'
  <2>1. CASE \E n \in Thresholds \union {0} : Ask("list", n, l)
    BY <2>1 DEF Ask, Aggregated
  <2>2. CASE \E n \in Widths : Ask("intervals", n, l)
    BY <2>2, CountsAssumption DEF Ask, Aggregated
  <2> QED
    BY <1>1, <2>1, <2>2
<1>2. CASE Aggregate
  <2>1. by \in Nat \ {0} /\ intervals' = Grouped /\ doing' = "done" /\ UNCHANGED <<rows, by>>
    BY <1>2 DEF Aggregate, Aggregated, Grouped, request
  <2> QED
    BY <2>1, GroupedSame DEF Aggregated
<1>3. ASSUME doing' = "done" => kind' # "intervals", doing' # "intervals" PROVE Aggregated'
  BY <1>3 DEF Aggregated
<1>4. CASE Count \/ FetchPage \/ StatsMin \/ StatsMax \/ StatsAverage \/ Respond
           \/ LttbStart \/ LttbBucket \/ LttbEnd
  <2>1. kind = "list" /\ kind' = kind /\ doing' # "intervals"
    BY <1>4 DEF Count, FetchPage, StatsMin, StatsMax, StatsAverage, Respond, LttbStart, LttbBucket,
                LttbEnd, request, RequestTypes, Paging
  <2> QED
    BY <1>3, <2>1
<1>5. ASSUME NEW kept, NEW added, Writes(kept, added) PROVE Aggregated'
  <2>1. doing' \notin {"done", "intervals"}
    BY <1>5 DEF Writes
  <2> QED
    BY <1>3, <2>1
<1>6. ASSUME NEW t \in Time, NEW v \in Value,
             \/ create_measurement(t, v)
             \/ \E r \in rows : update_measurement(r, t, v)
      PROVE  Aggregated'
  BY <1>5, <1>6 DEF create_measurement, update_measurement
<1>7. CASE delete_sensor_measurements
  BY <1>5, <1>7 DEF delete_sensor_measurements
<1>8. CASE UNCHANGED readVars
  <2>1. UNCHANGED <<rows, by, kind, doing, intervals>>
    BY <1>8 DEF readVars, request, response
  <2> QED
    BY <2>1, GroupedSame DEF Aggregated
<1> QED
  BY <1>1, <1>2, <1>4, <1>6, <1>7, <1>8 DEF ReadNext, Reads

LEMMA AggregatedHolds == ReadTypes /\ Aggregated => IntervalsHoldAll
<1> SUFFICES ASSUME RowTypes, Aggregated, doing = "done", kind = "intervals"
             PROVE  /\ SumFunction([b \in intervals |-> b.count]) = Cardinality(rows)
                    /\ SumFunction([b \in intervals |-> b.sum]) = Total(rows)
                    /\ \A r \in rows : \E b \in intervals :
                         /\ r.value \in b.least..b.greatest
                         /\ MinuteOf(b.start) = MinuteOf(r.time)
                         /\ r.time % 2 = 0 \/ by = 1 => r.time \in b.start..(b.start + 2 * by - 1)
  BY DEF ReadTypes, IntervalsHoldAll
<1>1. by \in Nat \ {0} /\ intervals = Grouped
  BY DEF Aggregated
<1>2. ASSUME NEW r \in rows
      PROVE  \E b \in Grouped :
               /\ r.value \in b.least..b.greatest
               /\ MinuteOf(b.start) = MinuteOf(r.time)
               /\ r.time % 2 = 0 \/ by = 1 => r.time \in b.start..(b.start + 2 * by - 1)
  <2>1. PICK b \in Grouped : b.start = IntervalStart(r.time) /\ r \in GroupOf(b.start)
    BY GroupedFacts
  <2> DEFINE group == GroupOf(b.start)
             V == ValuesOf(group)
  <2>2. /\ group \in SUBSET rows /\ group # {} /\ r \in group
        /\ b.least = Min(V) /\ b.greatest = Max(V)
    BY <2>1, GroupedFacts
  <2>3. \A q \in group : q.value \in Int /\ q.value \in V
    BY <2>2, TimeAssumption DEF RowTypes, Reading, ValuesOf
  <2>4. IsFiniteSet(V)
    <3> DEFINE f == [q \in group |-> q.value]
    <3>1. f \in Surjection(group, V)
      BY DEF Surjection, ValuesOf
    <3>2. IsFiniteSet(group)
      BY <2>2, FS_Subset DEF RowTypes
    <3> HIDE DEF f, V, group
    <3> QED
      BY <3>1, <3>2, FS_Surjection
  <2>5. V \in SUBSET Int /\ r.value \in V
    BY <2>2, <2>3 DEF ValuesOf
  <2>6. r.value \in b.least..b.greatest
    <3> HIDE DEF V, group
    <3>1. Min(V) \in V /\ Max(V) \in V /\ Min(V) <= r.value /\ Max(V) >= r.value
      BY <2>4, <2>5, MinMaxFacts
    <3>2. b.least = Min(V) /\ b.greatest = Max(V) /\ r.value \in Int
      BY <2>2, <2>5
    <3>3. b.least \in Int /\ b.greatest \in Int /\ b.least <= r.value /\ r.value <= b.greatest
      BY <2>5, <3>1, <3>2
    <3> QED
      BY <3>2, <3>3
  <2>7. r.time \in Nat
    BY DEF RowTypes, Reading
  <2>8. /\ MinuteOf(b.start) = MinuteOf(r.time)
        /\ r.time % 2 = 0 \/ by = 1 => r.time \in b.start..(b.start + 2 * by - 1)
    BY <1>1, <2>1, <2>7, StartFacts
  <2> QED
    BY <2>6, <2>8
<1> QED
  BY <1>1, <1>2, GroupedSums

\* Every reading is counted once, in an interval of its own minute whose least
\* and greatest hold it, and whose seconds hold it unless a half second was
\* rounded: for any rows, values and width. (the SQL function's buckets)
THEOREM IntervalsHold == ReadSpec => []IntervalsHoldAll
<1>1. ReadTypes /\ Aggregated /\ [ReadNext]_readVars => Aggregated'
  BY AggregatedStep
<1>2. ReadTypes /\ Aggregated => IntervalsHoldAll
  BY AggregatedHolds
<1> QED
  BY <1>1, <1>2, AggregatedInit, ReadTypesHold, PTL DEF ReadSpec
=============================================================================
