--------------------------- MODULE UploadSession ---------------------------
(***************************************************************************)
(* One chunked upload session of the synchronous API: the handlers of      *)
(* post_sensor_and_measurement that share an upload_session_id, the        *)
(* receipts (upload_file_events) by which they agree that it is complete,  *)
(* and the data they store and derive. Nothing is locked: every query is a *)
(* transaction that sees what the others have committed.                   *)
(*                                                                         *)
(* The sensors file names one sensor alias. A row of sensors is identified *)
(* by the request that created it (upload_file_events_id). The CKAN task   *)
(* that runs after the last answer is not part of this module.             *)
(***************************************************************************)
EXTENDS Naturals, FiniteSets

CONSTANTS
  Request,       \* the requests of the session; a retry is one more
  total_chunks,
  Mode,          \* {"legacy", "bulk"}
  Times,         \* Times[c]: the collection times of the values of chunk c
  None,          \* NULL
  MaxFaults      \* bound: requests that fail or die

Chunk == 0..(total_chunks - 1)

Answer == {"not_finalized", "already_finalized", "skipped_incomplete_upload",
           "completed", "refused", "failed"}

ASSUME ChunkAssumption == total_chunks \in Nat \ {0}
ASSUME TimesAssumption ==
  \A c \in Chunk : IsFiniteSet(Times[c]) /\ Times[c] # {}
ASSUME NoneAssumption == None \notin Request \union Mode \union Nat \union Answer
ASSUME BoundAssumption == MaxFaults \in Nat

VARIABLES
  \* the receipts, by request; absent until ingestion_mode is a mode
  mode,          \* ingestion_mode
  inserted,      \* measurement_values_inserted, or None for NULL
  finalized,     \* the requests whose receipt is finalized
  \* the data
  sensors,       \* the requests that have created a sensor
  stored,        \* measurements, by sensor and collection time
  statistics,    \* the measurements that sensor_statistics cover
  geometry,      \* those that the station's geometry covers
  \* local to each request
  pc,
  chunk,         \* chunk_index
  wanted,        \* ingestion_mode of the form
  sensor,        \* alias_to_sensorid_map, or None
  todo,          \* collection times still to insert
  count,         \* values_inserted so far
  answer,        \* post_processing.status of the answer
  \* the client, and the bound
  sequential,    \* it sends a request only when the one before has ended
  faults

receipts == <<mode, inserted, finalized>>
data     == <<sensors, stored, statistics, geometry>>
locals   == <<chunk, wanted, sensor, todo, count>>
env      == <<sequential, faults>>
vars     == <<receipts, data, pc, locals, answer, env>>

Running == {"event", "sensors", "new_sensor", "load", "find", "verify",
            "delete", "refresh", "geometry", "finalize"}
PostProcessing == {"delete", "refresh", "geometry", "finalize"}

AllTimes == UNION {Times[c] : c \in Chunk}

\* Types; the receipt of a request exists once its event is created, it has a
\* sensor when it loads, and counts when it looks for those of the session.
TypeOK ==
  /\ mode \in [Request -> Mode \union {None}]
  /\ inserted \in [Request -> Nat \union {None}]
  /\ finalized \subseteq Request
  /\ sensors \subseteq Request
  /\ stored \subseteq sensors \X AllTimes
  /\ statistics \subseteq stored
  /\ geometry \subseteq stored
  /\ pc \in [Request -> Running \union {"idle", "done"}]
  /\ chunk \in [Request -> Chunk]
  /\ wanted \in [Request -> Mode \union {None}]
  /\ sensor \in [Request -> sensors \union {None}]
  /\ todo \in [Request -> SUBSET AllTimes]
  /\ count \in [Request -> Nat]
  /\ answer \in [Request -> Answer \union {None}]
  /\ sequential \in BOOLEAN
  /\ faults \in Nat
  /\ \A r \in Request :
       /\ pc[r] = "event" => wanted[r] # None
       /\ pc[r] \in Running \ {"event"} => mode[r] # None
       /\ pc[r] = "load" => sensor[r] # None
       /\ pc[r] \in {"find", "verify"} \union PostProcessing => inserted[r] # None

Init ==
  /\ mode = [r \in Request |-> None]
  /\ inserted = [r \in Request |-> None]
  /\ finalized = {}
  /\ sensors = {} /\ stored = {} /\ statistics = {} /\ geometry = {}
  /\ pc = [r \in Request |-> "idle"]
  /\ chunk = [r \in Request |-> 0]
  /\ wanted = [r \in Request |-> None]
  /\ sensor = [r \in Request |-> None]
  /\ todo = [r \in Request |-> {}]
  /\ count = [r \in Request |-> 0]
  /\ answer = [r \in Request |-> None]
  /\ sequential \in BOOLEAN
  /\ faults = 0

Goto(r, label) == pc' = [pc EXCEPT ![r] = label]
Reply(r, a) == Goto(r, "done") /\ answer' = [answer EXCEPT ![r] = a]
-----------------------------------------------------------------------------
session_ingestion_modes == {mode[e] : e \in Request} \ {None}

\* The form arrives, and its mode is compared with the session's receipts.
Arrive(r, c, m) ==
  /\ pc[r] = "idle"
  /\ sequential => \A q \in Request : pc[q] \notin Running
  /\ chunk' = [chunk EXCEPT ![r] = c]
  /\ wanted' = [wanted EXCEPT ![r] = m]
  /\ todo' = [todo EXCEPT ![r] = Times[c]]
  /\ IF session_ingestion_modes \subseteq {m}
       THEN Goto(r, "event") /\ UNCHANGED answer
       ELSE Reply(r, "refused")
  /\ UNCHANGED <<receipts, data, sensor, count, env>>

create_upload_event(r) ==
  /\ pc[r] = "event"
  /\ mode' = [mode EXCEPT ![r] = wanted[r]]
  /\ Goto(r, "sensors")
  /\ UNCHANGED <<inserted, finalized, data, locals, answer, env>>

\* process_sensors_file looks the alias up, unordered, and creates a sensor
\* in a later statement if there is none.
LookUpSensor(r) ==
  /\ pc[r] = "sensors"
  /\ \/ \E s \in sensors :
          sensor' = [sensor EXCEPT ![r] = s] /\ Goto(r, "load")
     \/ sensors = {} /\ Goto(r, "new_sensor") /\ UNCHANGED sensor
  /\ UNCHANGED <<receipts, data, chunk, wanted, todo, count, answer, env>>

create_sensors(r) ==
  /\ pc[r] = "new_sensor"
  /\ sensors' = sensors \union {r}
  /\ sensor' = [sensor EXCEPT ![r] = r]
  /\ Goto(r, "load")
  /\ UNCHANGED <<receipts, stored, statistics, geometry, chunk, wanted, todo, count,
                 answer, env>>

Inserts(key) == IF key \in stored THEN 0 ELSE 1

\* A batch, ON CONFLICT DO NOTHING, in a transaction of its own.
process_batch(r, t) ==
  /\ pc[r] = "load"
  /\ t \in todo[r]
  /\ stored' = stored \union {<<sensor[r], t>>}
  /\ count' = [count EXCEPT ![r] = @ + Inserts(<<sensor[r], t>>)]
  /\ todo' = [todo EXCEPT ![r] = @ \ {t}]
  /\ UNCHANGED <<receipts, sensors, statistics, geometry, pc, chunk, wanted, sensor,
                 answer, env>>

\* The receipt is committed. A chunk that is not the last one is answered.
Receipt(r) ==
  /\ pc[r] = "load"
  /\ todo[r] = {}
  /\ inserted' = [inserted EXCEPT ![r] = count[r]]
  /\ IF chunk[r] = total_chunks - 1
       THEN Goto(r, "find") /\ UNCHANGED answer
       ELSE Reply(r, "not_finalized")
  /\ UNCHANGED <<mode, finalized, data, locals, env>>

NoReceipt == {}   \* Mutant: only the request's own receipt is looked at.

find_finalized_receipt == finalized

\* Is the session already finalized?
Find(r) ==
  /\ pc[r] = "find"
  /\ IF find_finalized_receipt # {}
       THEN Reply(r, "already_finalized")
       ELSE Goto(r, "verify") /\ UNCHANGED answer
  /\ UNCHANGED <<receipts, data, locals, env>>

receipt_chunk_indexes ==   \* Mutant: chunks still being loaded count.
  {chunk[e] : e \in {q \in Request : mode[q] # None}}

successful_receipt_chunk_indexes ==
  {chunk[e] : e \in {q \in Request : mode[q] # None /\ inserted[q] # None}}

\* If not, is there a receipt for every chunk?
Verify(r) ==
  /\ pc[r] = "verify"
  /\ IF Chunk \subseteq successful_receipt_chunk_indexes
       THEN Goto(r, "delete") /\ UNCHANGED answer
       ELSE Reply(r, "skipped_incomplete_upload")
  /\ UNCHANGED <<receipts, data, locals, env>>

Of(s) == {key \in stored : key[1] = s}

\* update_sensor_statistics: a deletion and a refresh, each committed. All of
\* the session is stored when it begins (SensorStatistics has the details of
\* refreshes that overlap).
delete_sensor_statistics(r) ==
  /\ pc[r] = "delete"
  /\ statistics' = statistics \ Of(sensor[r])
  /\ Goto(r, "refresh")
  /\ UNCHANGED <<receipts, sensors, stored, geometry, locals, answer, env>>

RefreshOwn(r) ==   \* Mutant: from the values of this chunk.
  /\ pc[r] = "refresh"
  /\ statistics' = statistics \union {k \in Of(sensor[r]) : k[2] \in Times[chunk[r]]}
  /\ Goto(r, "geometry")
  /\ UNCHANGED <<receipts, sensors, stored, geometry, locals, answer, env>>

refresh_sensor_statistics(r) ==
  /\ pc[r] = "refresh"
  /\ statistics' = statistics \union Of(sensor[r])
  /\ Goto(r, "geometry")
  /\ UNCHANGED <<receipts, sensors, stored, geometry, locals, answer, env>>

refresh_geometry(r) ==
  /\ pc[r] = "geometry"
  /\ geometry' = stored
  /\ Goto(r, "finalize")
  /\ UNCHANGED <<receipts, sensors, stored, statistics, locals, answer, env>>

Finalize(r) ==
  /\ pc[r] = "finalize"
  /\ finalized' = finalized \union {r}
  /\ Reply(r, "completed")
  /\ UNCHANGED <<mode, inserted, data, locals, env>>

\* Any query fails, and the answer is an error, or the process dies. What the
\* request had committed stays.
Fail(r) ==
  /\ pc[r] \in Running
  /\ faults < MaxFaults
  /\ faults' = faults + 1
  /\ Reply(r, "failed")
  /\ UNCHANGED <<receipts, data, locals, sequential>>

Handle(r) ==
  \/ create_upload_event(r)
  \/ LookUpSensor(r)
  \/ create_sensors(r)
  \/ \E t \in AllTimes : process_batch(r, t)
  \/ Receipt(r)
  \/ Find(r)
  \/ Verify(r)
  \/ delete_sensor_statistics(r)
  \/ refresh_sensor_statistics(r)
  \/ refresh_geometry(r)
  \/ Finalize(r)
  \/ Fail(r)

Next ==
  \E r \in Request :
    \/ \E c \in Chunk, m \in Mode : Arrive(r, c, m)
    \/ Handle(r)

Spec == Init /\ [][Next]_vars
-----------------------------------------------------------------------------
PostProcessed ==
  {r \in Request : pc[r] \in PostProcessing \/ answer[r] = "completed"}

\* A finalized session is complete: of every chunk, every value is stored.
FinalizedIsComplete ==
  finalized # {} =>
    \A t \in AllTimes : \E s \in sensors : <<s, t>> \in stored

RunsOnce  == \A q, r \in PostProcessed : q = r
OneSensor == \A s, u \in sensors : s = u
OneMode   == \A m, n \in session_ingestion_modes : m = n

\* Once a session is finalized and nobody is post-processing, statistics and
\* geometry cover all that it has stored, unless its first requests have made
\* two sensors, or a post-processing has failed beside another one.
FinalizedIsRefreshed ==
  /\ finalized # {}
  /\ \A r \in Request : pc[r] \notin PostProcessing
  /\ OneSensor
  /\ sequential \/ faults = 0
  => statistics = stored /\ geometry = stored

\* A client that waits for each answer has what the documentation promises any
\* client: one mode, one sensor per alias, one post-processing.
SequentialSession == sequential => OneMode /\ OneSensor /\ RunsOnce
=============================================================================
