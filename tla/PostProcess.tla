---------------------------- MODULE PostProcess -----------------------------
(***************************************************************************)
(* The independent post-processing worker: run_post_process_once claims a  *)
(* data_loaded import under a lease of its own, refreshes the statistics   *)
(* of its sensors one by one, advances the durable stage, refreshes the    *)
(* station's geometry, and completes the import.                           *)
(*                                                                         *)
(* Unlike the ingestion worker, every write to the row is conditional on   *)
(* the token. The refreshes of sensors and station are not: they are       *)
(* transactions of other tables.                                           *)
(***************************************************************************)
EXTENDS ImportRecord

CONSTANTS
  PostWorker,  \* post-processing worker processes
  Sensor       \* the sensors an import's sensor_mapping names

VARIABLES
  \* durable
  post_processing_status,
  post_processing_attempts,
  post_processing_token,
  post_processing_lease,
  post_processing_stage,
  statistics,   \* sensor_statistics row of each sensor of each import
  geometry,     \* the station's geometry, as derived from the import's values
  \* history
  overrun,      \* imports on which a live worker has outlived its lease
  \* local to each worker process
  pc,
  job,
  held,
  todo,         \* sensors whose statistics are still to be refreshed
  sensor        \* the sensor being refreshed

ppRow     == <<post_processing_status, post_processing_attempts,
               post_processing_token, post_processing_lease,
               post_processing_stage>>
derived   == <<statistics, geometry>>
ppLocal   == <<pc, job, held, todo, sensor>>
ppVars    == <<recordVars, ppRow, derived, overrun, ppLocal>>

NoSensor == "none"

PPStatus == {"pending", "processing", "completed", "failed"}
Stage    == {"none", "statistics", "geometry"}
\* A statistics row predates the import, is missing, or covers the import.
Derived  == {"stale", "absent", "fresh"}

PPC == {"idle", "statistics", "sensor", "delete", "refresh", "advance",
        "geometry", "bounds", "complete", "fail", "cleanup"}

\* Types; a claim and its token, its lease and its stage come and go together,
\* so that a row that is processing can be taken over, and a row at rest
\* carries nothing of an old claim.
TypeOK ==
  /\ RecordTypeOK
  /\ post_processing_status \in [Import -> PPStatus]
  /\ post_processing_attempts \in [Import -> Nat]
  /\ post_processing_token \in [Import -> Nat]
  /\ post_processing_lease \in [Import -> Lease]
  /\ post_processing_stage \in [Import -> Stage]
  /\ statistics \in [Import -> [Sensor -> Derived]]
  /\ geometry \in [Import -> {"stale", "fresh"}]
  /\ overrun \subseteq Import
  /\ pc \in [PostWorker -> PPC]
  /\ job \in [PostWorker -> Import \union {NoJob}]
  /\ held \in [PostWorker -> Nat]
  /\ todo \in [PostWorker -> SUBSET Sensor]
  /\ sensor \in [PostWorker -> Sensor \union {NoSensor}]
  /\ \A w \in PostWorker : pc[w] # "idle" <=> job[w] \in Import
  /\ \A w \in PostWorker : pc[w] \in {"delete", "refresh"} => sensor[w] \in Sensor
  /\ \A i \in Import :
       LET claimed == post_processing_status[i] = "processing" IN
       /\ claimed <=> post_processing_token[i] # NoToken
       /\ claimed <=> post_processing_lease[i] # "none"
       /\ claimed => post_processing_stage[i] # "none"
       /\ status[i] = "completed" <=> post_processing_status[i] = "completed"

\* What the columns and the derived data are before any claim.
PPRowInit ==
  /\ post_processing_status = [i \in Import |-> "pending"]
  /\ post_processing_attempts = [i \in Import |-> 0]
  /\ post_processing_token = [i \in Import |-> NoToken]
  /\ post_processing_lease = [i \in Import |-> "none"]
  /\ post_processing_stage \in [Import -> {"none", "statistics"}]
  /\ statistics \in [Import -> [Sensor -> {"stale", "absent"}]]
  /\ geometry = [i \in Import |-> "stale"]
  /\ overrun = {}

PPLocalInit ==
  /\ pc = [w \in PostWorker |-> "idle"]
  /\ job = [w \in PostWorker |-> NoJob]
  /\ held = [w \in PostWorker |-> NoToken]
  /\ todo = [w \in PostWorker |-> {}]
  /\ sensor = [w \in PostWorker |-> NoSensor]

Init ==
  /\ status = [i \in Import |-> "data_loaded"]
  /\ files = Import
  /\ faults = 0
  /\ PPRowInit
  /\ PPLocalInit

Goto(w, label) == pc' = [pc EXCEPT ![w] = label]

Idle(w) ==
  /\ Goto(w, "idle")
  /\ job' = [job EXCEPT ![w] = NoJob]
  /\ held' = [held EXCEPT ![w] = NoToken]
  /\ todo' = [todo EXCEPT ![w] = {}]
  /\ sensor' = [sensor EXCEPT ![w] = NoSensor]
-----------------------------------------------------------------------------
\* Mutant: an expired claim is never taken over.
ClaimableOnce(i) ==
  status[i] = "data_loaded" /\ post_processing_status[i] = "pending"

Claimable(i) ==
  LET retry == post_processing_attempts[i] < MaxAttempts IN
  /\ status[i] = "data_loaded"
  /\ \/ post_processing_status[i] = "pending"
     \/ post_processing_status[i] = "failed" /\ retry
     \/ /\ post_processing_status[i] = "processing" /\ retry
        /\ post_processing_lease[i] = "expired"

(***************************************************************************)
(* claim_post_processing, FOR UPDATE SKIP LOCKED as claim_import. The      *)
(* worker starts at the stage the row says an earlier claim has reached.   *)
(***************************************************************************)
ClaimWith(w, i, stage, token) ==
  /\ pc[w] = "idle"
  /\ Claimable(i)
  /\ post_processing_status' = [post_processing_status EXCEPT ![i] = "processing"]
  /\ post_processing_attempts' = [post_processing_attempts EXCEPT ![i] = @ + 1]
  /\ post_processing_token' = [post_processing_token EXCEPT ![i] = token]
  /\ post_processing_lease' = [post_processing_lease EXCEPT ![i] = "live"]
  /\ post_processing_stage' = [post_processing_stage EXCEPT ![i] = stage]
  /\ job' = [job EXCEPT ![w] = i]
  /\ held' = [held EXCEPT ![w] = token]
  /\ Goto(w, stage)
  /\ UNCHANGED <<recordVars, derived, todo, sensor>>

\* Mutant: a claim restarts at the first stage.
ClaimRestarting(w, i) ==
  ClaimWith(w, i, "statistics", post_processing_attempts[i] + 1)

claim_post_processing(w, i) ==
  LET stage == IF post_processing_stage[i] = "none"
               THEN "statistics" ELSE post_processing_stage[i]
  IN  ClaimWith(w, i, stage, post_processing_attempts[i] + 1)

\* Mutant: the token is compared, the status is not.
OwnsByStatus(w) ==
  /\ status[job[w]] = "data_loaded"
  /\ post_processing_status[job[w]] = "processing"

\* The WHERE clause that every query of the row repeats.
Owns(w) ==
  /\ status[job[w]] = "data_loaded"
  /\ post_processing_status[job[w]] = "processing"
  /\ post_processing_token[job[w]] = held[w]

\* UploadImportLeaseLost: run_post_process_once rolls back and returns.
LeaseLost(w) ==
  /\ pc[w] \in {"statistics", "sensor", "advance", "geometry", "complete"}
  /\ ~Owns(w)
  /\ Idle(w)
  /\ UNCHANGED <<recordVars, ppRow, derived>>

heartbeat_post_processing(w, label) ==
  /\ pc[w] = label
  /\ Owns(w)
  /\ post_processing_lease' = [post_processing_lease EXCEPT ![job[w]] = "live"]
  /\ UNCHANGED <<recordVars, post_processing_status, post_processing_attempts,
                 post_processing_token, post_processing_stage, derived>>

StartStatistics(w) ==
  /\ heartbeat_post_processing(w, "statistics")
  /\ todo' = [todo EXCEPT ![w] = Sensor]
  /\ Goto(w, "sensor")
  /\ UNCHANGED <<job, held, sensor>>

\* update_sensor_statistics: the callback's heartbeat, then two transactions.
NextSensor(w, s) ==
  /\ s \in todo[w]
  /\ heartbeat_post_processing(w, "sensor")
  /\ todo' = [todo EXCEPT ![w] = @ \ {s}]
  /\ sensor' = [sensor EXCEPT ![w] = s]
  /\ Goto(w, "delete")
  /\ UNCHANGED <<job, held>>

delete_sensor_statistics(w) ==
  /\ pc[w] = "delete"
  /\ statistics' = [statistics EXCEPT ![job[w]][sensor[w]] = "absent"]
  /\ Goto(w, "refresh")
  /\ UNCHANGED <<recordVars, ppRow, geometry, job, held, todo, sensor>>

\* Mutant: the loop returns after its first sensor.
RefreshOne(w) ==
  /\ pc[w] = "refresh"
  /\ statistics' = [statistics EXCEPT ![job[w]][sensor[w]] = "fresh"]
  /\ Goto(w, "advance")
  /\ UNCHANGED <<recordVars, ppRow, geometry, job, held, todo, sensor>>

\* refresh_outdated_sensor_statistics inserts a missing row and fills it; a
\* row that has stats_last_updated is left as it is.
refresh_sensor_statistics(w) ==
  /\ pc[w] = "refresh"
  /\ statistics' = [statistics EXCEPT
       ![job[w]][sensor[w]] = IF @ = "absent" THEN "fresh" ELSE @]
  /\ Goto(w, IF todo[w] = {} THEN "advance" ELSE "sensor")
  /\ UNCHANGED <<recordVars, ppRow, geometry, job, held, todo, sensor>>

\* The conditional UPDATE that makes the first stage durable.
AdvanceStage(w) ==
  /\ pc[w] = "advance"
  /\ Owns(w)
  /\ post_processing_stage' = [post_processing_stage EXCEPT ![job[w]] = "geometry"]
  /\ Goto(w, "geometry")
  /\ UNCHANGED <<recordVars, post_processing_status, post_processing_attempts,
                 post_processing_token, post_processing_lease, derived,
                 job, held, todo, sensor>>

StartGeometry(w) ==
  /\ heartbeat_post_processing(w, "geometry")
  /\ Goto(w, "bounds")
  /\ UNCHANGED <<job, held, todo, sensor>>

refresh_geometry(w) ==
  /\ pc[w] = "bounds"
  /\ geometry' = [geometry EXCEPT ![job[w]] = "fresh"]
  /\ Goto(w, "complete")
  /\ UNCHANGED <<recordVars, ppRow, statistics, job, held, todo, sensor>>

\* The conditional UPDATE that completes the import.
Complete(w) ==
  LET i == job[w] IN
  /\ pc[w] = "complete"
  /\ Owns(w)
  /\ status' = [status EXCEPT ![i] = "completed"]
  /\ post_processing_status' = [post_processing_status EXCEPT ![i] = "completed"]
  /\ post_processing_stage' = [post_processing_stage EXCEPT ![i] = "none"]
  /\ post_processing_token' = [post_processing_token EXCEPT ![i] = NoToken]
  /\ post_processing_lease' = [post_processing_lease EXCEPT ![i] = "none"]
  /\ Goto(w, "cleanup")
  /\ UNCHANGED <<files, faults, post_processing_attempts, derived,
                 job, held, todo, sensor>>
-----------------------------------------------------------------------------
\* An error of the database: the geometry refresh has a statement timeout.
StageError(w) ==
  /\ pc[w] \notin {"idle", "fail", "cleanup"}
  /\ Goto(w, "fail")
  /\ UNCHANGED <<recordVars, ppRow, derived, job, held, todo, sensor>>

\* mark_post_processing_failure finds no row with this token.
FailureIgnored(w) ==
  /\ pc[w] = "fail"
  /\ ~Owns(w)
  /\ Idle(w)
  /\ UNCHANGED <<recordVars, ppRow, derived>>

(***************************************************************************)
(* mark_post_processing_failure: SELECT ... FOR UPDATE and UPDATE in one   *)
(* transaction. The stage reached stays; files go when it was the last try.*)
(***************************************************************************)
Exhausted(w) == post_processing_attempts[job[w]] >= MaxAttempts

mark_post_processing_failure(w) ==
  LET i == job[w] IN
  /\ pc[w] = "fail"
  /\ Owns(w)
  /\ post_processing_status' = [post_processing_status EXCEPT
       ![i] = IF Exhausted(w) THEN "failed" ELSE "pending"]
  /\ post_processing_token' = [post_processing_token EXCEPT ![i] = NoToken]
  /\ post_processing_lease' = [post_processing_lease EXCEPT ![i] = "none"]
  /\ IF Exhausted(w)
     THEN Goto(w, "cleanup") /\ UNCHANGED <<job, held, todo, sensor>>
     ELSE Idle(w)
  /\ UNCHANGED <<recordVars, post_processing_attempts,
                 post_processing_stage, derived>>

Cleanup(w) ==
  /\ pc[w] = "cleanup"
  /\ cleanup_import_storage(job[w])
  /\ Idle(w)
  /\ UNCHANGED <<status, faults, ppRow, derived>>
-----------------------------------------------------------------------------
(***************************************************************************)
(* A crash, and likewise a failure that cannot be persisted, leaves the    *)
(* row to its lease.                                                       *)
(***************************************************************************)
Crash(w) ==
  /\ pc[w] # "idle"
  /\ Fault
  /\ Idle(w)
  /\ UNCHANGED <<status, files, ppRow, derived>>

Held(i) == \E w \in PostWorker : job[w] = i /\ held[w] = post_processing_token[i]

Expire(i) ==
  /\ post_processing_lease[i] = "live"
  /\ post_processing_lease' = [post_processing_lease EXCEPT ![i] = "expired"]
  /\ UNCHANGED <<post_processing_status, post_processing_attempts,
                 post_processing_token, post_processing_stage, derived, ppLocal>>

OrphanExpires(i) ==
  ~Held(i) /\ Expire(i) /\ UNCHANGED <<recordVars, overrun>>

Stall(i) ==
  /\ Held(i)
  /\ Fault
  /\ Expire(i)
  /\ overrun' = overrun \union {i}
  /\ UNCHANGED <<status, files>>

WorkerAction(w) ==
  \/ \E i \in Import : claim_post_processing(w, i)
  \/ LeaseLost(w)
  \/ StartStatistics(w)
  \/ \E s \in Sensor : NextSensor(w, s)
  \/ delete_sensor_statistics(w)
  \/ refresh_sensor_statistics(w)
  \/ AdvanceStage(w)
  \/ StartGeometry(w)
  \/ refresh_geometry(w)
  \/ Complete(w)
  \/ StageError(w)
  \/ FailureIgnored(w)
  \/ mark_post_processing_failure(w)
  \/ Cleanup(w)

WorkerStep(w) == WorkerAction(w) /\ UNCHANGED overrun

Next ==
  \/ \E w \in PostWorker : WorkerStep(w) \/ (Crash(w) /\ UNCHANGED overrun)
  \/ \E i \in Import : OrphanExpires(i) \/ Stall(i)

Spec == Init /\ [][Next]_ppVars
-----------------------------------------------------------------------------
(***************************************************************************)
(* A loaded import is completed only by the worker whose token its row     *)
(* carries, though others that lost their claim may still be at work, and  *)
(* nothing takes it back: the UPDATE of post_process_claimed_import is     *)
(* conditional.                                                            *)
(***************************************************************************)
ResultIsTheOwners ==
  [][\A i \in Import :
       /\ status[i] = "completed" => status'[i] = "completed"
       /\ status[i] = "data_loaded" /\ status'[i] # status[i] =>
            /\ status'[i] = "completed"
            /\ \E w \in PostWorker : /\ job[w] = i /\ pc[w] = "complete"
                                     /\ held[w] = post_processing_token[i]]_ppVars

(***************************************************************************)
(* Files go only when nobody will claim the import again.                  *)
(***************************************************************************)
RetryableKeepsFiles ==
  \A i \in Import :
    i \notin files => /\ post_processing_status[i] \in {"completed", "failed"}
                      /\ ~Claimable(i)

(***************************************************************************)
(* completed only after the statistics of every sensor and the station's   *)
(* geometry have been refreshed, whichever claims did the two stages. This *)
(* and the next hold unless a live worker outlives its lease: the          *)
(* deletions it is yet to make are not conditional on its token.           *)
(***************************************************************************)
CompletedIsRefreshed ==
  \A i \in Import \ overrun : status[i] = "completed" =>
    /\ \A s \in Sensor : statistics[i][s] = "fresh"
    /\ geometry[i] = "fresh"

(***************************************************************************)
(* A failed geometry refresh does not force a repeat of the statistics:    *)
(* once the durable stage is geometry, they stay as they are.              *)
(***************************************************************************)
StatisticsNotRepeated ==
  [][\A i \in Import \ overrun : post_processing_stage[i] = "geometry" =>
       /\ statistics'[i] = statistics[i]
       /\ post_processing_stage'[i] # "statistics"]_ppVars
=============================================================================
