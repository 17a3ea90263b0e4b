--------------------------- MODULE ImportPipeline ----------------------------
(***************************************************************************)
(* The deployment: worker processes that poll the ingestion queue, the     *)
(* post-processing queue, or both in turn. ImportWorker and PostProcess    *)
(* share the import's row, its files and the budget of faults; a process   *)
(* of the mode --poll-all runs one call of run_once, then one of           *)
(* run_post_process_once, and a crash ends whichever it is in.             *)
(***************************************************************************)
EXTENDS ImportRecord, Sequences

CONSTANTS
  Process,
  Polls,      \* Polls[p]: the queues of its mode, of "ingestion" and "post"
  NumChunks, Key, Content, Defective, Unmapped, Earlier,  \* as in ImportWorker
  Sensor,
  Known       \* sensors of earlier uploads, which have statistics

ASSUME PollsAssumption ==
  Polls \in [Process -> (SUBSET {"ingestion", "post"}) \ {{}}]
\* An import without a sensor mapping is not loaded.
ASSUME SensorAssumption == IsFiniteSet(Sensor) /\ Sensor # {} /\ Known \subseteq Sensor

\* What ImportWorker assumes of its constants.
ASSUME ContentAssumption ==
  /\ NumChunks \in Nat \ {0}
  /\ IsFiniteSet(Key) /\ Earlier \subseteq Key
  /\ Content \in [Import -> [1..NumChunks -> Seq(SUBSET Key)]]
  /\ \A i \in Import \cap Unmapped : \A c \in 1..NumChunks : Content[i][c] = <<>>
  /\ {"earlier", "absent"} \cap Import = {}

VARIABLES
  attempts, worker_token, lease,
  processed, rows_read, values_inserted, chunk_inserted,
  measurement,
  ingestPc, ingestJob, ingestHeld, cur, batch, tally, base,
  post_processing_status, post_processing_attempts, post_processing_token,
  post_processing_lease, post_processing_stage,
  statistics, geometry, overrun,
  postPc, postJob, postHeld, todo, sensor,
  turn        \* the queue that a process polls next, or works for

ingestVars == <<attempts, worker_token, lease, processed, rows_read, values_inserted,
                chunk_inserted, measurement, ingestPc, ingestJob, ingestHeld, cur,
                batch, tally, base>>
postVars == <<post_processing_status, post_processing_attempts, post_processing_token,
              post_processing_lease, post_processing_stage, statistics, geometry,
              overrun, postPc, postJob, postHeld, todo, sensor>>
vars == <<recordVars, ingestVars, postVars, turn>>

Worker == {p \in Process : "ingestion" \in Polls[p]}
PostWorker == {p \in Process : "post" \in Polls[p]}

W == INSTANCE ImportWorker WITH pc <- ingestPc, job <- ingestJob, held <- ingestHeld
P == INSTANCE PostProcess WITH pc <- postPc, job <- postJob, held <- postHeld

\* Each loop begins with the first queue of its mode.
First(p) == IF p \in Worker THEN "ingestion" ELSE "post"

Init ==
  /\ W!Init
  /\ P!PPRowInit /\ P!PPLocalInit
  /\ post_processing_stage = [i \in Import |-> "none"]
  /\ statistics = [i \in Import |-> [s \in Sensor |-> IF s \in Known THEN "stale" ELSE "absent"]]
  /\ turn = [p \in Process |-> First(p)]

-----------------------------------------------------------------------------
Turn(p, queue) == turn' = [turn EXCEPT ![p] = IF queue \in Polls[p] THEN queue ELSE @]

\* One call for the ingestion queue ends when nothing can be claimed or the
\* claimed import is done with; the process then polls its other queue.
run_once(p) ==
  /\ turn[p] = "ingestion"
  /\ \/ /\ W!WorkerStep(p)
        /\ IF ingestPc'[p] = "idle" THEN Turn(p, "post") ELSE UNCHANGED turn
        /\ UNCHANGED postVars
     \/ /\ ingestPc[p] = "idle" /\ ~\E i \in Import : W!Claimable(i)
        /\ Turn(p, "post")
        /\ UNCHANGED <<recordVars, ingestVars, postVars>>

run_post_process_once(p) ==
  /\ turn[p] = "post"
  /\ \/ /\ P!WorkerStep(p)
        /\ IF postPc'[p] = "idle" THEN Turn(p, "ingestion") ELSE UNCHANGED turn
        /\ UNCHANGED ingestVars
     \/ /\ postPc[p] = "idle" /\ ~\E i \in Import : P!Claimable(i)
        /\ Turn(p, "ingestion")
        /\ UNCHANGED <<recordVars, ingestVars, postVars>>

Poll(p) == run_once(p) \/ run_post_process_once(p)

\* The process dies within a call and is started again.
Crash(p) ==
  /\ \/ p \in Worker /\ W!Crash(p) /\ UNCHANGED postVars
     \/ p \in PostWorker /\ P!Crash(p) /\ UNCHANGED <<ingestVars, overrun>>
  /\ turn' = [turn EXCEPT ![p] = First(p)]

OrphanExpires(i) ==
  /\ \/ W!OrphanExpires(i) /\ UNCHANGED postVars
     \/ P!OrphanExpires(i) /\ UNCHANGED ingestVars
  /\ UNCHANGED turn

Stall(i) ==
  /\ \/ W!Stall(i) /\ UNCHANGED postVars
     \/ P!Stall(i) /\ UNCHANGED ingestVars
  /\ UNCHANGED turn

Next ==
  \/ \E p \in Process : Poll(p) \/ Crash(p)
  \/ \E i \in Import : OrphanExpires(i) \/ Stall(i)

(***************************************************************************)
(* The loops poll for ever, every call of the code returns, and clocks     *)
(* advance; nothing makes a process crash or stall.                        *)
(***************************************************************************)
Fairness ==
  /\ \A p \in Process : WF_vars(Poll(p))
  /\ \A i \in Import : WF_vars(OrphanExpires(i))

Spec == Init /\ [][Next]_vars

FairSpec == Spec /\ Fairness
-----------------------------------------------------------------------------
\* Properties

(***************************************************************************)
(* What the pipeline shows of an import is the life that ImportLifecycle   *)
(* promises. A data_loaded import whose refreshes were given up is         *)
(* abandoned: claim_post_processing never selects it again.                *)
(***************************************************************************)
PhaseOf(i) ==
  CASE status[i] \in {"queued", "processing"} -> "loading"
    [] status[i] = "data_loaded" ->
         IF post_processing_status[i] = "failed" THEN "abandoned" ELSE "loaded"
    [] OTHER -> status[i]

Lifecycle == INSTANCE ImportLifecycle WITH
  Value <- Key,
  Promised <- [i \in Import |-> UNION {W!KeysOf(i, c) : c \in 1..NumChunks}],
  phase <- [i \in Import |-> PhaseOf(i)],
  visible <- {k \in Key : measurement[k] # "absent"},
  kept <- files

\* With one process that polls for ingestion, whatever crashes, and whoever
\* polls for post-processing, the pipeline implements the promised life: no
\* value comes from an import at rest, loaded means all values, no phase is
\* left backwards, files outlive all retries, and loading comes to an end.
ImplementsLifecycle == Lifecycle!Spec

\* A receipt is never rewritten, also not by the retry that finds it.
ReceiptImmutable == W!ReceiptImmutable

\* completed means refreshed, whichever processes did the two stages, unless
\* a live one has outlived its lease. (post_process_claimed_import)
CompletedIsRefreshed == P!CompletedIsRefreshed

\* A loaded import is completed only by the process whose token its row
\* carries, though any that lost its claim may still be at work; nothing takes
\* it back. (the conditional UPDATE of post_process_claimed_import)
ResultIsTheOwners == P!ResultIsTheOwners

\* A failed geometry refresh does not repeat the statistics: once the stage is
\* geometry, they stay as they are. (the durable stage)
StatisticsNotRepeated == P!StatisticsNotRepeated

\* Every queued import comes to its end, also when one process polls both
\* queues in turn, except that it keeps the claim of a post-processing worker
\* that died on the last attempt: nobody holds it and nobody may take it over.
\* (run_poll_all_loop, claim_post_processing)
EventuallyAtAnEnd ==
  \A i \in Import :
    status[i] = "queued" ~>
      \/ PhaseOf(i) \in {"completed", "failed", "abandoned"}
      \/ /\ post_processing_attempts[i] = MaxAttempts
         /\ post_processing_lease[i] = "expired" /\ ~P!Held(i)
=============================================================================
