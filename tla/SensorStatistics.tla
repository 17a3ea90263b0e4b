-------------------------- MODULE SensorStatistics --------------------------
(***************************************************************************)
(* The sensor_statistics row of one sensor, and the transactions that      *)
(* rebuild it: uploads (update_sensor_statistics, of a legacy request or   *)
(* of the post-processing worker), forced refreshes, and the deletion of   *)
(* the sensor's measurements.                                              *)
(*                                                                         *)
(* A refresh is a committed DELETE of the row, then a transaction of two   *)
(* statements: one seeds the row if none is visible, the other fills it if *)
(* it is still outdated. Each statement takes a snapshot of its own (READ  *)
(* COMMITTED), an uncommitted row is invisible to DELETE and UPDATE, and   *)
(* INSERT ... ON CONFLICT waits for it.                                    *)
(***************************************************************************)
EXTENDS Naturals

CONSTANTS
  Upload,     \* uploads that load measurements and then refresh
  Forced,     \* requests to refresh the statistics
  Purge,      \* requests to delete the sensor's measurements
  MaxFailures   \* bound: failed refreshes

Writer == Upload \union Forced \union Purge
Nobody == "none"

ASSUME WriterAssumption ==
  /\ Nobody \notin Writer
  /\ Upload \intersect Forced = {}
  /\ Upload \intersect Purge = {}
  /\ Forced \intersect Purge = {}
ASSUME FailureAssumption == MaxFailures \in Nat

VARIABLES
  loaded,     \* the uploads whose values are in measurements
  row,        \* the committed row of sensor_statistics
  holder,     \* the writer with an uncommitted version of the row, or Nobody
  pending,    \* that version
  stage,
  disturbed,  \* history: since the last refresh that began alone, another one
              \* has begun inside it, or one has failed
  failures

statisticsVars == <<loaded, row, holder, pending, stage, disturbed, failures>>

\* stats_last_updated is NULL in an outdated row; covers are the uploads whose
\* values the figures are computed from.
Absent     == [state |-> "absent", covers |-> {}]
Outdated   == [state |-> "outdated", covers |-> {}]
Updated(S) == [state |-> "updated", covers |-> S]
Row        == {Absent, Outdated} \union {Updated(S) : S \in SUBSET Upload}

Started == {"seed", "update", "commit", "purge"}
PC == Started \union {"load", "delete", "done", "failed"}

\* Types; only a writer between its seed and its commit holds a version.
StatisticsTypes ==
  /\ loaded \subseteq Upload
  /\ row \in Row
  /\ holder \in Writer \union {Nobody}
  /\ pending \in Row
  /\ stage \in [Writer -> PC]
  /\ disturbed \in BOOLEAN
  /\ failures \in Nat
  /\ holder # Nobody => stage[holder] \in {"update", "commit"} /\ pending # Absent

StatisticsInit ==
  /\ loaded = {}
  /\ row = Absent
  /\ holder = Nobody
  /\ pending = Absent
  /\ stage = [w \in Writer |-> IF w \in Upload THEN "load" ELSE "delete"]
  /\ disturbed = FALSE
  /\ failures = 0

Proceed(w, label) == stage' = [stage EXCEPT ![w] = label]
At(w, label) == w \in Writer /\ stage[w] = label

Alone(w) == \A v \in Writer \ {w} : stage[v] \notin Started

\* The measurements of an upload are committed.
Load(u) ==
  /\ u \in Upload /\ At(u, "load")
  /\ loaded' = loaded \union {u}
  /\ Proceed(u, "delete")
  /\ UNCHANGED <<row, holder, pending, disturbed, failures>>

DeleteNothing(w) ==   \* Mutant: the row is kept, and is not outdated.
  /\ At(w, "delete")
  /\ Proceed(w, IF w \in Purge THEN "purge" ELSE "seed")
  /\ disturbed' = ~Alone(w)
  /\ UNCHANGED <<loaded, row, holder, pending, failures>>

\* delete_sensor_statistics: DELETE and commit. It waits for a writer that is
\* updating the row, and does not see one that is inserting it.
DeleteStatistics(w) ==
  /\ At(w, "delete")
  /\ holder = Nobody \/ row = Absent
  /\ row' = Absent
  /\ Proceed(w, IF w \in Purge THEN "purge" ELSE "seed")
  /\ disturbed' = ~Alone(w)
  /\ UNCHANGED <<loaded, holder, pending, failures>>

\* The INSERT for the measured sensors without a row, ON CONFLICT DO NOTHING:
\* it waits until an uncommitted row of another writer is committed or gone.
Seeds == row = Absent /\ loaded # {}

Seed(w) ==
  /\ At(w, "seed")
  /\ \/ /\ Seeds /\ holder = Nobody
        /\ holder' = w
        /\ pending' = Outdated
     \/ ~Seeds /\ UNCHANGED <<holder, pending>>
  /\ Proceed(w, "update")
  /\ UNCHANGED <<loaded, row, disturbed, failures>>

\* The UPDATE of the outdated row, own or committed, from the measurements of
\* its snapshot. Without measurements there is nothing to join.
Fill(w) ==
  /\ holder \in {w, Nobody}
  /\ loaded # {}
  /\ holder' = w
  /\ pending' = Updated(loaded)

UpdateCommitted(w) ==   \* Mutant: one statement, that does not see its own seed.
  /\ At(w, "update")
  /\ IF loaded # {} /\ row = Outdated THEN Fill(w) ELSE UNCHANGED <<holder, pending>>
  /\ Proceed(w, "commit")
  /\ UNCHANGED <<loaded, row, disturbed, failures>>

Update(w) ==
  /\ At(w, "update")
  /\ IF loaded # {} /\ (holder = w \/ row = Outdated)
       THEN Fill(w)
       ELSE UNCHANGED <<holder, pending>>
  /\ Proceed(w, "commit")
  /\ UNCHANGED <<loaded, row, disturbed, failures>>

Release == holder' = Nobody /\ pending' = Absent

Commit(w) ==
  /\ At(w, "commit")
  /\ IF holder = w THEN row' = pending /\ Release ELSE UNCHANGED <<row, holder, pending>>
  /\ Proceed(w, "done")
  /\ UNCHANGED <<loaded, disturbed, failures>>

\* delete_sensor_measurements, after the statistics were deleted.
DeleteMeasurements(w) ==
  /\ At(w, "purge")
  /\ loaded' = {}
  /\ Proceed(w, "done")
  /\ UNCHANGED <<row, holder, pending, disturbed, failures>>

FailOpen(w) ==   \* Mutant: a failed refresh does not roll back.
  /\ w \in Writer /\ stage[w] \in Started
  /\ failures < MaxFailures
  /\ failures' = failures + 1
  /\ \E label \in {"delete", "failed"} : Proceed(w, label)
  /\ disturbed' = TRUE
  /\ UNCHANGED <<loaded, row, holder, pending>>

\* The database fails or the process dies: the transaction is rolled back. The
\* post-processing worker and a client begin again; a forced refresh logs the
\* error and goes on.
RollBack(w) ==
  /\ w \in Writer /\ stage[w] \in Started
  /\ failures < MaxFailures
  /\ failures' = failures + 1
  /\ IF holder = w THEN Release ELSE UNCHANGED <<holder, pending>>
  /\ \E label \in {"delete", "failed"} : Proceed(w, label)
  /\ disturbed' = TRUE
  /\ UNCHANGED <<loaded, row>>

Transact(w) ==
  \/ Seed(w)
  \/ Update(w)
  \/ Commit(w)
  \/ DeleteMeasurements(w)

StatisticsNext ==
  \/ \E u \in Upload : Load(u)
  \/ \E w \in Writer :
       \/ DeleteStatistics(w)
       \/ Transact(w)
       \/ RollBack(w)

StatisticsSpec == StatisticsInit /\ [][StatisticsNext]_statisticsVars

\* A statement in flight is executed once nothing blocks it.
FairStatisticsSpec == StatisticsSpec /\ \A w \in Writer : WF_statisticsVars(Transact(w))
-----------------------------------------------------------------------------
Quiet == \A w \in Writer : stage[w] \notin Started
Refreshed == \A u \in Upload : stage[u] # "delete"
Fresh == row.covers = loaded /\ (loaded # {} => row.state = "updated")

\* A refresh that begins alone and is not overtaken repairs the statistics,
\* whatever happened before: when it has ended, and every upload has refreshed,
\* the figures are those of all the measurements.
UndisturbedIsFresh == ~disturbed /\ Quiet /\ Refreshed => Fresh

\* However the refreshes interleave, the row is not lost or left without
\* figures: an upload whose values survive has ended with figures in place.
AllDone == \A w \in Writer : stage[w] = "done"
StatisticsExist == AllDone /\ loaded # {} => row.state = "updated"

\* Writers that wait for each other's rows all end.
EveryRefreshEnds == \A w \in Writer : stage[w] \in Started ~> stage[w] \notin Started
=============================================================================
