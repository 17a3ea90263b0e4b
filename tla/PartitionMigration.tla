------------------------- MODULE PartitionMigration -------------------------
(***************************************************************************)
(* The registry of measurement identities and the replacement of the table *)
(* measurements by one partitioned by sensor: the operator's commands seed, *)
(* prepare, cutover and rollback, each resumed from durable cursors, beside *)
(* the API's writers, which the documentation asks to pause.               *)
(*                                                                         *)
(* There are two tables, the plain one and the partitioned one; a command  *)
(* gives them other names. One transaction is one step. A step whose       *)
(* statement PostgreSQL would refuse ends the command (Fails).             *)
(***************************************************************************)
EXTENDS Naturals, Sequences, FiniteSets

CONSTANTS
  Operator,       \* people or jobs that run the commands
  Id,             \* measurement ids
  Sensor, SensorOf,
  NumPartitions,  \* PARTITION_COUNT
  Remainder,      \* Remainder[s]: the hash partition of sensor s
  IndexKeys,      \* INDEX_KEYS
  UniqueKeys,     \* those of the unique indexes
  BatchSize,      \* of the seed
  MaxCopies,      \* bound: copies of one row in the partitioned table
  MaxFaults       \* bound: commands that are killed or started beside another

ASSUME CountsAssumption ==
  /\ NumPartitions \in Nat \ {0} /\ BatchSize \in Nat \ {0}
  /\ MaxCopies \in Nat \ {0} /\ MaxFaults \in Nat
ASSUME IdAssumption ==
  /\ Id \subseteq Nat \ {0} /\ IsFiniteSet(Id)
  /\ SensorOf \in [Id -> Sensor]
  /\ Remainder \in [Sensor -> 0..(NumPartitions - 1)]
ASSUME IndexAssumption ==
  /\ Len(IndexKeys) \in Nat \ {0}
  /\ UniqueKeys \subseteq {IndexKeys[k] : k \in 1..Len(IndexKeys)} /\ UniqueKeys # {}

VARIABLES
  \* measurement_identity and measurement_identity_seed_state
  migrated,       \* the Alembic migration is applied
  identity,       \* ids in the registry
  seed_phase, seed_cursor,
  \* the tables
  plain,          \* rows of the unpartitioned table
  plainName,
  plainTrigger,   \* its insert trigger registers identities
  parted,         \* how often each id is a row of the partitioned table
  partedName,
  partedTrigger,
  index,          \* local indexes <<key, remainder>> that exist
  attached,       \* keys whose parent index exists, with the local ones attached
  \* the notes' measurement_id
  noted,          \* ids with a note
  fk,             \* the table notes_measurement_id_fkey refers to
  \* measurement_partition_migration
  phase, copy_cursor, index_cursor,
  lock,           \* holder of the advisory lock
  \* the commands' local variables
  pc, at,
  \* history
  used,           \* ids ever inserted
  wanted,         \* ids inserted and not deleted
  disturbed,      \* what the documentation asks not to do, and was done
  faults

seedVars  == <<seed_phase, seed_cursor>>
plainVars == <<plain, plainName, plainTrigger>>
partedVars == <<parted, partedName, partedTrigger, index, attached>>
noteVars  == <<noted, fk>>
stateVars == <<phase, copy_cursor, index_cursor>>
localVars == <<lock, pc, at>>
history   == <<used, wanted>>
vars == <<migrated, identity, seedVars, plainVars, partedVars, noteVars,
          stateVars, localVars, history, disturbed, faults>>

None == "none"

Partition == 0..(NumPartitions - 1)
PartitionOf(i) == Remainder[SensorOf[i]]
NumSteps == NumPartitions * Len(IndexKeys)
KeyOf(step) == IndexKeys[step \div NumPartitions + 1]
Keys == {IndexKeys[k] : k \in 1..Len(IndexKeys)}

PC == {"idle", "seedpage", "seedend", "counted", "copy", "index", "indexed", "attach",
       "validating", "validate", "rename", "renamed", "back", "backed"}

PartedRows == {i \in Id : parted[i] > 0}
PartedCount == Cardinality(UNION {{i} \X (1..parted[i]) : i \in Id})

\* The rows of the table that is called measurements.
Live == IF partedName = "measurements" THEN PartedRows ELSE plain

Init ==
  /\ migrated = FALSE /\ identity = {}
  /\ seed_phase = None /\ seed_cursor = 0
  /\ plain \in SUBSET Id /\ plainName = "measurements" /\ plainTrigger = FALSE
  /\ parted = [i \in Id |-> 0] /\ partedName = None /\ partedTrigger = FALSE
  /\ index = {} /\ attached = {}
  /\ noted = {} /\ fk = "measurements"
  /\ phase = None /\ copy_cursor = 0 /\ index_cursor = 0
  /\ lock = None
  /\ pc = [o \in Operator |-> "idle"]
  /\ at = [o \in Operator |-> 0]
  /\ used = plain /\ wanted = plain
  /\ disturbed = {} /\ faults = 0
-----------------------------------------------------------------------------
Goto(o, label) == pc' = [pc EXCEPT ![o] = label]

GotoAt(o, label, n) == Goto(o, label) /\ at' = [at EXCEPT ![o] = n]

\* The command is over, or its connection is gone: its lock is free.
Done(o) == GotoAt(o, "idle", 0) /\ lock' = IF lock = o THEN None ELSE lock

Busy == \E o \in Operator : pc[o] # "idle"

\* A second command beside one that runs is on record, and bounded.
Starting(o) ==
  /\ pc[o] = "idle"
  /\ IF Busy
     THEN /\ faults < MaxFaults
          /\ faults' = faults + 1
          /\ disturbed' = disturbed \union {"overlap"}
     ELSE UNCHANGED <<faults, disturbed>>

(***************************************************************************)
(* _set_phase. The cursors hold the number of the next partition or index, *)
(* which is the code's cursor plus one.                                    *)
(***************************************************************************)
set_phase(p, copied, indexes) ==
  phase' = p /\ copy_cursor' = copied /\ index_cursor' = indexes

\* The Alembic migration: the registry, empty, and the trigger's function.
upgrade ==
  /\ ~migrated
  /\ migrated' = TRUE
  /\ UNCHANGED <<identity, seedVars, plainVars, partedVars, noteVars,
                 stateVars, localVars, history, disturbed, faults>>
-----------------------------------------------------------------------------
\* The seed's state row is created pending; the cursor is read.
SeedStart(o) ==
  /\ Starting(o)
  /\ migrated
  /\ seed_phase' = IF seed_phase = None THEN "pending" ELSE seed_phase
  /\ GotoAt(o, "seedpage", seed_cursor)
  /\ UNCHANGED <<migrated, identity, seed_cursor, plainVars, partedVars,
                 noteVars, stateVars, lock, history>>

Beyond(o) == {i \in Live : i > at[o]}

\* A page of identities and the cursor are one transaction.
SeedPage(o) ==
  /\ pc[o] = "seedpage"
  /\ \E page_max \in Beyond(o) :
       LET page == {i \in Beyond(o) : i <= page_max} IN
       /\ Cardinality(page) <= BatchSize
       /\ Cardinality(page) = BatchSize \/ page = Beyond(o)
       /\ identity' = identity \union page
       /\ seed_cursor' = page_max
       /\ GotoAt(o, "seedpage", page_max)
  /\ seed_phase' = "seeding"
  /\ UNCHANGED <<migrated, plainVars, partedVars, noteVars, stateVars, lock,
                 history, disturbed, faults>>

SeedPagesDone(o) ==
  /\ pc[o] = "seedpage"
  /\ Beyond(o) = {}
  /\ Goto(o, "seedend")
  /\ UNCHANGED <<migrated, identity, seedVars, plainVars, partedVars,
                 noteVars, stateVars, lock, at, history, disturbed, faults>>

SeedIsCounted ==
  Cardinality(identity) =
    (IF partedName = "measurements" THEN PartedCount ELSE Cardinality(plain))

\* The counts agree. They keep no writer out until the trigger is there.
SeedCounted(o) ==
  /\ pc[o] = "seedend"
  /\ SeedIsCounted
  /\ Goto(o, "counted")
  /\ UNCHANGED <<migrated, identity, seedVars, plainVars, partedVars,
                 noteVars, stateVars, lock, at, history, disturbed, faults>>

\* The live table gets the trigger, the seed is over.
SeedEnd(o) ==
  /\ pc[o] = "counted"
  /\ IF plainName = "measurements"
     THEN plainTrigger' = TRUE /\ UNCHANGED partedTrigger
     ELSE partedTrigger' = TRUE /\ UNCHANGED plainTrigger
  /\ seed_phase' = "seeded"
  /\ Done(o)
  /\ UNCHANGED <<migrated, identity, seed_cursor, plain, plainName, parted,
                 partedName, index, attached, noteVars, stateVars, history,
                 disturbed, faults>>
-----------------------------------------------------------------------------
\* prepare, when it was never begun: the shadow table and the state row.
PrepareBegin(o) ==
  /\ Starting(o)
  /\ phase = None
  /\ migrated /\ plainName # "legacy" /\ partedName # "shadow"
  /\ partedName' = "shadow"
  /\ set_phase("copying", 0, 0)
  /\ GotoAt(o, "copy", 0)
  /\ UNCHANGED <<migrated, identity, seedVars, plainVars, parted,
                 partedTrigger, index, attached, noteVars, lock, history>>

\* Mutant: a validation that was interrupted is not taken up.
ResumeCopyOrIndex(o) ==
  /\ Starting(o)
  /\ \/ phase = "copying" /\ GotoAt(o, "copy", copy_cursor)
     \/ phase = "indexing" /\ GotoAt(o, "index", index_cursor)
  /\ UNCHANGED <<migrated, identity, seedVars, plainVars, partedVars,
                 noteVars, stateVars, lock, history>>

\* prepare again: it goes on where the state row says.
PrepareResume(o) ==
  /\ Starting(o)
  /\ \/ phase = "copying" /\ GotoAt(o, "copy", copy_cursor)
     \/ phase = "indexing" /\ GotoAt(o, "index", index_cursor)
     \/ phase = "validating" /\ GotoAt(o, "validate", 0)
  /\ UNCHANGED <<migrated, identity, seedVars, plainVars, partedVars,
                 noteVars, stateVars, lock, history>>

RowsOf(r) == {i \in Live : PartitionOf(i) = r}

\* Its unique indexes and its foreign key admit a second copy of nothing, and
\* no id that is not registered.
CanCopy(r) ==
  /\ partedName = "shadow"
  /\ RowsOf(r) \subseteq identity
  /\ (\E k \in UniqueKeys : <<k, r>> \in index) => RowsOf(r) \cap PartedRows = {}

\* A partition's rows and the cursor are one transaction.
CopyPartition(o) ==
  LET r == at[o] IN
  /\ pc[o] = "copy"
  /\ r < NumPartitions
  /\ CanCopy(r)
  /\ \A i \in RowsOf(r) : parted[i] < MaxCopies
  /\ parted' = [i \in Id |-> IF i \in RowsOf(r) THEN parted[i] + 1 ELSE parted[i]]
  /\ set_phase("copying", r + 1, 0)
  /\ GotoAt(o, "copy", r + 1)
  /\ UNCHANGED <<migrated, identity, seedVars, plainVars, partedName,
                 partedTrigger, index, attached, noteVars, lock, history,
                 disturbed, faults>>

CopyingDone(o) ==
  /\ pc[o] = "copy"
  /\ at[o] = NumPartitions
  /\ set_phase("indexing", NumPartitions, 0)
  /\ GotoAt(o, "index", 0)
  /\ UNCHANGED <<migrated, identity, seedVars, plainVars, partedVars,
                 noteVars, lock, history, disturbed, faults>>

\* CREATE UNIQUE INDEX fails on rows that are there twice.
CanIndex(step) ==
  KeyOf(step) \in UniqueKeys =>
    \A i \in Id : PartitionOf(i) = step % NumPartitions => parted[i] <= 1

\* Mutant: the last local index is left out.
CreateIndexButLast(o) ==
  /\ pc[o] = "index"
  /\ at[o] < NumSteps
  /\ CanIndex(at[o])
  /\ index' = IF at[o] + 1 = NumSteps THEN index
              ELSE index \union {<<KeyOf(at[o]), at[o] % NumPartitions>>}
  /\ Goto(o, "indexed")
  /\ UNCHANGED <<migrated, identity, seedVars, plainVars, parted, partedName,
                 partedTrigger, attached, noteVars, stateVars, lock, at,
                 history, disturbed, faults>>

\* The partitions keep their names when the table they belong to is renamed.
CreateIndex(o) ==
  /\ pc[o] = "index"
  /\ at[o] < NumSteps
  /\ CanIndex(at[o])
  /\ index' = index \union {<<KeyOf(at[o]), at[o] % NumPartitions>>}
  /\ Goto(o, "indexed")
  /\ UNCHANGED <<migrated, identity, seedVars, plainVars, parted, partedName,
                 partedTrigger, attached, noteVars, stateVars, lock, at,
                 history, disturbed, faults>>

RecordIndex(o) ==
  /\ pc[o] = "indexed"
  /\ set_phase("indexing", NumPartitions, at[o] + 1)
  /\ GotoAt(o, "index", at[o] + 1)
  /\ UNCHANGED <<migrated, identity, seedVars, plainVars, partedVars,
                 noteVars, lock, history, disturbed, faults>>

IndexingDone(o) ==
  /\ pc[o] = "index"
  /\ at[o] = NumSteps
  /\ GotoAt(o, "attach", 1)
  /\ UNCHANGED <<migrated, identity, seedVars, plainVars, partedVars,
                 noteVars, stateVars, lock, history, disturbed, faults>>

\* One key of _ensure_parent_indexes: the parent index, the local ones attached.
AttachIndexes(o) ==
  /\ pc[o] = "attach"
  /\ at[o] <= Len(IndexKeys)
  /\ partedName = "shadow"
  /\ attached' = attached \union {IndexKeys[at[o]]}
  /\ GotoAt(o, "attach", at[o] + 1)
  /\ UNCHANGED <<migrated, identity, seedVars, plainVars, parted, partedName,
                 partedTrigger, index, noteVars, stateVars, lock, history,
                 disturbed, faults>>

ensure_shadow_trigger(o) ==
  /\ pc[o] = "attach"
  /\ at[o] > Len(IndexKeys)
  /\ partedName = "shadow"
  /\ partedTrigger' = TRUE
  /\ GotoAt(o, "validating", 0)
  /\ UNCHANGED <<migrated, identity, seedVars, plainVars, parted, partedName,
                 index, attached, noteVars, stateVars, lock, history,
                 disturbed, faults>>

StartValidating(o) ==
  /\ pc[o] = "validating"
  /\ set_phase("validating", NumPartitions, NumSteps)
  /\ Goto(o, "validate")
  /\ UNCHANGED <<migrated, identity, seedVars, plainVars, partedVars,
                 noteVars, lock, at, history, disturbed, faults>>

\* _validate_shadow compares numbers of rows, and the shadow to the registry.
ShadowIsValid ==
  /\ partedName = "shadow"
  /\ PartedCount = Cardinality(plain)
  /\ PartedRows \subseteq identity

PrepareEnd(o) ==
  /\ pc[o] = "validate"
  /\ ShadowIsValid
  /\ set_phase("prepared", copy_cursor, index_cursor)
  /\ Done(o)
  /\ UNCHANGED <<migrated, identity, seedVars, plainVars, partedVars,
                 noteVars, history, disturbed, faults>>
-----------------------------------------------------------------------------
\* cutover: the phase and the shadow are looked at before the lock is taken.
CutoverStart(o) ==
  /\ Starting(o)
  /\ phase = "prepared"
  /\ ShadowIsValid
  /\ Goto(o, "rename")
  /\ UNCHANGED <<migrated, identity, seedVars, plainVars, partedVars,
                 noteVars, stateVars, lock, at, history>>

CanRename ==
  /\ plainName = "measurements" /\ partedName = "shadow"
  /\ attached = Keys
  /\ noted \subseteq identity

\* The names, and the notes' foreign key, change in one transaction.
Rename(o) ==
  /\ pc[o] = "rename"
  /\ lock = None
  /\ CanRename
  /\ lock' = o
  /\ plainName' = "legacy" /\ partedName' = "measurements"
  /\ fk' = "measurement_identity"
  /\ Goto(o, "renamed")
  /\ UNCHANGED <<migrated, identity, seedVars, plain, plainTrigger, parted,
                 partedTrigger, index, attached, noted, stateVars, at, history,
                 disturbed, faults>>

CutoverEnd(o) ==
  /\ pc[o] = "renamed"
  /\ set_phase("cutover", copy_cursor, index_cursor)
  /\ Done(o)
  /\ UNCHANGED <<migrated, identity, seedVars, plainVars, partedVars,
                 noteVars, history, disturbed, faults>>

RollbackStart(o) ==
  /\ Starting(o)
  /\ phase = "cutover"
  /\ plainName = "legacy" /\ partedName = "measurements"
  /\ Goto(o, "back")
  /\ UNCHANGED <<migrated, identity, seedVars, plainVars, partedVars,
                 noteVars, stateVars, lock, at, history>>

CanRenameBack ==
  /\ plainName = "legacy" /\ partedName = "measurements"
  /\ noted \subseteq plain

RenameBack(o) ==
  /\ pc[o] = "back"
  /\ lock = None
  /\ CanRenameBack
  /\ lock' = o
  /\ plainName' = "measurements" /\ partedName' = "failed"
  /\ fk' = "measurements"
  /\ Goto(o, "backed")
  /\ UNCHANGED <<migrated, identity, seedVars, plain, plainTrigger, parted,
                 partedTrigger, index, attached, noted, stateVars, at, history,
                 disturbed, faults>>

RollbackEnd(o) ==
  /\ pc[o] = "backed"
  /\ set_phase("rolled_back", copy_cursor, index_cursor)
  /\ Done(o)
  /\ UNCHANGED <<migrated, identity, seedVars, plainVars, partedVars,
                 noteVars, history, disturbed, faults>>
-----------------------------------------------------------------------------
\* A statement that PostgreSQL refuses, or a check that raises, ends the command.
Refused(o) ==
  \/ pc[o] = "seedend" /\ ~SeedIsCounted
  \/ pc[o] = "copy" /\ at[o] < NumPartitions /\ ~CanCopy(at[o])
  \/ pc[o] = "index" /\ at[o] < NumSteps /\ ~CanIndex(at[o])
  \/ pc[o] = "attach" /\ partedName # "shadow"
  \/ pc[o] = "validate" /\ ~ShadowIsValid
  \/ pc[o] = "rename" /\ lock = None /\ ~CanRename
  \/ pc[o] = "back" /\ lock = None /\ ~CanRenameBack

Fails(o) ==
  /\ Refused(o)
  /\ Done(o)
  /\ UNCHANGED <<migrated, identity, seedVars, plainVars, partedVars,
                 noteVars, stateVars, history, disturbed, faults>>

\* The command is killed.
Crash(o) ==
  /\ pc[o] # "idle"
  /\ faults < MaxFaults
  /\ faults' = faults + 1
  /\ Done(o)
  /\ UNCHANGED <<migrated, identity, seedVars, plainVars, partedVars,
                 noteVars, stateVars, history, disturbed>>
-----------------------------------------------------------------------------
\* A seed is at work, or was begun and is not over.
Seeding ==
  \/ seed_phase \in {"pending", "seeding"}
  \/ \E o \in Operator : pc[o] \in {"seedpage", "seedend", "counted"}

\* Writers that are not paused, as the documentation asks, leave a trace.
Writing ==
  disturbed' = disturbed
    \union (IF Seeding THEN {"seed"} ELSE {})
    \union (IF partedName = "shadow" THEN {"copy"} ELSE {})
    \union (IF partedName = "measurements" THEN {"resumed"} ELSE {})

\* A row is inserted into the live table, whose trigger registers its identity.
create_measurement(i) ==
  /\ i \notin used
  /\ Writing
  /\ used' = used \union {i}
  /\ wanted' = wanted \union {i}
  /\ IF partedName = "measurements"
     THEN /\ parted' = [parted EXCEPT ![i] = 1]
          /\ identity' = IF partedTrigger THEN identity \union {i} ELSE identity
          /\ UNCHANGED plain
     ELSE /\ plain' = plain \union {i}
          /\ identity' = IF plainTrigger THEN identity \union {i} ELSE identity
          /\ UNCHANGED parted
  /\ UNCHANGED <<migrated, seedVars, plainName, plainTrigger, partedName,
                 partedTrigger, index, attached, noteVars, stateVars,
                 localVars, faults>>

\* Mutant: without the registry nothing is deleted.
DeleteIfMigrated(rows) ==
  /\ Writing
  /\ identity' = identity \ rows
  /\ wanted' = wanted \ rows
  /\ noted' = noted \ rows
  /\ IF partedName = "measurements"
     THEN parted' = [i \in Id |-> IF i \in rows THEN 0 ELSE parted[i]] /\ UNCHANGED plain
     ELSE plain' = (IF migrated THEN plain \ rows ELSE plain) /\ UNCHANGED parted
  /\ UNCHANGED <<migrated, seedVars, plainName, plainTrigger, partedName,
                 partedTrigger, index, attached, fk, stateVars, localVars,
                 used, faults>>

(***************************************************************************)
(* The identities go first, then the rows; at the commit the foreign key   *)
(* of a partitioned table that is not the live one (a shadow, or a failed  *)
(* table that was kept) refuses to lose an identity. The notes follow.     *)
(***************************************************************************)
DeleteRows(rows) ==
  /\ partedName \in {"shadow", "failed"} => rows \cap PartedRows \cap identity = {}
  /\ Writing
  /\ identity' = identity \ rows
  /\ wanted' = wanted \ rows
  /\ noted' = noted \ rows
  /\ IF partedName = "measurements"
     THEN parted' = [i \in Id |-> IF i \in rows THEN 0 ELSE parted[i]] /\ UNCHANGED plain
     ELSE plain' = plain \ rows /\ UNCHANGED parted
  /\ UNCHANGED <<migrated, seedVars, plainName, plainTrigger, partedName,
                 partedTrigger, index, attached, fk, stateVars, localVars,
                 used, faults>>

delete_measurement(i) == i \in Live /\ DeleteRows({i})

delete_sensor_measurements(s) ==
  LET rows == {i \in Live : SensorOf[i] = s} IN
  rows # {} /\ DeleteRows(rows)

\* A note on a measurement: the foreign key wants its target.
create_note(i) ==
  /\ i \in Live /\ i \notin noted
  /\ fk = "measurement_identity" => i \in identity
  /\ noted' = noted \union {i}
  /\ UNCHANGED <<migrated, identity, seedVars, plainVars, partedVars, fk,
                 stateVars, localVars, history, disturbed, faults>>

Writer ==
  \/ \E i \in Id : create_measurement(i) \/ delete_measurement(i) \/ create_note(i)
  \/ \E s \in Sensor : delete_sensor_measurements(s)

CommandStep(o) ==
  \/ SeedPage(o) \/ SeedPagesDone(o) \/ SeedCounted(o) \/ SeedEnd(o)
  \/ CopyPartition(o) \/ CopyingDone(o)
  \/ CreateIndex(o) \/ RecordIndex(o) \/ IndexingDone(o)
  \/ AttachIndexes(o) \/ ensure_shadow_trigger(o)
  \/ StartValidating(o) \/ PrepareEnd(o)
  \/ Rename(o) \/ CutoverEnd(o) \/ RenameBack(o) \/ RollbackEnd(o)
  \/ Fails(o)

Start(o) ==
  SeedStart(o) \/ PrepareBegin(o) \/ PrepareResume(o) \/ CutoverStart(o)
  \/ RollbackStart(o)

Next ==
  \/ upgrade
  \/ \E o \in Operator : Start(o) \/ CommandStep(o) \/ Crash(o)
  \/ Writer

Spec == Init /\ [][Next]_vars

\* A command goes on by itself; a prepare that was interrupted is run again.
Fairness ==
  \A o \in Operator : WF_vars(CommandStep(o)) /\ SF_vars(PrepareResume(o))

FairSpec == Spec /\ Fairness
-----------------------------------------------------------------------------
TypeOK ==
  /\ migrated \in BOOLEAN
  /\ identity \subseteq Id
  /\ seed_phase \in {None, "pending", "seeding", "seeded"} /\ seed_cursor \in Nat
  /\ plain \subseteq Id /\ plainName \in {"measurements", "legacy"}
  /\ parted \in [Id -> Nat]
  /\ partedName \in {None, "shadow", "measurements", "failed"}
  /\ plainTrigger \in BOOLEAN /\ partedTrigger \in BOOLEAN
  /\ index \subseteq Keys \X Partition /\ attached \subseteq Keys
  /\ noted \subseteq Id /\ fk \in {"measurements", "measurement_identity"}
  /\ phase \in {None, "copying", "indexing", "validating", "prepared",
                "cutover", "rolled_back"}
  /\ copy_cursor \in 0..NumPartitions /\ index_cursor \in 0..NumSteps
  /\ lock \in Operator \union {None}
  /\ pc \in [Operator -> PC] /\ at \in [Operator -> Nat]
  /\ used \subseteq Id /\ wanted \subseteq used
  /\ disturbed \subseteq {"seed", "copy", "resumed", "overlap"}
  /\ faults \in 0..MaxFaults

\* Writers were paused from prepare to cutover, and no rollback came after
\* they had resumed.
Paused ==
  /\ "copy" \notin disturbed
  /\ "resumed" \in disturbed => partedName # "failed"

(***************************************************************************)
(* Whatever command is killed, repeated, or run beside another, the table  *)
(* called measurements has every measurement, and no measurement twice, as *)
(* long as the writers were paused. Once the seed is over, or the          *)
(* partitioned table is live, the registry of identities is exactly that   *)
(* table, through inserts, deletes and another command's renames too.      *)
(***************************************************************************)
LiveIsWhole ==
  Paused =>
    /\ Live = wanted
    /\ partedName = "measurements" => \A i \in Id : parted[i] <= 1
    /\ "seed" \notin disturbed /\ (plainTrigger \/ partedName = "measurements") =>
         identity = Live

(***************************************************************************)
(* A shadow that is prepared is a copy of the live table, row by row, and  *)
(* has all its indexes and its trigger, though rows were only counted.     *)
(***************************************************************************)
PreparedIsWhole ==
  phase = "prepared" /\ Paused /\ partedName = "shadow" =>
    /\ PartedRows = plain /\ \A i \in Id : parted[i] <= 1
    /\ index = Keys \X Partition /\ attached = Keys /\ partedTrigger

(***************************************************************************)
(* A prepare that has begun ends prepared if it is run again after each    *)
(* interruption, with the registry seeded, writers paused and nobody else  *)
(* at work.                                                                *)
(***************************************************************************)
PrepareResumes ==
  phase = "copying" /\ seed_phase = "seeded" ~>
    phase = "prepared" \/ disturbed # {}
=============================================================================
