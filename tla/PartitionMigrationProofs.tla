---------------------- MODULE PartitionMigrationProofs -----------------------
(***************************************************************************)
(* Theorems about PartitionMigration, for any operators, measurements,     *)
(* partitions, index keys, interruptions and commands beside each other.   *)
(*                                                                         *)
(* A copy is checked by numbers of rows and an index by nothing. That the  *)
(* table is whole rests on what a cursor, wherever it is kept, says of the *)
(* tables: that the partitions before it are copied, and the indexes       *)
(* before it exist. A command that was overtaken still writes its own      *)
(* cursor and phase, older ones, and these are true too.                   *)
(***************************************************************************)
EXTENDS PartitionMigration, FiniteSetTheorems, TLAPS

-----------------------------------------------------------------------------
(* The invariant. *)

\* What a copy cursor and an index cursor say.
CopiedTo(n)  == \A i \in plain : PartitionOf(i) < n => parted[i] > 0
IndexedTo(n) == \A step \in 0..(n - 1) : <<KeyOf(step), step % NumPartitions>> \in index

Built == IndexedTo(NumSteps) /\ attached = Keys /\ partedTrigger

SeedLabels    == {"seedpage", "seedend", "counted"}
IndexLabels   == {"index", "indexed", "attach"}
CheckedLabels == {"validating", "validate", "rename"}

\* The names change together, and each only once.
NamesInv ==
  /\ plainName = "legacy" <=> partedName = "measurements"
  /\ phase = None <=> partedName = None
  /\ partedName = None =>
       /\ \A i \in Id : parted[i] = 0
       /\ \A o \in Operator : pc[o] \in {"idle"} \union SeedLabels
  /\ "resumed" \in disturbed => partedName \in {"measurements", "failed"}

\* What the label of a command says of the indexes.
AtIndex(o) ==
  /\ pc[o] = "index"   => at[o] <= NumSteps /\ IndexedTo(at[o])
  /\ pc[o] = "indexed" => at[o] < NumSteps /\ IndexedTo(at[o] + 1)
  /\ pc[o] = "attach"  =>
       /\ at[o] > 0 /\ IndexedTo(NumSteps)
       /\ \A j \in 1..Len(IndexKeys) : j < at[o] => IndexKeys[j] \in attached
  /\ pc[o] \in CheckedLabels => Built

IndexInv ==
  /\ IndexedTo(index_cursor)
  /\ \A o \in Operator : AtIndex(o)
  /\ phase \in {"validating", "prepared"} \/ partedName = "measurements" => Built

\* A unique index admits no second copy of a row.
UniqueInv ==
  \A k \in UniqueKeys : \A r \in Partition :
    <<k, r>> \in index => \A i \in Id : PartitionOf(i) = r => parted[i] <= 1

\* What the label of a command says of the rows.
Copied == plain \subseteq PartedRows

AtCopy(o) ==
  /\ pc[o] = "copy" => CopiedTo(at[o])
  /\ pc[o] \in IndexLabels \union CheckedLabels => Copied

CopyInv ==
  partedName = "shadow" /\ "copy" \notin disturbed =>
    /\ PartedRows \subseteq plain
    /\ CopiedTo(copy_cursor)
    /\ \A o \in Operator : AtCopy(o)
    /\ phase \in {"indexing", "validating", "prepared"} => Copied

\* The plain table is up to date until the partitioned one has been written.
RowsInv ==
  "copy" \notin disturbed =>
    /\ "resumed" \notin disturbed => plain = wanted
    /\ partedName = "measurements" => PartedRows = wanted

Registered ==
  "seed" \notin disturbed /\ ( \/ plainTrigger \/ partedName = "measurements"
                               \/ \E o \in Operator : pc[o] = "counted" )
  => identity = Live

RegistryInv ==
  Paused =>
    /\ identity \subseteq Live
    /\ Registered
    /\ partedName = "shadow" =>
         \A o \in Operator : pc[o] = "rename" => plain \subseteq identity

MoveInv ==
  /\ TypeOK
  /\ NamesInv /\ IndexInv /\ UniqueInv /\ CopyInv /\ RowsInv /\ RegistryInv

-----------------------------------------------------------------------------
(* Steps and names of steps. *)
USE DEF None, seedVars, plainVars, partedVars, noteVars, stateVars, localVars, history,
        Goto, GotoAt, Done, set_phase

LEMMA StepsAreNumbers ==
  /\ NumSteps \in Nat /\ NumPartitions \in Nat \ {0}
  /\ Len(IndexKeys) \in Nat \ {0}
  /\ \A i \in Id : PartitionOf(i) \in Partition
BY CountsAssumption, IndexAssumption, IdAssumption DEF NumSteps, PartitionOf, Partition

\* The number of a local index is its key and its partition, and all are numbered.
LEMMA StepInRange ==
  ASSUME NEW step \in Nat, step < NumSteps
  PROVE  <<KeyOf(step), step % NumPartitions>> \in Keys \X Partition
<1> DEFINE N == NumPartitions  L == Len(IndexKeys)  q == step \div N
<1>1. N \in Nat \ {0} /\ L \in Nat \ {0} /\ step < N * L
  BY StepsAreNumbers DEF NumSteps
<1>2. q \in Nat /\ step % N \in 0..(N - 1) /\ N * q <= step
  BY <1>1
<1>3. q < L
  <2> HIDE DEF q
  <2> SUFFICES ASSUME q >= L PROVE FALSE
    BY <1>1, <1>2
  <2>1. N * q >= N * L
    BY <1>1, <1>2
  <2>2. N * L \in Nat /\ N * q \in Nat
    BY <1>1, <1>2
  <2> QED
    BY <1>1, <1>2, <2>1, <2>2
<1> QED
  BY <1>1, <1>2, <1>3 DEF KeyOf, Keys, Partition

LEMMA AllAreNumbered ==
  ASSUME NEW k \in Keys, NEW r \in Partition
  PROVE  \E step \in 0..(NumSteps - 1) : KeyOf(step) = k /\ step % NumPartitions = r
<1> DEFINE N == NumPartitions  L == Len(IndexKeys)
<1>1. PICK j \in 1..L : k = IndexKeys[j]
  BY DEF Keys
<1> DEFINE step == N * (j - 1) + r
<1>2. N \in Nat \ {0} /\ L \in Nat \ {0} /\ r \in 0..(N - 1) /\ j - 1 \in 0..(L - 1)
  BY StepsAreNumbers DEF Partition
<1>3. N * (j - 1) \in Nat /\ N * (j - 1) + N <= N * L
  BY <1>2
<1>4. step \in 0..(NumSteps - 1)
  BY <1>2, <1>3 DEF NumSteps
<1>5. step \div N = j - 1 /\ step % N = r
  BY <1>2
<1> HIDE DEF step
<1>6. KeyOf(step) = k
  BY <1>1, <1>2, <1>5 DEF KeyOf
<1> QED
  BY <1>4, <1>5, <1>6

\* The commands, by what they leave alone.
SeedMoves(o)    == SeedStart(o) \/ SeedPagesDone(o) \/ SeedCounted(o)
Ends(o)         == Fails(o) \/ Crash(o)
IndexMoves(o)   == RecordIndex(o) \/ IndexingDone(o)
Builds(o)       == CreateIndex(o) \/ AttachIndexes(o) \/ ensure_shadow_trigger(o)
Validates(o)    == StartValidating(o) \/ PrepareEnd(o)
CutoverMoves(o) == CutoverStart(o) \/ CutoverEnd(o)
BackMoves(o)    == RollbackStart(o) \/ RollbackEnd(o)

Command(o) ==
  \/ SeedMoves(o) \/ Ends(o) \/ SeedPage(o) \/ SeedEnd(o)
  \/ PrepareBegin(o) \/ PrepareResume(o)
  \/ CopyPartition(o) \/ CopyingDone(o)
  \/ IndexMoves(o) \/ Builds(o) \/ Validates(o)
  \/ CutoverMoves(o) \/ Rename(o) \/ BackMoves(o) \/ RenameBack(o)

Write ==
  \/ \E i \in Id : create_measurement(i) \/ create_note(i)
  \/ \E rows \in SUBSET Live : DeleteRows(rows)

LEMMA NextSteps ==
  ASSUME [Next]_vars
  PROVE  upgrade \/ UNCHANGED vars \/ Write \/ \E o \in Operator : Command(o)
BY DEF Next, Start, CommandStep, Writer, SeedMoves, Ends, IndexMoves, Builds, Validates,
   CutoverMoves, BackMoves, delete_measurement, delete_sensor_measurements, Command, Write

\* Only writers leave the traces that the properties look at.
LEMMA CommandsLeaveNoTrace ==
  ASSUME NEW o \in Operator, Command(o), NEW x \in {"seed", "copy", "resumed"}
  PROVE  x \in disturbed' <=> x \in disturbed
<1>1. ASSUME Starting(o) PROVE disturbed' \in {disturbed, disturbed \union {"overlap"}}
  BY <1>1 DEF Starting
<1>2. disturbed' \in {disturbed, disturbed \union {"overlap"}}
  BY <1>1
  DEF Command, SeedMoves, SeedStart, SeedPagesDone, SeedCounted, Ends, Fails, Crash, SeedPage,
      SeedEnd, PrepareBegin, PrepareResume, CopyPartition, CopyingDone, IndexMoves,
      RecordIndex, IndexingDone, Builds, CreateIndex, AttachIndexes, ensure_shadow_trigger,
      Validates, StartValidating, PrepareEnd, CutoverMoves, CutoverStart, CutoverEnd, Rename,
      BackMoves, RollbackStart, RollbackEnd, RenameBack
<1> QED
  BY <1>2

LEMMA WritersLeaveTraces ==
  ASSUME Writing
  PROVE  /\ "seed" \in disturbed' <=> "seed" \in disturbed \/ Seeding
         /\ "copy" \in disturbed' <=> "copy" \in disturbed \/ partedName = "shadow"
         /\ "resumed" \in disturbed' <=> "resumed" \in disturbed \/ partedName = "measurements"
BY DEF Writing

\* A command moves its own label.
LEMMA OthersWait ==
  ASSUME TypeOK, NEW o \in Operator, Command(o), NEW p \in Operator \ {o}
  PROVE  pc'[p] = pc[p] /\ at'[p] = at[p]
<1>1. pc \in [Operator -> PC] /\ at \in [Operator -> Nat]
  BY DEF TypeOK
<1>2. CASE SeedMoves(o) \/ Ends(o) \/ SeedPage(o) \/ SeedEnd(o)
  BY <1>1, <1>2 DEF SeedMoves, SeedStart, SeedPagesDone, SeedCounted, Ends, Fails, Crash,
                    SeedPage, SeedEnd
<1>3. CASE PrepareBegin(o) \/ PrepareResume(o) \/ CopyPartition(o) \/ CopyingDone(o)
  BY <1>1, <1>3 DEF PrepareBegin, PrepareResume, CopyPartition, CopyingDone
<1>4. CASE IndexMoves(o) \/ Builds(o)
  BY <1>1, <1>4 DEF IndexMoves, RecordIndex, IndexingDone, Builds, CreateIndex, AttachIndexes,
                    ensure_shadow_trigger
<1>5. CASE Validates(o) \/ CutoverMoves(o) \/ Rename(o)
  BY <1>1, <1>5 DEF Validates, StartValidating, PrepareEnd, CutoverMoves, CutoverStart,
                    CutoverEnd, Rename
<1>6. CASE BackMoves(o) \/ RenameBack(o)
  BY <1>1, <1>6 DEF BackMoves, RollbackStart, RollbackEnd, RenameBack
<1> QED
  BY <1>2, <1>3, <1>4, <1>5, <1>6 DEF Command

-----------------------------------------------------------------------------
(* Types. *)
LEMMA TypeStep ==
  ASSUME TypeOK, IndexInv, [Next]_vars PROVE TypeOK'
<1> DEFINE Traced == /\ disturbed' \subseteq {"seed", "copy", "resumed", "overlap"}
                     /\ faults' \in 0..MaxFaults
<1>s. ASSUME NEW o, Starting(o) PROVE Traced
  <2>1. disturbed \subseteq {"seed", "copy", "resumed", "overlap"} /\ faults \in 0..MaxFaults
    BY DEF TypeOK
  <2>2. \/ faults < MaxFaults /\ faults' = faults + 1 /\ disturbed' = disturbed \union {"overlap"}
        \/ UNCHANGED <<faults, disturbed>>
    BY <1>s DEF Starting
  <2>3. disturbed' \subseteq {"seed", "copy", "resumed", "overlap"}
    BY <2>1, <2>2
  <2>4. faults' \in 0..MaxFaults
    BY <2>1, <2>2, CountsAssumption
  <2> QED
    BY <2>3, <2>4
<1>w. ASSUME Writing, UNCHANGED faults PROVE Traced
  <2>1. disturbed' \subseteq disturbed \union {"seed", "copy", "resumed"}
    BY <1>w DEF Writing
  <2> QED
    BY <1>w, <2>1 DEF TypeOK
<1> USE StepsAreNumbers, CountsAssumption DEF TypeOK, PC
<1>1. ASSUME NEW o \in Operator, SeedMoves(o) \/ Ends(o) PROVE TypeOK'
  <2>1. CASE SeedStart(o)
    <3>1. Starting(o)
      BY <2>1 DEF SeedStart
    <3>2. Traced
      BY <3>1, <1>s
    <3>3. /\ migrated
          /\ seed_phase' = IF seed_phase = None THEN "pending" ELSE seed_phase
          /\ GotoAt(o, "seedpage", seed_cursor)
          /\ UNCHANGED <<migrated, identity, seed_cursor, plainVars, partedVars,
                         noteVars, stateVars, lock, history>>
      BY <2>1 DEF SeedStart
    <3> QED
      BY <3>2, <3>3
  <2>2. CASE SeedPagesDone(o)
    BY <2>2 DEF SeedPagesDone
  <2>3. CASE SeedCounted(o)
    BY <2>3 DEF SeedCounted
  <2>4. CASE Fails(o)
    BY <2>4 DEF Fails
  <2>5. CASE Crash(o)
    BY <2>5 DEF Crash
  <2> QED
    BY <1>1, <2>1, <2>2, <2>3, <2>4, <2>5 DEF SeedMoves, Ends
<1>2. ASSUME NEW o \in Operator, SeedPage(o) PROVE TypeOK'
  <2>1. Beyond(o) \subseteq Id /\ Id \subseteq Nat
    BY IdAssumption DEF Beyond, Live, PartedRows
  <2>2. PICK page_max \in Beyond(o) :
          /\ identity' = identity \union {i \in Beyond(o) : i <= page_max}
          /\ seed_cursor' = page_max /\ GotoAt(o, "seedpage", page_max)
    BY <1>2 DEF SeedPage
  <2>3. identity' \subseteq Id /\ page_max \in Nat
    BY <2>1, <2>2
  <2> QED
    BY <1>2, <2>2, <2>3 DEF SeedPage
<1>3. ASSUME NEW o \in Operator, SeedEnd(o) PROVE TypeOK'
  BY <1>3 DEF SeedEnd
<1>4. ASSUME NEW o \in Operator, PrepareBegin(o) \/ PrepareResume(o) PROVE TypeOK'
  <2>1. CASE PrepareBegin(o)
    <3>1. Starting(o)
      BY <2>1 DEF PrepareBegin
    <3>2. Traced
      BY <3>1, <1>s
    <3>3. /\ phase = None
          /\ migrated /\ plainName # "legacy" /\ partedName # "shadow"
          /\ partedName' = "shadow"
          /\ set_phase("copying", 0, 0)
          /\ GotoAt(o, "copy", 0)
          /\ UNCHANGED <<migrated, identity, seedVars, plainVars, parted,
                         partedTrigger, index, attached, noteVars, lock, history>>
      BY <2>1 DEF PrepareBegin
    <3> QED
      BY <3>2, <3>3
  <2>2. CASE PrepareResume(o)
    <3>1. Starting(o)
      BY <2>2 DEF PrepareResume
    <3>2. Traced
      BY <3>1, <1>s
    <3>3. /\ \/ phase = "copying" /\ GotoAt(o, "copy", copy_cursor)
             \/ phase = "indexing" /\ GotoAt(o, "index", index_cursor)
             \/ phase = "validating" /\ GotoAt(o, "validate", 0)
          /\ UNCHANGED <<migrated, identity, seedVars, plainVars, partedVars,
                         noteVars, stateVars, lock, history>>
      BY <2>2 DEF PrepareResume
    <3> QED
      BY SMTT(30), <3>2, <3>3
  <2> QED
    BY <1>4, <2>1, <2>2
<1>5. ASSUME NEW o \in Operator, CopyPartition(o) \/ CopyingDone(o) PROVE TypeOK'
  <2>1. CASE CopyPartition(o)
    BY <2>1 DEF CopyPartition
  <2>2. CASE CopyingDone(o)
    BY <2>2 DEF CopyingDone
  <2> QED
    BY <1>5, <2>1, <2>2
<1>6. ASSUME NEW o \in Operator, IndexMoves(o) PROVE TypeOK'
  <2>1. CASE RecordIndex(o)
    BY <2>1 DEF RecordIndex, IndexInv, AtIndex
  <2>2. CASE IndexingDone(o)
    BY <2>2 DEF IndexingDone
  <2> QED
    BY <1>6, <2>1, <2>2 DEF IndexMoves
<1>7. ASSUME NEW o \in Operator, Builds(o) PROVE TypeOK'
  <2>1. CASE CreateIndex(o)
    <3>1. <<KeyOf(at[o]), at[o] % NumPartitions>> \in Keys \X Partition
      BY <2>1, StepInRange DEF CreateIndex
    <3> QED
      BY <2>1, <3>1 DEF CreateIndex
  <2>2. CASE AttachIndexes(o)
    <3>1. at[o] \in 1..Len(IndexKeys)
      BY <2>2 DEF AttachIndexes, IndexInv, AtIndex
    <3>2. IndexKeys[at[o]] \in Keys
      BY <3>1 DEF Keys
    <3> QED
      BY <2>2, <3>1, <3>2 DEF AttachIndexes
  <2>3. CASE ensure_shadow_trigger(o)
    BY <2>3 DEF ensure_shadow_trigger
  <2> QED
    BY <1>7, <2>1, <2>2, <2>3 DEF Builds
<1>8. ASSUME NEW o \in Operator, Validates(o) PROVE TypeOK'
  <2>1. CASE StartValidating(o)
    BY <2>1 DEF StartValidating
  <2>2. CASE PrepareEnd(o)
    BY <2>2 DEF PrepareEnd
  <2> QED
    BY <1>8, <2>1, <2>2 DEF Validates
<1>9. ASSUME NEW o \in Operator, CutoverMoves(o) \/ Rename(o) PROVE TypeOK'
  <2>1. CASE CutoverStart(o)
    <3>1. Starting(o)
      BY <2>1 DEF CutoverStart
    <3>2. Traced
      BY <3>1, <1>s
    <3>3. /\ phase = "prepared"
          /\ ShadowIsValid
          /\ Goto(o, "rename")
          /\ UNCHANGED <<migrated, identity, seedVars, plainVars, partedVars,
                         noteVars, stateVars, lock, at, history>>
      BY <2>1 DEF CutoverStart
    <3> QED
      BY <3>2, <3>3
  <2>2. CASE CutoverEnd(o)
    BY <2>2 DEF CutoverEnd
  <2>3. CASE Rename(o)
    BY <2>3 DEF Rename
  <2> QED
    BY <1>9, <2>1, <2>2, <2>3 DEF CutoverMoves
<1>10. ASSUME NEW o \in Operator, BackMoves(o) \/ RenameBack(o) PROVE TypeOK'
  <2>1. CASE RollbackStart(o)
    <3>1. Starting(o)
      BY <2>1 DEF RollbackStart
    <3>2. Traced
      BY <3>1, <1>s
    <3>3. /\ phase = "cutover"
          /\ plainName = "legacy" /\ partedName = "measurements"
          /\ Goto(o, "back")
          /\ UNCHANGED <<migrated, identity, seedVars, plainVars, partedVars,
                         noteVars, stateVars, lock, at, history>>
      BY <2>1 DEF RollbackStart
    <3> QED
      BY <3>2, <3>3
  <2>2. CASE RollbackEnd(o)
    BY <2>2 DEF RollbackEnd
  <2>3. CASE RenameBack(o)
    BY <2>3 DEF RenameBack
  <2> QED
    BY <1>10, <2>1, <2>2, <2>3 DEF BackMoves
<1>11. ASSUME NEW i \in Id, create_measurement(i) \/ create_note(i) PROVE TypeOK'
  <2>1. CASE create_measurement(i)
    BY <2>1, <1>w DEF create_measurement
  <2>2. CASE create_note(i)
    BY <2>2 DEF create_note
  <2> QED
    BY <1>11, <2>1, <2>2
<1>12. ASSUME NEW rows \in SUBSET Live, DeleteRows(rows) PROVE TypeOK'
  <2>1. parted' \in [Id -> Nat] /\ plain' \subseteq Id
    BY <1>12 DEF DeleteRows
  <2> QED
    BY <1>12, <2>1, <1>w DEF DeleteRows
<1>13. CASE upgrade
  BY <1>13 DEF upgrade
<1>14. CASE UNCHANGED vars
  BY <1>14 DEF vars
<1> QED
  BY NextSteps, <1>1, <1>2, <1>3, <1>4, <1>5, <1>6, <1>7, <1>8, <1>9, <1>10, <1>11, <1>12, <1>13,
     <1>14
  DEF Command, Write

-----------------------------------------------------------------------------
(* The names. *)
LEMMA NamesStep ==
  ASSUME TypeOK, NamesInv, [Next]_vars PROVE NamesInv'
<1> USE DEF SeedLabels
<1>t. pc \in [Operator -> PC] /\ parted \in [Id -> Nat]
  BY DEF TypeOK
<1>1. ASSUME UNCHANGED <<plainName, partedName, phase, parted>>,
             "resumed" \in disturbed' => "resumed" \in disturbed,
             partedName = None => \A p \in Operator : pc'[p] \in {"idle"} \union SeedLabels
      PROVE  NamesInv'
  BY <1>1 DEF NamesInv
<1>2. ASSUME partedName' # None, phase' # None,
             plainName' = "legacy" <=> partedName' = "measurements",
             "resumed" \in disturbed' => partedName' \in {"measurements", "failed"}
      PROVE  NamesInv'
  BY <1>2 DEF NamesInv
<1>3. ASSUME NEW o \in Operator, Command(o) PROVE NamesInv'
  <2>0. "resumed" \in disturbed' <=> "resumed" \in disturbed
    BY <1>3, CommandsLeaveNoTrace
  <2>1. CASE SeedMoves(o) \/ Ends(o) \/ SeedPage(o) \/ SeedEnd(o)
    <3>1. /\ UNCHANGED <<plainName, partedName, phase, parted>>
          /\ pc'[o] \in {"idle"} \union SeedLabels
      BY <2>1, <1>t DEF SeedMoves, SeedStart, SeedPagesDone, SeedCounted, Ends, Fails, Crash,
                   SeedPage, SeedEnd
    <3> QED
      BY <2>0, <3>1, <1>1, <1>3, OthersWait DEF NamesInv
  <2>2. CASE PrepareBegin(o)
    BY <2>0, <2>2, <1>2 DEF PrepareBegin, NamesInv
  <2>3. ASSUME pc[o] \notin {"idle"} \union SeedLabels PROVE partedName # None
    BY <2>3 DEF NamesInv
  <2>4. CASE PrepareResume(o) \/ CutoverMoves(o) \/ BackMoves(o)
    <3>1. partedName # None /\ phase' # None /\ UNCHANGED <<plainName, partedName>>
      BY <2>3, <2>4
      DEF PrepareResume, CutoverMoves, CutoverStart, CutoverEnd, BackMoves, RollbackStart,
          RollbackEnd, NamesInv
    <3> QED
      BY <2>0, <3>1, <1>2 DEF NamesInv
  <2>5. CASE CopyPartition(o) \/ CopyingDone(o) \/ IndexMoves(o) \/ Builds(o) \/ Validates(o)
    <3>1. partedName # None /\ UNCHANGED <<plainName, partedName>>
      BY <2>3, <2>5
      DEF CopyPartition, CopyingDone, IndexMoves, RecordIndex, IndexingDone, Builds,
          CreateIndex, AttachIndexes, ensure_shadow_trigger, Validates, StartValidating,
          PrepareEnd
    <3>2. phase' # None
      BY <2>5, <3>1
      DEF CopyPartition, CopyingDone, IndexMoves, RecordIndex, IndexingDone, Builds,
          CreateIndex, AttachIndexes, ensure_shadow_trigger, Validates, StartValidating,
          PrepareEnd, NamesInv
    <3> QED
      BY <2>0, <3>1, <3>2, <1>2 DEF NamesInv
  <2>6. CASE Rename(o)
    BY <2>0, <2>6, <1>2 DEF Rename, CanRename, NamesInv
  <2>7. CASE RenameBack(o)
    BY <2>0, <2>7, <1>2 DEF RenameBack, CanRenameBack, NamesInv
  <2> QED
    BY <1>3, <2>1, <2>2, <2>4, <2>5, <2>6, <2>7 DEF Command
<1>4. CASE Write
  <2>1. UNCHANGED <<plainName, partedName, phase, pc>>
        /\ (partedName # "measurements" => parted' = parted)
    BY <1>4 DEF Write, create_measurement, create_note, DeleteRows
  <2>2. "resumed" \in disturbed' => "resumed" \in disturbed \/ partedName = "measurements"
    BY <1>4, WritersLeaveTraces DEF Write, create_measurement, create_note, DeleteRows
  <2> QED
    BY <2>1, <2>2 DEF NamesInv
<1>5. CASE upgrade \/ UNCHANGED vars
  BY <1>5, <1>1 DEF upgrade, vars, NamesInv
<1> QED
  BY NextSteps, <1>3, <1>4, <1>5

-----------------------------------------------------------------------------
(* The indexes. They, the attachments and the trigger only ever come. *)
LEMMA NothingIsDropped ==
  ASSUME TypeOK, [Next]_vars
  PROVE  index \subseteq index' /\ attached \subseteq attached' /\ (partedTrigger => partedTrigger')
<1>1. ASSUME NEW o \in Operator, Builds(o)
      PROVE  /\ index \subseteq index' /\ attached \subseteq attached'
             /\ partedTrigger => partedTrigger'
  BY <1>1 DEF Builds, CreateIndex, AttachIndexes, ensure_shadow_trigger
<1>2. ASSUME NEW o \in Operator, SeedEnd(o)
      PROVE  UNCHANGED <<index, attached>> /\ (partedTrigger => partedTrigger')
  BY <1>2 DEF SeedEnd
<1>3. ASSUME NEW o \in Operator, Command(o), ~Builds(o), ~SeedEnd(o)
      PROVE  UNCHANGED <<index, attached, partedTrigger>>
  BY <1>3
  DEF Command, SeedMoves, SeedStart, SeedPagesDone, SeedCounted, Ends, Fails, Crash, SeedPage,
      PrepareBegin, PrepareResume, CopyPartition, CopyingDone, IndexMoves, RecordIndex,
      IndexingDone, Validates, StartValidating, PrepareEnd, CutoverMoves, CutoverStart,
      CutoverEnd, Rename, BackMoves, RollbackStart, RollbackEnd, RenameBack
<1>4. CASE Write \/ upgrade \/ UNCHANGED vars
  BY <1>4 DEF Write, create_measurement, create_note, DeleteRows, upgrade, vars
<1> QED
  BY NextSteps, <1>1, <1>2, <1>3, <1>4

LEMMA IndexedStays ==
  ASSUME TypeOK, [Next]_vars, NEW n, IndexedTo(n) PROVE IndexedTo(n)'
BY NothingIsDropped DEF IndexedTo

LEMMA BuiltStays ==
  ASSUME TypeOK, TypeOK', [Next]_vars, Built PROVE Built'
<1>1. IndexedTo(NumSteps)'
  BY IndexedStays DEF Built
<1>2. attached' = Keys /\ partedTrigger'
  BY NothingIsDropped DEF Built, TypeOK
<1> QED
  BY <1>1, <1>2 DEF Built

LEMMA AtIndexStays ==
  ASSUME TypeOK, TypeOK', [Next]_vars, NEW o \in Operator, AtIndex(o),
         pc'[o] = pc[o], at'[o] = at[o]
  PROVE  AtIndex(o)'
<1>1. /\ IndexedTo(at[o]) => IndexedTo(at[o])'
      /\ IndexedTo(at[o] + 1) => IndexedTo(at[o] + 1)'
      /\ IndexedTo(NumSteps) => IndexedTo(NumSteps)'
  BY NothingIsDropped DEF IndexedTo
<1>2. pc[o] \in CheckedLabels => Built'
  BY BuiltStays DEF AtIndex
<1> QED
  BY <1>1, <1>2, NothingIsDropped DEF AtIndex

LEMMA IndexStep ==
  ASSUME TypeOK, TypeOK', IndexInv, [Next]_vars PROVE IndexInv'
<1> USE DEF CheckedLabels
<1> DEFINE Whole == phase \in {"validating", "prepared"} \/ partedName = "measurements" => Built
<1>t. /\ pc \in [Operator -> PC] /\ at \in [Operator -> Nat]
      /\ index_cursor \in 0..NumSteps /\ NumSteps \in Nat
  BY StepsAreNumbers DEF TypeOK
<1>1. ASSUME UNCHANGED <<index_cursor, phase, partedName, pc, at>> PROVE IndexInv'
  <2>1. IndexedTo(index_cursor)'
    BY <1>1, IndexedStays DEF IndexInv
  <2>2. ASSUME NEW p \in Operator PROVE AtIndex(p)'
    BY <1>1, <2>2, AtIndexStays DEF IndexInv
  <2> QED
    BY <1>1, <2>1, <2>2, BuiltStays DEF IndexInv
<1>2. ASSUME NEW o \in Operator, Command(o) PROVE IndexInv'
  <2>1. ASSUME NEW p \in Operator \ {o} PROVE AtIndex(p)'
    BY <1>2, <2>1, OthersWait, AtIndexStays DEF IndexInv
  <2>2. ASSUME IndexedTo(index_cursor)', AtIndex(o)', Whole' PROVE IndexInv'
    BY <2>1, <2>2 DEF IndexInv
  <2>3. ASSUME UNCHANGED <<index_cursor, phase, partedName>>, AtIndex(o)' PROVE IndexInv'
    <3>1. IndexedTo(index_cursor)'
      BY <2>3, IndexedStays DEF IndexInv
    <3> QED
      BY <2>1, <2>3, <3>1, BuiltStays DEF IndexInv
  <2>4. CASE SeedMoves(o) \/ Ends(o) \/ SeedPage(o) \/ SeedEnd(o)
    <3>1. /\ UNCHANGED <<index_cursor, phase, partedName>>
          /\ pc'[o] \in {"idle", "seedpage", "seedend", "counted"}
      BY <2>4, <1>t DEF SeedMoves, SeedStart, SeedPagesDone, SeedCounted, Ends, Fails, Crash,
                   SeedPage, SeedEnd
    <3> QED
      BY <3>1, <2>3 DEF AtIndex
  <2>5. CASE PrepareBegin(o)
    <3>1. index_cursor' = 0 /\ pc'[o] = "copy" /\ partedName' = "shadow" /\ phase' = "copying"
      BY <2>5, <1>t DEF PrepareBegin
    <3> QED
      BY <3>1, <2>2 DEF AtIndex, IndexedTo
  <2>6. CASE PrepareResume(o)
    <3>1. /\ UNCHANGED <<index_cursor, phase, partedName, index>>
          /\ \/ pc'[o] = "copy"
             \/ pc'[o] = "index" /\ at'[o] = index_cursor
             \/ pc'[o] = "validate" /\ phase = "validating"
      BY <2>6, <1>t DEF PrepareResume
    <3>2. AtIndex(o)'
      BY <1>t, <3>1, BuiltStays DEF AtIndex, IndexInv, IndexedTo
    <3> QED
      BY <3>1, <3>2, <2>3
  <2>7. CASE CopyPartition(o) \/ CopyingDone(o)
    <3>1. /\ index_cursor' = 0 /\ phase' \in {"copying", "indexing"} /\ UNCHANGED partedName
          /\ pc'[o] = "copy" \/ (pc'[o] = "index" /\ at'[o] = 0)
      <4>1. CASE CopyPartition(o)
        BY <4>1, <1>t DEF CopyPartition
      <4>2. CASE CopyingDone(o)
        BY <4>2, <1>t DEF CopyingDone
      <4> QED
        BY <2>7, <4>1, <4>2
    <3> QED
      BY <3>1, <2>2, <1>t, BuiltStays DEF AtIndex, IndexedTo, IndexInv
  <2>8. CASE RecordIndex(o)
    <3>1. /\ index_cursor' = at[o] + 1 /\ phase' = "indexing" /\ UNCHANGED <<partedName, index>>
          /\ pc[o] = "indexed" /\ pc'[o] = "index" /\ at'[o] = at[o] + 1 /\ at[o] \in Nat
      BY <2>8, <1>t DEF RecordIndex
    <3>2. at[o] < NumSteps /\ IndexedTo(at[o] + 1)
      BY <3>1 DEF IndexInv, AtIndex
    <3> QED
      BY <1>t, <3>1, <3>2, <2>2, BuiltStays DEF AtIndex, IndexedTo, IndexInv
  <2>9. CASE IndexingDone(o)
    <3>1. /\ UNCHANGED <<index_cursor, phase, partedName, index>>
          /\ pc[o] = "index" /\ at[o] = NumSteps /\ pc'[o] = "attach" /\ at'[o] = 1
      BY <2>9, <1>t DEF IndexingDone
    <3>2. IndexedTo(NumSteps)'
      BY <3>1 DEF IndexInv, AtIndex, IndexedTo
    <3> QED
      BY <3>1, <3>2, <2>3 DEF AtIndex
  <2>10. CASE CreateIndex(o)
    <3>1. /\ UNCHANGED <<index_cursor, phase, partedName>> /\ at[o] \in Nat
          /\ index' = index \union {<<KeyOf(at[o]), at[o] % NumPartitions>>}
          /\ pc[o] = "index" /\ at[o] < NumSteps /\ pc'[o] = "indexed" /\ at'[o] = at[o]
      BY <2>10, <1>t DEF CreateIndex
    <3>2. IndexedTo(at[o])
      BY <3>1 DEF IndexInv, AtIndex
    <3>3. ASSUME NEW step \in 0..at[o] PROVE <<KeyOf(step), step % NumPartitions>> \in index'
      <4>1. CASE step = at[o]
        BY <3>1, <4>1
      <4>2. CASE step \in 0..(at[o] - 1)
        BY <3>1, <3>2, <4>2 DEF IndexedTo
      <4> QED
        BY <3>1, <4>1, <4>2
    <3>4. 0..((at'[o] + 1) - 1) = 0..at[o]
      BY <3>1
    <3>5. IndexedTo(at[o] + 1)'
      BY <3>1, <3>3, <3>4 DEF IndexedTo
    <3> QED
      BY <3>1, <3>5, <2>3 DEF AtIndex
  <2>11. CASE AttachIndexes(o)
    <3>1. /\ UNCHANGED <<index_cursor, phase, partedName, index>> /\ at[o] \in Nat
          /\ attached' = attached \union {IndexKeys[at[o]]}
          /\ pc[o] = "attach" /\ pc'[o] = "attach" /\ at'[o] = at[o] + 1
      BY <2>11, <1>t DEF AttachIndexes
    <3>2. at[o] > 0 /\ IndexedTo(NumSteps)
          /\ \A j \in 1..Len(IndexKeys) : j < at[o] => IndexKeys[j] \in attached
      BY <3>1 DEF IndexInv, AtIndex
    <3>3. IndexedTo(NumSteps)'
      BY <3>1, <3>2 DEF IndexedTo
    <3>4. \A j \in 1..Len(IndexKeys) : j < at[o] + 1 => IndexKeys[j] \in attached'
      <4>1. SUFFICES ASSUME NEW j \in 1..Len(IndexKeys), j < at[o] + 1
                     PROVE  IndexKeys[j] \in attached'
        OBVIOUS
      <4>2. CASE j = at[o]
        BY <3>1, <4>2
      <4>3. CASE j < at[o]
        BY <3>1, <3>2, <4>3
      <4> QED
        BY <3>1, <4>1, <4>2, <4>3, StepsAreNumbers
    <3> QED
      BY <3>1, <3>2, <3>3, <3>4, <2>3 DEF AtIndex
  <2>12. CASE ensure_shadow_trigger(o)
    <3>1. /\ UNCHANGED <<index_cursor, phase, partedName, index, attached>> /\ partedTrigger'
          /\ pc[o] = "attach" /\ at[o] > Len(IndexKeys) /\ at[o] \in Nat /\ pc'[o] = "validating"
      BY <2>12, <1>t DEF ensure_shadow_trigger
    <3>2. IndexedTo(NumSteps) /\ \A j \in 1..Len(IndexKeys) : IndexKeys[j] \in attached
      BY <3>1, StepsAreNumbers DEF IndexInv, AtIndex
    <3>3. attached = Keys
      BY <3>2 DEF Keys, TypeOK
    <3>4. Built'
      BY <3>1, <3>2, <3>3 DEF Built, IndexedTo
    <3> QED
      BY <3>1, <3>4, <2>3 DEF AtIndex
  <2>13. CASE Validates(o)
    <3>1. pc[o] \in {"validating", "validate"} /\ UNCHANGED <<partedName, index>>
          /\ pc'[o] \in {"validate", "idle"} /\ index_cursor' \in {index_cursor, NumSteps}
      BY <2>13, <1>t DEF Validates, StartValidating, PrepareEnd
    <3>2. Built /\ Built'
      BY <3>1, BuiltStays DEF IndexInv, AtIndex
    <3>3. IndexedTo(index_cursor)'
      BY <3>1, <3>2 DEF Built, IndexInv, IndexedTo
    <3> QED
      BY <3>1, <3>2, <3>3, <2>2 DEF AtIndex
  <2>14. CASE CutoverMoves(o)
    <3>1. /\ UNCHANGED <<index_cursor, partedName, index>>
          /\ \/ phase = "prepared" /\ pc'[o] = "rename" /\ phase' = phase
             \/ pc'[o] = "idle" /\ phase' = "cutover"
      BY <2>14, <1>t DEF CutoverMoves, CutoverStart, CutoverEnd
    <3>2. IndexedTo(index_cursor)'
      BY <3>1 DEF IndexInv, IndexedTo
    <3> QED
      BY <3>1, <3>2, <2>2, BuiltStays DEF AtIndex, IndexInv
  <2>15. CASE Rename(o)
    <3>1. /\ UNCHANGED <<index_cursor, index>> /\ pc[o] = "rename" /\ pc'[o] = "renamed"
      BY <2>15, <1>t DEF Rename
    <3>2. IndexedTo(index_cursor)'
      BY <3>1 DEF IndexInv, IndexedTo
    <3>3. Built'
      BY <3>1, BuiltStays DEF IndexInv, AtIndex
    <3> QED
      BY <3>1, <3>2, <3>3, <2>2 DEF AtIndex
  <2>16. CASE BackMoves(o) \/ RenameBack(o)
    <3>1. /\ UNCHANGED <<index_cursor, index>> /\ pc'[o] \in {"back", "backed", "idle"}
          /\ partedName' \in {partedName, "failed"} /\ phase' \in {phase, "rolled_back"}
      BY <2>16, <1>t DEF BackMoves, RollbackStart, RollbackEnd, RenameBack
    <3>2. IndexedTo(index_cursor)'
      BY <3>1 DEF IndexInv, IndexedTo
    <3> QED
      BY <3>1, <3>2, <2>2, BuiltStays DEF AtIndex, IndexInv
  <2> QED
    BY <1>2, <2>4, <2>5, <2>6, <2>7, <2>8, <2>9, <2>10, <2>11, <2>12, <2>13, <2>14, <2>15, <2>16
    DEF Command, IndexMoves, Builds
<1>3. CASE Write \/ upgrade \/ UNCHANGED vars
  BY <1>1, <1>3 DEF Write, create_measurement, create_note, DeleteRows, upgrade, vars
<1> QED
  BY NextSteps, <1>2, <1>3

-----------------------------------------------------------------------------
(* No row is there twice where a unique index is. *)
LEMMA RowsAreSingle ==
  ASSUME UniqueInv, Built, NEW i \in Id PROVE parted[i] <= 1
<1>1. PICK k \in UniqueKeys : k \in Keys
  BY IndexAssumption DEF Keys
<1>2. PartitionOf(i) \in Partition
  BY StepsAreNumbers
<1>3. <<k, PartitionOf(i)>> \in index
  BY <1>1, <1>2, AllAreNumbered DEF Built, IndexedTo
<1> QED
  BY <1>1, <1>2, <1>3 DEF UniqueInv

LEMMA UniqueStep ==
  ASSUME TypeOK, UniqueInv, [Next]_vars PROVE UniqueInv'
<1>t. parted \in [Id -> Nat] /\ at \in [Operator -> Nat]
  BY DEF TypeOK
<1>1. ASSUME NEW o \in Operator, CopyPartition(o) PROVE UniqueInv'
  <2>1. CanCopy(at[o]) /\ UNCHANGED index
        /\ parted' = [i \in Id |-> IF i \in RowsOf(at[o]) THEN parted[i] + 1 ELSE parted[i]]
    BY <1>1 DEF CopyPartition
  <2> SUFFICES ASSUME NEW k \in UniqueKeys, NEW r \in Partition, <<k, r>> \in index,
                      NEW i \in Id, PartitionOf(i) = r
               PROVE  parted'[i] <= 1
    BY <2>1 DEF UniqueInv
  <2>2. CASE i \in RowsOf(at[o])
    <3>1. r = at[o]
      BY <2>2 DEF RowsOf
    <3>2. i \notin PartedRows
      BY <2>1, <2>2, <3>1 DEF CanCopy
    <3> QED
      BY <1>t, <2>1, <3>2 DEF PartedRows
  <2>3. CASE i \notin RowsOf(at[o])
    BY <2>1, <2>3 DEF UniqueInv
  <2> QED
    BY <2>2, <2>3
<1>2. ASSUME NEW o \in Operator, CreateIndex(o) PROVE UniqueInv'
  <2>1. CanIndex(at[o]) /\ UNCHANGED parted
        /\ index' = index \union {<<KeyOf(at[o]), at[o] % NumPartitions>>}
    BY <1>2 DEF CreateIndex
  <2> QED
    BY <2>1 DEF UniqueInv, CanIndex
<1>3. ASSUME NEW o \in Operator, Command(o), ~CopyPartition(o), ~CreateIndex(o)
      PROVE  UNCHANGED <<index, parted>>
  BY <1>3
  DEF Command, SeedMoves, SeedStart, SeedPagesDone, SeedCounted, Ends, Fails, Crash, SeedPage,
      SeedEnd, PrepareBegin, PrepareResume, CopyingDone, IndexMoves, RecordIndex, IndexingDone,
      Builds, AttachIndexes, ensure_shadow_trigger, Validates, StartValidating, PrepareEnd,
      CutoverMoves, CutoverStart, CutoverEnd, Rename, BackMoves, RollbackStart, RollbackEnd,
      RenameBack
<1>4. ASSUME NEW i \in Id, create_measurement(i) PROVE UniqueInv'
  <2>1. index' = index /\ \A j \in Id : parted'[j] \in {1, parted[j]}
    BY <1>4, <1>t DEF create_measurement
  <2> QED
    BY <2>1 DEF UniqueInv
<1>5. ASSUME NEW rows \in SUBSET Live, DeleteRows(rows) PROVE UniqueInv'
  <2>1. index' = index /\ \A j \in Id : parted'[j] \in {0, parted[j]}
    BY <1>5, <1>t DEF DeleteRows
  <2> QED
    BY <2>1 DEF UniqueInv
<1>6. ASSUME UNCHANGED <<index, parted>> PROVE UniqueInv'
  BY <1>6 DEF UniqueInv
<1>7. CASE (\E i \in Id : create_note(i)) \/ upgrade \/ UNCHANGED vars
  BY <1>6, <1>7 DEF create_note, upgrade, vars
<1> QED
  BY NextSteps, <1>1, <1>2, <1>3, <1>4, <1>5, <1>6, <1>7 DEF Write

-----------------------------------------------------------------------------
(* The copy. While writers are paused the plain table stands still. *)
LEMMA CopiesStay ==
  ASSUME TypeOK, [Next]_vars,
         partedName = "shadow", partedName' = "shadow", "copy" \notin disturbed'
  PROVE  /\ "copy" \notin disturbed /\ UNCHANGED plain
         /\ PartedRows \subseteq PartedRows'
         /\ (PartedRows \subseteq plain => PartedRows' \subseteq plain)
<1>t. parted \in [Id -> Nat]
  BY DEF TypeOK
<1>1. ASSUME NEW o \in Operator, CopyPartition(o)
      PROVE  /\ PartedRows \subseteq PartedRows'
             /\ (PartedRows \subseteq plain => PartedRows' \subseteq plain)
  <2>1. parted' = [i \in Id |-> IF i \in RowsOf(at[o]) THEN parted[i] + 1 ELSE parted[i]]
    BY <1>1 DEF CopyPartition
  <2>2. RowsOf(at[o]) \subseteq plain
    BY DEF RowsOf, Live
  <2> QED
    BY <1>t, <2>1, <2>2 DEF PartedRows
<1>2. ASSUME NEW o \in Operator, Command(o)
      PROVE  UNCHANGED plain /\ (CopyPartition(o) \/ UNCHANGED parted)
  BY <1>2
  DEF Command, SeedMoves, SeedStart, SeedPagesDone, SeedCounted, Ends, Fails, Crash, SeedPage,
      SeedEnd, PrepareBegin, PrepareResume, CopyPartition, CopyingDone, IndexMoves, RecordIndex,
      IndexingDone, Builds, CreateIndex, AttachIndexes, ensure_shadow_trigger, Validates,
      StartValidating, PrepareEnd, CutoverMoves, CutoverStart, CutoverEnd, Rename, BackMoves,
      RollbackStart, RollbackEnd, RenameBack
<1>3. CASE \E o \in Operator : Command(o)
  BY <1>1, <1>2, <1>3, CommandsLeaveNoTrace DEF PartedRows
<1>4. CASE Write
  <2>1. ~Writing
    BY WritersLeaveTraces
  <2> QED
    BY <1>4, <2>1 DEF Write, create_measurement, create_note, DeleteRows, PartedRows
<1>5. CASE upgrade \/ UNCHANGED vars
  BY <1>5 DEF upgrade, vars, PartedRows
<1> QED
  BY NextSteps, <1>3, <1>4, <1>5

LEMMA AllIsCopied ==
  ASSUME TypeOK PROVE CopiedTo(NumPartitions) <=> Copied
<1>1. \A i \in plain : i \in Id /\ PartitionOf(i) < NumPartitions
  BY StepsAreNumbers DEF TypeOK, Partition
<1> QED
  BY <1>1 DEF CopiedTo, Copied, PartedRows

LEMMA CopyStep ==
  ASSUME TypeOK, TypeOK', NamesInv, CopyInv, [Next]_vars PROVE CopyInv'
<1> USE DEF CheckedLabels, IndexLabels
<1>t. /\ pc \in [Operator -> PC] /\ at \in [Operator -> Nat] /\ parted \in [Id -> Nat]
      /\ plain \subseteq Id /\ copy_cursor \in Nat
  BY StepsAreNumbers DEF TypeOK
<1>1. ASSUME NEW o \in Operator, PrepareBegin(o) PROVE CopyInv'
  <2>1. partedName = None /\ phase = None
    BY <1>1 DEF PrepareBegin, NamesInv
  <2>2. /\ UNCHANGED <<plain, parted>> /\ copy_cursor' = 0 /\ phase' = "copying"
        /\ pc' = [pc EXCEPT ![o] = "copy"] /\ at' = [at EXCEPT ![o] = 0]
    BY <1>1 DEF PrepareBegin
  <2>3. PartedRows' = {} /\ CopiedTo(0)'
    BY <2>1, <2>2, <1>t, StepsAreNumbers DEF NamesInv, PartedRows, CopiedTo, Partition
  <2>4. ASSUME NEW p \in Operator PROVE AtCopy(p)'
    <3>1. CASE p = o
      BY <1>t, <2>2, <2>3, <3>1 DEF AtCopy, CopiedTo
    <3>2. CASE p # o
      BY <1>t, <2>1, <2>2, <3>2 DEF AtCopy, NamesInv, SeedLabels
    <3> QED
      BY <3>1, <3>2
  <2> QED
    BY <2>2, <2>3, <2>4 DEF CopyInv, CopiedTo
<1> SUFFICES ASSUME \A o \in Operator : ~PrepareBegin(o),
                    partedName' = "shadow", "copy" \notin disturbed'
             PROVE  /\ (PartedRows \subseteq plain)'
                    /\ CopiedTo(copy_cursor)'
                    /\ \A o \in Operator : AtCopy(o)'
                    /\ phase' \in {"indexing", "validating", "prepared"} => Copied'
  BY <1>1 DEF CopyInv
<1>2. partedName = "shadow"
  <2>1. ASSUME NEW o \in Operator, Command(o), ~PrepareBegin(o)
        PROVE  partedName' \in {partedName, "measurements", "failed"}
    BY <2>1
    DEF Command, SeedMoves, SeedStart, SeedPagesDone, SeedCounted, Ends, Fails, Crash, SeedPage,
        SeedEnd, PrepareResume, CopyPartition, CopyingDone, IndexMoves, RecordIndex,
        IndexingDone, Builds, CreateIndex, AttachIndexes, ensure_shadow_trigger, Validates,
        StartValidating, PrepareEnd, CutoverMoves, CutoverStart, CutoverEnd, Rename, BackMoves,
        RollbackStart, RollbackEnd, RenameBack
  <2>2. CASE Write \/ upgrade \/ UNCHANGED vars
    BY <2>2 DEF Write, create_measurement, create_note, DeleteRows, upgrade, vars
  <2> QED
    BY <2>1, <2>2, NextSteps
<1>3. /\ "copy" \notin disturbed /\ plain' = plain /\ PartedRows \subseteq PartedRows'
      /\ (PartedRows \subseteq plain => PartedRows' \subseteq plain)
  BY <1>2, CopiesStay
<1>4. /\ PartedRows \subseteq plain /\ CopiedTo(copy_cursor)
      /\ \A o \in Operator : AtCopy(o)
      /\ phase \in {"indexing", "validating", "prepared"} => Copied
  BY <1>2, <1>3 DEF CopyInv
<1>5. (PartedRows \subseteq plain)'
  BY <1>3, <1>4
<1>6. Copied => Copied'
  BY <1>3 DEF Copied
<1>7. ASSUME NEW n, CopiedTo(n) PROVE \A i \in plain : PartitionOf(i) < n => i \in PartedRows'
  BY <1>t, <1>3, <1>7 DEF CopiedTo, PartedRows
<1>8. \A i \in PartedRows' : parted'[i] > 0
  BY DEF PartedRows
<1>9. ASSUME copy_cursor' = copy_cursor PROVE CopiedTo(copy_cursor)'
  BY <1>3, <1>4, <1>7, <1>8, <1>9 DEF CopiedTo
<1>10. ASSUME NEW p \in Operator, pc'[p] = pc[p], at'[p] = at[p] PROVE AtCopy(p)'
  BY <1>3, <1>4, <1>6, <1>7, <1>8, <1>10 DEF AtCopy, CopiedTo
<1>11. ASSUME Copied, copy_cursor' = NumPartitions PROVE CopiedTo(copy_cursor)'
  BY <1>6, <1>8, <1>11 DEF CopiedTo, Copied
<1>12. ASSUME NEW o \in Operator, Command(o)
       PROVE  /\ CopiedTo(copy_cursor)' /\ AtCopy(o)'
              /\ phase' \in {"indexing", "validating", "prepared"} => Copied'
  <2>1. CASE SeedMoves(o) \/ Ends(o) \/ SeedPage(o) \/ SeedEnd(o)
    <3>1. /\ UNCHANGED <<copy_cursor, phase>>
          /\ pc'[o] \in {"idle", "seedpage", "seedend", "counted"}
      BY <2>1, <1>t DEF SeedMoves, SeedStart, SeedPagesDone, SeedCounted, Ends, Fails, Crash,
                        SeedPage, SeedEnd
    <3> QED
      BY <3>1, <1>4, <1>6, <1>9 DEF AtCopy
  <2>2. CASE PrepareResume(o)
    <3>1. /\ UNCHANGED <<copy_cursor, phase>>
          /\ \/ pc'[o] = "copy" /\ at'[o] = copy_cursor
             \/ pc'[o] \in {"index", "validate"} /\ phase \in {"indexing", "validating"}
      BY <2>2, <1>t DEF PrepareResume
    <3>2. AtCopy(o)'
      BY <3>1, <1>3, <1>4, <1>6, <1>7, <1>8 DEF AtCopy, CopiedTo
    <3> QED
      BY <3>1, <3>2, <1>4, <1>6, <1>9
  <2>3. CASE CopyPartition(o)
    <3>1. /\ pc[o] = "copy" /\ pc'[o] = "copy" /\ at[o] \in Nat /\ at'[o] = at[o] + 1
          /\ copy_cursor' = at[o] + 1 /\ phase' = "copying"
      BY <2>3, <1>t DEF CopyPartition
    <3>2. parted' = [i \in Id |-> IF i \in RowsOf(at[o]) THEN parted[i] + 1 ELSE parted[i]]
      BY <2>3 DEF CopyPartition
    <3>3. RowsOf(at[o]) = {i \in plain : PartitionOf(i) = at[o]}
      BY <1>2 DEF RowsOf, Live
    <3>4. RowsOf(at[o]) \subseteq PartedRows'
      BY <1>t, <3>2, <3>3 DEF PartedRows
    <3>5. CopiedTo(at[o])
      BY <3>1, <1>4 DEF AtCopy
    <3>6. ASSUME NEW i \in plain, PartitionOf(i) < at[o] + 1 PROVE i \in PartedRows'
      <4>1. PartitionOf(i) \in Nat
        BY <1>t, StepsAreNumbers DEF Partition
      <4>2. CASE PartitionOf(i) = at[o]
        BY <3>3, <3>4, <4>2
      <4>3. CASE PartitionOf(i) < at[o]
        BY <3>5, <1>7, <4>3
      <4> QED
        BY <3>1, <3>6, <4>1, <4>2, <4>3
    <3>7. CopiedTo(copy_cursor)' /\ AtCopy(o)'
      BY <3>1, <3>6, <1>3, <1>8 DEF CopiedTo, AtCopy
    <3> QED
      BY <3>1, <3>7
  <2>4. CASE CopyingDone(o)
    <3>1. /\ pc[o] = "copy" /\ at[o] = NumPartitions /\ pc'[o] = "index"
          /\ copy_cursor' = NumPartitions
      BY <2>4, <1>t DEF CopyingDone
    <3>2. Copied
      BY <3>1, <1>4, AllIsCopied DEF AtCopy
    <3> QED
      BY <3>1, <3>2, <1>6, <1>11 DEF AtCopy
  <2>5. CASE IndexMoves(o) \/ Builds(o) \/ Validates(o)
    <3>1. /\ pc[o] \in IndexLabels \union {"validating", "validate"}
          /\ pc'[o] \in IndexLabels \union CheckedLabels \union {"idle"}
          /\ copy_cursor' \in {copy_cursor, NumPartitions}
      BY <2>5, <1>t DEF IndexMoves, RecordIndex, IndexingDone, Builds, CreateIndex, AttachIndexes,
                        ensure_shadow_trigger, Validates, StartValidating, PrepareEnd
    <3>2. Copied
      BY <3>1, <1>4 DEF AtCopy
    <3> QED
      BY <3>1, <3>2, <1>6, <1>9, <1>11 DEF AtCopy
  <2>6. CASE CutoverMoves(o)
    <3>1. /\ copy_cursor' = copy_cursor
          /\ \/ phase = "prepared" /\ pc'[o] = "rename"
             \/ pc'[o] = "idle" /\ phase' = "cutover"
      BY <2>6, <1>t DEF CutoverMoves, CutoverStart, CutoverEnd
    <3> QED
      BY <3>1, <1>4, <1>6, <1>9 DEF AtCopy
  <2>7. CASE BackMoves(o)
    <3>1. /\ copy_cursor' = copy_cursor /\ pc'[o] \in {"back", "idle"}
          /\ phase' \in {"cutover", "rolled_back"}
      BY <2>7, <1>t DEF BackMoves, RollbackStart, RollbackEnd
    <3> QED
      BY <3>1, <1>9 DEF AtCopy
  <2>8. CASE Rename(o) \/ RenameBack(o)
    BY <2>8 DEF Rename, RenameBack
  <2> QED
    BY <1>12, <2>1, <2>2, <2>3, <2>4, <2>5, <2>6, <2>7, <2>8 DEF Command
<1>13. CASE \E o \in Operator : Command(o)
  BY <1>5, <1>10, <1>12, <1>13, OthersWait
<1>14. CASE Write \/ upgrade \/ UNCHANGED vars
  <2>1. UNCHANGED <<copy_cursor, phase, pc, at>>
    BY <1>14 DEF Write, create_measurement, create_note, DeleteRows, upgrade, vars
  <2> QED
    BY <2>1, <1>4, <1>5, <1>6, <1>9, <1>10
<1> QED
  BY NextSteps, <1>13, <1>14

-----------------------------------------------------------------------------
(* The rows that are wanted. *)
\* What a cutover renames is a copy of a table that is up to date.
LEMMA RenamedIsWhole ==
  ASSUME TypeOK, NamesInv, CopyInv, RowsInv, NEW o \in Operator, Rename(o),
         "copy" \notin disturbed
  PROVE  PartedRows = plain /\ plain = wanted
<1>1. pc[o] = "rename" /\ partedName = "shadow"
  BY DEF Rename, CanRename
<1>2. "resumed" \notin disturbed
  BY <1>1 DEF NamesInv
<1> QED
  BY <1>1, <1>2 DEF CopyInv, AtCopy, Copied, CheckedLabels, RowsInv

\* The only commands that touch rows or names.
LEMMA CommandsKeepRows ==
  ASSUME NEW o \in Operator, Command(o)
  PROVE  /\ UNCHANGED <<plain, wanted>>
         /\ parted' = parted \/ (partedName = "shadow" /\ partedName' = "shadow")
         /\ \/ partedName' = partedName
            \/ partedName' = "shadow" /\ PrepareBegin(o)
            \/ partedName' = "measurements" /\ Rename(o)
            \/ partedName' = "failed" /\ RenameBack(o)
<1>1. CASE CopyPartition(o)
  BY <1>1 DEF CopyPartition, CanCopy
<1>2. CASE PrepareBegin(o) \/ Rename(o) \/ RenameBack(o)
  BY <1>2 DEF PrepareBegin, Rename, RenameBack
<1>3. CASE SeedMoves(o) \/ Ends(o) \/ SeedPage(o) \/ SeedEnd(o)
  BY <1>3 DEF SeedMoves, SeedStart, SeedPagesDone, SeedCounted, Ends, Fails, Crash, SeedPage,
              SeedEnd
<1>4. CASE PrepareResume(o) \/ CopyingDone(o) \/ IndexMoves(o) \/ Builds(o)
  BY <1>4 DEF PrepareResume, CopyingDone, IndexMoves, RecordIndex, IndexingDone, Builds,
              CreateIndex, AttachIndexes, ensure_shadow_trigger
<1>5. CASE Validates(o) \/ CutoverMoves(o) \/ BackMoves(o)
  BY <1>5 DEF Validates, StartValidating, PrepareEnd, CutoverMoves, CutoverStart, CutoverEnd,
              BackMoves, RollbackStart, RollbackEnd
<1> QED
  BY <1>1, <1>2, <1>3, <1>4, <1>5 DEF Command

LEMMA RowsStep ==
  ASSUME TypeOK, NamesInv, CopyInv, RowsInv, [Next]_vars PROVE RowsInv'
<1>t. parted \in [Id -> Nat] /\ plain \subseteq Id
  BY DEF TypeOK
<1>1. ASSUME NEW o \in Operator, Command(o) PROVE RowsInv'
  <2>0. /\ "copy" \in disturbed' <=> "copy" \in disturbed
        /\ "resumed" \in disturbed' <=> "resumed" \in disturbed
    BY <1>1, CommandsLeaveNoTrace
  <2>1. CASE Rename(o)
    <3>1. UNCHANGED <<parted, plain, wanted>>
      BY <2>1 DEF Rename
    <3> QED
      BY <2>0, <2>1, <3>1, RenamedIsWhole DEF RowsInv, PartedRows
  <2>2. CASE ~Rename(o)
    BY <1>1, <2>0, <2>2, CommandsKeepRows DEF RowsInv, PartedRows
  <2> QED
    BY <2>1, <2>2
<1>2. ASSUME NEW i \in Id, create_measurement(i) PROVE RowsInv'
  <2>1. /\ wanted' = wanted \union {i} /\ partedName' = partedName
        /\ "copy" \in disturbed => "copy" \in disturbed'
        /\ "resumed" \in disturbed' <=> "resumed" \in disturbed \/ partedName = "measurements"
    BY <1>2, WritersLeaveTraces DEF create_measurement
  <2>2. CASE partedName = "measurements"
    <3>1. parted' = [parted EXCEPT ![i] = 1]
      BY <1>2, <2>2 DEF create_measurement
    <3>2. PartedRows' = PartedRows \union {i}
      BY <1>t, <3>1 DEF PartedRows
    <3> QED
      BY <2>1, <2>2, <3>2 DEF RowsInv
  <2>3. CASE partedName # "measurements"
    <3>1. plain' = plain \union {i}
      BY <1>2, <2>3 DEF create_measurement
    <3> QED
      BY <2>1, <2>3, <3>1 DEF RowsInv
  <2> QED
    BY <2>2, <2>3
<1>3. ASSUME NEW rows \in SUBSET Live, DeleteRows(rows) PROVE RowsInv'
  <2>1. /\ wanted' = wanted \ rows /\ partedName' = partedName
        /\ "copy" \in disturbed => "copy" \in disturbed'
        /\ "resumed" \in disturbed' <=> "resumed" \in disturbed \/ partedName = "measurements"
    BY <1>3, WritersLeaveTraces DEF DeleteRows
  <2>2. CASE partedName = "measurements"
    <3>1. parted' = [i \in Id |-> IF i \in rows THEN 0 ELSE parted[i]]
      BY <1>3, <2>2 DEF DeleteRows
    <3>2. PartedRows' = PartedRows \ rows
      BY <1>t, <3>1 DEF PartedRows
    <3> QED
      BY <2>1, <2>2, <3>2 DEF RowsInv
  <2>3. CASE partedName # "measurements"
    <3>1. plain' = plain \ rows
      BY <1>3, <2>3 DEF DeleteRows
    <3> QED
      BY <2>1, <2>3, <3>1 DEF RowsInv
  <2> QED
    BY <2>2, <2>3
<1>4. CASE (\E i \in Id : create_note(i)) \/ upgrade \/ UNCHANGED vars
  BY <1>4 DEF create_note, upgrade, vars, RowsInv, PartedRows
<1> QED
  BY NextSteps, <1>1, <1>2, <1>3, <1>4 DEF Write

-----------------------------------------------------------------------------
(* The registry. A name that changes leaves the live rows what they were. *)
LEMMA RenamesKeepLive ==
  ASSUME TypeOK, NamesInv, CopyInv, RowsInv, RowsInv', NEW o \in Operator, Command(o),
         Paused'
  PROVE  Paused /\ Live' = Live
<1>0. /\ "copy" \in disturbed' <=> "copy" \in disturbed
      /\ "resumed" \in disturbed' <=> "resumed" \in disturbed
  BY CommandsLeaveNoTrace
<1>1. CASE partedName' = partedName
  BY <1>0, <1>1, CommandsKeepRows DEF Paused, Live, PartedRows
<1>2. CASE PrepareBegin(o)
  <2>1. partedName # "measurements" /\ partedName # "failed" /\ partedName' = "shadow"
    BY <1>2 DEF PrepareBegin, NamesInv
  <2> QED
    BY <1>0, <2>1, CommandsKeepRows DEF Paused, Live
<1>3. CASE Rename(o)
  <2>1. partedName = "shadow" /\ partedName' = "measurements" /\ UNCHANGED <<plain, parted>>
    BY <1>3 DEF Rename, CanRename
  <2> QED
    BY <1>0, <1>3, <2>1, RenamedIsWhole DEF Paused, Live, PartedRows
<1>4. CASE RenameBack(o)
  <2>1. partedName = "measurements" /\ partedName' = "failed" /\ UNCHANGED <<plain, parted, wanted>>
    BY <1>4 DEF RenameBack, CanRenameBack
  <2>2. "copy" \notin disturbed /\ "resumed" \notin disturbed
    BY <1>0, <2>1 DEF Paused
  <2> QED
    BY <2>1, <2>2 DEF Paused, Live, RowsInv
<1> QED
  BY <1>1, <1>2, <1>3, <1>4, CommandsKeepRows

\* Equal counts of a set and of one that contains it.
LEMMA CountedIsAll ==
  ASSUME TypeOK, identity \subseteq plain, Cardinality(identity) = Cardinality(plain)
  PROVE  identity = plain
<1>1. IsFiniteSet(plain)
  BY IdAssumption, FS_Subset DEF TypeOK
<1> QED
  BY <1>1, FS_Subset

\* Who reaches two labels, and who sets the plain table's trigger.
LEMMA OnlyCutoverRenames ==
  ASSUME TypeOK, NEW o \in Operator, Command(o), pc'[o] = "rename"
  PROVE  pc[o] = "rename" \/ CutoverStart(o)
<1>t. pc \in [Operator -> PC]
  BY DEF TypeOK
<1>1. CASE SeedMoves(o) \/ Ends(o) \/ SeedPage(o) \/ SeedEnd(o)
  BY <1>t, <1>1 DEF SeedMoves, SeedStart, SeedPagesDone, SeedCounted, Ends, Fails, Crash,
                    SeedPage, SeedEnd
<1>2. CASE PrepareBegin(o) \/ PrepareResume(o) \/ CopyPartition(o) \/ CopyingDone(o)
  BY <1>t, <1>2 DEF PrepareBegin, PrepareResume, CopyPartition, CopyingDone
<1>3. CASE IndexMoves(o) \/ Builds(o)
  BY <1>t, <1>3 DEF IndexMoves, RecordIndex, IndexingDone, Builds, CreateIndex, AttachIndexes,
                    ensure_shadow_trigger
<1>4. CASE Validates(o) \/ CutoverEnd(o) \/ Rename(o)
  BY <1>t, <1>4 DEF Validates, StartValidating, PrepareEnd, CutoverEnd, Rename
<1>5. CASE BackMoves(o) \/ RenameBack(o)
  BY <1>t, <1>5 DEF BackMoves, RollbackStart, RollbackEnd, RenameBack
<1> QED
  BY <1>1, <1>2, <1>3, <1>4, <1>5 DEF Command, CutoverMoves

LEMMA OnlyTheSeedCounts ==
  ASSUME TypeOK, NEW o \in Operator, Command(o), ~SeedCounted(o), ~SeedEnd(o)
  PROVE  plainTrigger' = plainTrigger /\ pc'[o] # "counted"
<1>t. pc \in [Operator -> PC]
  BY DEF TypeOK
<1>1. CASE SeedMoves(o) \/ Ends(o) \/ SeedPage(o)
  BY <1>t, <1>1 DEF SeedMoves, SeedStart, SeedPagesDone, Ends, Fails, Crash, SeedPage
<1>2. CASE PrepareBegin(o) \/ PrepareResume(o) \/ CopyPartition(o) \/ CopyingDone(o)
  BY <1>t, <1>2 DEF PrepareBegin, PrepareResume, CopyPartition, CopyingDone
<1>3. CASE IndexMoves(o) \/ Builds(o)
  BY <1>t, <1>3 DEF IndexMoves, RecordIndex, IndexingDone, Builds, CreateIndex, AttachIndexes,
                    ensure_shadow_trigger
<1>4. CASE Validates(o) \/ CutoverMoves(o) \/ Rename(o)
  BY <1>t, <1>4 DEF Validates, StartValidating, PrepareEnd, CutoverMoves, CutoverStart,
                    CutoverEnd, Rename
<1>5. CASE BackMoves(o) \/ RenameBack(o)
  BY <1>t, <1>5 DEF BackMoves, RollbackStart, RollbackEnd, RenameBack
<1> QED
  BY <1>1, <1>2, <1>3, <1>4, <1>5 DEF Command

LEMMA RegistryStep ==
  ASSUME TypeOK, TypeOK', NamesInv, IndexInv, CopyInv, RowsInv, RowsInv', RegistryInv, [Next]_vars
  PROVE  RegistryInv'
<1>t. /\ pc \in [Operator -> PC] /\ parted \in [Id -> Nat]
      /\ plainTrigger \in BOOLEAN /\ partedTrigger \in BOOLEAN
  BY DEF TypeOK
<1> SUFFICES ASSUME Paused'
             PROVE  /\ identity' \subseteq Live' /\ Registered'
                    /\ partedName' = "shadow" =>
                         \A o \in Operator : pc'[o] = "rename" => plain' \subseteq identity'
  BY DEF RegistryInv
<1>1. ASSUME NEW o \in Operator, Command(o)
      PROVE  /\ identity' \subseteq Live' /\ Registered'
             /\ partedName' = "shadow" =>
                  \A p \in Operator : pc'[p] = "rename" => plain' \subseteq identity'
  <2>1. Paused /\ Live' = Live /\ plain' = plain
    BY <1>1, RenamesKeepLive, CommandsKeepRows
  <2>2. /\ identity \subseteq Live /\ Registered
        /\ partedName = "shadow" =>
             \A p \in Operator : pc[p] = "rename" => plain \subseteq identity
    BY <2>1 DEF RegistryInv
  <2>3. \A p \in Operator \ {o} : pc'[p] = pc[p]
    BY <1>1, OthersWait
  <2>4. "seed" \in disturbed' <=> "seed" \in disturbed
    BY <1>1, CommandsLeaveNoTrace
  <2>5. identity \subseteq identity' /\ identity' \subseteq Live
    <3>1. CASE SeedPage(o)
      BY <2>2, <3>1 DEF SeedPage, Beyond
    <3>2. CASE ~SeedPage(o)
      <4>1. identity' = identity
        BY <1>1, <3>2
        DEF Command, SeedMoves, SeedStart, SeedPagesDone, SeedCounted, Ends, Fails, Crash,
            SeedEnd, PrepareBegin, PrepareResume, CopyPartition, CopyingDone, IndexMoves,
            RecordIndex, IndexingDone, Builds, CreateIndex, AttachIndexes,
            ensure_shadow_trigger, Validates, StartValidating, PrepareEnd, CutoverMoves,
            CutoverStart, CutoverEnd, Rename, BackMoves, RollbackStart, RollbackEnd, RenameBack
      <4> QED
        BY <2>2, <4>1
    <3> QED
      BY <3>1, <3>2
  <2>6. ASSUME partedName' = "shadow", NEW p \in Operator, pc'[p] = "rename"
        PROVE  plain \subseteq identity
    <3>1. CASE PrepareBegin(o)
      <4>1. pc' = [pc EXCEPT ![o] = "copy"] /\ partedName = None
        BY <3>1 DEF PrepareBegin, NamesInv
      <4> QED
        BY <1>t, <2>6, <4>1 DEF NamesInv, SeedLabels
    <3>2. CASE ~PrepareBegin(o)
      <4>1. partedName = "shadow" /\ "copy" \notin disturbed
        BY <1>1, <2>1, <2>6, <3>2, CommandsKeepRows DEF Paused
      <4>2. CASE pc[p] = "rename"
        BY <2>2, <4>1, <4>2
      <4>3. CASE pc[p] # "rename"
        <5>1. p = o /\ CutoverStart(o)
          BY <1>1, <1>t, <2>3, <2>6, <3>2, <4>3, OnlyCutoverRenames
        <5>2. PartedRows \subseteq identity /\ phase = "prepared"
          BY <5>1 DEF CutoverStart, ShadowIsValid
        <5> QED
          BY <4>1, <5>2 DEF CopyInv, Copied
      <4> QED
        BY <4>2, <4>3
    <3> QED
      BY <3>1, <3>2
  <2>7. ASSUME "seed" \notin disturbed,
               \/ plainTrigger' \/ partedName' = "measurements"
               \/ \E p \in Operator : pc'[p] = "counted"
        PROVE  identity = Live
    <3>1. CASE SeedCounted(o)
      <4>1. CASE partedName = "measurements"
        BY <2>2, <2>7, <4>1 DEF Registered
      <4>2. CASE partedName # "measurements"
        <5>1. Live = plain /\ Cardinality(identity) = Cardinality(plain)
          BY <3>1, <4>2 DEF SeedCounted, SeedIsCounted, Live
        <5> QED
          BY <2>2, <5>1, CountedIsAll
      <4> QED
        BY <4>1, <4>2
    <3>2. CASE SeedEnd(o)
      <4>1. pc[o] = "counted"
        BY <3>2 DEF SeedEnd
      <4> QED
        BY <2>2, <2>7, <4>1 DEF Registered
    <3>3. CASE Rename(o)
      <4>1. pc[o] = "rename" /\ partedName = "shadow"
        BY <3>3 DEF Rename, CanRename
      <4> QED
        BY <2>2, <4>1 DEF Live
    <3>4. CASE ~SeedCounted(o) /\ ~SeedEnd(o) /\ ~Rename(o)
      <4>1. plainTrigger' = plainTrigger
        BY <1>1, <3>4, OnlyTheSeedCounts
      <4>2. pc'[o] # "counted"
        BY <1>1, <1>t, <3>4, OnlyTheSeedCounts
      <4>3. partedName' = "measurements" => partedName = "measurements"
        BY <1>1, <3>4, CommandsKeepRows
      <4> QED
        BY <2>2, <2>3, <2>7, <4>1, <4>2, <4>3 DEF Registered
    <3> QED
      BY <3>1, <3>2, <3>3, <3>4
  <2>8. Registered'
    BY <2>1, <2>4, <2>5, <2>7 DEF Registered
  <2> QED
    BY <2>1, <2>5, <2>6, <2>8
<1>2. ASSUME Write \/ upgrade \/ UNCHANGED vars
      PROVE  Paused /\ UNCHANGED <<partedName, plainTrigger, pc>>
  <2>1. UNCHANGED <<partedName, plainTrigger, pc>>
    BY <1>2 DEF Write, create_measurement, create_note, DeleteRows, upgrade, vars
  <2>2. UNCHANGED disturbed \/ Writing
    BY <1>2 DEF Write, create_measurement, create_note, DeleteRows, upgrade, vars
  <2> QED
    BY <2>1, <2>2, WritersLeaveTraces DEF Paused
<1>3. ASSUME Writing, Write
      PROVE  /\ partedName # "shadow"
             /\ "seed" \notin disturbed' => /\ "seed" \notin disturbed
                                           /\ \A p \in Operator : pc[p] # "counted"
  BY <1>2, <1>3, WritersLeaveTraces DEF Paused, Seeding
<1>4. ASSUME NEW i \in Id, create_measurement(i)
      PROVE  /\ identity' \subseteq Live' /\ Registered' /\ partedName' # "shadow"
  <2>1. Write /\ Writing
    BY <1>4 DEF Write, create_measurement
  <2>2. /\ identity \subseteq Live /\ Registered /\ partedName # "shadow"
        /\ UNCHANGED <<partedName, plainTrigger, pc>>
    BY <1>2, <1>3, <2>1 DEF RegistryInv
  <2>3. CASE partedName = "measurements"
    <3>1. parted' = [parted EXCEPT ![i] = 1] /\ identity' = identity \union {i}
      BY <1>4, <2>3 DEF create_measurement, IndexInv, Built
    <3>2. Live = PartedRows /\ Live' = PartedRows \union {i}
      BY <1>t, <2>2, <2>3, <3>1 DEF Live, PartedRows
    <3> QED
      BY <1>3, <2>1, <2>2, <2>3, <3>1, <3>2 DEF Registered
  <2>4. CASE partedName # "measurements"
    <3>1. /\ Live = plain /\ Live' = plain \union {i}
          /\ identity' = IF plainTrigger THEN identity \union {i} ELSE identity
      BY <1>4, <2>2, <2>4 DEF create_measurement, Live
    <3>2. identity' \subseteq Live'
      BY <2>2, <3>1
    <3>3. ASSUME "seed" \notin disturbed', plainTrigger PROVE identity' = Live'
      BY <1>3, <2>1, <2>2, <3>1, <3>3 DEF Registered
    <3> QED
      BY <1>3, <2>1, <2>2, <2>4, <3>2, <3>3 DEF Registered
  <2> QED
    BY <2>2, <2>3, <2>4
<1>5. ASSUME NEW rows \in SUBSET Live, DeleteRows(rows)
      PROVE  /\ identity' \subseteq Live' /\ Registered' /\ partedName' # "shadow"
  <2>1. Write /\ Writing
    BY <1>5 DEF Write, DeleteRows
  <2>2. /\ identity \subseteq Live /\ Registered /\ partedName # "shadow"
        /\ UNCHANGED <<partedName, plainTrigger, pc>>
    BY <1>2, <1>3, <2>1 DEF RegistryInv
  <2>3. identity' = identity \ rows
    BY <1>5 DEF DeleteRows
  <2>4. Live' = Live \ rows
    <3>1. CASE partedName = "measurements"
      <4>1. parted' = [i \in Id |-> IF i \in rows THEN 0 ELSE parted[i]]
        BY <1>5, <3>1 DEF DeleteRows
      <4> QED
        BY <1>t, <2>2, <3>1, <4>1 DEF Live, PartedRows
    <3>2. CASE partedName # "measurements"
      BY <1>5, <2>2, <3>2 DEF DeleteRows, Live
    <3> QED
      BY <3>1, <3>2
  <2> QED
    BY <1>3, <2>1, <2>2, <2>3, <2>4 DEF Registered
<1>6. CASE (\E i \in Id : create_note(i)) \/ upgrade \/ UNCHANGED vars
  <2>1. UNCHANGED <<identity, plain, parted, partedName, plainTrigger, pc, disturbed>>
    BY <1>6 DEF create_note, upgrade, vars
  <2>2. Paused /\ Live' = Live
    BY <2>1 DEF Paused, Live, PartedRows
  <2> QED
    BY <2>1, <2>2 DEF RegistryInv, Registered
<1> QED
  BY NextSteps, <1>1, <1>4, <1>5, <1>6 DEF Write

-----------------------------------------------------------------------------
(* What is proved of every behaviour. *)
LEMMA MoveInvInit == Init => MoveInv
<1> SUFFICES ASSUME Init PROVE MoveInv
  OBVIOUS
<1>1. TypeOK
  <2>1. /\ migrated \in BOOLEAN /\ plainTrigger \in BOOLEAN /\ partedTrigger \in BOOLEAN
        /\ identity \subseteq Id /\ plain \subseteq Id /\ noted \subseteq Id
        /\ used \subseteq Id /\ wanted \subseteq used
        /\ index \subseteq Keys \X Partition /\ attached \subseteq Keys
    BY DEF Init
  <2>2. /\ pc \in [Operator -> PC] /\ at \in [Operator -> Nat] /\ parted \in [Id -> Nat]
    BY DEF Init, PC
  <2>3. /\ copy_cursor \in 0..NumPartitions /\ index_cursor \in 0..NumSteps
        /\ faults \in 0..MaxFaults /\ seed_cursor \in Nat
    BY StepsAreNumbers, CountsAssumption DEF Init
  <2> QED
    BY <2>1, <2>2, <2>3 DEF Init, TypeOK
<1>2. NamesInv /\ UniqueInv /\ CopyInv /\ RowsInv
  BY DEF Init, NamesInv, UniqueInv, CopyInv, RowsInv
<1>3. IndexInv
  BY DEF Init, IndexInv, AtIndex, IndexedTo, CheckedLabels
<1>4. RegistryInv
  BY DEF Init, RegistryInv, Registered, Live
<1> QED
  BY <1>1, <1>2, <1>3, <1>4 DEF MoveInv

LEMMA MoveInvStep == MoveInv /\ [Next]_vars => MoveInv'
<1> SUFFICES ASSUME MoveInv, [Next]_vars PROVE MoveInv'
  OBVIOUS
<1>1. TypeOK'
  BY TypeStep DEF MoveInv
<1>2. NamesInv' /\ IndexInv' /\ UniqueInv' /\ CopyInv' /\ RowsInv'
  BY <1>1, NamesStep, IndexStep, UniqueStep, CopyStep, RowsStep DEF MoveInv
<1>3. RegistryInv'
  BY <1>1, <1>2, RegistryStep DEF MoveInv
<1> QED
  BY <1>1, <1>2, <1>3 DEF MoveInv

LEMMA MoveInvCorrect == Spec => []MoveInv
BY MoveInvInit, MoveInvStep, PTL DEF Spec

(***************************************************************************)
(* The tables, the registry, the state row and the commands keep their     *)
(* types; no cursor leaves the partitions and indexes there are.           *)
(***************************************************************************)
THEOREM TypeCorrect == Spec => []TypeOK
<1>1. MoveInv => TypeOK
  BY DEF MoveInv
<1> QED
  BY <1>1, MoveInvCorrect, PTL

(***************************************************************************)
(* Whatever commands are killed, repeated or run beside each other, the    *)
(* table called measurements has every measurement once, as long as the    *)
(* writers were paused from prepare to cutover; and once it is partitioned *)
(* or its seed is over, the registry is exactly that table.                *)
(***************************************************************************)
THEOREM LiveTableIsWhole == Spec => []LiveIsWhole
<1>1. MoveInv => LiveIsWhole
  <2> SUFFICES ASSUME MoveInv, Paused
               PROVE  /\ Live = wanted
                      /\ partedName = "measurements" => \A i \in Id : parted[i] <= 1
                      /\ "seed" \notin disturbed /\ (plainTrigger \/ partedName = "measurements")
                           => identity = Live
    BY DEF LiveIsWhole
  <2>1. Live = wanted
    BY DEF MoveInv, NamesInv, RowsInv, Live, Paused
  <2>2. partedName = "measurements" => \A i \in Id : parted[i] <= 1
    BY RowsAreSingle DEF MoveInv, IndexInv
  <2> QED
    BY <2>1, <2>2 DEF MoveInv, RegistryInv, Registered
<1> QED
  BY <1>1, MoveInvCorrect, PTL

(***************************************************************************)
(* A shadow that is prepared is the live table, row by row, with all its   *)
(* indexes attached and its trigger, whoever else has worked on it.        *)
(***************************************************************************)
THEOREM PreparedShadowsAreWhole == Spec => []PreparedIsWhole
<1>1. MoveInv => PreparedIsWhole
  <2> SUFFICES ASSUME MoveInv, phase = "prepared", Paused, partedName = "shadow"
               PROVE  /\ PartedRows = plain /\ \A i \in Id : parted[i] <= 1
                      /\ index = Keys \X Partition /\ attached = Keys /\ partedTrigger
    BY DEF PreparedIsWhole
  <2>1. Built /\ PartedRows = plain
    BY DEF MoveInv, IndexInv, CopyInv, Copied, Paused
  <2>2. \A i \in Id : parted[i] <= 1
    BY <2>1, RowsAreSingle DEF MoveInv
  <2>3. Keys \X Partition \subseteq index
    <3> SUFFICES ASSUME NEW k \in Keys, NEW r \in Partition PROVE <<k, r>> \in index
      OBVIOUS
    <3> QED
      BY <2>1, AllAreNumbered DEF Built, IndexedTo
  <2> QED
    BY <2>1, <2>2, <2>3 DEF Built, MoveInv, TypeOK
<1> QED
  BY <1>1, MoveInvCorrect, PTL
=============================================================================
