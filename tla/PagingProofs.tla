---------------------------- MODULE PagingProofs ----------------------------
(***************************************************************************)
(* Theorems about the two parts that go through a table page by page while *)
(* others write to it: Backfill with cursors that are stored, Export with  *)
(* offsets.                                                                *)
(*                                                                         *)
(* Theorems about Backfill. Types hold for any number of workers; the      *)
(* others assume in their statements that there is one, as the service's   *)
(* README deploys it. With two, TLC refutes all but RolledBackIsClean: a   *)
(* stalled worker truncates the shadow table that its successor has filled.*)
(***************************************************************************)
EXTENDS Backfill, Export, WellFoundedInduction, FiniteSetTheorems, TLAPS

USE DEF Goto, Load, ExpireView

Status == {"queued", "processing", "data_loaded", "completed", "failed"}
PostStatus == {"pending", "processing", "completed"}

-----------------------------------------------------------------------------
\* A set of numbers has a least one: the intervals below its members are finite
\* sets, of which the strict inclusion is well-founded.
LEMMA LeastNumber ==
  ASSUME NEW S \in SUBSET Nat, S # {}
  PROVE  \E n \in S : \A m \in S : n <= m
<1> DEFINE T == {0..n : n \in S}
           R == StrictSubsetOrdering(Nat)
<1>1. T \subseteq FiniteSubsetsOf(Nat)
  <2>1. ASSUME NEW n \in S PROVE 0..n \in SUBSET Nat /\ IsFiniteSet(0..n)
    BY FS_Interval
  <2> QED
    BY <2>1 DEF FiniteSubsetsOf
<1>2. T # {}
  OBVIOUS
<1>3. IsWellFoundedOn(R, FiniteSubsetsOf(Nat))
  BY FS_StrictSubsetOrderingWellFounded
<1>4. PICK x \in T : \A y \in T : ~ (<<y, x>> \in R)
  <2> HIDE DEF T, R
  <2> QED
    BY <1>1, <1>2, <1>3, WFMin
<1>5. PICK n \in S : x = 0..n
  OBVIOUS
<1>6. ASSUME NEW m \in S, m < n PROVE FALSE
  <2>1. 0..m \in T /\ 0..m \subseteq 0..n /\ 0..m # 0..n /\ n \in 0..n /\ n \notin 0..m
    BY <1>6
  <2>2. <<0..m, 0..n>> \in R
    BY <2>1 DEF StrictSubsetOrdering
  <2> QED
    BY <1>4, <1>5, <2>1, <2>2
<1> QED
  BY <1>6

LEMMA MinFacts ==
  ASSUME NEW S \in SUBSET Nat, S # {}
  PROVE  Min(S) \in S
BY LeastNumber DEF Min

-----------------------------------------------------------------------------
(***************************************************************************)
(* Types, with those of what a session has loaded.                         *)
(***************************************************************************)
View == [phase : Phase, cursor : 0..NumBuckets, merge_cursor : Nat, merged : Nat]

Loaded ==
  /\ view \in [Worker -> View]
  /\ request \in [status : Status \union {"none"}, token : Nat,
                  post_processing_status : PostStatus \union {"none"}]
  /\ \A w \in Worker : pc[w] = "stage" => at[w] \in Chunk

Types == TypeOK /\ Loaded

LEMMA TypesInit == Init => Types
<1> SUFFICES ASSUME Init PROVE Types
  OBVIOUS
<1>1. NoView \in View
  BY CountsAssumption DEF NoView, View, Phase
<1>2. shadow = {} /\ indexed = FALSE
  BY DEF Init
<1>3. TypeOK
  BY <1>2, CountsAssumption DEF Init, TypeOK, PC, Phase, NoToken
<1>4. Loaded
  BY <1>1 DEF Init, Loaded, NoRequest, NoToken
<1> QED
  BY <1>3, <1>4 DEF Types

LEMMA FreshFacts ==
  ASSUME TypeOK, Loaded
  PROVE  /\ Fresh \in View /\ NoView \in View
         /\ \A w \in Worker : Seen(w) \in View
BY CountsAssumption DEF TypeOK, Loaded, Fresh, NoView, View, Phase, Seen

LEMMA FirstPageFacts ==
  ASSUME TypeOK, NEW w \in Worker, Remaining(w) # {}
  PROVE  /\ FirstPage(w) \in Remaining(w)
         /\ FirstPage(w).id \in Nat /\ FirstPage(w).keys \subseteq Key
         /\ \A q \in Remaining(w) : FirstPage(w).id <= q.id
<1> DEFINE Ids == {p.id : p \in Remaining(w)}
<1>1. \A p \in Remaining(w) : p.id \in Nat /\ p.keys \subseteq Key
  BY DEF TypeOK, Remaining
<1>2. PICK n \in Ids : \A m \in Ids : n <= m
  <2>1. Ids \in SUBSET Nat /\ Ids # {}
    BY <1>1
  <2> QED
    BY <2>1, LeastNumber
<1>3. PICK p \in Remaining(w) : \A q \in Remaining(w) : p.id <= q.id
  BY <1>2
<1>4. /\ FirstPage(w) \in Remaining(w)
      /\ \A q \in Remaining(w) : FirstPage(w).id <= q.id
  BY <1>3 DEF FirstPage
<1> QED
  BY <1>1, <1>4

LEMMA NextChunkFacts ==
  ASSUME TypeOK, Chunk \ processed # {}
  PROVE  Min(Chunk \ processed) \in Chunk /\ Min(Chunk \ processed) \in Nat
<1>1. Chunk \ processed \in SUBSET Nat
  BY DEF Chunk
<1> QED
  BY <1>1, MinFacts

LEMMA RowsFacts ==
  TypeOK => \A b : Rows(b) \subseteq Key /\ \A k \in Rows(b) : Bucket[k] = b
BY KeyAssumption DEF Rows, TypeOK

LEMMA TypeStep == TypeOK /\ Loaded /\ [Next]_vars => TypeOK'
<1> SUFFICES ASSUME TypeOK, Loaded, [Next]_vars PROVE TypeOK'
  OBVIOUS
<1> USE DEF TypeOK, PC, Phase, Unique, NoToken, rowVars, importVars, cursors, stateVars, shadowVars, tableVars, handVars, localVars,
        durable, otherVars
<1>1. ASSUME NEW w \in Worker, claim_import(w) PROVE TypeOK'
  BY <1>1 DEF claim_import
<1>2. ASSUME NEW w \in Worker, ensure_backfill_state(w) PROVE TypeOK'
  BY <1>2 DEF ensure_backfill_state
<1>3. ASSUME NEW w \in Worker, LeaseLost(w) PROVE TypeOK'
  BY <1>3 DEF LeaseLost, Idle
<1>4. ASSUME NEW w \in Worker, NextChunk(w) PROVE TypeOK'
  BY <1>4, NextChunkFacts DEF NextChunk
<1>5. ASSUME NEW w \in Worker, stage_backfill_chunk(w) PROVE TypeOK'
  BY <1>5 DEF stage_backfill_chunk, Loaded
<1>6. ASSUME NEW w \in Worker, ReadPhase(w) PROVE TypeOK'
  BY <1>6 DEF ReadPhase
<1>7. ASSUME NEW w \in Worker, StartMaterializing(w) PROVE TypeOK'
  BY <1>7, CountsAssumption DEF StartMaterializing
<1>8. ASSUME NEW w \in Worker, Reload(w) PROVE TypeOK'
  BY <1>8 DEF Reload
<1>9. ASSUME NEW w \in Worker, MaterializeBucket(w) PROVE TypeOK'
  <2> DEFINE b == InHand(w)
  <2>1. b \in Nat /\ b < NumBuckets
    <3>1. view[w].cursor \in Nat
      BY DEF Loaded, View
    <3> QED
      BY <1>9, <3>1 DEF MaterializeBucket, InHand
  <2>2. /\ at' = [at EXCEPT ![w] = b] /\ pc' = [pc EXCEPT ![w] = "beat"]
        /\ materialize_cursor' \in {materialize_cursor, b + 1}
        /\ UNCHANGED <<rowVars, importVars, phase, merge_cursor, merged_values,
                       tables, raw, indexed, measurement, held, view, otherVars>>
    BY <1>9 DEF MaterializeBucket
  <2>3. materialize_cursor' \in 0..NumBuckets /\ at' \in [Worker -> Nat]
    BY <2>1, <2>2, CountsAssumption
  <2>4. CASE Rows(b) = {}
    <3>1. UNCHANGED <<shadow, serial>>
      BY <1>9, <2>4 DEF MaterializeBucket
    <3> HIDE DEF b
    <3> QED
      BY <2>2, <2>3, <3>1
  <2>5. CASE Rows(b) # {}
    <3>1. /\ serial' = serial + 1
          /\ shadow' = shadow \union {[id |-> serial + 1, keys |-> Rows(b)]}
          /\ indexed => Rows(b) \cap InShadow = {}
      BY <1>9, <2>5 DEF MaterializeBucket
    <3> HIDE DEF b
    <3>2. \A page \in shadow' : page.id \in 1..serial' /\ page.keys \subseteq Key
      BY <3>1, RowsFacts
    <3>3. indexed' => Unique'
      BY <2>2, <3>1 DEF InShadow
    <3>4. serial' \in Nat
      BY <3>1
    <3> QED
      BY <2>2, <2>3, <3>2, <3>3, <3>4
  <2> QED
    BY <2>4, <2>5
<1>10. ASSUME NEW w \in Worker, RowBeatLost(w) PROVE TypeOK'
  BY <1>10 DEF RowBeatLost, Idle
<1>11. ASSUME NEW w \in Worker, BucketBeat(w) PROVE TypeOK'
  BY <1>11 DEF BucketBeat, RowBeat
<1>12. ASSUME NEW w \in Worker, IndexAndValidate(w) PROVE TypeOK'
  BY <1>12 DEF IndexAndValidate
<1>13. ASSUME NEW w \in Worker, MarkReady(w) PROVE TypeOK'
  BY <1>13 DEF MarkReady
<1>14. ASSUME NEW w \in Worker, DropRaw(w) PROVE TypeOK'
  BY <1>14 DEF DropRaw
<1>15. ASSUME NEW w \in Worker, MergeRead(w) PROVE TypeOK'
  BY <1>15 DEF MergeRead
<1>16. ASSUME NEW w \in Worker, StartMerging(w) PROVE TypeOK'
  BY <1>16 DEF StartMerging
<1>17. ASSUME NEW w \in Worker, MergeCheck(w) PROVE TypeOK'
  BY <1>17 DEF MergeCheck, MergeIn
<1>18. ASSUME NEW w \in Worker, PageBeat(w) PROVE TypeOK'
  BY <1>18 DEF PageBeat, RowBeat
<1>19. ASSUME NEW w \in Worker, MergeStopped(w) PROVE TypeOK'
  BY <1>19 DEF MergeStopped
<1>20. ASSUME NEW w \in Worker, MergePage(w) PROVE TypeOK'
  <2> DEFINE page == FirstPage(w)
             count == Cardinality(NewIn(page))
  <2>1. page.id \in Nat /\ page.keys \subseteq Key
    BY <1>20, FirstPageFacts DEF MergePage
  <2>2. count \in Nat
    <3>1. NewIn(page) \subseteq Key
      BY <2>1 DEF NewIn
    <3> QED
      BY <3>1, KeyAssumption, FS_Subset, FS_CardinalityType
  <2>3. Seen(w).merged \in Nat
    BY FreshFacts DEF View
  <2>4. MergeInto(w, page, count)
    BY <1>20 DEF MergePage
  <2> HIDE DEF page, count
  <2> QED
    BY <2>1, <2>2, <2>3, <2>4 DEF MergeInto
<1>21. ASSUME NEW w \in Worker, MergeDone(w) PROVE TypeOK'
  BY <1>21 DEF MergeDone, Merging
<1>22. ASSUME NEW w \in Worker, MarkDataLoaded(w) PROVE TypeOK'
  <2>1. Seen(w).merged \in Nat
    BY FreshFacts DEF View
  <2> QED
    BY <1>22, <2>1 DEF MarkDataLoaded, Idle
<1>23. ASSUME NEW w \in Worker, StageError(w) PROVE TypeOK'
  BY <1>23 DEF StageError
<1>24. ASSUME NEW w \in Worker, FailureIgnored(w) PROVE TypeOK'
  BY <1>24 DEF FailureIgnored, Idle
<1>25. ASSUME NEW w \in Worker, mark_import_failure(w) PROVE TypeOK'
  BY <1>25 DEF mark_import_failure, Idle
<1>26. ASSUME NEW w \in Worker, cleanup_backfill_tables(w) PROVE TypeOK'
  <2>1. CASE phase = "none"
    BY <1>26, <2>1 DEF cleanup_backfill_tables, Idle
  <2>2. CASE phase # "none"
    BY <1>26, <2>2 DEF cleanup_backfill_tables, DropTables, Idle
  <2> QED
    BY <2>1, <2>2
<1>27. ASSUME NEW w \in Worker, Crash(w) PROVE TypeOK'
  BY <1>27, CountsAssumption DEF Crash, Fault, Idle
<1>28. CASE RollbackRequest
  BY <1>28, CountsAssumption DEF RollbackRequest
<1>29. CASE RollbackRefused
  BY <1>29 DEF RollbackRefused
<1>30. CASE rollback_backfill
  BY <1>30 DEF rollback_backfill, RollbackDeleting, DropTables
<1>31. CASE PostProcessing
  BY <1>31 DEF PostProcessing
<1>32. CASE cleanup_backfill_shadow
  BY <1>32 DEF cleanup_backfill_shadow, DropTables
<1>33. CASE Expire
  BY <1>33, CountsAssumption DEF Expire, Fault
<1>34. ASSUME NEW k \in Contested, OtherUpload(k) PROVE TypeOK'
  BY ZenonT(60), <1>34 DEF OtherUpload
<1>35. CASE UNCHANGED vars
  BY <1>35 DEF vars
<1> QED
  BY <1>1, <1>2, <1>3, <1>4, <1>5, <1>6, <1>7, <1>8, <1>9, <1>10, <1>11, <1>12,
     <1>13, <1>14, <1>15, <1>16, <1>17, <1>18, <1>19, <1>20, <1>21, <1>22,
     <1>23, <1>24, <1>25, <1>26, <1>27, <1>28, <1>29, <1>30, <1>31, <1>32,
     <1>33, <1>34, <1>35 DEF Next, WorkerStep

LEMMA LoadedStep == TypeOK /\ TypeOK' /\ Loaded /\ [Next]_vars => Loaded'
<1> SUFFICES ASSUME TypeOK, TypeOK', Loaded, [Next]_vars PROVE Loaded'
  OBVIOUS
<1>0. Fresh \in View /\ NoView \in View /\ NoRequest \in [status : Status \union {"none"}, token : Nat,
                  post_processing_status : PostStatus \union {"none"}]
  BY FreshFacts DEF NoRequest, NoToken
<1>00. pc \in [Worker -> PC] /\ at \in [Worker -> Nat]
  BY DEF TypeOK
<1> USE <1>0, <1>00 DEF Loaded, rowVars, importVars, cursors, stateVars, shadowVars, tableVars, handVars, localVars,
        durable, otherVars
<1>1. ASSUME NEW w \in Worker, claim_import(w) PROVE Loaded'
  BY <1>1 DEF claim_import
<1>2. ASSUME NEW w \in Worker, ensure_backfill_state(w) PROVE Loaded'
  BY <1>2 DEF ensure_backfill_state
<1>3. ASSUME NEW w \in Worker, LeaseLost(w) PROVE Loaded'
  BY <1>3 DEF LeaseLost, Idle
<1>4. ASSUME NEW w \in Worker, NextChunk(w) PROVE Loaded'
  BY <1>4, NextChunkFacts DEF NextChunk
<1>5. ASSUME NEW w \in Worker, stage_backfill_chunk(w) PROVE Loaded'
  BY <1>5 DEF stage_backfill_chunk
<1>6. ASSUME NEW w \in Worker, ReadPhase(w) PROVE Loaded'
  BY <1>6 DEF ReadPhase
<1>7. ASSUME NEW w \in Worker, StartMaterializing(w) PROVE Loaded'
  BY <1>7 DEF StartMaterializing
<1>8. ASSUME NEW w \in Worker, Reload(w) PROVE Loaded'
  BY <1>8 DEF Reload
<1>9. ASSUME NEW w \in Worker, MaterializeBucket(w) PROVE Loaded'
  BY <1>9 DEF MaterializeBucket
<1>10. ASSUME NEW w \in Worker, RowBeatLost(w) PROVE Loaded'
  BY <1>10 DEF RowBeatLost, Idle
<1>11. ASSUME NEW w \in Worker, BucketBeat(w) PROVE Loaded'
  BY <1>11 DEF BucketBeat
<1>12. ASSUME NEW w \in Worker, IndexAndValidate(w) PROVE Loaded'
  BY <1>12 DEF IndexAndValidate
<1>13. ASSUME NEW w \in Worker, MarkReady(w) PROVE Loaded'
  BY <1>13 DEF MarkReady
<1>14. ASSUME NEW w \in Worker, DropRaw(w) PROVE Loaded'
  BY <1>14 DEF DropRaw
<1>15. ASSUME NEW w \in Worker, MergeRead(w) PROVE Loaded'
  BY <1>15 DEF MergeRead
<1>16. ASSUME NEW w \in Worker, StartMerging(w) PROVE Loaded'
  BY <1>16 DEF StartMerging
<1>17. ASSUME NEW w \in Worker, MergeCheck(w) PROVE Loaded'
  BY <1>17 DEF MergeCheck, MergeIn
<1>18. ASSUME NEW w \in Worker, PageBeat(w) PROVE Loaded'
  BY <1>18 DEF PageBeat
<1>19. ASSUME NEW w \in Worker, MergeStopped(w) PROVE Loaded'
  BY <1>19 DEF MergeStopped
<1>20. ASSUME NEW w \in Worker, MergePage(w) PROVE Loaded'
  BY <1>20 DEF MergePage, MergeInto
<1>21. ASSUME NEW w \in Worker, MergeDone(w) PROVE Loaded'
  BY <1>21 DEF MergeDone
<1>22. ASSUME NEW w \in Worker, MarkDataLoaded(w) PROVE Loaded'
  BY <1>22 DEF MarkDataLoaded, Idle
<1>23. ASSUME NEW w \in Worker, StageError(w) PROVE Loaded'
  BY <1>23 DEF StageError
<1>24. ASSUME NEW w \in Worker, FailureIgnored(w) PROVE Loaded'
  BY <1>24 DEF FailureIgnored, Idle
<1>25. ASSUME NEW w \in Worker, mark_import_failure(w) PROVE Loaded'
  BY <1>25 DEF mark_import_failure, Idle
<1>26. ASSUME NEW w \in Worker, cleanup_backfill_tables(w) PROVE Loaded'
  BY <1>26 DEF cleanup_backfill_tables, Idle
<1>27. ASSUME NEW w \in Worker, Crash(w) PROVE Loaded'
  BY <1>27 DEF Crash, Idle
<1>28. CASE RollbackRequest
  BY <1>28 DEF RollbackRequest, TypeOK, Status, PostStatus
<1>29. CASE RollbackRefused
  BY <1>29 DEF RollbackRefused
<1>30. CASE rollback_backfill
  BY <1>30 DEF rollback_backfill, RollbackDeleting, DropTables
<1>31. CASE PostProcessing
  BY <1>31 DEF PostProcessing
<1>32. CASE cleanup_backfill_shadow
  BY <1>32 DEF cleanup_backfill_shadow, DropTables
<1>33. CASE Expire
  BY <1>33 DEF Expire, Fault
<1>34. ASSUME NEW k \in Contested, OtherUpload(k) PROVE Loaded'
  BY <1>34 DEF OtherUpload
<1>35. CASE UNCHANGED vars
  BY <1>35 DEF vars
<1> QED
  BY <1>1, <1>2, <1>3, <1>4, <1>5, <1>6, <1>7, <1>8, <1>9, <1>10, <1>11, <1>12,
     <1>13, <1>14, <1>15, <1>16, <1>17, <1>18, <1>19, <1>20, <1>21, <1>22,
     <1>23, <1>24, <1>25, <1>26, <1>27, <1>28, <1>29, <1>30, <1>31, <1>32,
     <1>33, <1>34, <1>35 DEF Next, WorkerStep

LEMMA TypesStep == Types /\ [Next]_vars => Types'
  BY TypeStep, LoadedStep DEF Types

\* Every variable keeps its type, whatever the workers, rollbacks and faults, and
\* once it exists the unique index holds.
THEOREM TypeCorrect == Spec => []TypeOK
<1>1. Types => TypeOK
  BY DEF Types
<1> QED
  BY <1>1, TypesInit, TypesStep, PTL DEF Spec

-----------------------------------------------------------------------------
(***************************************************************************)
(* One worker: where it is, the phase is what it has made it, unless the   *)
(* import was rolled back. Until the shadow is validated nobody can roll   *)
(* back, and the worker holds the cursor that it has loaded.               *)
(***************************************************************************)
Building == {"none", "staging", "materializing"}

Materializes(w) ==
  /\ pc[w] = "materialize" =>
       /\ phase \in {"staging", "materializing", "validating"}
       /\ view[w].phase = phase /\ view[w].cursor = materialize_cursor
  /\ pc[w] \in {"reload", "bucket", "beat", "index"} => phase = "materializing"
  /\ pc[w] = "bucket" =>
       view[w].cursor = materialize_cursor /\ at[w] = materialize_cursor
  /\ pc[w] = "beat" => materialize_cursor = at[w] + 1
  /\ pc[w] = "index" =>
       view[w].phase = "materializing" /\ materialize_cursor = NumBuckets
  /\ pc[w] = "ready" => phase = "validating"

Merges(w) ==
  /\ pc[w] \in {"chunks", "stage", "decide"} => phase # "none"
  /\ pc[w] \in {"dropraw", "mergeread"} => phase \in {"ready", "rolled_back"}
  /\ pc[w] = "merge" =>
       \/ phase = "rolled_back"
       \/ phase \in {"ready", "merging", "failed"} /\ view[w] = Fresh
  /\ pc[w] \in {"mergecheck", "page", "pagetxn"} => phase \in {"merging", "rolled_back"}
  /\ pc[w] = "finish" => phase \in {"merged", "rolled_back"}

PhaseInv ==
  /\ \A w \in Worker : Materializes(w) /\ Merges(w)
  /\ phase \in {"none", "staging"} => materialize_cursor = 0

\* The shadow table has the rows of the buckets before the cursor, each once.
ShadowInv ==
  /\ Unique
  /\ \A p, q \in shadow : p.id = q.id => p = q
  /\ phase \in Building =>
       \A page \in shadow : \A k \in page.keys : Bucket[k] < materialize_cursor

\* After a rollback a worker that was merging finds no table to merge from.
RollbackInv ==
  phase = "rolled_back" =>
    /\ \A k \in Key : measurement[k] # "import"
    /\ \A w \in Worker :
         \/ pc[w] \in {"mergecheck", "page", "pagetxn"}
         \/ pc[w] = "merge" /\ view[w].phase = "merging"
         => "shadow" \notin tables

LEMMA PhaseInit == Init => PhaseInv
BY DEF Init, PhaseInv, Materializes, Merges

LEMMA PhaseStep ==
  ASSUME \A v, w \in Worker : v = w
  PROVE  Types /\ Types' /\ PhaseInv /\ [Next]_vars => PhaseInv'
<1> SUFFICES ASSUME Types, Types', PhaseInv, [Next]_vars PROVE PhaseInv'
  OBVIOUS
<1>0. /\ pc \in [Worker -> PC] /\ at \in [Worker -> Nat] /\ view \in [Worker -> View]
      /\ materialize_cursor \in 0..NumBuckets /\ NumBuckets \in Nat \ {0}
  BY CountsAssumption DEF Types, TypeOK, Loaded
<1> USE <1>0 DEF PhaseInv, Materializes, Merges, Fresh, rowVars, importVars, cursors, stateVars, shadowVars, tableVars, handVars, localVars,
        durable, otherVars
<1>1. ASSUME NEW w \in Worker, claim_import(w) PROVE PhaseInv'
  BY <1>1 DEF claim_import
<1>2. ASSUME NEW w \in Worker, ensure_backfill_state(w) PROVE PhaseInv'
  BY <1>2 DEF ensure_backfill_state
<1>3. ASSUME NEW w \in Worker, LeaseLost(w) PROVE PhaseInv'
  BY <1>3 DEF LeaseLost, Idle
<1>4. ASSUME NEW w \in Worker, NextChunk(w) PROVE PhaseInv'
  BY <1>4 DEF NextChunk
<1>5. ASSUME NEW w \in Worker, stage_backfill_chunk(w) PROVE PhaseInv'
  BY <1>5 DEF stage_backfill_chunk
<1>6. ASSUME NEW w \in Worker, ReadPhase(w) PROVE PhaseInv'
  <2>1. /\ phase \in Phase /\ phase # "none" /\ view' = [view EXCEPT ![w] = Fresh]
        /\ UNCHANGED <<durable, held, at>>
    BY <1>6 DEF ReadPhase, Types, TypeOK
  <2>2. CASE phase = "merged"
    BY <1>6, <2>1, <2>2 DEF ReadPhase
  <2>3. CASE phase \in {"staging", "materializing", "validating"}
    BY <1>6, <2>1, <2>3 DEF ReadPhase
  <2>4. CASE phase \in {"ready", "merging", "rolled_back", "failed"}
    BY <1>6, <2>1, <2>4 DEF ReadPhase
  <2> QED
    BY <2>1, <2>2, <2>3, <2>4 DEF Phase
<1>7. ASSUME NEW w \in Worker, StartMaterializing(w) PROVE PhaseInv'
  BY <1>7 DEF StartMaterializing
<1>8. ASSUME NEW w \in Worker, Reload(w) PROVE PhaseInv'
  BY <1>8 DEF Reload, Fresh
<1>9. ASSUME NEW w \in Worker, MaterializeBucket(w) PROVE PhaseInv'
  BY <1>9 DEF MaterializeBucket, InHand, Resumes
<1>10. ASSUME NEW w \in Worker, RowBeatLost(w) PROVE PhaseInv'
  BY <1>10 DEF RowBeatLost, Idle
<1>11. ASSUME NEW w \in Worker, BucketBeat(w) PROVE PhaseInv'
  BY <1>11 DEF BucketBeat, Fresh
<1>12. ASSUME NEW w \in Worker, IndexAndValidate(w) PROVE PhaseInv'
  BY <1>12 DEF IndexAndValidate, InHand, Resumes
<1>13. ASSUME NEW w \in Worker, MarkReady(w) PROVE PhaseInv'
  BY <1>13 DEF MarkReady
<1>14. ASSUME NEW w \in Worker, DropRaw(w) PROVE PhaseInv'
  BY <1>14 DEF DropRaw
<1>15. ASSUME NEW w \in Worker, MergeRead(w) PROVE PhaseInv'
  BY <1>15 DEF MergeRead, Fresh
<1>16. ASSUME NEW w \in Worker, StartMerging(w) PROVE PhaseInv'
  BY <1>16 DEF StartMerging, Fresh
<1>17. ASSUME NEW w \in Worker, MergeCheck(w) PROVE PhaseInv'
  BY <1>17 DEF MergeCheck, MergeIn, Fresh
<1>18. ASSUME NEW w \in Worker, PageBeat(w) PROVE PhaseInv'
  BY <1>18 DEF PageBeat
<1>19. ASSUME NEW w \in Worker, MergeStopped(w) PROVE PhaseInv'
  BY <1>19 DEF MergeStopped
<1>20. ASSUME NEW w \in Worker, MergePage(w) PROVE PhaseInv'
  BY <1>20 DEF MergePage, MergeInto, Merging
<1>21. ASSUME NEW w \in Worker, MergeDone(w) PROVE PhaseInv'
  BY <1>21 DEF MergeDone, Merging, Fresh
<1>22. ASSUME NEW w \in Worker, MarkDataLoaded(w) PROVE PhaseInv'
  BY <1>22 DEF MarkDataLoaded, Idle
<1>23. ASSUME NEW w \in Worker, StageError(w) PROVE PhaseInv'
  BY <1>23 DEF StageError
<1>24. ASSUME NEW w \in Worker, FailureIgnored(w) PROVE PhaseInv'
  BY <1>24 DEF FailureIgnored, Idle
<1>25. ASSUME NEW w \in Worker, mark_import_failure(w) PROVE PhaseInv'
  BY <1>25 DEF mark_import_failure, Idle
<1>26. ASSUME NEW w \in Worker, cleanup_backfill_tables(w) PROVE PhaseInv'
  BY <1>26 DEF cleanup_backfill_tables, Idle
<1>27. ASSUME NEW w \in Worker, Crash(w) PROVE PhaseInv'
  BY <1>27 DEF Crash, Idle
<1>28. CASE RollbackRequest
  BY <1>28 DEF RollbackRequest
<1>29. CASE RollbackRefused
  BY <1>29 DEF RollbackRefused
<1>30. CASE rollback_backfill
  BY <1>30 DEF rollback_backfill, RollbackDeleting, RollbackAccepted
<1>31. CASE PostProcessing
  BY <1>31 DEF PostProcessing
<1>32. CASE cleanup_backfill_shadow
  BY <1>32 DEF cleanup_backfill_shadow, DropTables
<1>33. CASE Expire
  BY <1>33 DEF Expire
<1>34. ASSUME NEW k \in Contested, OtherUpload(k) PROVE PhaseInv'
  BY <1>34 DEF OtherUpload
<1>35. CASE UNCHANGED vars
  BY <1>35 DEF vars
<1> QED
  BY <1>1, <1>2, <1>3, <1>4, <1>5, <1>6, <1>7, <1>8, <1>9, <1>10, <1>11, <1>12,
     <1>13, <1>14, <1>15, <1>16, <1>17, <1>18, <1>19, <1>20, <1>21, <1>22,
     <1>23, <1>24, <1>25, <1>26, <1>27, <1>28, <1>29, <1>30, <1>31, <1>32,
     <1>33, <1>34, <1>35 DEF Next, WorkerStep

\* What the steps other than those that build the shadow table leave of it.
LEMMA ShadowFrame ==
  ASSUME NEW w \in Worker, WorkerStep(w) \/ Crash(w), Types,
         ~ MaterializeBucket(w)
  PROVE  \/ shadow' = {}
         \/ shadow' = shadow /\ materialize_cursor' = materialize_cursor
<1> USE DEF rowVars, importVars, cursors, stateVars, shadowVars, tableVars, handVars,
        localVars, durable, otherVars
<1>1. CASE StartMaterializing(w)
  BY <1>1 DEF StartMaterializing
<1>2. CASE cleanup_backfill_tables(w) \/ ensure_backfill_state(w)
  BY <1>2 DEF cleanup_backfill_tables, ensure_backfill_state, DropTables
<1>3. CASE \/ claim_import(w) \/ LeaseLost(w) \/ NextChunk(w) \/ stage_backfill_chunk(w)
           \/ ReadPhase(w) \/ Reload(w) \/ RowBeatLost(w) \/ BucketBeat(w)
           \/ IndexAndValidate(w) \/ MarkReady(w) \/ DropRaw(w) \/ MergeRead(w)
  BY <1>3 DEF claim_import, LeaseLost, NextChunk, stage_backfill_chunk, ReadPhase, Reload,
     RowBeatLost, BucketBeat, IndexAndValidate, MarkReady, DropRaw, MergeRead
<1>4. CASE \/ StartMerging(w) \/ MergeCheck(w) \/ PageBeat(w) \/ MergeStopped(w)
           \/ MergePage(w) \/ MergeDone(w) \/ MarkDataLoaded(w) \/ StageError(w)
           \/ FailureIgnored(w) \/ mark_import_failure(w) \/ Crash(w)
  BY <1>4 DEF StartMerging, MergeCheck, PageBeat, MergeStopped, MergePage, MergeInto,
     MergeDone, MarkDataLoaded, StageError, FailureIgnored, mark_import_failure, Crash
<1> QED
  BY <1>1, <1>2, <1>3, <1>4 DEF WorkerStep

\* No step begins the building of a shadow table again.
LEMMA BuildingFrame ==
  ASSUME NEW w \in Worker, WorkerStep(w) \/ Crash(w), PhaseInv, phase' \in Building
  PROVE  phase \in Building
<1> USE DEF Building, PhaseInv, Materializes, Merges, rowVars, importVars, cursors, stateVars, shadowVars, tableVars, handVars,
        localVars, durable, otherVars
<1>1. CASE \/ StartMaterializing(w) \/ cleanup_backfill_tables(w)
           \/ ensure_backfill_state(w) \/ MaterializeBucket(w) \/ IndexAndValidate(w)
           \/ MarkReady(w) \/ StartMerging(w) \/ MergeDone(w)
  BY <1>1 DEF StartMaterializing, cleanup_backfill_tables, ensure_backfill_state,
     MaterializeBucket, IndexAndValidate, MarkReady, StartMerging, MergeDone
<1>2. CASE \/ claim_import(w) \/ LeaseLost(w) \/ NextChunk(w) \/ stage_backfill_chunk(w)
           \/ ReadPhase(w) \/ Reload(w) \/ RowBeatLost(w) \/ BucketBeat(w)
           \/ DropRaw(w) \/ MergeRead(w)
  BY <1>2 DEF claim_import, LeaseLost, NextChunk, stage_backfill_chunk, ReadPhase, Reload,
     RowBeatLost, BucketBeat, DropRaw, MergeRead
<1>3. CASE \/ MergeCheck(w) \/ PageBeat(w) \/ MergeStopped(w)
           \/ MergePage(w) \/ MarkDataLoaded(w) \/ StageError(w)
           \/ FailureIgnored(w) \/ mark_import_failure(w) \/ Crash(w)
  BY <1>3 DEF MergeCheck, PageBeat, MergeStopped, MergePage, MergeInto,
     MarkDataLoaded, StageError, FailureIgnored, mark_import_failure, Crash
<1> QED
  BY <1>1, <1>2, <1>3 DEF WorkerStep

LEMMA ShadowInit == Init => ShadowInv
BY DEF Init, ShadowInv, Unique

LEMMA ShadowStep ==
  ASSUME \A v, w \in Worker : v = w
  PROVE  Types /\ PhaseInv /\ ShadowInv /\ [Next]_vars => ShadowInv'
<1> SUFFICES ASSUME Types, PhaseInv, ShadowInv, [Next]_vars PROVE ShadowInv'
  OBVIOUS
<1>1. ASSUME shadow' = {} PROVE ShadowInv'
  BY <1>1 DEF ShadowInv, Unique
<1>2. ASSUME shadow' = shadow, materialize_cursor' = materialize_cursor,
             phase' \in Building => phase \in Building
      PROVE  ShadowInv'
  BY <1>2 DEF ShadowInv, Unique
<1>3. ASSUME NEW w \in Worker, MaterializeBucket(w) PROVE ShadowInv'
  <2> DEFINE b == InHand(w)
             page == [id |-> serial + 1, keys |-> Rows(b)]
  <2>1. b = materialize_cursor /\ phase = "materializing" /\ phase' = phase
    BY <1>3 DEF MaterializeBucket, InHand, Resumes, PhaseInv, Materializes, stateVars, cursors
  <2>2. materialize_cursor' = b + 1 /\ b \in Nat
    <3>1. view[w].cursor = materialize_cursor
      BY <1>3 DEF MaterializeBucket, Resumes, PhaseInv, Materializes
    <3>2. materialize_cursor \in Nat
      BY CountsAssumption DEF Types, TypeOK
    <3> QED
      BY <1>3, <2>1, <3>1, <3>2 DEF MaterializeBucket
  <2>3. \A p \in shadow : /\ p.id \in 1..serial /\ p.keys \subseteq Key
                          /\ \A k \in p.keys : Bucket[k] < b /\ Bucket[k] \in Nat
    BY <2>1, KeyAssumption DEF Types, TypeOK, ShadowInv, Building
  <2>4. \A k \in Rows(b) : Bucket[k] = b
    BY RowsFacts DEF Types
  <2>5. shadow' = shadow \/ shadow' = shadow \union {page}
    BY <1>3 DEF MaterializeBucket
  <2>6. serial \in Nat
    BY DEF Types, TypeOK
  <2> HIDE DEF b
  <2>7. Unique /\ \A p, q \in shadow : p.id = q.id => p = q
    BY DEF ShadowInv
  <2>8. \A p \in shadow : p.keys \cap page.keys = {} /\ p.id # page.id
    BY <2>2, <2>3, <2>4, <2>6
  <2>9. Unique'
    BY <2>5, <2>7, <2>8 DEF Unique
  <2>10. \A p, q \in shadow' : p.id = q.id => p = q
    BY <2>5, <2>7, <2>8
  <2>11. \A p \in shadow' : \A k \in p.keys : Bucket[k] < b + 1
    BY <2>2, <2>3, <2>4, <2>5
  <2> QED
    BY <2>2, <2>9, <2>10, <2>11 DEF ShadowInv
<1>4. ASSUME NEW w \in Worker, WorkerStep(w) \/ Crash(w) PROVE ShadowInv'
  BY <1>1, <1>2, <1>3, <1>4, ShadowFrame, BuildingFrame
<1>5. CASE rollback_backfill \/ cleanup_backfill_shadow
  BY <1>1, <1>5 DEF rollback_backfill, RollbackDeleting, cleanup_backfill_shadow, DropTables
<1>6. CASE \/ RollbackRequest \/ RollbackRefused \/ PostProcessing \/ Expire
           \/ \E k \in Contested : OtherUpload(k)
  BY <1>2, <1>6 DEF RollbackRequest, RollbackRefused, PostProcessing, Expire, OtherUpload,
     rowVars, importVars, cursors, stateVars, shadowVars, tableVars, handVars,
     localVars, durable, otherVars
<1>7. CASE UNCHANGED vars
  BY <1>2, <1>7 DEF vars, rowVars, importVars, cursors, stateVars, shadowVars, tableVars, handVars,
     localVars, durable, otherVars
<1> QED
  BY <1>4, <1>5, <1>6, <1>7 DEF Next

\* A materialization that a crash interrupted, and that is resumed, adds no
\* bucket a second time, so the unique index can always be built: the resumed
\* worker goes by the cursor that was committed with the rows.
THEOREM BucketsAreAddedOnce ==
  ASSUME \A v, w \in Worker : v = w
  PROVE  Spec => []EachBucketOnce
<1> DEFINE Inv == Types /\ PhaseInv /\ ShadowInv
<1>1. Init => Inv
  BY TypesInit, PhaseInit, ShadowInit
<1>2. Inv /\ [Next]_vars => Inv'
  BY TypesStep, PhaseStep, ShadowStep
<1>3. Inv => EachBucketOnce
  BY DEF ShadowInv, EachBucketOnce
<1> QED
  BY <1>1, <1>2, <1>3, PTL DEF Spec

LEMMA RollbackInit == Init => RollbackInv
BY DEF Init, RollbackInv

LEMMA RollbackStep ==
  ASSUME \A v, w \in Worker : v = w
  PROVE  Types /\ PhaseInv /\ RollbackInv /\ [Next]_vars => RollbackInv'
<1> SUFFICES ASSUME Types, PhaseInv, RollbackInv, [Next]_vars PROVE RollbackInv'
  OBVIOUS
<1>0. /\ pc \in [Worker -> PC] /\ view \in [Worker -> View]
      /\ measurement \in [Key -> {"absent", "import", "other"}]
      /\ \A w \in Worker : pc[w] = "ready" => phase = "validating"
      /\ \A w \in Worker : pc[w] = "materialize" => phase # "rolled_back"
  BY DEF Types, TypeOK, Loaded, PhaseInv, Materializes
<1> USE <1>0 DEF RollbackInv, rowVars, importVars, cursors, stateVars, shadowVars, tableVars, handVars, localVars,
        durable, otherVars
<1>1. ASSUME NEW w \in Worker, claim_import(w) PROVE RollbackInv'
  BY <1>1 DEF claim_import
<1>2. ASSUME NEW w \in Worker, ensure_backfill_state(w) PROVE RollbackInv'
  BY <1>2 DEF ensure_backfill_state
<1>3. ASSUME NEW w \in Worker, LeaseLost(w) PROVE RollbackInv'
  BY <1>3 DEF LeaseLost, Idle
<1>4. ASSUME NEW w \in Worker, NextChunk(w) PROVE RollbackInv'
  BY <1>4 DEF NextChunk
<1>5. ASSUME NEW w \in Worker, stage_backfill_chunk(w) PROVE RollbackInv'
  BY <1>5 DEF stage_backfill_chunk
<1>6. ASSUME NEW w \in Worker, ReadPhase(w) PROVE RollbackInv'
  BY <1>6 DEF ReadPhase, Fresh
<1>7. ASSUME NEW w \in Worker, StartMaterializing(w) PROVE RollbackInv'
  BY <1>7 DEF StartMaterializing
<1>8. ASSUME NEW w \in Worker, Reload(w) PROVE RollbackInv'
  BY <1>8 DEF Reload
<1>9. ASSUME NEW w \in Worker, MaterializeBucket(w) PROVE RollbackInv'
  BY <1>9 DEF MaterializeBucket
<1>10. ASSUME NEW w \in Worker, RowBeatLost(w) PROVE RollbackInv'
  BY <1>10 DEF RowBeatLost, Idle
<1>11. ASSUME NEW w \in Worker, BucketBeat(w) PROVE RollbackInv'
  BY <1>11 DEF BucketBeat
<1>12. ASSUME NEW w \in Worker, IndexAndValidate(w) PROVE RollbackInv'
  BY <1>12 DEF IndexAndValidate
<1>13. ASSUME NEW w \in Worker, MarkReady(w) PROVE RollbackInv'
  BY <1>13 DEF MarkReady
<1>14. ASSUME NEW w \in Worker, DropRaw(w) PROVE RollbackInv'
  BY <1>14 DEF DropRaw
<1>15. ASSUME NEW w \in Worker, MergeRead(w) PROVE RollbackInv'
  BY <1>15 DEF MergeRead, Fresh
<1>16. ASSUME NEW w \in Worker, StartMerging(w) PROVE RollbackInv'
  BY <1>16 DEF StartMerging
<1>17. ASSUME NEW w \in Worker, MergeCheck(w) PROVE RollbackInv'
  BY <1>17 DEF MergeCheck, MergeIn
<1>18. ASSUME NEW w \in Worker, PageBeat(w) PROVE RollbackInv'
  BY <1>18 DEF PageBeat
<1>19. ASSUME NEW w \in Worker, MergeStopped(w) PROVE RollbackInv'
  BY <1>19 DEF MergeStopped
<1>20. ASSUME NEW w \in Worker, MergePage(w) PROVE RollbackInv'
  BY <1>20 DEF MergePage, MergeInto, Merging, Seen, Fresh, NoView
<1>21. ASSUME NEW w \in Worker, MergeDone(w) PROVE RollbackInv'
  BY <1>21 DEF MergeDone, Merging
<1>22. ASSUME NEW w \in Worker, MarkDataLoaded(w) PROVE RollbackInv'
  BY <1>22 DEF MarkDataLoaded, Idle
<1>23. ASSUME NEW w \in Worker, StageError(w) PROVE RollbackInv'
  BY <1>23 DEF StageError
<1>24. ASSUME NEW w \in Worker, FailureIgnored(w) PROVE RollbackInv'
  BY <1>24 DEF FailureIgnored, Idle
<1>25. ASSUME NEW w \in Worker, mark_import_failure(w) PROVE RollbackInv'
  BY <1>25 DEF mark_import_failure, Idle
<1>26. ASSUME NEW w \in Worker, cleanup_backfill_tables(w) PROVE RollbackInv'
  BY <1>26 DEF cleanup_backfill_tables, DropTables, Idle
<1>27. ASSUME NEW w \in Worker, Crash(w) PROVE RollbackInv'
  BY <1>27 DEF Crash, Idle
<1>28. CASE RollbackRequest
  BY <1>28 DEF RollbackRequest
<1>29. CASE RollbackRefused
  BY <1>29 DEF RollbackRefused
<1>30. CASE rollback_backfill
  BY <1>30 DEF rollback_backfill, RollbackDeleting, DropTables
<1>31. CASE PostProcessing
  BY <1>31 DEF PostProcessing
<1>32. CASE cleanup_backfill_shadow
  BY <1>32 DEF cleanup_backfill_shadow, DropTables
<1>33. CASE Expire
  BY <1>33 DEF Expire
<1>34. ASSUME NEW k \in Contested, OtherUpload(k) PROVE RollbackInv'
  BY <1>34 DEF OtherUpload
<1>35. CASE UNCHANGED vars
  BY <1>35 DEF vars
<1> QED
  BY <1>1, <1>2, <1>3, <1>4, <1>5, <1>6, <1>7, <1>8, <1>9, <1>10, <1>11, <1>12,
     <1>13, <1>14, <1>15, <1>16, <1>17, <1>18, <1>19, <1>20, <1>21, <1>22,
     <1>23, <1>24, <1>25, <1>26, <1>27, <1>28, <1>29, <1>30, <1>31, <1>32,
     <1>33, <1>34, <1>35 DEF Next, WorkerStep

\* A rolled-back import has left no row behind, and no worker that was merging
\* it, with the phase that it had read, adds one.
THEOREM RolledBackImportsAreClean ==
  ASSUME \A v, w \in Worker : v = w
  PROVE  Spec => []RolledBackIsClean
<1> DEFINE Inv == Types /\ PhaseInv /\ RollbackInv
<1>1. Init => Inv
  BY TypesInit, PhaseInit, RollbackInit
<1>2. Inv /\ [Next]_vars => Inv'
  BY TypesStep, PhaseStep, RollbackStep
<1>3. Inv => RolledBackIsClean
  BY DEF RollbackInv, RolledBackIsClean
<1> QED
  BY <1>1, <1>2, <1>3, PTL DEF Spec

-----------------------------------------------------------------------------
(***************************************************************************)
(* One worker, and nobody has asked for a rollback.                        *)
(***************************************************************************)
Staging == {"none", "staging", "materializing", "validating"}

\* The row belongs to the worker that is at work, and loaded means merged.
RowInv ==
  /\ request = NoRequest
  /\ phase # "rolled_back"
  /\ \A w \in Worker : /\ pc[w] \notin {"idle", "tables"} => status = "processing"
                       /\ pc[w] = "tables" => status = "failed"
  /\ status \in {"data_loaded", "completed"} => phase = "merged"

\* What is staged is not dropped before it is in the shadow table, and that
\* not before it is merged.
TableInv ==
  /\ phase \in Staging => raw = processed
  /\ phase = "none" => raw = {}
  /\ phase \in Staging \ {"none"} => tables = {"raw", "shadow"}
  /\ phase \in {"ready", "merging"} => "shadow" \in tables
  /\ \A w \in Worker :
       pc[w] \notin {"idle", "ensure", "chunks", "stage", "fail", "tables"}
         => processed = Chunk
  /\ phase \in {"materializing", "validating"} => processed = Chunk

\* The shadow table holds every value of the buckets before the cursor.
FilledInv ==
  /\ phase = "materializing" =>
       \A k \in Key : Bucket[k] < materialize_cursor => k \in InShadow
  /\ phase \in {"validating", "ready", "merging"} => Key \subseteq InShadow

\* The pages up to the cursor are merged, and a worker that merges goes by the
\* cursor of the row.
MergedInv ==
  /\ phase \in Staging \union {"ready"} => merge_cursor = 0
  /\ phase = "merging" =>
       \A page \in shadow : page.id <= merge_cursor =>
         \A k \in page.keys : measurement[k] # "absent"
  /\ phase = "merged" => \A k \in Key : measurement[k] # "absent"
  /\ \A w \in Worker : pc[w] \in {"page", "pagetxn", "finish"} => Seen(w) = Fresh

UndisturbedInv == rollbacks = 0 => RowInv /\ TableInv /\ FilledInv /\ MergedInv

\* Without a request nothing is rolled back.
LEMMA NoRollback ==
  ASSUME Types, RowInv, [Next]_vars, rollbacks' = 0
  PROVE  ~ RollbackRequest /\ ~ RollbackRefused /\ ~ rollback_backfill
BY DEF Types, TypeOK, RowInv, RollbackRequest, RollbackRefused, rollback_backfill,
   RollbackDeleting

LEMMA RowStep ==
  ASSUME \A v, w \in Worker : v = w,
         Types, PhaseInv, RowInv, [Next]_vars, rollbacks' = 0
  PROVE  RowInv'
<1>0. ~ RollbackRequest /\ ~ RollbackRefused /\ ~ rollback_backfill
  BY NoRollback
<1>00. /\ pc \in [Worker -> PC]
       /\ \A w \in Worker : /\ pc[w] = "finish" => phase \in {"merged", "rolled_back"}
                            /\ pc[w] = "ready" => phase = "validating"
  BY DEF Types, TypeOK, PhaseInv, Materializes, Merges
<1> USE <1>00
<1> USE DEF RowInv, rowVars, importVars, cursors, stateVars, shadowVars, tableVars, handVars, localVars,
        durable, otherVars
<1>1. ASSUME NEW w \in Worker, claim_import(w) PROVE RowInv'
  BY <1>1 DEF claim_import
<1>2. ASSUME NEW w \in Worker, ensure_backfill_state(w) PROVE RowInv'
  BY <1>2 DEF ensure_backfill_state
<1>3. ASSUME NEW w \in Worker, LeaseLost(w) PROVE RowInv'
  BY <1>3 DEF LeaseLost, Idle
<1>4. ASSUME NEW w \in Worker, NextChunk(w) PROVE RowInv'
  BY <1>4 DEF NextChunk
<1>5. ASSUME NEW w \in Worker, stage_backfill_chunk(w) PROVE RowInv'
  BY <1>5 DEF stage_backfill_chunk
<1>6. ASSUME NEW w \in Worker, ReadPhase(w) PROVE RowInv'
  BY <1>6 DEF ReadPhase
<1>7. ASSUME NEW w \in Worker, StartMaterializing(w) PROVE RowInv'
  BY <1>7 DEF StartMaterializing
<1>8. ASSUME NEW w \in Worker, Reload(w) PROVE RowInv'
  BY <1>8 DEF Reload
<1>9. ASSUME NEW w \in Worker, MaterializeBucket(w) PROVE RowInv'
  BY <1>9 DEF MaterializeBucket, Resumes
<1>10. ASSUME NEW w \in Worker, RowBeatLost(w) PROVE RowInv'
  BY <1>10 DEF RowBeatLost, Idle
<1>11. ASSUME NEW w \in Worker, BucketBeat(w) PROVE RowInv'
  BY <1>11 DEF BucketBeat
<1>12. ASSUME NEW w \in Worker, IndexAndValidate(w) PROVE RowInv'
  BY <1>12 DEF IndexAndValidate, Resumes
<1>13. ASSUME NEW w \in Worker, MarkReady(w) PROVE RowInv'
  BY <1>13 DEF MarkReady
<1>14. ASSUME NEW w \in Worker, DropRaw(w) PROVE RowInv'
  BY <1>14 DEF DropRaw
<1>15. ASSUME NEW w \in Worker, MergeRead(w) PROVE RowInv'
  BY <1>15 DEF MergeRead
<1>16. ASSUME NEW w \in Worker, StartMerging(w) PROVE RowInv'
  BY <1>16 DEF StartMerging
<1>17. ASSUME NEW w \in Worker, MergeCheck(w) PROVE RowInv'
  BY <1>17 DEF MergeCheck, MergeIn
<1>18. ASSUME NEW w \in Worker, PageBeat(w) PROVE RowInv'
  BY <1>18 DEF PageBeat
<1>19. ASSUME NEW w \in Worker, MergeStopped(w) PROVE RowInv'
  BY <1>19 DEF MergeStopped
<1>20. ASSUME NEW w \in Worker, MergePage(w) PROVE RowInv'
  BY <1>20 DEF MergePage, MergeInto, Merging
<1>21. ASSUME NEW w \in Worker, MergeDone(w) PROVE RowInv'
  BY <1>21 DEF MergeDone, Merging
<1>22. ASSUME NEW w \in Worker, MarkDataLoaded(w) PROVE RowInv'
  BY <1>22 DEF MarkDataLoaded, Idle
<1>23. ASSUME NEW w \in Worker, StageError(w) PROVE RowInv'
  BY <1>23 DEF StageError
<1>24. ASSUME NEW w \in Worker, FailureIgnored(w) PROVE RowInv'
  BY <1>24 DEF FailureIgnored, Idle
<1>25. ASSUME NEW w \in Worker, mark_import_failure(w) PROVE RowInv'
  BY <1>25 DEF mark_import_failure, Idle
<1>26. ASSUME NEW w \in Worker, cleanup_backfill_tables(w) PROVE RowInv'
  BY <1>26 DEF cleanup_backfill_tables, DropTables, Idle
<1>27. ASSUME NEW w \in Worker, Crash(w) PROVE RowInv'
  BY <1>27 DEF Crash, Idle
<1>28. CASE PostProcessing
  BY <1>28 DEF PostProcessing
<1>29. CASE cleanup_backfill_shadow
  BY <1>29 DEF cleanup_backfill_shadow, DropTables
<1>30. CASE Expire
  BY <1>30 DEF Expire
<1>31. ASSUME NEW k \in Contested, OtherUpload(k) PROVE RowInv'
  BY <1>31 DEF OtherUpload
<1>32. CASE UNCHANGED vars
  BY <1>32 DEF vars
<1> QED
  BY <1>0, <1>1, <1>2, <1>3, <1>4, <1>5, <1>6, <1>7, <1>8, <1>9, <1>10, <1>11, <1>12,
     <1>13, <1>14, <1>15, <1>16, <1>17, <1>18, <1>19, <1>20, <1>21, <1>22,
     <1>23, <1>24, <1>25, <1>26, <1>27, <1>28, <1>29, <1>30, <1>31, <1>32 DEF
     Next, WorkerStep

LEMMA TableStep ==
  ASSUME \A v, w \in Worker : v = w,
         Types, PhaseInv, RowInv, TableInv, [Next]_vars, rollbacks' = 0
  PROVE  TableInv'
<1>0. ~ RollbackRequest /\ ~ RollbackRefused /\ ~ rollback_backfill
  BY NoRollback
<1>00. /\ pc \in [Worker -> PC] /\ processed \subseteq Chunk /\ raw \subseteq Chunk
       /\ tables \subseteq {"raw", "shadow"}
       /\ \A w \in Worker : pc[w] = "stage" => at[w] \in Chunk
  BY DEF Types, TypeOK, Loaded
<1> USE <1>00 DEF Staging, PhaseInv, Materializes, Merges, RowInv
<1> USE DEF TableInv, rowVars, importVars, cursors, stateVars, shadowVars, tableVars, handVars, localVars,
        durable, otherVars
<1>1. ASSUME NEW w \in Worker, claim_import(w) PROVE TableInv'
  BY <1>1 DEF claim_import
<1>2. ASSUME NEW w \in Worker, ensure_backfill_state(w) PROVE TableInv'
  <2>1. /\ tables' = {"raw", "shadow"} /\ processed' = processed
        /\ pc' = [pc EXCEPT ![w] = "chunks"]
    BY <1>2 DEF ensure_backfill_state
  <2>2. CASE phase = "none"
    BY <1>2, <2>1, <2>2 DEF ensure_backfill_state
  <2>3. CASE phase \in Staging \ {"none"}
    BY <1>2, <2>1, <2>3 DEF ensure_backfill_state
  <2>4. CASE phase \notin Staging
    BY <1>2, <2>1, <2>4 DEF ensure_backfill_state
  <2> QED
    BY <2>2, <2>3, <2>4
<1>3. ASSUME NEW w \in Worker, LeaseLost(w) PROVE TableInv'
  BY <1>3 DEF LeaseLost, Idle
<1>4. ASSUME NEW w \in Worker, NextChunk(w) PROVE TableInv'
  BY <1>4 DEF NextChunk, Owns
<1>5. ASSUME NEW w \in Worker, stage_backfill_chunk(w) PROVE TableInv'
  BY <1>5 DEF stage_backfill_chunk
<1>6. ASSUME NEW w \in Worker, ReadPhase(w) PROVE TableInv'
  BY <1>6 DEF ReadPhase
<1>7. ASSUME NEW w \in Worker, StartMaterializing(w) PROVE TableInv'
  BY <1>7 DEF StartMaterializing
<1>8. ASSUME NEW w \in Worker, Reload(w) PROVE TableInv'
  BY <1>8 DEF Reload
<1>9. ASSUME NEW w \in Worker, MaterializeBucket(w) PROVE TableInv'
  BY <1>9 DEF MaterializeBucket, Resumes
<1>10. ASSUME NEW w \in Worker, RowBeatLost(w) PROVE TableInv'
  BY <1>10 DEF RowBeatLost, Idle
<1>11. ASSUME NEW w \in Worker, BucketBeat(w) PROVE TableInv'
  BY <1>11 DEF BucketBeat
<1>12. ASSUME NEW w \in Worker, IndexAndValidate(w) PROVE TableInv'
  BY <1>12 DEF IndexAndValidate, Resumes
<1>13. ASSUME NEW w \in Worker, MarkReady(w) PROVE TableInv'
  BY <1>13 DEF MarkReady
<1>14. ASSUME NEW w \in Worker, DropRaw(w) PROVE TableInv'
  BY <1>14 DEF DropRaw
<1>15. ASSUME NEW w \in Worker, MergeRead(w) PROVE TableInv'
  BY <1>15 DEF MergeRead
<1>16. ASSUME NEW w \in Worker, StartMerging(w) PROVE TableInv'
  BY <1>16 DEF StartMerging, Fresh
<1>17. ASSUME NEW w \in Worker, MergeCheck(w) PROVE TableInv'
  BY <1>17 DEF MergeCheck, MergeIn
<1>18. ASSUME NEW w \in Worker, PageBeat(w) PROVE TableInv'
  BY <1>18 DEF PageBeat
<1>19. ASSUME NEW w \in Worker, MergeStopped(w) PROVE TableInv'
  BY <1>19 DEF MergeStopped
<1>20. ASSUME NEW w \in Worker, MergePage(w) PROVE TableInv'
  BY <1>20 DEF MergePage, MergeInto, Merging
<1>21. ASSUME NEW w \in Worker, MergeDone(w) PROVE TableInv'
  BY <1>21 DEF MergeDone, Merging
<1>22. ASSUME NEW w \in Worker, MarkDataLoaded(w) PROVE TableInv'
  BY <1>22 DEF MarkDataLoaded, Idle
<1>23. ASSUME NEW w \in Worker, StageError(w) PROVE TableInv'
  BY <1>23 DEF StageError
<1>24. ASSUME NEW w \in Worker, FailureIgnored(w) PROVE TableInv'
  BY <1>24 DEF FailureIgnored, Idle
<1>25. ASSUME NEW w \in Worker, mark_import_failure(w) PROVE TableInv'
  BY <1>25 DEF mark_import_failure, Idle
<1>26. ASSUME NEW w \in Worker, cleanup_backfill_tables(w) PROVE TableInv'
  BY <1>26 DEF cleanup_backfill_tables, DropTables, Idle
<1>27. ASSUME NEW w \in Worker, Crash(w) PROVE TableInv'
  BY <1>27 DEF Crash, Idle
<1>28. CASE PostProcessing
  BY <1>28 DEF PostProcessing
<1>29. CASE cleanup_backfill_shadow
  BY <1>29 DEF cleanup_backfill_shadow, DropTables
<1>30. CASE Expire
  BY <1>30 DEF Expire
<1>31. ASSUME NEW k \in Contested, OtherUpload(k) PROVE TableInv'
  BY <1>31 DEF OtherUpload
<1>32. CASE UNCHANGED vars
  BY <1>32 DEF vars
<1> QED
  BY <1>0, <1>1, <1>2, <1>3, <1>4, <1>5, <1>6, <1>7, <1>8, <1>9, <1>10, <1>11, <1>12,
     <1>13, <1>14, <1>15, <1>16, <1>17, <1>18, <1>19, <1>20, <1>21, <1>22,
     <1>23, <1>24, <1>25, <1>26, <1>27, <1>28, <1>29, <1>30, <1>31, <1>32 DEF
     Next, WorkerStep

LEMMA FilledStep ==
  ASSUME \A v, w \in Worker : v = w,
         Types, PhaseInv, RowInv, TableInv, FilledInv, [Next]_vars, rollbacks' = 0
  PROVE  FilledInv'
<1>0. ~ RollbackRequest /\ ~ RollbackRefused /\ ~ rollback_backfill
  BY NoRollback
<1>00. /\ shadow' = shadow => InShadow' = InShadow
       /\ "shadow" \notin tables => phase \notin {"materializing", "validating", "ready", "merging"}
  BY DEF InShadow, TableInv, Staging
<1> USE <1>00 DEF PhaseInv, Materializes, Merges, RowInv
<1> USE DEF FilledInv, rowVars, importVars, cursors, stateVars, shadowVars, tableVars, handVars, localVars,
        durable, otherVars
<1>1. ASSUME NEW w \in Worker, claim_import(w) PROVE FilledInv'
  BY <1>1 DEF claim_import
<1>2. ASSUME NEW w \in Worker, ensure_backfill_state(w) PROVE FilledInv'
  BY <1>2 DEF ensure_backfill_state
<1>3. ASSUME NEW w \in Worker, LeaseLost(w) PROVE FilledInv'
  BY <1>3 DEF LeaseLost, Idle
<1>4. ASSUME NEW w \in Worker, NextChunk(w) PROVE FilledInv'
  BY <1>4 DEF NextChunk
<1>5. ASSUME NEW w \in Worker, stage_backfill_chunk(w) PROVE FilledInv'
  BY <1>5 DEF stage_backfill_chunk
<1>6. ASSUME NEW w \in Worker, ReadPhase(w) PROVE FilledInv'
  BY <1>6 DEF ReadPhase
<1>7. ASSUME NEW w \in Worker, StartMaterializing(w) PROVE FilledInv'
  <2>1. materialize_cursor' = 0 /\ phase' = "materializing"
    BY <1>7 DEF StartMaterializing
  <2> QED
    BY <2>1, KeyAssumption
<1>8. ASSUME NEW w \in Worker, Reload(w) PROVE FilledInv'
  BY <1>8 DEF Reload
<1>9. ASSUME NEW w \in Worker, MaterializeBucket(w) PROVE FilledInv'
  <2> DEFINE b == InHand(w)
  <2>1. phase = "materializing" /\ phase' = phase /\ b = materialize_cursor
    BY <1>9 DEF MaterializeBucket, InHand, Resumes
  <2>2. materialize_cursor' = b + 1 /\ b \in Nat
    <3>1. view[w].cursor = materialize_cursor
      BY <1>9 DEF MaterializeBucket, Resumes
    <3>2. materialize_cursor \in Nat
      BY CountsAssumption DEF Types, TypeOK
    <3> QED
      BY <1>9, <2>1, <3>1, <3>2 DEF MaterializeBucket
  <2>3. raw = Chunk
    BY <2>1 DEF TableInv, Staging
  <2>4. \A k \in Key : Bucket[k] = b => k \in Rows(b)
    BY <2>3, KeyAssumption DEF Rows
  <2>5. \/ shadow' = shadow /\ Rows(b) = {}
        \/ shadow' = shadow \union {[id |-> serial + 1, keys |-> Rows(b)]}
    BY <1>9 DEF MaterializeBucket
  <2>6. InShadow \union Rows(b) \subseteq InShadow'
    BY <2>5 DEF InShadow
  <2>7. \A k \in Key : Bucket[k] < b => k \in InShadow
    BY <2>1
  <2> HIDE DEF b
  <2>8. \A k \in Key : Bucket[k] \in Nat
    BY KeyAssumption
  <2> QED
    BY <2>1, <2>2, <2>4, <2>6, <2>7, <2>8
<1>10. ASSUME NEW w \in Worker, RowBeatLost(w) PROVE FilledInv'
  BY <1>10 DEF RowBeatLost, Idle
<1>11. ASSUME NEW w \in Worker, BucketBeat(w) PROVE FilledInv'
  BY <1>11 DEF BucketBeat
<1>12. ASSUME NEW w \in Worker, IndexAndValidate(w) PROVE FilledInv'
  <2>0. materialize_cursor \in Nat /\ NumBuckets \in Nat
    BY CountsAssumption DEF Types, TypeOK
  <2>1. /\ shadow' = shadow
        /\ phase' = IF view[w].phase = "validating" THEN phase ELSE "validating"
    BY <1>12 DEF IndexAndValidate
  <2>2. \/ phase = "validating" /\ view[w].phase = "validating"
        \/ /\ phase = "materializing" /\ materialize_cursor >= NumBuckets
           /\ view[w].phase = "materializing"
    <3>1. CASE pc[w] = "index"
      BY <2>0, <3>1
    <3>2. CASE pc[w] = "materialize" /\ view[w].phase = "validating"
      BY <3>2
    <3>3. CASE Resumes(w) /\ InHand(w) >= NumBuckets
      BY <3>3 DEF Resumes, InHand
    <3> QED
      BY <1>12, <3>1, <3>2, <3>3 DEF IndexAndValidate
  <2>3. materialize_cursor \in Nat /\ \A k \in Key : Bucket[k] \in Nat /\ Bucket[k] < NumBuckets
    BY KeyAssumption, CountsAssumption DEF Types, TypeOK
  <2>4. Key \subseteq InShadow
    BY <2>2, <2>3, CountsAssumption
  <2> QED
    BY <2>1, <2>4
<1>13. ASSUME NEW w \in Worker, MarkReady(w) PROVE FilledInv'
  BY <1>13 DEF MarkReady
<1>14. ASSUME NEW w \in Worker, DropRaw(w) PROVE FilledInv'
  BY <1>14 DEF DropRaw
<1>15. ASSUME NEW w \in Worker, MergeRead(w) PROVE FilledInv'
  BY <1>15 DEF MergeRead
<1>16. ASSUME NEW w \in Worker, StartMerging(w) PROVE FilledInv'
  BY <1>16 DEF StartMerging, Fresh
<1>17. ASSUME NEW w \in Worker, MergeCheck(w) PROVE FilledInv'
  BY <1>17 DEF MergeCheck, MergeIn
<1>18. ASSUME NEW w \in Worker, PageBeat(w) PROVE FilledInv'
  BY <1>18 DEF PageBeat
<1>19. ASSUME NEW w \in Worker, MergeStopped(w) PROVE FilledInv'
  BY <1>19 DEF MergeStopped
<1>20. ASSUME NEW w \in Worker, MergePage(w) PROVE FilledInv'
  BY <1>20 DEF MergePage, MergeInto, Merging
<1>21. ASSUME NEW w \in Worker, MergeDone(w) PROVE FilledInv'
  BY <1>21 DEF MergeDone, Merging
<1>22. ASSUME NEW w \in Worker, MarkDataLoaded(w) PROVE FilledInv'
  BY <1>22 DEF MarkDataLoaded, Idle
<1>23. ASSUME NEW w \in Worker, StageError(w) PROVE FilledInv'
  BY <1>23 DEF StageError
<1>24. ASSUME NEW w \in Worker, FailureIgnored(w) PROVE FilledInv'
  BY <1>24 DEF FailureIgnored, Idle
<1>25. ASSUME NEW w \in Worker, mark_import_failure(w) PROVE FilledInv'
  BY <1>25 DEF mark_import_failure, Idle
<1>26. ASSUME NEW w \in Worker, cleanup_backfill_tables(w) PROVE FilledInv'
  BY <1>26 DEF cleanup_backfill_tables, DropTables, Idle
<1>27. ASSUME NEW w \in Worker, Crash(w) PROVE FilledInv'
  BY <1>27 DEF Crash, Idle
<1>28. CASE PostProcessing
  BY <1>28 DEF PostProcessing
<1>29. CASE cleanup_backfill_shadow
  BY <1>29 DEF cleanup_backfill_shadow, DropTables
<1>30. CASE Expire
  BY <1>30 DEF Expire
<1>31. ASSUME NEW k \in Contested, OtherUpload(k) PROVE FilledInv'
  BY <1>31 DEF OtherUpload
<1>32. CASE UNCHANGED vars
  BY <1>32 DEF vars
<1> QED
  BY <1>0, <1>1, <1>2, <1>3, <1>4, <1>5, <1>6, <1>7, <1>8, <1>9, <1>10, <1>11, <1>12,
     <1>13, <1>14, <1>15, <1>16, <1>17, <1>18, <1>19, <1>20, <1>21, <1>22,
     <1>23, <1>24, <1>25, <1>26, <1>27, <1>28, <1>29, <1>30, <1>31, <1>32 DEF
     Next, WorkerStep

LEMMA MergedStep ==
  ASSUME \A v, w \in Worker : v = w,
         Types, PhaseInv, RowInv, FilledInv, ShadowInv, MergedInv, [Next]_vars, rollbacks' = 0
  PROVE  MergedInv'
<1>0. ~ RollbackRequest /\ ~ RollbackRefused /\ ~ rollback_backfill
  BY NoRollback
<1>00. /\ pc \in [Worker -> PC] /\ view \in [Worker -> View] /\ at \in [Worker -> Nat]
       /\ \A page \in shadow : page.id \in Nat \ {0} /\ page.keys \subseteq Key
       /\ \A w \in Worker : pc[w] = "ready" => phase = "validating"
       /\ \A w \in Worker : pc[w] \in {"bucket", "materialize", "index"} => phase \in Staging
       /\ \A w \in Worker : pc[w] = "merge" => view[w] = Fresh
  BY DEF Types, TypeOK, Loaded, PhaseInv, Materializes, Merges, RowInv, Staging
<1>01. ASSUME UNCHANGED <<phase, cursors, view>> PROVE \A w \in Worker : Seen(w)' = Seen(w) /\ Fresh' = Fresh
  BY <1>01 DEF Seen, Fresh, cursors
<1> USE <1>00, <1>01 DEF Staging, RowInv
<1> USE DEF MergedInv, rowVars, importVars, cursors, stateVars, shadowVars, tableVars, handVars, localVars,
        durable, otherVars
<1>1. ASSUME NEW w \in Worker, claim_import(w) PROVE MergedInv'
  BY <1>1 DEF claim_import
<1>2. ASSUME NEW w \in Worker, ensure_backfill_state(w) PROVE MergedInv'
  BY <1>2 DEF ensure_backfill_state
<1>3. ASSUME NEW w \in Worker, LeaseLost(w) PROVE MergedInv'
  BY <1>3 DEF LeaseLost, Idle
<1>4. ASSUME NEW w \in Worker, NextChunk(w) PROVE MergedInv'
  BY <1>4 DEF NextChunk
<1>5. ASSUME NEW w \in Worker, stage_backfill_chunk(w) PROVE MergedInv'
  BY <1>5 DEF stage_backfill_chunk
<1>6. ASSUME NEW w \in Worker, ReadPhase(w) PROVE MergedInv'
  BY <1>6 DEF ReadPhase, Seen, Fresh
<1>7. ASSUME NEW w \in Worker, StartMaterializing(w) PROVE MergedInv'
  BY <1>7 DEF StartMaterializing
<1>8. ASSUME NEW w \in Worker, Reload(w) PROVE MergedInv'
  BY <1>8 DEF Reload
<1>9. ASSUME NEW w \in Worker, MaterializeBucket(w) PROVE MergedInv'
  BY <1>9 DEF MaterializeBucket, Resumes
<1>10. ASSUME NEW w \in Worker, RowBeatLost(w) PROVE MergedInv'
  BY <1>10 DEF RowBeatLost, Idle
<1>11. ASSUME NEW w \in Worker, BucketBeat(w) PROVE MergedInv'
  BY <1>11 DEF BucketBeat
<1>12. ASSUME NEW w \in Worker, IndexAndValidate(w) PROVE MergedInv'
  BY <1>12 DEF IndexAndValidate, Resumes
<1>13. ASSUME NEW w \in Worker, MarkReady(w) PROVE MergedInv'
  BY <1>13 DEF MarkReady
<1>14. ASSUME NEW w \in Worker, DropRaw(w) PROVE MergedInv'
  BY <1>14 DEF DropRaw
<1>15. ASSUME NEW w \in Worker, MergeRead(w) PROVE MergedInv'
  BY <1>15 DEF MergeRead
<1>16. ASSUME NEW w \in Worker, StartMerging(w) PROVE MergedInv'
  BY <1>16 DEF StartMerging, Fresh
<1>17. ASSUME NEW w \in Worker, MergeCheck(w) PROVE MergedInv'
  BY <1>17 DEF MergeCheck, MergeIn, Seen, Fresh
<1>18. ASSUME NEW w \in Worker, PageBeat(w) PROVE MergedInv'
  BY <1>18 DEF PageBeat, RowBeat, Seen, Fresh, ExpireView
<1>19. ASSUME NEW w \in Worker, MergeStopped(w) PROVE MergedInv'
  BY <1>19 DEF MergeStopped
<1>20. ASSUME NEW w \in Worker, MergePage(w) PROVE MergedInv'
  <2> DEFINE page == FirstPage(w)
             count == Cardinality(NewIn(page))
  <2>1. /\ page \in Remaining(w) /\ page.id \in Nat /\ page.keys \subseteq Key
        /\ \A q \in Remaining(w) : page.id <= q.id
    BY <1>20, FirstPageFacts DEF MergePage, Types
  <2>2. MergeInto(w, page, count) /\ Seen(w).phase = "merging" /\ pc[w] = "pagetxn"
    BY <1>20 DEF MergePage, Merging
  <2>3. Remaining(w) = {q \in shadow : q.id > merge_cursor} /\ phase = "merging"
    BY <2>2 DEF Remaining, Fresh
  <2> HIDE DEF page, count
  <2>4. /\ measurement' = [k \in Key |->
                             IF k \in NewIn(page) THEN "import" ELSE measurement[k]]
        /\ merge_cursor' = page.id /\ phase' = phase /\ shadow' = shadow
        /\ view' = [view EXCEPT ![w] = NoView] /\ pc' = [pc EXCEPT ![w] = "page"]
    BY <2>2 DEF MergeInto
  <2>5. merge_cursor \in Nat
    BY DEF Types, TypeOK
  <2>6. ASSUME NEW q \in shadow, q.id <= page.id, NEW k \in q.keys
        PROVE  k \in Key /\ measurement'[k] # "absent"
    <3>1. k \in Key
      BY <2>6
    <3>2. CASE q.id <= merge_cursor
      BY <2>3, <2>4, <2>6, <3>1, <3>2
    <3>3. CASE q.id > merge_cursor
      <4>1. q.id = page.id
        BY <2>1, <2>3, <2>6, <3>3
      <4>2. q = page
        BY <2>1, <2>3, <4>1 DEF ShadowInv
      <4> QED
        BY <2>4, <2>6, <3>1, <4>2 DEF NewIn
    <3> QED
      BY <2>5, <2>6, <3>2, <3>3
  <2>7. \A v \in Worker : Seen(v)' = Fresh'
    BY <2>4 DEF Seen
  <2> QED
    BY <2>3, <2>4, <2>6, <2>7
<1>21. ASSUME NEW w \in Worker, MergeDone(w) PROVE MergedInv'
  <2>1. /\ phase = "merging" /\ Remaining(w) = {q \in shadow : q.id > merge_cursor}
        /\ Remaining(w) = {}
    BY <1>21 DEF MergeDone, Merging, Remaining, Fresh
  <2>2. merge_cursor \in Nat
    BY DEF Types, TypeOK
  <2>3. \A page \in shadow : \A k \in page.keys : measurement[k] # "absent"
    BY <2>1, <2>2
  <2>4. \A k \in Key : measurement[k] # "absent"
    BY <2>1, <2>3 DEF FilledInv, InShadow
  <2>5. /\ phase' = "merged" /\ measurement' = measurement
        /\ view' = [view EXCEPT ![w] = NoView]
    BY <1>21 DEF MergeDone
  <2>6. \A v \in Worker : Seen(v)' = Fresh'
    BY <2>5 DEF Seen
  <2> QED
    BY <2>4, <2>5, <2>6
<1>22. ASSUME NEW w \in Worker, MarkDataLoaded(w) PROVE MergedInv'
  BY <1>22 DEF MarkDataLoaded, Idle
<1>23. ASSUME NEW w \in Worker, StageError(w) PROVE MergedInv'
  BY <1>23 DEF StageError
<1>24. ASSUME NEW w \in Worker, FailureIgnored(w) PROVE MergedInv'
  BY <1>24 DEF FailureIgnored, Idle
<1>25. ASSUME NEW w \in Worker, mark_import_failure(w) PROVE MergedInv'
  BY <1>25 DEF mark_import_failure, Idle
<1>26. ASSUME NEW w \in Worker, cleanup_backfill_tables(w) PROVE MergedInv'
  BY <1>26 DEF cleanup_backfill_tables, DropTables, Idle
<1>27. ASSUME NEW w \in Worker, Crash(w) PROVE MergedInv'
  BY <1>27 DEF Crash, Idle
<1>28. CASE PostProcessing
  BY <1>28 DEF PostProcessing
<1>29. CASE cleanup_backfill_shadow
  BY <1>29 DEF cleanup_backfill_shadow, DropTables
<1>30. CASE Expire
  BY <1>30 DEF Expire
<1>31. ASSUME NEW k \in Contested, OtherUpload(k) PROVE MergedInv'
  BY <1>31 DEF OtherUpload
<1>32. CASE UNCHANGED vars
  BY <1>32 DEF vars
<1> QED
  BY <1>0, <1>1, <1>2, <1>3, <1>4, <1>5, <1>6, <1>7, <1>8, <1>9, <1>10, <1>11, <1>12,
     <1>13, <1>14, <1>15, <1>16, <1>17, <1>18, <1>19, <1>20, <1>21, <1>22,
     <1>23, <1>24, <1>25, <1>26, <1>27, <1>28, <1>29, <1>30, <1>31, <1>32 DEF
     Next, WorkerStep

LEMMA UndisturbedInit == Init => UndisturbedInv
BY DEF Init, UndisturbedInv, RowInv, TableInv, FilledInv, MergedInv, Staging

LEMMA RollbacksOnlyGrow == Types /\ [Next]_vars /\ rollbacks' = 0 => rollbacks = 0
<1> SUFFICES ASSUME Types, [Next]_vars, rollbacks' = 0 PROVE rollbacks = 0
  OBVIOUS
<1> USE DEF otherVars, RollbackDeleting
<1>1. CASE RollbackRequest
  BY <1>1, CountsAssumption DEF RollbackRequest, Types, TypeOK
<1>2. CASE RollbackRefused \/ rollback_backfill \/ PostProcessing \/ cleanup_backfill_shadow
            \/ Expire \/ \E k \in Contested : OtherUpload(k)
  BY <1>2 DEF RollbackRefused, rollback_backfill, PostProcessing, cleanup_backfill_shadow,
     Expire, OtherUpload
<1>3. ASSUME NEW w \in Worker, WorkerStep(w) \/ Crash(w) PROVE rollbacks = 0
  BY <1>3 DEF WorkerStep, Crash, claim_import, ensure_backfill_state, LeaseLost, NextChunk,
     stage_backfill_chunk, ReadPhase, StartMaterializing, Reload, MaterializeBucket,
     RowBeatLost, BucketBeat, IndexAndValidate, MarkReady, DropRaw, MergeRead,
     StartMerging, MergeCheck, PageBeat, MergeStopped, MergePage, MergeInto, MergeDone,
     MarkDataLoaded, StageError, FailureIgnored, mark_import_failure,
     cleanup_backfill_tables
<1>4. CASE UNCHANGED vars
  BY <1>4 DEF vars
<1> QED
  BY <1>1, <1>2, <1>3, <1>4 DEF Next

LEMMA UndisturbedStep ==
  ASSUME \A v, w \in Worker : v = w
  PROVE  Types /\ PhaseInv /\ ShadowInv /\ UndisturbedInv /\ [Next]_vars
           => UndisturbedInv'
<1> SUFFICES ASSUME Types, PhaseInv, ShadowInv, UndisturbedInv, [Next]_vars, rollbacks' = 0
             PROVE  RowInv' /\ TableInv' /\ FilledInv' /\ MergedInv'
  BY DEF UndisturbedInv
<1>1. RowInv /\ TableInv /\ FilledInv /\ MergedInv
  BY RollbacksOnlyGrow DEF UndisturbedInv
<1> QED
  BY <1>1, RowStep, TableStep, FilledStep, MergedStep

BackfillInv == Types /\ PhaseInv /\ ShadowInv /\ UndisturbedInv

LEMMA BackfillInvCorrect ==
  ASSUME \A v, w \in Worker : v = w
  PROVE  Spec => []BackfillInv
<1>1. Init => BackfillInv
  BY TypesInit, PhaseInit, ShadowInit, UndisturbedInit DEF BackfillInv
<1>2. BackfillInv /\ [Next]_vars => BackfillInv'
  BY TypesStep, PhaseStep, ShadowStep, UndisturbedStep DEF BackfillInv
<1> QED
  BY <1>1, <1>2, PTL DEF Spec

\* The raw table is dropped only when the shadow table holds every value of the
\* import, and it holds them until the import is merged or rolled back.
THEOREM ShadowsAreRecoveryCopies ==
  ASSUME \A v, w \in Worker : v = w
  PROVE  Spec => []RecoveryCopy
<1>1. BackfillInv => RecoveryCopy
  <2> SUFFICES ASSUME BackfillInv, rollbacks = 0, phase \in {"ready", "merging"}
               PROVE  InShadow = Key
    BY DEF RecoveryCopy
  <2>1. InShadow \subseteq Key
    BY DEF InShadow, BackfillInv, Types, TypeOK
  <2>2. Key \subseteq InShadow
    BY DEF BackfillInv, UndisturbedInv, FilledInv
  <2> QED
    BY <2>1, <2>2
<1> QED
  BY <1>1, BackfillInvCorrect, PTL

\* Whatever step of staging, materializing and merging crashes have interrupted,
\* an import that says its data is loaded has all its values in measurements,
\* unless the owner has asked for a rollback.
THEOREM UndisturbedImportsAreComplete ==
  ASSUME \A v, w \in Worker : v = w
  PROVE  Spec => []UndisturbedIsComplete
<1>1. BackfillInv => UndisturbedIsComplete
  BY DEF BackfillInv, UndisturbedInv, RowInv, MergedInv, UndisturbedIsComplete,
     LoadedIsComplete
<1> QED
  BY <1>1, BackfillInvCorrect, PTL
-----------------------------------------------------------------------------
(***************************************************************************)
(* Theorems about Export. A page is the slice of what can be listed whose  *)
(* ranks begin at the offset, so that all depends on how a write moves the *)
(* rank of what it does not touch.                                         *)
(***************************************************************************)
\* How many of S come before x.
Rank(S, x) == Cardinality({y \in S : y < x})

LEMMA RankFacts ==
  ASSUME NEW S \in SUBSET Nat, IsFiniteSet(S), NEW x \in Nat
  PROVE  /\ Rank(S, x) \in Nat
         /\ Rank(S, x) <= Cardinality(S) /\ Cardinality(S) \in Nat
         /\ x \in S => Rank(S, x) < Cardinality(S)
         /\ \A y \in Nat : x <= y => Rank(S, x) <= Rank(S, y)
         /\ x \in S => \A y \in Nat : x < y => Rank(S, x) < Rank(S, y)
<1> DEFINE B(z) == {y \in S : y < z}
<1>1. ASSUME NEW z \in Nat
      PROVE  IsFiniteSet(B(z)) /\ Cardinality(B(z)) \in Nat /\ Cardinality(B(z)) <= Cardinality(S)
  BY FS_Subset, FS_CardinalityType
<1>2. x \in S => B(x) # S
  OBVIOUS
<1>3. Cardinality(S) \in Nat
  BY FS_CardinalityType
<1>4. x \in S => Cardinality(B(x)) < Cardinality(S)
  <2>1. B(x) \subseteq S
    OBVIOUS
  <2>2. B(x) # S /\ Cardinality(B(x)) <= Cardinality(S) => Cardinality(B(x)) # Cardinality(S)
    BY <2>1, FS_Subset
  <2> QED
    BY <1>1, <1>2, <1>3, <2>2
<1>5. ASSUME NEW y \in Nat, x <= y PROVE Cardinality(B(x)) <= Cardinality(B(y))
  <2>1. \A z \in S : z \in Nat /\ (z < x => z < y)
    BY <1>5
  <2>2. B(x) \subseteq B(y) /\ IsFiniteSet(B(y))
    BY <1>1, <2>1
  <2> HIDE DEF B
  <2> QED
    BY <2>2, FS_Subset
<1>6. ASSUME NEW y \in Nat, x < y, x \in S PROVE Cardinality(B(x)) < Cardinality(B(y))
  <2>1. B(x) \subseteq B(y) /\ B(x) # B(y)
    <3>1. x \in B(y) /\ x \notin B(x)
      BY <1>6
    <3>2. \A z \in S : z \in Nat /\ (z < x => z < y)
      BY <1>6
    <3> QED
      BY <3>1, <3>2
  <2>2. IsFiniteSet(B(y)) /\ Cardinality(B(x)) \in Nat /\ Cardinality(B(y)) \in Nat
    BY <1>1
  <2> HIDE DEF B
  <2> QED
    BY <2>1, <2>2, FS_Subset
<1> QED
  BY <1>1, <1>3, <1>4, <1>5, <1>6 DEF Rank

\* A set that has not lost what came before x has it at no lower rank.
LEMMA RankGrows ==
  ASSUME NEW S, NEW T, IsFiniteSet(T), NEW x, {y \in S : y < x} \subseteq T
  PROVE  /\ Rank(S, x) <= Rank(T, x)
<1>1. {y \in S : y < x} \subseteq {y \in T : y < x}
  OBVIOUS
<1>2. IsFiniteSet({y \in T : y < x})
  BY FS_Subset
<1> QED
  BY <1>1, <1>2, FS_Subset DEF Rank

\* The ranks are all numbers below the size of S, so that the query's order is one.
LEMMA OrderedFacts ==
  ASSUME NEW S \in SUBSET Nat, IsFiniteSet(S)
  PROVE  /\ Ordered(S) \in Seq(S) /\ Len(Ordered(S)) = Cardinality(S) /\ Cardinality(S) \in Nat
         /\ \A i \in 1..Cardinality(S) : Ordered(S)[i] \in S /\ Rank(S, Ordered(S)[i]) = i - 1
         /\ \A x \in S : /\ Rank(S, x) + 1 \in 1..Cardinality(S)
                         /\ Ordered(S)[Rank(S, x) + 1] = x
<1> DEFINE n == Cardinality(S)
           f == [x \in S |-> Rank(S, x)]
<1>1. n \in Nat
  BY FS_CardinalityType
<1>2. \A x \in S : Rank(S, x) \in 0..(n - 1)
  BY <1>1, RankFacts
<1>3. \A x, y \in S : Rank(S, x) = Rank(S, y) => x = y
  <2> SUFFICES ASSUME NEW x \in S, NEW y \in S, x < y PROVE Rank(S, x) # Rank(S, y)
    OBVIOUS
  <2> QED
    BY RankFacts
<1>4. f \in Injection(S, 0..(n - 1))
  BY <1>2, <1>3 DEF Injection, IsInjective
<1>5. IsFiniteSet(0..(n - 1)) /\ Cardinality(0..(n - 1)) = n
  <2>1. 0 \in Int /\ n - 1 \in Int
    BY <1>1
  <2> HIDE DEF n
  <2> QED
    BY <1>1, <2>1, FS_Interval
<1>6. f \in Surjection(S, 0..(n - 1))
  <2> HIDE DEF f, n
  <2> QED
    BY <1>4, <1>5, FS_Injection DEF n
<1>7. \A i \in 1..n : \E x \in S : Rank(S, x) = i - 1
  <2> SUFFICES ASSUME NEW i \in 1..n PROVE \E x \in S : f[x] = i - 1
    OBVIOUS
  <2>1. i - 1 \in 0..(n - 1)
    BY <1>1
  <2> HIDE DEF f, n
  <2> QED
    BY <1>6, <2>1 DEF Surjection
<1> DEFINE g == [i \in 1..n |-> CHOOSE x \in S : Rank(S, x) = i - 1]
<1>8. Ordered(S) = g
  BY DEF Ordered, Rank
<1>9. \A i \in 1..n : g[i] \in S /\ Rank(S, g[i]) = i - 1
  BY <1>7
<1>10. g \in Seq(S) /\ Len(g) = n
  <2>1. g \in [1..n -> S]
    BY <1>9
  <2> HIDE DEF g
  <2> QED
    BY <1>1, <2>1
<1> HIDE DEF g
<1>11. \A x \in S : Rank(S, x) + 1 \in 1..n /\ g[Rank(S, x) + 1] = x
  <2> SUFFICES ASSUME NEW x \in S
               PROVE  Rank(S, x) + 1 \in 1..n /\ g[Rank(S, x) + 1] = x
    OBVIOUS
  <2>1. Rank(S, x) \in Nat /\ Rank(S, x) + 1 \in 1..n
    BY <1>1, <1>2
  <2>2. g[Rank(S, x) + 1] \in S /\ Rank(S, g[Rank(S, x) + 1]) = Rank(S, x)
    BY <1>9, <2>1
  <2> QED
    BY <1>3, <2>1, <2>2
<1> QED
  BY <1>1, <1>8, <1>9, <1>10, <1>11

\* LIMIT ChunkSize OFFSET from.
LEMMA SliceFacts ==
  ASSUME NEW S \in SUBSET Nat, IsFiniteSet(S), NEW from \in Nat
  PROVE  LET s == Slice(Ordered(S), from) IN
         /\ s \in Seq(S)
         /\ \A i \in 1..Len(s) : /\ s[i] \in S
                                 /\ Rank(S, s[i]) >= from /\ Rank(S, s[i]) < from + ChunkSize
         /\ \A i, j \in 1..Len(s) : i < j => s[i] < s[j]
         /\ \A x \in S : Rank(S, x) >= from /\ Rank(S, x) < from + ChunkSize
                           => \E i \in 1..Len(s) : s[i] = x
         /\ s = <<>> => Cardinality(S) <= from
<1> DEFINE n == Cardinality(S)
           o == Ordered(S)
           m == Min({from + ChunkSize, n})
           s == SubSeq(o, from + 1, m)
<1>1. n \in Nat /\ o \in Seq(S) /\ Len(o) = n /\ ChunkSize \in Nat \ {0}
  BY OrderedFacts, WritesAssumption
<1>2. m = IF from + ChunkSize <= n THEN from + ChunkSize ELSE n
  <2>1. \E x \in {from + ChunkSize, n} : \A y \in {from + ChunkSize, n} : x <= y
    BY <1>1
  <2>2. m \in {from + ChunkSize, n} /\ m <= from + ChunkSize /\ m <= n
    BY <2>1 DEF Min
  <2> QED
    BY <1>1, <2>2
<1> HIDE DEF m
<1> DEFINE l == IF from + 1 <= m THEN m - from ELSE 0
<1>3. l \in Nat /\ m \in Nat /\ m <= n
  BY <1>1, <1>2
<1>4. s \in Seq(S) /\ Len(s) = l /\ \A i \in 1..l : s[i] = o[from + i]
  <2>1. CASE from + 1 <= m
    BY <1>1, <1>3, <2>1
  <2>2. CASE ~(from + 1 <= m)
    BY <1>1, <1>3, <2>2
  <2> QED
    BY <2>1, <2>2
<1>5. Slice(o, from) = s
  BY <1>1 DEF Slice, m
<1> HIDE DEF s, o, l
<1>6. ASSUME NEW i \in 1..l PROVE from + i \in 1..n /\ from + i <= from + ChunkSize
  BY <1>1, <1>2, <1>3 DEF l
<1>7. \A i \in 1..l : s[i] \in S /\ Rank(S, s[i]) = from + i - 1
  <2> SUFFICES ASSUME NEW i \in 1..l
               PROVE  s[i] \in S /\ Rank(S, s[i]) = from + i - 1
    OBVIOUS
  <2>1. s[i] = o[from + i] /\ from + i \in 1..n
    BY <1>4, <1>6
  <2>2. o[from + i] \in S /\ Rank(S, o[from + i]) = (from + i) - 1
    BY <2>1, OrderedFacts DEF o
  <2> QED
    BY <2>1, <2>2
<1>8. ASSUME NEW i \in 1..l, NEW j \in 1..l, i < j PROVE s[i] < s[j]
  <2>1. s[i] \in Nat /\ s[j] \in Nat /\ Rank(S, s[i]) < Rank(S, s[j])
    <3>1. /\ s[i] \in S /\ Rank(S, s[i]) = from + i - 1
          /\ s[j] \in S /\ Rank(S, s[j]) = from + j - 1
      BY <1>7
    <3>2. i \in Nat /\ j \in Nat /\ from + i - 1 < from + j - 1
      BY <1>3, <1>8
    <3> QED
      BY <3>1, <3>2
  <2> SUFFICES ASSUME s[j] <= s[i] PROVE FALSE
    BY <2>1
  <2> QED
    BY <2>1, RankFacts
<1>9. ASSUME NEW x \in S, Rank(S, x) >= from, Rank(S, x) < from + ChunkSize
      PROVE  \E i \in 1..l : s[i] = x
  <2> DEFINE i == Rank(S, x) + 1 - from
  <2>1. Rank(S, x) + 1 \in 1..n /\ o[Rank(S, x) + 1] = x
    BY OrderedFacts DEF o
  <2>2. Rank(S, x) \in Nat
    BY RankFacts
  <2>3. i \in 1..l /\ from + i = Rank(S, x) + 1
    BY <1>1, <1>2, <1>9, <2>1, <2>2 DEF l
  <2> QED
    BY <1>4, <2>1, <2>3
<1>10. s = <<>> => n <= from
  BY <1>1, <1>2, <1>3, <1>4 DEF l
<1>11. \A i \in 1..l : Rank(S, s[i]) >= from /\ Rank(S, s[i]) < from + ChunkSize
  <2> SUFFICES ASSUME NEW i \in 1..l
               PROVE  from + i - 1 >= from /\ from + i - 1 < from + ChunkSize
    BY <1>7
  <2> QED
    BY <1>1, <1>3, <1>6
<1> QED
  BY <1>4, <1>5, <1>7, <1>8, <1>9, <1>10, <1>11 DEF o
-----------------------------------------------------------------------------
(***************************************************************************)
(* Types.                                                                  *)
(***************************************************************************)
Pivoted == UNION {[H -> Value \union {None}] : H \in SUBSET Alias}
Cells == Pivoted \union Alias \union {None}
Line == [key : Nat, cells : Cells]

TableTypes ==
  /\ used \subseteq 1..Sensors
  /\ alias \in [Sensor -> Alias \union {None}]
  /\ Sensor \subseteq used
  /\ rows \subseteq Row
  /\ \A r \in rows : r.sensor \in Sensor

RunTypes ==
  /\ kind \in {"none", "measurements", "sensors"}
  /\ stage \in {"idle", "header", "page", "values", "done", "stopped"}
  /\ stage = "idle" <=> kind = "none"
  /\ stage \in {"header", "values"} => kind = "measurements"
  /\ stage \in {"idle", "header"} => out = <<>> /\ offset = 0
  /\ stage # "values" => chunk = <<>> /\ built = <<>>
  /\ stage = "values" => chunk # <<>>
  /\ header \subseteq Alias
  /\ offset \in Nat
  /\ chunk \in Seq(Nat) /\ built \in Seq(Line) /\ out \in Seq(Line)

ExportTypes == TableTypes /\ RunTypes

Write ==
  \/ \E r \in Row : create_measurement(r)
  \/ \E r, new \in Row : update_measurement(r, new)
  \/ \E s \in 1..Sensors : \/ delete_sensor_measurements(s)
                           \/ delete_sensor(s)
                           \/ \E a \in Alias \union {None} :
                                create_sensors(s, a) \/ update_sensor(s, a)

LEMMA ListableFacts ==
  ASSUME TableTypes
  PROVE  /\ Listable \in SUBSET Nat /\ IsFiniteSet(Listable)
         /\ \A r \in Named : r.key \in Groups /\ r.key \in Nat /\ r.value \in Value
                               /\ r.sensor \in Sensor /\ alias[r.sensor] \in Alias
<1>1. Sensor \in SUBSET Nat /\ IsFiniteSet(Sensor)
  <2>1. Sensor \in SUBSET (1..Sensors) /\ Sensors \in Nat
    BY WritesAssumption DEF TableTypes
  <2>2. IsFiniteSet(1..Sensors) /\ (1..Sensors) \subseteq Nat
    BY <2>1, FS_Interval
  <2>3. IsFiniteSet(Sensor)
    BY <2>1, <2>2, FS_Subset
  <2> QED
    BY <2>1, <2>2, <2>3
<1>2. \A r \in Named : r.key \in Combination /\ r.value \in Value
                         /\ r.sensor \in Sensor /\ alias[r.sensor] \in Alias
  BY DEF Named, TableTypes, Row
<1>3. Groups \in SUBSET Combination
  BY <1>2 DEF Groups
<1>4. Groups \in SUBSET Nat /\ IsFiniteSet(Groups)
  BY <1>3, CombinationAssumption, FS_Subset
<1> QED
  BY <1>1, <1>2, <1>4, CombinationAssumption DEF Listable, Groups

LEMMA ListableTypesNext == TableTypes' => Listable' \in SUBSET Nat /\ IsFiniteSet(Listable')
<1> DEFINE Fact == Listable \in SUBSET Nat /\ IsFiniteSet(Listable)
<1>1. TableTypes => Fact
  BY ListableFacts
<1> HIDE DEF Fact
<1>2. TableTypes' => Fact'
  BY <1>1, PTL
<1> QED
  BY <1>2 DEF Fact

\* A write keeps the tables' types.
LEMMA WriteTables ==
  ASSUME TableTypes, Write
  PROVE  TableTypes' /\ used \subseteq used' /\ Writes
<1>1. ASSUME NEW r \in Row, create_measurement(r)
      PROVE  TableTypes' /\ used \subseteq used' /\ Writes
  BY <1>1 DEF create_measurement, TableTypes, Row, Sensor
<1>2. ASSUME NEW r \in Row, NEW new \in Row, update_measurement(r, new)
      PROVE  TableTypes' /\ used \subseteq used' /\ Writes
  BY <1>2 DEF update_measurement, TableTypes, Row, Sensor
<1>3. ASSUME NEW new \in 1..Sensors, NEW a \in Alias \union {None}, create_sensors(new, a)
      PROVE  TableTypes' /\ used \subseteq used' /\ Writes
  <2>1. /\ used' = used \union {new} /\ rows' = rows /\ Writes
        /\ alias' = [s \in Sensor \union {new} |-> IF s = new THEN a ELSE alias[s]]
    BY <1>3 DEF create_sensors
  <2>2. Sensor' = Sensor \union {new}
    BY <2>1 DEF Sensor
  <2>3. \A s \in Sensor' : alias'[s] \in Alias \union {None}
    BY <2>1, <2>2 DEF TableTypes
  <2>4. alias' = [s \in Sensor' |-> alias'[s]]
    BY <2>1, <2>2
  <2>5. alias' \in [Sensor' -> Alias \union {None}]
    BY <2>3, <2>4
  <2>6. rows' \subseteq Row /\ \A r \in rows' : r.sensor \in Sensor'
    BY <2>1, <2>2 DEF TableTypes, Row
  <2>7. used' \subseteq 1..Sensors /\ Sensor' \subseteq used'
    BY <2>1, <2>2 DEF TableTypes
  <2> QED
    BY <2>1, <2>5, <2>6, <2>7 DEF TableTypes
<1>4. ASSUME NEW s \in 1..Sensors, delete_sensor_measurements(s)
      PROVE  TableTypes' /\ used \subseteq used' /\ Writes
  BY <1>4 DEF delete_sensor_measurements, TableTypes, Row, Sensor
<1>5. ASSUME NEW s \in 1..Sensors, delete_sensor(s)
      PROVE  TableTypes' /\ used \subseteq used' /\ Writes
  <2>1. /\ used' = used /\ rows' = {r \in rows : r.sensor # s} /\ Writes
        /\ alias' = [t \in Sensor \ {s} |-> alias[t]]
    BY <1>5 DEF delete_sensor
  <2>2. Sensor' = Sensor \ {s}
    BY <2>1 DEF Sensor
  <2> QED
    BY <2>1, <2>2 DEF TableTypes, Row
<1>6. ASSUME NEW s \in 1..Sensors, NEW a \in Alias \union {None}, update_sensor(s, a)
      PROVE  TableTypes' /\ used \subseteq used' /\ Writes
  BY <1>6 DEF update_sensor, TableTypes, Row, Sensor
<1> QED
  BY <1>1, <1>2, <1>3, <1>4, <1>5, <1>6 DEF Write

LEMMA SameTables ==
  ASSUME UNCHANGED stationTables
  PROVE  /\ Named' = Named /\ Groups' = Groups /\ Facts' = Facts /\ Pairs' = Pairs
         /\ (TableTypes => TableTypes') /\ (kind' = kind => Listable' = Listable)
BY DEF stationTables, Named, Groups, Facts, Pairs, TableTypes, Listable, Sensor

\* The two ways in which a line's values are read: with more of the page to do, or the last.
ReadOne(cells) ==
  /\ cells \in [header -> Value \union {None}]
  /\ \A a \in header :
       /\ ValuesOf(a, Head(chunk)) = {} => cells[a] = None
       /\ ValuesOf(a, Head(chunk)) # {} => cells[a] \in ValuesOf(a, Head(chunk))

LineOf(cells) == [key |-> Head(chunk), cells |-> cells]

LEMMA ReadCases ==
  ASSUME RunTypes, ReadValues
  PROVE  /\ stage = "values" /\ kind = "measurements" /\ Len(chunk) \in Nat \ {0}
         /\ Head(chunk) = chunk[1] /\ Head(chunk) \in Nat
         /\ UNCHANGED <<stationTables, kind, header, history>>
         /\ \E cells : /\ ReadOne(cells) /\ LineOf(cells) \in Line
                       /\ \/ /\ Len(chunk) > 1 /\ chunk' = Tail(chunk)
                             /\ built' = Append(built, LineOf(cells))
                             /\ UNCHANGED <<stage, out, offset>>
                          \/ /\ Len(chunk) = 1 /\ chunk' = <<>> /\ built' = <<>>
                             /\ out' = out \o Append(built, LineOf(cells))
                             /\ offset' = offset + ChunkSize /\ stage' = "page"
<1>1. stage = "values" /\ kind = "measurements" /\ chunk \in Seq(Nat) /\ chunk # <<>>
  BY DEF ReadValues, RunTypes
<1>2. Len(chunk) \in Nat \ {0} /\ Head(chunk) = chunk[1] /\ Head(chunk) \in Nat
  BY <1>1
<1>3. PICK cells \in [header -> Value \union {None}] :
        /\ \A a \in header :
             LET found == ValuesOf(a, Head(chunk)) IN
             IF found = {} THEN cells[a] = None ELSE cells[a] \in found
        /\ LET lines == Append(built, [key |-> Head(chunk), cells |-> cells]) IN
           IF Len(chunk) > 1
             THEN /\ chunk' = Tail(chunk) /\ built' = lines
                  /\ UNCHANGED <<stage, out, offset>>
             ELSE /\ chunk' = <<>> /\ built' = <<>>
                  /\ out' = out \o lines
                  /\ offset' = offset + ChunkSize
                  /\ stage' = "page"
  BY DEF ReadValues
<1>4. ReadOne(cells)
  BY <1>3 DEF ReadOne
<1>5. LineOf(cells) \in Line
  <2>1. cells \in Cells
    BY DEF RunTypes, Cells, Pivoted
  <2> QED
    BY <1>2, <2>1 DEF LineOf, Line
<1>6. \/ /\ Len(chunk) > 1 /\ chunk' = Tail(chunk)
         /\ built' = Append(built, LineOf(cells))
         /\ UNCHANGED <<stage, out, offset>>
      \/ /\ ~(Len(chunk) > 1) /\ chunk' = <<>> /\ built' = <<>>
         /\ out' = out \o Append(built, LineOf(cells))
         /\ offset' = offset + ChunkSize /\ stage' = "page"
  BY <1>3 DEF LineOf
<1>7. ~(Len(chunk) > 1) => Len(chunk) = 1
  <2> DEFINE n == Len(chunk)
  <2>1. n \in Nat /\ n # 0
    BY <1>2
  <2> HIDE DEF n
  <2>2. ~(n > 1) => n = 1
    BY <2>1
  <2> QED
    BY <2>2 DEF n
<1>8. UNCHANGED <<stationTables, kind, header, history>>
  BY DEF ReadValues
<1> QED
  BY <1>1, <1>2, <1>4, <1>5, <1>6, <1>7, <1>8

LEMMA ExportTypesInit == ExportInit => ExportTypes
<1> SUFFICES ASSUME ExportInit PROVE ExportTypes
  OBVIOUS
<1>1. PICK S \in SUBSET used : alias \in [S -> Alias \union {None}]
  BY DEF ExportInit
<1>2. Sensor = S /\ Sensor \subseteq used /\ alias \in [Sensor -> Alias \union {None}]
  BY <1>1 DEF Sensor
<1>3. used \subseteq 1..Sensors
  BY DEF ExportInit
<1>4. rows \subseteq [sensor : Sensor, key : Combination, value : Value]
  BY DEF ExportInit
<1>5. rows \subseteq Row /\ \A r \in rows : r.sensor \in Sensor
  <2>1. Sensor \subseteq 1..Sensors
    BY <1>2, <1>3
  <2> QED
    BY <1>4, <2>1 DEF Row
<1>6. RunTypes
  BY DEF ExportInit, RunTypes
<1> QED
  BY <1>2, <1>3, <1>5, <1>6 DEF ExportTypes, TableTypes

LEMMA PageFacts ==
  ASSUME TableTypes, offset \in Nat
  PROVE  /\ PageOf(Listed) \in Seq(Nat)
         /\ \A i \in 1..Len(PageOf(Listed)) :
              /\ PageOf(Listed)[i] \in Listable
              /\ Rank(Listable, PageOf(Listed)[i]) >= offset
              /\ Rank(Listable, PageOf(Listed)[i]) < offset + ChunkSize
         /\ \A i, j \in 1..Len(PageOf(Listed)) :
              i < j => PageOf(Listed)[i] < PageOf(Listed)[j]
         /\ \A x \in Listable :
              Rank(Listable, x) >= offset /\ Rank(Listable, x) < offset + ChunkSize
                => \E i \in 1..Len(PageOf(Listed)) : PageOf(Listed)[i] = x
         /\ PageOf(Listed) = <<>> => Cardinality(Listable) <= offset
<1>1. Listable \in SUBSET Nat /\ IsFiniteSet(Listable)
  BY ListableFacts
<1>2. PageOf(Listed) = Slice(Ordered(Listable), offset)
  BY DEF PageOf, Listed
<1> DEFINE s == Slice(Ordered(Listable), offset)
<1>3. /\ s \in Seq(Listable)
      /\ \A i \in 1..Len(s) : /\ s[i] \in Listable
                              /\ Rank(Listable, s[i]) >= offset
                              /\ Rank(Listable, s[i]) < offset + ChunkSize
      /\ \A i, j \in 1..Len(s) : i < j => s[i] < s[j]
      /\ \A x \in Listable : Rank(Listable, x) >= offset /\ Rank(Listable, x) < offset + ChunkSize
                                => \E i \in 1..Len(s) : s[i] = x
      /\ s = <<>> => Cardinality(Listable) <= offset
  BY <1>1, SliceFacts, Zenon
<1>4. s = PageOf(Listed)
  BY <1>2
<1> HIDE DEF s
<1>5. s \in Seq(Nat)
  <2>1. s \in Seq(Listable) /\ \A i \in 1..Len(s) : s[i] \in Nat
    BY <1>1, <1>3
  <2> QED
    BY <2>1
<1> QED
  BY <1>3, <1>4, <1>5, Zenon

\* The sensors' lines, as they are listed.
Lines(ids) == [i \in 1..Len(ids) |-> [key |-> ids[i], cells |-> alias[ids[i]]]]

LEMMA LinesFacts ==
  ASSUME TableTypes, NEW ids \in Seq(Nat), \A i \in 1..Len(ids) : ids[i] \in Sensor
  PROVE  Lines(ids) \in Seq(Line) /\ Len(Lines(ids)) = Len(ids)
         /\ \A i \in 1..Len(ids) : Lines(ids)[i].key = ids[i]
<1>1. Len(ids) \in Nat /\ \A i \in 1..Len(ids) : ids[i] \in Nat
  OBVIOUS
<1>2. \A i \in 1..Len(ids) : alias[ids[i]] \in Cells
  <2>1. \A s \in Sensor : alias[s] \in Alias \union {None}
    BY DEF TableTypes
  <2> QED
    BY <2>1 DEF Cells
<1>3. \A i \in 1..Len(ids) : [key |-> ids[i], cells |-> alias[ids[i]]] \in Line
  BY <1>1, <1>2 DEF Line
<1>4. Lines(ids) \in [1..Len(ids) -> Line]
  BY <1>3 DEF Lines
<1>5. \A i \in 1..Len(ids) : Lines(ids)[i].key = ids[i]
  BY DEF Lines
<1> QED
  BY <1>1, <1>4, <1>5

\* A page of sensors.
LEMMA SensorPage ==
  ASSUME ExportTypes, get_sensors_by_station_chunked
  PROVE  /\ stage = "page" /\ kind = "sensors" /\ Listable = Sensor
         /\ UNCHANGED <<stationTables, kind, header, chunk, built, history>>
         /\ out' = out \o Lines(PageOf(Listed))
         /\ Lines(PageOf(Listed)) \in Seq(Line)
         /\ Len(Lines(PageOf(Listed))) = Len(PageOf(Listed)) /\ PageOf(Listed) \in Seq(Nat)
         /\ \A i \in 1..Len(PageOf(Listed)) : Lines(PageOf(Listed))[i].key = PageOf(Listed)[i]
         /\ IF PageOf(Listed) = <<>> THEN stage' = "done" /\ offset' = offset
            ELSE stage' = "page" /\ offset' = offset + ChunkSize
<1>1. /\ stage = "page" /\ kind = "sensors"
      /\ UNCHANGED <<stationTables, kind, header, chunk, built, history>>
      /\ out' = out \o Lines(PageOf(Listed))
      /\ IF PageOf(Listed) = <<>> THEN stage' = "done" /\ offset' = offset
         ELSE stage' = "page" /\ offset' = offset + ChunkSize
  BY DEF get_sensors_by_station_chunked, Lines
<1>2. Listable = Sensor
  BY <1>1 DEF Listable
<1>3. PageOf(Listed) \in Seq(Nat) /\ \A i \in 1..Len(PageOf(Listed)) : PageOf(Listed)[i] \in Sensor
  BY <1>2, PageFacts DEF ExportTypes, RunTypes
<1> QED
  BY <1>1, <1>2, <1>3, LinesFacts DEF ExportTypes

LEMMA ExportTypesStep ==
  ASSUME ExportTypes, [ExportNext]_exportVars
  PROVE  ExportTypes'
<1>0. TableTypes /\ RunTypes /\ ChunkSize \in Nat
  BY WritesAssumption DEF ExportTypes
<1>1. ASSUME NEW k \in {"measurements", "sensors"}, export_csv(k) PROVE ExportTypes'
  BY <1>0, <1>1, SameTables DEF export_csv, RunTypes, ExportTypes
<1>2. ASSUME get_unique_sensor_aliases_for_station PROVE ExportTypes'
  <2>1. {alias[s] : s \in Sensor} \ {None} \subseteq Alias
    BY <1>0 DEF TableTypes
  <2>2. TableTypes'
    BY <1>0, <1>2, SameTables DEF get_unique_sensor_aliases_for_station
  <2>3. RunTypes'
    BY <1>0, <1>2, <2>1 DEF get_unique_sensor_aliases_for_station, RunTypes
  <2> QED
    BY <2>2, <2>3 DEF ExportTypes
<1>3. ASSUME NextCombinations PROVE ExportTypes'
  <2>1. PageOf(Listed) \in Seq(Nat)
    BY <1>0, PageFacts DEF RunTypes
  <2>2. TableTypes'
    BY <1>0, <1>3, SameTables DEF NextCombinations
  <2>3. RunTypes'
    BY <1>0, <1>3, <2>1 DEF NextCombinations, RunTypes
  <2> QED
    BY <2>2, <2>3 DEF ExportTypes
<1>4. ASSUME ReadValues PROVE ExportTypes'
  <2>1. PICK cells :
          /\ LineOf(cells) \in Line
          /\ \/ /\ Len(chunk) > 1 /\ chunk' = Tail(chunk)
                /\ built' = Append(built, LineOf(cells))
                /\ UNCHANGED <<stage, out, offset>>
             \/ /\ Len(chunk) = 1 /\ chunk' = <<>> /\ built' = <<>>
                /\ out' = out \o Append(built, LineOf(cells))
                /\ offset' = offset + ChunkSize /\ stage' = "page"
    BY <1>0, <1>4, ReadCases
  <2>2. /\ stage = "values" /\ kind = "measurements"
        /\ UNCHANGED <<stationTables, kind, header, history>>
    BY <1>0, <1>4, ReadCases
  <2>3. TableTypes'
    BY <1>0, <2>2, SameTables
  <2>4. chunk \in Seq(Nat) /\ built \in Seq(Line) /\ out \in Seq(Line) /\ offset \in Nat
    BY <1>0 DEF RunTypes
  <2>5. Append(built, LineOf(cells)) \in Seq(Line)
    BY <2>1, <2>4
  <2>8. Len(chunk) > 1 => Tail(chunk) \in Seq(Nat) /\ Tail(chunk) # <<>>
    <3> SUFFICES ASSUME Len(chunk) > 1 PROVE Tail(chunk) \in Seq(Nat) /\ Tail(chunk) # <<>>
      OBVIOUS
    <3>1. chunk # <<>> /\ Len(chunk) \in Nat
      BY <2>4
    <3>2. Tail(chunk) \in Seq(Nat) /\ Len(Tail(chunk)) = Len(chunk) - 1
      BY <2>4, <3>1
    <3> DEFINE t == Tail(chunk)
               n == Len(chunk)
               m == Len(t)
    <3>3. n \in Nat /\ n > 1 /\ m = n - 1
      BY <3>1, <3>2
    <3> HIDE DEF m, n
    <3>4. m # 0
      BY <3>3
    <3>5. Len(t) # 0
      BY <3>4 DEF m
    <3> HIDE DEF t
    <3>6. t # <<>>
      BY <3>5
    <3> QED
      BY <3>2, <3>6 DEF t
  <2>6. /\ chunk' \in Seq(Nat) /\ built' \in Seq(Line) /\ out' \in Seq(Line) /\ offset' \in Nat
        /\ stage' \in {"page", "values"}
        /\ (stage' = "values" => chunk' # <<>>)
        /\ (stage' # "values" => chunk' = <<>> /\ built' = <<>>)
    <3>1. CASE Len(chunk) > 1 /\ chunk' = Tail(chunk)
                 /\ built' = Append(built, LineOf(cells)) /\ UNCHANGED <<stage, out, offset>>
      BY <2>2, <2>4, <2>5, <2>8, <3>1
    <3>2. CASE chunk' = <<>> /\ built' = <<>> /\ out' = out \o Append(built, LineOf(cells))
                 /\ offset' = offset + ChunkSize /\ stage' = "page"
      <4> DEFINE lines == Append(built, LineOf(cells))
      <4>1. lines \in Seq(Line) /\ out' = out \o lines
        BY <2>5, <3>2
      <4> HIDE DEF lines
      <4>2. out' \in Seq(Line)
        BY <2>4, <4>1
      <4> QED
        BY <1>0, <2>4, <3>2, <4>2
    <3> QED
      BY <2>1, <3>1, <3>2
  <2>7. RunTypes'
    BY <1>0, <2>2, <2>6 DEF RunTypes
  <2> QED
    BY <2>3, <2>7 DEF ExportTypes
<1>5. ASSUME get_sensors_by_station_chunked PROVE ExportTypes'
  <2>1. TableTypes'
    BY <1>0, <1>5, SameTables, SensorPage
  <2>2. out' \in Seq(Line) /\ offset' \in Nat /\ stage' \in {"done", "page"}
    <3> DEFINE lines == Lines(PageOf(Listed))
    <3>1. out' = out \o lines /\ lines \in Seq(Line) /\ out \in Seq(Line) /\ offset \in Nat
      BY <1>0, <1>5, SensorPage DEF RunTypes
    <3>2. \/ stage' = "done" /\ offset' = offset
          \/ stage' = "page" /\ offset' = offset + ChunkSize
      BY <1>5, SensorPage
    <3> HIDE DEF lines
    <3>3. out' \in Seq(Line)
      BY <3>1
    <3> QED
      BY <1>0, <3>1, <3>2, <3>3
  <2>3. RunTypes'
    BY <1>0, <1>5, <2>2, SensorPage DEF RunTypes
  <2> QED
    BY <2>1, <2>3 DEF ExportTypes
<1>6. ASSUME Stops PROVE ExportTypes'
  BY <1>0, <1>6, SameTables DEF Stops, RunTypes, ExportTypes
<1>7. ASSUME Write PROVE ExportTypes'
  <2>1. TableTypes' /\ UNCHANGED export
    BY <1>0, <1>7, WriteTables DEF Writes
  <2> QED
    BY <1>0, <2>1 DEF export, RunTypes, ExportTypes
<1>8. CASE UNCHANGED exportVars
  BY <1>0, <1>8, SameTables DEF exportVars, export, RunTypes, ExportTypes
<1> QED
  BY <1>1, <1>2, <1>3, <1>4, <1>5, <1>6, <1>7, <1>8 DEF ExportNext, Reads, Write
-----------------------------------------------------------------------------
(* Lines one after another. *)

LEMMA AppendElements ==
  ASSUME NEW s \in Seq(Line), NEW l \in Line
  PROVE  /\ Append(s, l) \in Seq(Line)
         /\ \A i \in DOMAIN Append(s, l) : Append(s, l)[i] = l \/ (i \in DOMAIN s /\ Append(s, l)[i] = s[i])
         /\ \A k \in DOMAIN s : k \in DOMAIN Append(s, l) /\ Append(s, l)[k] = s[k]
         /\ \E i \in DOMAIN Append(s, l) : Append(s, l)[i] = l
<1>1. Append(s, l)[Len(s) + 1] = l /\ Len(s) + 1 \in DOMAIN Append(s, l)
  OBVIOUS
<1> QED
  BY <1>1

LEMMA ConcatElements ==
  ASSUME NEW s \in Seq(Line), NEW t \in Seq(Line)
  PROVE  /\ s \o t \in Seq(Line)
         /\ \A i \in DOMAIN (s \o t) :
              \/ i \in DOMAIN s /\ (s \o t)[i] = s[i]
              \/ \E k \in DOMAIN t : i = Len(s) + k /\ (s \o t)[i] = t[k]
         /\ \A k \in DOMAIN s : k \in DOMAIN (s \o t) /\ (s \o t)[k] = s[k]
         /\ \A k \in DOMAIN t : Len(s) + k \in DOMAIN (s \o t) /\ (s \o t)[Len(s) + k] = t[k]
<1>1. /\ s \o t \in Seq(Line) /\ Len(s \o t) = Len(s) + Len(t)
      /\ Len(s) \in Nat /\ Len(t) \in Nat
  OBVIOUS
<1>2. DOMAIN s = 1..Len(s) /\ DOMAIN t = 1..Len(t) /\ DOMAIN (s \o t) = 1..(Len(s) + Len(t))
  BY <1>1
<1>3. \A i \in 1..Len(s) : (s \o t)[i] = s[i]
  OBVIOUS
<1>4. \A k \in 1..Len(t) : (s \o t)[Len(s) + k] = t[k]
  OBVIOUS
<1>5. ASSUME NEW i \in 1..(Len(s) + Len(t)), i \notin 1..Len(s)
      PROVE  \E k \in 1..Len(t) : i = Len(s) + k
  <2>1. i - Len(s) \in 1..Len(t) /\ i = Len(s) + (i - Len(s))
    BY <1>1, <1>5
  <2> QED
    BY <2>1
<1>6. /\ \A k \in 1..Len(s) : k \in 1..(Len(s) + Len(t))
      /\ \A k \in 1..Len(t) : Len(s) + k \in 1..(Len(s) + Len(t))
  BY <1>1
<1> DEFINE a == s \o t
<1>7. \A i \in DOMAIN a : \/ i \in DOMAIN s /\ a[i] = s[i]
                          \/ \E k \in DOMAIN t : i = Len(s) + k /\ a[i] = t[k]
  <2> SUFFICES ASSUME NEW i \in DOMAIN a, i \notin 1..Len(s)
               PROVE  \E k \in DOMAIN t : i = Len(s) + k /\ a[i] = t[k]
    BY <1>2, <1>3
  <2>1. PICK k \in 1..Len(t) : i = Len(s) + k
    BY <1>2, <1>5
  <2> QED
    BY <1>2, <1>4, <2>1, Zenon
<1>8. \A k \in DOMAIN s : k \in DOMAIN a /\ a[k] = s[k]
  BY <1>2, <1>3, <1>6, Zenon
<1>9. \A k \in DOMAIN t : Len(s) + k \in DOMAIN a /\ a[Len(s) + k] = t[k]
  BY <1>2, <1>4, <1>6, Zenon
<1> QED
  BY <1>1, <1>7, <1>8, <1>9, Zenon

Increasing(s) == \A i, j \in DOMAIN s : i < j => s[i].key < s[j].key

LEMMA AppendIncreasing ==
  ASSUME NEW s \in Seq(Line), NEW l \in Line, Increasing(s), \A i \in DOMAIN s : s[i].key < l.key
  PROVE  Increasing(Append(s, l))
<1>1. DOMAIN Append(s, l) = 1..(Len(s) + 1) /\ Len(s) \in Nat /\ DOMAIN s = 1..Len(s)
  OBVIOUS
<1>2. Append(s, l)[Len(s) + 1] = l /\ \A i \in 1..Len(s) : Append(s, l)[i] = s[i]
  OBVIOUS
<1> DEFINE a == Append(s, l)
<1> SUFFICES ASSUME NEW i \in 1..(Len(s) + 1), NEW j \in 1..(Len(s) + 1), i < j
             PROVE  a[i].key < a[j].key
  BY <1>1 DEF Increasing
<1>3. i \in 1..Len(s) /\ (j \in 1..Len(s) \/ j = Len(s) + 1)
  BY <1>1
<1> HIDE DEF a
<1> QED
  BY <1>1, <1>2, <1>3 DEF Increasing, a

LEMMA ConcatIncreasing ==
  ASSUME NEW s \in Seq(Line), NEW t \in Seq(Line), Increasing(s), Increasing(t),
         \A i \in DOMAIN s : \A k \in DOMAIN t : s[i].key < t[k].key
  PROVE  Increasing(s \o t)
<1> DEFINE a == s \o t
<1>1. /\ \A i \in DOMAIN a : \/ i \in DOMAIN s /\ a[i] = s[i]
                             \/ \E k \in DOMAIN t : i = Len(s) + k /\ a[i] = t[k]
  BY ConcatElements
<1>2. Len(s) \in Nat /\ DOMAIN s = 1..Len(s) /\ Len(t) \in Nat /\ DOMAIN t = 1..Len(t)
  OBVIOUS
<1> HIDE DEF a
<1> SUFFICES ASSUME NEW i \in DOMAIN a, NEW j \in DOMAIN a, i < j
             PROVE  a[i].key < a[j].key
  BY DEF Increasing, a
<1>3. CASE i \in DOMAIN s /\ a[i] = s[i] /\ j \in DOMAIN s /\ a[j] = s[j]
  BY <1>3 DEF Increasing
<1>4. CASE i \in DOMAIN s /\ a[i] = s[i] /\ \E k \in DOMAIN t : a[j] = t[k]
  BY <1>4
<1>5. ASSUME NEW k \in DOMAIN t, i = Len(s) + k, a[i] = t[k],
             NEW m \in DOMAIN t, j = Len(s) + m, a[j] = t[m]
      PROVE  a[i].key < a[j].key
  <2>1. k < m
    BY <1>2, <1>5
  <2> QED
    BY <1>5, <2>1 DEF Increasing
<1>6. ASSUME NEW k \in DOMAIN t, i = Len(s) + k, j \in DOMAIN s
      PROVE  FALSE
  BY <1>2, <1>6
<1> QED
  BY <1>1, <1>3, <1>4, <1>5, <1>6

-----------------------------------------------------------------------------
(***************************************************************************)
(* What was stored: cells and keys.                                        *)
(***************************************************************************)
WereTrue(s) ==
  \A i \in DOMAIN s : \A a \in header :
    IF s[i].cells[a] # None THEN <<a, s[i].key, s[i].cells[a]>> \in everTrue
    ELSE <<a, s[i].key>> \notin steady

TrueInv ==
  /\ stage # "idle" => Facts \subseteq everTrue
  /\ kind = "measurements" => steady \subseteq Pairs
  /\ kind = "measurements" => WereTrue(out) /\ WereTrue(built)

LEMMA TrueInit == ExportInit => TrueInv
BY DEF ExportInit, TrueInv, WereTrue

LEMMA TrueStep ==
  ASSUME ExportTypes, TrueInv, [ExportNext]_exportVars
  PROVE  TrueInv'
<1>0. TableTypes /\ RunTypes
  BY DEF ExportTypes
<1>1. ASSUME NEW k \in {"measurements", "sensors"}, export_csv(k) PROVE TrueInv'
  BY <1>0, <1>1, SameTables DEF export_csv, TrueInv, WereTrue, RunTypes
<1>2. ASSUME get_unique_sensor_aliases_for_station PROVE TrueInv'
  BY <1>0, <1>2, SameTables
  DEF get_unique_sensor_aliases_for_station, TrueInv, WereTrue, RunTypes, history
<1>3. ASSUME NextCombinations PROVE TrueInv'
  BY <1>0, <1>3, SameTables DEF NextCombinations, TrueInv, WereTrue, RunTypes, history
<1>4. ASSUME ReadValues PROVE TrueInv'
  <2>1. /\ stage = "values" /\ kind = "measurements"
        /\ UNCHANGED <<stationTables, kind, header, history>>
    BY <1>0, <1>4, ReadCases
  <2>2. PICK cells :
          /\ ReadOne(cells) /\ LineOf(cells) \in Line
          /\ \/ built' = Append(built, LineOf(cells)) /\ out' = out
             \/ built' = <<>> /\ out' = out \o Append(built, LineOf(cells))
    BY <1>0, <1>4, ReadCases
  <2>3. built \in Seq(Line) /\ out \in Seq(Line) /\ WereTrue(built) /\ WereTrue(out)
        /\ Facts \subseteq everTrue /\ steady \subseteq Pairs
    BY <1>0, <2>1 DEF RunTypes, TrueInv
  <2>4. everTrue' = everTrue /\ steady' = steady /\ header' = header /\ Facts' = Facts
        /\ Pairs' = Pairs
    BY <2>1, SameTables DEF history
  <2> DEFINE l == LineOf(cells)
             lines == Append(built, l)
  <2>5. \A a \in header : IF l.cells[a] # None THEN <<a, l.key, l.cells[a]>> \in everTrue
                          ELSE <<a, l.key>> \notin steady
    <3> SUFFICES ASSUME NEW a \in header
                 PROVE  IF cells[a] # None THEN <<a, Head(chunk), cells[a]>> \in everTrue
                        ELSE <<a, Head(chunk)>> \notin steady
      BY DEF LineOf
    <3>1. CASE cells[a] # None
      <4>1. cells[a] \in ValuesOf(a, Head(chunk))
        BY <2>2, <3>1 DEF ReadOne
      <4>2. <<a, Head(chunk), cells[a]>> \in Facts
        BY <4>1 DEF ValuesOf, Facts
      <4> QED
        BY <2>3, <3>1, <4>2
    <3>2. CASE cells[a] = None
      <4>1. ValuesOf(a, Head(chunk)) \subseteq Value
        BY <1>0 DEF ValuesOf, Named, TableTypes, Row
      <4>2. ValuesOf(a, Head(chunk)) = {}
        BY <2>2, <3>2, <4>1, NoneAssumption DEF ReadOne
      <4>3. \A q \in Named : ~(alias[q.sensor] = a /\ q.key = Head(chunk))
        BY <4>2 DEF ValuesOf
      <4>4. <<a, Head(chunk)>> \notin Pairs
        BY <4>3 DEF Pairs
      <4> QED
        BY <2>3, <3>2, <4>4
    <3> QED
      BY <3>1, <3>2
  <2> HIDE DEF l
  <2>6. lines \in Seq(Line) /\ WereTrue(lines)
    <3>1. lines \in Seq(Line) /\ DOMAIN lines \subseteq Nat
      BY <2>2, <2>3, AppendElements DEF l
    <3>2. \A i \in DOMAIN lines : lines[i] = l \/ (i \in DOMAIN built /\ lines[i] = built[i])
      BY <2>2, <2>3, AppendElements DEF l
    <3> HIDE DEF lines
    <3>3. WereTrue(lines)
      BY <2>3, <2>5, <3>2 DEF WereTrue
    <3> QED
      BY <3>1, <3>3
  <2> HIDE DEF lines
  <2>7. WereTrue(out \o lines)
    BY <2>3, <2>6, ConcatElements DEF WereTrue
  <2>8. (out' = out \/ out' = out \o lines) /\ (built' = lines \/ built' = <<>>)
    BY <2>2 DEF l, lines
  <2>9. WereTrue(out)' /\ WereTrue(built)'
    <3>1. out' = out => WereTrue(out)'
      BY <2>3, <2>4 DEF WereTrue
    <3>2. out' = out \o lines => WereTrue(out)'
      BY <2>4, <2>7 DEF WereTrue
    <3>3. built' = lines => WereTrue(built)'
      BY <2>4, <2>6 DEF WereTrue
    <3>4. built' = <<>> => WereTrue(built)'
      BY DEF WereTrue
    <3> QED
      BY <2>8, <3>1, <3>2, <3>3, <3>4
  <2> QED
    BY <2>3, <2>4, <2>9 DEF TrueInv
<1>5. ASSUME get_sensors_by_station_chunked PROVE TrueInv'
  BY <1>0, <1>5, SameTables DEF get_sensors_by_station_chunked, TrueInv, RunTypes, history
<1>6. ASSUME Stops PROVE TrueInv'
  BY <1>0, <1>6, SameTables DEF Stops, TrueInv, WereTrue, RunTypes, history
<1>7. ASSUME Write PROVE TrueInv'
  <2>1. Writes
    BY <1>0, <1>7, WriteTables
  <2>2. /\ UNCHANGED <<kind, header, out, built>> /\ everTrue' = everTrue \union Facts'
        /\ steady' \subseteq steady /\ (kind = "measurements" => steady' \subseteq Pairs')
    BY <2>1 DEF Writes, export
  <2>3. kind = "measurements" => WereTrue(out)' /\ WereTrue(built)'
    BY <2>2 DEF TrueInv, WereTrue
  <2> QED
    BY <2>2, <2>3 DEF TrueInv
<1>8. CASE UNCHANGED exportVars
  <2>1. UNCHANGED <<stationTables, kind, stage, header, out, built, everTrue, steady>>
    BY <1>8 DEF exportVars, export, history
  <2> QED
    BY <2>1, SameTables DEF TrueInv, WereTrue
<1> QED
  BY <1>1, <1>2, <1>3, <1>4, <1>5, <1>6, <1>7, <1>8 DEF ExportNext, Reads, Write
-----------------------------------------------------------------------------
(***************************************************************************)
(* The order of the lines. What was ever stored is never pushed to a       *)
(* higher rank but by an insertion before it, so that the keys listed and  *)
(* being listed stay below the offset, and the next page lies behind them. *)
(***************************************************************************)
Known(m) == m \in Ever

KeysOf(s) == {s[i].key : i \in DOMAIN s}
SeenKeys == KeysOf(out) \union KeysOf(built) \union {chunk[i] : i \in DOMAIN chunk}

KnownInv == \A m \in SeenKeys : m \in Nat /\ Known(m)

Ascending ==
  /\ Increasing(out) /\ Increasing(built)
  /\ \A i, j \in DOMAIN chunk : i < j => chunk[i] < chunk[j]
  /\ \A m \in KeysOf(out), n \in KeysOf(built) : m < n
  /\ \A m \in KeysOf(out), i \in DOMAIN chunk : m < chunk[i]
  /\ \A m \in KeysOf(built), i \in DOMAIN chunk : m < chunk[i]

SeenBelow(limit) == \A m \in SeenKeys : Rank(Listable, m) < limit

OrderInv ==
  ~inserted =>
    /\ Ascending
    /\ stage = "page" => SeenBelow(offset)
    /\ stage = "values" => SeenBelow(offset + ChunkSize)

LEMMA KeysFacts ==
  ASSUME NEW s \in Seq(Line), NEW t \in Seq(Line)
  PROVE  /\ \A l \in Line : KeysOf(Append(s, l)) \subseteq KeysOf(s) \union {l.key}
         /\ KeysOf(s \o t) \subseteq KeysOf(s) \union KeysOf(t)
         /\ KeysOf(s) \subseteq Nat /\ KeysOf(<<>>) = {}
<1>1. ASSUME NEW l \in Line PROVE KeysOf(Append(s, l)) \subseteq KeysOf(s) \union {l.key}
  BY AppendElements DEF KeysOf
<1>2. KeysOf(s \o t) \subseteq KeysOf(s) \union KeysOf(t)
  <2> DEFINE a == s \o t
  <2>1. \A i \in DOMAIN a : \/ i \in DOMAIN s /\ a[i] = s[i]
                            \/ \E k \in DOMAIN t : i = Len(s) + k /\ a[i] = t[k]
    BY ConcatElements
  <2> HIDE DEF a
  <2>2. KeysOf(a) \subseteq KeysOf(s) \union KeysOf(t)
    BY <2>1 DEF KeysOf
  <2> QED
    BY <2>2 DEF a
<1>3. KeysOf(s) \subseteq Nat
  <2>1. \A i \in DOMAIN s : s[i] \in Line
    OBVIOUS
  <2>2. \A l \in Line : l.key \in Nat
    BY DEF Line
  <2> QED
    BY <2>1, <2>2 DEF KeysOf
<1>4. KeysOf(<<>>) = {}
  BY DEF KeysOf
<1> QED
  BY <1>1, <1>2, <1>3, <1>4

LEMMA ListableIsKnown ==
  ASSUME TableTypes, kind # "none", Facts \subseteq everTrue
  PROVE  \A m \in Listable : m \in Nat /\ Known(m)
<1>1. \A m \in Listable : m \in Nat
  BY ListableFacts
<1>2. CASE kind = "sensors"
  BY <1>1, <1>2 DEF Listable, Known, Ever, TableTypes
<1>3. CASE kind # "sensors"
  <2> SUFFICES ASSUME NEW m \in Groups PROVE \E f \in everTrue : f[2] = m
    BY <1>1, <1>3 DEF Listable, Known, Ever
  <2>1. PICK r \in Named : r.key = m
    BY DEF Groups
  <2>2. <<alias[r.sensor], r.key, r.value>> \in everTrue
    BY DEF Facts
  <2> QED
    BY <2>1, <2>2
<1> QED
  BY <1>2, <1>3

\* Reading values moves keys from the page to the lines.
LEMMA ReadSeen ==
  ASSUME ExportTypes, ReadValues
  PROVE  SeenKeys' \subseteq SeenKeys
<1>1. /\ chunk \in Seq(Nat) /\ built \in Seq(Line) /\ out \in Seq(Line)
      /\ Len(chunk) \in Nat \ {0} /\ Head(chunk) = chunk[1]
  BY ReadCases DEF ExportTypes, RunTypes
<1>2. PICK cells :
        /\ LineOf(cells) \in Line
        /\ \/ /\ Len(chunk) > 1 /\ chunk' = Tail(chunk)
              /\ built' = Append(built, LineOf(cells))
              /\ UNCHANGED <<stage, out, offset>>
           \/ /\ Len(chunk) = 1 /\ chunk' = <<>> /\ built' = <<>>
              /\ out' = out \o Append(built, LineOf(cells))
              /\ offset' = offset + ChunkSize /\ stage' = "page"
  BY ReadCases DEF ExportTypes
<1> DEFINE l == LineOf(cells)
           lines == Append(built, l)
           P == {chunk[i] : i \in DOMAIN chunk}
<1>3. l.key = chunk[1] /\ chunk[1] \in P
  BY <1>1 DEF LineOf
<1>4. KeysOf(lines) \subseteq KeysOf(built) \union P /\ lines \in Seq(Line)
  BY <1>1, <1>2, <1>3, KeysFacts, AppendElements
<1> HIDE DEF l, lines
<1>5. CASE chunk' = Tail(chunk) /\ built' = lines /\ out' = out /\ Len(chunk) > 1
  <2>1. {chunk'[i] : i \in DOMAIN chunk'} \subseteq P
    <3> DEFINE t == Tail(chunk)
    <3>1. \A i \in DOMAIN t : i + 1 \in DOMAIN chunk /\ t[i] = chunk[i + 1]
      BY <1>1
    <3> HIDE DEF t
    <3> QED
      BY <1>5, <3>1 DEF t
  <2>2. KeysOf(out') = KeysOf(out) /\ KeysOf(built') \subseteq KeysOf(built) \union P
    BY <1>4, <1>5
  <2> QED
    BY <2>1, <2>2 DEF SeenKeys, KeysOf
<1>6. CASE chunk' = <<>> /\ built' = <<>> /\ out' = out \o lines
  <2>1. KeysOf(out \o lines) \subseteq KeysOf(out) \union KeysOf(lines)
    BY <1>1, <1>2, <1>4, KeysFacts
  <2>2. {chunk'[i] : i \in DOMAIN chunk'} = {} /\ KeysOf(built') = {}
    BY <1>6 DEF KeysOf
  <2>3. KeysOf(out') \subseteq KeysOf(out) \union KeysOf(built) \union P
    BY <1>4, <1>6, <2>1
  <2> QED
    BY <2>2, <2>3 DEF SeenKeys, KeysOf
<1> QED
  BY <1>2, <1>5, <1>6 DEF l, lines

\* So does reading a page, but for what can be listed.
LEMMA PageSeen ==
  ASSUME ExportTypes, NextCombinations \/ get_sensors_by_station_chunked
  PROVE  SeenKeys' \subseteq SeenKeys \union {PageOf(Listed)[i] : i \in 1..Len(PageOf(Listed))}
<1> DEFINE ids == PageOf(Listed)
           P == {ids[i] : i \in 1..Len(ids)}
<1>1. built = <<>> /\ chunk = <<>> /\ out \in Seq(Line)
  BY DEF NextCombinations, get_sensors_by_station_chunked, ExportTypes, RunTypes
<1>2. CASE NextCombinations
  <2>1. chunk' = ids /\ out' = out /\ built' = built /\ ids \in Seq(Nat)
    BY <1>2, PageFacts DEF NextCombinations, ExportTypes, RunTypes
  <2>2. {chunk'[i] : i \in DOMAIN chunk'} \subseteq P
    BY <2>1
  <2> HIDE DEF P
  <2> QED
    BY <2>1, <2>2 DEF SeenKeys, KeysOf
<1>3. CASE get_sensors_by_station_chunked
  <2> DEFINE lines == Lines(ids)
  <2>1. /\ out' = out \o lines /\ lines \in Seq(Line) /\ chunk' = chunk /\ built' = built
        /\ Len(lines) = Len(ids) /\ \A i \in 1..Len(ids) : lines[i].key = ids[i]
    BY <1>3, SensorPage
  <2> HIDE DEF lines
  <2>2. KeysOf(lines) \subseteq P
    <3>1. \A i \in DOMAIN lines : i \in 1..Len(ids)
      BY <2>1
    <3>2. \A i \in DOMAIN lines : lines[i].key \in P
      BY <2>1, <3>1, Zenon
    <3> QED
      BY <3>2 DEF KeysOf
  <2>3. KeysOf(out') \subseteq KeysOf(out) \union KeysOf(lines)
    BY <1>1, <2>1, KeysFacts
  <2> HIDE DEF P
  <2> QED
    BY <2>1, <2>2, <2>3 DEF SeenKeys, KeysOf
<1> QED
  BY <1>2, <1>3

LEMMA KnownInit == ExportInit => KnownInv
BY DEF ExportInit, KnownInv, SeenKeys, KeysOf

LEMMA KnownStep ==
  ASSUME ExportTypes, TrueInv, KnownInv, [ExportNext]_exportVars
  PROVE  KnownInv'
<1>0. TableTypes /\ RunTypes
  BY DEF ExportTypes
<1>1. ASSUME NEW k \in {"measurements", "sensors"}, export_csv(k) PROVE KnownInv'
  BY <1>0, <1>1 DEF export_csv, RunTypes, KnownInv, SeenKeys, KeysOf
<1>2. ASSUME SeenKeys' \subseteq SeenKeys, kind' = kind, everTrue \subseteq everTrue',
             used \subseteq used'
      PROVE  KnownInv'
  <2>1. Ever \subseteq Ever'
    BY <1>2 DEF Ever
  <2> QED
    BY <1>2, <2>1 DEF KnownInv, Known
<1>3. ASSUME UNCHANGED <<stationTables, kind, history>>, SeenKeys' \subseteq SeenKeys PROVE KnownInv'
  BY <1>2, <1>3 DEF stationTables, history
<1>4. ASSUME NextCombinations \/ get_sensors_by_station_chunked PROVE KnownInv'
  <2> DEFINE P == {PageOf(Listed)[i] : i \in 1..Len(PageOf(Listed))}
  <2>1. SeenKeys' \subseteq SeenKeys \union P
    BY <1>4, PageSeen
  <2>2. P \subseteq Listable
    BY <1>0, PageFacts DEF RunTypes
  <2>3. kind # "none" /\ Facts \subseteq everTrue
    BY <1>0, <1>4 DEF NextCombinations, get_sensors_by_station_chunked, TrueInv
  <2>4. \A m \in Listable : m \in Nat /\ Known(m)
    BY <1>0, <2>3, ListableIsKnown
  <2>5. UNCHANGED <<kind, used, everTrue>>
    BY <1>4 DEF NextCombinations, get_sensors_by_station_chunked, stationTables, history
  <2> HIDE DEF P
  <2>6. \A m \in SeenKeys' : m \in Nat /\ Known(m)
    BY <2>1, <2>2, <2>4 DEF KnownInv
  <2> QED
    BY <2>5, <2>6 DEF KnownInv, Known, Ever
<1>5. ASSUME ReadValues PROVE KnownInv'
  BY <1>0, <1>3, <1>5, ReadSeen, ReadCases
<1>6. ASSUME get_unique_sensor_aliases_for_station PROVE KnownInv'
  BY <1>3, <1>6 DEF get_unique_sensor_aliases_for_station, SeenKeys, KeysOf
<1>7. ASSUME Stops PROVE KnownInv'
  <2>1. SeenKeys' \subseteq SeenKeys
    BY <1>7 DEF Stops, SeenKeys, KeysOf
  <2> QED
    BY <1>3, <1>7, <2>1 DEF Stops
<1>8. ASSUME Write PROVE KnownInv'
  <2>1. used \subseteq used' /\ UNCHANGED export /\ everTrue \subseteq everTrue'
    BY <1>0, <1>8, WriteTables DEF Writes
  <2>2. SeenKeys' = SeenKeys /\ kind' = kind
    BY <2>1 DEF export, SeenKeys, KeysOf
  <2> QED
    BY <1>2, <2>1, <2>2
<1>9. CASE UNCHANGED exportVars
  BY <1>3, <1>9 DEF exportVars, export, SeenKeys, KeysOf
<1> QED
  BY <1>1, <1>4, <1>5, <1>6, <1>7, <1>8, <1>9 DEF ExportNext, Reads, Write

LEMMA RankStays ==
  ASSUME ExportTypes, Write, ~inserted', kind # "none", NEW m \in Nat, Known(m)
  PROVE  Rank(Listable', m) <= Rank(Listable, m)
<1>0. TableTypes /\ Writes /\ kind' = kind
  BY WriteTables DEF ExportTypes, Writes, export
<1>1. {y \in Listable' : y < m} \subseteq Listable
  <2> SUFFICES ASSUME NEW y \in Listable', y < m PROVE y \in Listable
    OBVIOUS
  <2>1. ~\E x \in Listable' \ Listable, z \in Ever : x < z
    BY <1>0 DEF Writes
  <2> QED
    BY <2>1 DEF Known
<1>2. IsFiniteSet(Listable)
  BY <1>0, ListableFacts
<1> QED
  BY <1>1, <1>2, RankGrows

LEMMA ReadAscending ==
  ASSUME ExportTypes, ReadValues, Ascending
  PROVE  Ascending'
<1>1. /\ chunk \in Seq(Nat) /\ built \in Seq(Line) /\ out \in Seq(Line)
      /\ Len(chunk) \in Nat \ {0} /\ Head(chunk) = chunk[1]
  BY ReadCases DEF ExportTypes, RunTypes
<1>2. PICK cells :
        /\ LineOf(cells) \in Line
        /\ \/ /\ Len(chunk) > 1 /\ chunk' = Tail(chunk)
              /\ built' = Append(built, LineOf(cells))
              /\ UNCHANGED <<stage, out, offset>>
           \/ /\ Len(chunk) = 1 /\ chunk' = <<>> /\ built' = <<>>
              /\ out' = out \o Append(built, LineOf(cells))
              /\ offset' = offset + ChunkSize /\ stage' = "page"
  BY ReadCases DEF ExportTypes
<1> DEFINE l == LineOf(cells)
           lines == Append(built, l)
<1>3. l.key = chunk[1] /\ 1 \in DOMAIN chunk /\ DOMAIN chunk = 1..Len(chunk)
  BY <1>1 DEF LineOf
<1> HIDE DEF l
<1>4. \A m \in KeysOf(built) : m < l.key
  BY <1>3 DEF Ascending
<1>5. \A m \in KeysOf(out) : m < l.key
  BY <1>3 DEF Ascending
<1>6. lines \in Seq(Line) /\ Increasing(lines)
  <2>1. \A i \in DOMAIN built : built[i].key < l.key
    BY <1>4 DEF KeysOf
  <2> QED
    BY <1>1, <1>2, <2>1, AppendIncreasing, AppendElements DEF Ascending, l
<1>7. KeysOf(lines) \subseteq KeysOf(built) \union {l.key}
  BY <1>1, <1>2, KeysFacts DEF l
<1> HIDE DEF lines
<1>8. \A m \in KeysOf(out), n \in KeysOf(lines) : m < n
  BY <1>5, <1>7 DEF Ascending
<1>9. CASE chunk' = Tail(chunk) /\ built' = lines /\ out' = out /\ Len(chunk) > 1
  <2> DEFINE t == Tail(chunk)
  <2>1. DOMAIN t \subseteq Nat /\ \A i \in DOMAIN t : i + 1 \in DOMAIN chunk /\ t[i] = chunk[i + 1] /\ 1 < i + 1
    BY <1>1
  <2> HIDE DEF t
  <2>2. \A i, j \in DOMAIN t : i < j => t[i] < t[j]
    BY <2>1 DEF Ascending
  <2>3. \A m \in KeysOf(out), i \in DOMAIN t : m < t[i]
    BY <2>1 DEF Ascending
  <2>4. \A i \in DOMAIN t : l.key < t[i]
    BY <1>3, <2>1 DEF Ascending
  <2>5. \A m \in KeysOf(lines), i \in DOMAIN t : m < t[i]
    BY <1>7, <2>1, <2>4 DEF Ascending
  <2>6. chunk' = t
    BY <1>9 DEF t
  <2>7. KeysOf(out') = KeysOf(out) /\ KeysOf(built') = KeysOf(lines)
    BY <1>9
  <2>8. Increasing(out') /\ Increasing(built')
    BY <1>6, <1>9 DEF Ascending
  <2> QED
    BY <1>8, <2>2, <2>3, <2>5, <2>6, <2>7, <2>8 DEF Ascending, KeysOf, Increasing
<1>10. CASE chunk' = <<>> /\ built' = <<>> /\ out' = out \o lines
  <2>1. \A i \in DOMAIN out : \A k \in DOMAIN lines : out[i].key < lines[k].key
    BY <1>8 DEF KeysOf
  <2>2. Increasing(out \o lines)
    BY <1>1, <1>6, <2>1, ConcatIncreasing DEF Ascending
  <2>3. Increasing(out)'
    BY <1>10, <2>2 DEF Increasing
  <2>4. DOMAIN chunk' = {} /\ DOMAIN built' = {}
    BY <1>10
  <2> QED
    BY <2>3, <2>4 DEF Ascending, KeysOf, Increasing
<1> QED
  BY <1>2, <1>9, <1>10 DEF l, lines

LEMMA PageAscending ==
  ASSUME ExportTypes, KnownInv, NextCombinations \/ get_sensors_by_station_chunked,
         Increasing(out), SeenBelow(offset)
  PROVE  Ascending' /\ (PageOf(Listed) # <<>> => \A m \in SeenKeys' : Rank(Listable, m) < offset + ChunkSize)
<1> DEFINE ids == PageOf(Listed)
           P == {ids[i] : i \in 1..Len(ids)}
<1>1. built = <<>> /\ chunk = <<>> /\ out \in Seq(Line) /\ TableTypes /\ offset \in Nat
  BY DEF NextCombinations, get_sensors_by_station_chunked, ExportTypes, RunTypes
<1>2. /\ ids \in Seq(Nat)
      /\ \A i \in 1..Len(ids) : /\ ids[i] \in Listable
                                /\ Rank(Listable, ids[i]) >= offset
                                /\ Rank(Listable, ids[i]) < offset + ChunkSize
      /\ \A i, j \in 1..Len(ids) : i < j => ids[i] < ids[j]
  BY <1>1, PageFacts
<1>3. SeenKeys' \subseteq SeenKeys \union P
  BY PageSeen
<1>4. Listable \in SUBSET Nat /\ IsFiniteSet(Listable) /\ ChunkSize \in Nat
  BY <1>1, ListableFacts, WritesAssumption
<1> HIDE DEF ids
<1>5. \A m \in SeenKeys : m \in Nat /\ Rank(Listable, m) < offset /\ Rank(Listable, m) \in Nat
  <2> SUFFICES ASSUME NEW m \in SeenKeys PROVE m \in Nat /\ Rank(Listable, m) < offset /\ Rank(Listable, m) \in Nat
    OBVIOUS
  <2>1. m \in Nat /\ Rank(Listable, m) < offset
    BY DEF KnownInv, SeenBelow
  <2> QED
    BY <1>4, <2>1, RankFacts
<1>6. \A m \in KeysOf(out), i \in 1..Len(ids) : m < ids[i]
  <2> SUFFICES ASSUME NEW m \in KeysOf(out), NEW i \in 1..Len(ids), ids[i] <= m PROVE FALSE
    <3>1. \A m \in KeysOf(out) : m \in Nat
      BY <1>1, KeysFacts
    <3>2. \A i \in 1..Len(ids) : ids[i] \in Nat
      BY <1>2
    <3> QED
      BY <3>1, <3>2
  <2>1. m \in Nat /\ Rank(Listable, m) < offset /\ Rank(Listable, m) \in Nat
    BY <1>5 DEF SeenKeys
  <2>2. ids[i] \in Nat /\ Rank(Listable, ids[i]) >= offset
    BY <1>2
  <2>3. Rank(Listable, ids[i]) <= Rank(Listable, m) /\ Rank(Listable, ids[i]) \in Nat
    BY <1>4, <2>1, <2>2, RankFacts
  <2> QED
    BY <1>1, <2>1, <2>2, <2>3
<1>7. \A m \in SeenKeys' : Rank(Listable, m) < offset + ChunkSize
  <2>1. \A m \in SeenKeys : Rank(Listable, m) < offset + ChunkSize
    BY <1>1, <1>4, <1>5
  <2>2. \A m \in P : Rank(Listable, m) < offset + ChunkSize
    BY <1>2
  <2> QED
    BY <1>3, <2>1, <2>2
<1>8. CASE NextCombinations
  <2>1. chunk' = ids /\ out' = out /\ built' = <<>> /\ DOMAIN ids = 1..Len(ids)
    BY <1>1, <1>2, <1>8 DEF NextCombinations, ids
  <2>2. KeysOf(built') = {} /\ KeysOf(out') = KeysOf(out) /\ Increasing(out') /\ Increasing(built')
    BY <2>1 DEF KeysOf, Increasing
  <2>3. Ascending'
    BY <1>2, <1>6, <2>1, <2>2 DEF Ascending, KeysOf, Increasing
  <2> QED
    BY <1>7, <2>3
<1>9. CASE get_sensors_by_station_chunked
  <2> DEFINE lines == Lines(ids)
  <2>1. /\ out' = out \o lines /\ lines \in Seq(Line) /\ chunk' = <<>> /\ built' = <<>>
        /\ Len(lines) = Len(ids) /\ \A i \in 1..Len(ids) : lines[i].key = ids[i]
    BY <1>1, <1>9, SensorPage DEF ids
  <2> HIDE DEF lines
  <2>2. DOMAIN lines = 1..Len(ids)
    BY <2>1
  <2>3. Increasing(lines)
    BY <1>2, <2>1, <2>2 DEF Increasing
  <2>4. \A i \in DOMAIN out : \A k \in DOMAIN lines : out[i].key < lines[k].key
    BY <1>6, <2>1, <2>2 DEF KeysOf
  <2>5. Increasing(out \o lines)
    BY <1>1, <2>1, <2>3, <2>4, ConcatIncreasing
  <2>6. Increasing(out)'
    BY <2>1, <2>5 DEF Increasing
  <2>7. DOMAIN chunk' = {} /\ DOMAIN built' = {}
    BY <2>1
  <2>8. Ascending'
    BY <2>6, <2>7 DEF Ascending, KeysOf, Increasing
  <2> QED
    BY <1>7, <2>8
<1> QED
  BY <1>8, <1>9

LEMMA OrderInit == ExportInit => OrderInv
BY DEF ExportInit, OrderInv, Ascending, KeysOf, Increasing

LEMMA OrderStep ==
  ASSUME ExportTypes, KnownInv, OrderInv, [ExportNext]_exportVars
  PROVE  OrderInv'
<1>0. TableTypes /\ RunTypes /\ ChunkSize \in Nat /\ offset \in Nat
  BY WritesAssumption DEF ExportTypes, RunTypes
<1>1. ASSUME NEW k \in {"measurements", "sensors"}, export_csv(k) PROVE OrderInv'
  <2>1. out' = <<>> /\ chunk' = <<>> /\ built' = <<>>
    BY <1>0, <1>1 DEF export_csv, RunTypes
  <2> QED
    BY <2>1 DEF OrderInv, Ascending, SeenBelow, SeenKeys, KeysOf, Increasing
<1>2. ASSUME get_unique_sensor_aliases_for_station PROVE OrderInv'
  <2>1. out' = <<>> /\ chunk' = <<>> /\ built' = <<>>
    BY <1>0, <1>2 DEF get_unique_sensor_aliases_for_station, RunTypes
  <2> QED
    BY <2>1 DEF OrderInv, Ascending, SeenBelow, SeenKeys, KeysOf, Increasing
<1>3. ASSUME NextCombinations \/ get_sensors_by_station_chunked PROVE OrderInv'
  <2> SUFFICES ASSUME ~inserted PROVE OrderInv'
    BY <1>3 DEF OrderInv, NextCombinations, get_sensors_by_station_chunked, history
  <2>1. Increasing(out) /\ SeenBelow(offset)
    BY <1>3 DEF OrderInv, Ascending, NextCombinations, get_sensors_by_station_chunked
  <2>2. Ascending' /\ (PageOf(Listed) # <<>> => \A m \in SeenKeys' : Rank(Listable, m) < offset + ChunkSize)
    BY <1>3, <2>1, PageAscending
  <2>3. Listable' = Listable
    BY <1>3, SameTables DEF NextCombinations, get_sensors_by_station_chunked
  <2>4. CASE NextCombinations
    <3>1. offset' = offset /\ stage' # "page" /\ (stage' = "values" => PageOf(Listed) # <<>>)
      BY <2>4 DEF NextCombinations
    <3> QED
      BY <2>2, <2>3, <3>1 DEF OrderInv, SeenBelow
  <2>5. CASE get_sensors_by_station_chunked
    <3>1. /\ stage' # "values"
          /\ (stage' = "page" => PageOf(Listed) # <<>> /\ offset' = offset + ChunkSize)
      BY <2>5, SensorPage
    <3> QED
      BY <2>2, <2>3, <3>1 DEF OrderInv, SeenBelow
  <2> QED
    BY <1>3, <2>4, <2>5
<1>4. ASSUME ReadValues PROVE OrderInv'
  <2>1. /\ stage = "values" /\ UNCHANGED <<stationTables, kind, history>>
        /\ SeenKeys' \subseteq SeenKeys /\ Listable' = Listable /\ inserted' = inserted
    BY <1>0, <1>4, ReadCases, ReadSeen, SameTables DEF history
  <2>2. \/ stage' = "values" /\ offset' = offset
        \/ stage' = "page" /\ offset' = offset + ChunkSize
    BY <1>0, <1>4, <2>1, ReadCases
  <2>3. ~inserted => Ascending'
    BY <1>4, ReadAscending DEF OrderInv
  <2> QED
    BY <2>1, <2>2, <2>3 DEF OrderInv, SeenBelow
<1>5. ASSUME Stops PROVE OrderInv'
  <2>1. /\ stage' = "stopped" /\ built' = <<>> /\ chunk' = <<>> /\ out' = out
        /\ inserted' = inserted
    BY <1>5 DEF Stops, history
  <2> QED
    BY <2>1 DEF OrderInv, Ascending, KeysOf, Increasing
<1>6. ASSUME Write PROVE OrderInv'
  <2> SUFFICES ASSUME ~inserted' PROVE OrderInv'
    BY DEF OrderInv
  <2>1. Writes /\ TableTypes'
    BY <1>0, <1>6, WriteTables
  <2>2. ~inserted /\ UNCHANGED <<kind, stage, offset, chunk, built, out>> /\ stage # "idle"
    BY <2>1 DEF Writes, export
  <2>3. kind # "none"
    BY <1>0, <2>2 DEF RunTypes
  <2>4. SeenKeys' = SeenKeys
    BY <2>2 DEF SeenKeys, KeysOf
  <2>5. ASSUME NEW limit \in Nat, SeenBelow(limit) PROVE \A m \in SeenKeys' : Rank(Listable', m) < limit
    <3> SUFFICES ASSUME NEW m \in SeenKeys PROVE Rank(Listable', m) < limit
      BY <2>4
    <3>1. m \in Nat /\ Known(m) /\ Rank(Listable, m) < limit
      BY <2>5 DEF KnownInv, SeenBelow
    <3>2. Rank(Listable', m) <= Rank(Listable, m)
      BY <1>6, <2>3, <3>1, RankStays
    <3>3. Listable \in SUBSET Nat /\ IsFiniteSet(Listable)
      BY <1>0, ListableFacts
    <3>4. Rank(Listable, m) \in Nat
      BY <3>1, <3>3, RankFacts
    <3>5. Listable' \in SUBSET Nat /\ IsFiniteSet(Listable')
      BY <2>1, ListableTypesNext
    <3>6. Rank(Listable', m) \in Nat
      BY <3>1, <3>5, RankFacts
    <3> QED
      BY <3>1, <3>2, <3>4, <3>6
  <2>6. Ascending'
    BY <2>2 DEF OrderInv, Ascending, KeysOf, Increasing
  <2> QED
    BY <1>0, <2>2, <2>5, <2>6 DEF OrderInv, SeenBelow
<1>7. CASE UNCHANGED exportVars
  <2>1. /\ UNCHANGED <<kind, stage, offset, chunk, built, out, inserted>>
        /\ Listable' = Listable
    BY <1>7, SameTables DEF exportVars, export, history
  <2> QED
    BY <2>1 DEF OrderInv, Ascending, SeenBelow, SeenKeys, KeysOf, Increasing
<1> QED
  BY <1>1, <1>2, <1>3, <1>4, <1>5, <1>6, <1>7 DEF ExportNext, Reads, Write
-----------------------------------------------------------------------------
(***************************************************************************)
(* What can be listed all the time is never pushed to a lower rank but by  *)
(* a removal, so that what lies below the offset was listed.               *)
(***************************************************************************)
Listing == IF kind = "sensors" THEN Sensor ELSE Pairs
KeyOf(x) == IF kind = "sensors" THEN x ELSE x[2]

Fits(line, x) ==
  IF kind = "sensors" THEN line.key = x
  ELSE line.key = x[2] /\ x[1] \in header /\ line.cells[x[1]] # None

Lists(s, x) == \E i \in DOMAIN s : Fits(s[i], x)
OnPage(x) == \E i \in DOMAIN chunk : chunk[i] = KeyOf(x)

SteadyListed(x) ==
  /\ stage = "page" /\ Rank(Listable, KeyOf(x)) < offset => Lists(out, x)
  /\ stage = "values" /\ Rank(Listable, KeyOf(x)) < offset + ChunkSize
       => Lists(out, x) \/ Lists(built, x) \/ OnPage(x)
  /\ stage = "done" => Lists(out, x)

SteadyInv ==
  /\ stage # "idle" => steady \subseteq Listing
  /\ kind = "measurements" /\ stage \in {"page", "values", "done"} => \A x \in steady : x[1] \in header
  /\ ~removed => \A x \in steady : SteadyListed(x)

LEMMA ListingFacts ==
  ASSUME TableTypes
  PROVE  \A x \in Listing : /\ KeyOf(x) \in Listable /\ KeyOf(x) \in Nat
                            /\ Rank(Listable, KeyOf(x)) \in Nat
                            /\ Rank(Listable, KeyOf(x)) < Cardinality(Listable)
                            /\ kind # "sensors" =>
                                 \E r \in Named : alias[r.sensor] = x[1] /\ r.key = x[2]
<1> SUFFICES ASSUME NEW x \in Listing
             PROVE  /\ KeyOf(x) \in Listable /\ KeyOf(x) \in Nat
                    /\ Rank(Listable, KeyOf(x)) \in Nat
                    /\ Rank(Listable, KeyOf(x)) < Cardinality(Listable)
                    /\ kind # "sensors" =>
                         \E r \in Named : alias[r.sensor] = x[1] /\ r.key = x[2]
  OBVIOUS
<1>1. Listable \in SUBSET Nat /\ IsFiniteSet(Listable)
  BY ListableFacts
<1>2. kind # "sensors" => \E r \in Named : alias[r.sensor] = x[1] /\ r.key = x[2]
  BY DEF Listing, Pairs
<1>3. KeyOf(x) \in Listable
  <2>1. CASE kind = "sensors"
    BY <2>1 DEF Listing, KeyOf, Listable
  <2>2. CASE kind # "sensors"
    BY <1>2, <2>2 DEF KeyOf, Listable, Groups
  <2> QED
    BY <2>1, <2>2
<1> QED
  BY <1>1, <1>2, <1>3, RankFacts

LEMMA ListsFacts ==
  ASSUME NEW s \in Seq(Line), NEW t \in Seq(Line), NEW x
  PROVE  /\ \A l \in Line : Lists(s, x) \/ Fits(l, x) => Lists(Append(s, l), x)
         /\ Lists(s, x) \/ Lists(t, x) => Lists(s \o t, x)
<1>1. ASSUME NEW l \in Line, Lists(s, x) \/ Fits(l, x) PROVE Lists(Append(s, l), x)
  BY <1>1, AppendElements DEF Lists
<1>2. ASSUME Lists(s, x) \/ Lists(t, x) PROVE Lists(s \o t, x)
  <2> DEFINE a == s \o t
  <2>1. /\ \A k \in DOMAIN s : k \in DOMAIN a /\ a[k] = s[k]
        /\ \A k \in DOMAIN t : Len(s) + k \in DOMAIN a /\ a[Len(s) + k] = t[k]
    BY ConcatElements
  <2> HIDE DEF a
  <2>2. Lists(a, x)
    BY <1>2, <2>1 DEF Lists
  <2> QED
    BY <2>2 DEF a
<1> QED
  BY <1>1, <1>2

\* The line read for the page's first key fits all that can be listed there.
LEMMA ReadFits ==
  ASSUME ExportTypes, ReadValues, NEW cells, ReadOne(cells),
         NEW x \in Listing, x[1] \in header, chunk[1] = KeyOf(x)
  PROVE  Fits(LineOf(cells), x)
<1>1. kind = "measurements" /\ Head(chunk) = chunk[1] /\ TableTypes
  BY ReadCases DEF ExportTypes
<1>2. PICK r \in Named : alias[r.sensor] = x[1] /\ r.key = x[2]
  BY <1>1, ListingFacts
<1>3. Head(chunk) = x[2]
  BY <1>1 DEF KeyOf
<1>4. r.value \in ValuesOf(x[1], x[2])
  BY <1>2 DEF ValuesOf
<1>5. cells[x[1]] \in ValuesOf(x[1], x[2])
  BY <1>3, <1>4 DEF ReadOne
<1>6. \A v \in ValuesOf(x[1], x[2]) : v \in Value
  <2>1. \A q \in Named : q.value \in Value
    BY <1>1, ListableFacts
  <2> QED
    BY <2>1 DEF ValuesOf
<1>7. cells[x[1]] # None
  BY <1>5, <1>6, NoneAssumption
<1> QED
  BY <1>1, <1>3, <1>7 DEF Fits, LineOf

LEMMA ReadLists ==
  ASSUME ExportTypes, ReadValues, NEW x \in Listing, x[1] \in header
  PROVE  Lists(out, x) \/ Lists(built, x) \/ OnPage(x)
           => (Lists(out, x) \/ Lists(built, x) \/ OnPage(x))'
<1>1. /\ chunk \in Seq(Nat) /\ built \in Seq(Line) /\ out \in Seq(Line)
      /\ Len(chunk) \in Nat \ {0} /\ kind' = kind /\ header' = header /\ kind = "measurements"
  BY ReadCases DEF ExportTypes, RunTypes
<1>2. PICK cells :
        /\ ReadOne(cells) /\ LineOf(cells) \in Line
        /\ \/ /\ Len(chunk) > 1 /\ chunk' = Tail(chunk)
              /\ built' = Append(built, LineOf(cells))
              /\ UNCHANGED <<stage, out, offset>>
           \/ /\ Len(chunk) = 1 /\ chunk' = <<>> /\ built' = <<>>
              /\ out' = out \o Append(built, LineOf(cells))
              /\ offset' = offset + ChunkSize /\ stage' = "page"
  BY ReadCases DEF ExportTypes
<1> DEFINE l == LineOf(cells)
           lines == Append(built, l)
<1>3. chunk[1] = KeyOf(x) => Fits(l, x)
  BY <1>2, ReadFits
<1>4. lines \in Seq(Line)
  BY <1>1, <1>2, AppendElements
<1>5. Lists(built, x) \/ Fits(l, x) => Lists(lines, x)
  BY <1>1, <1>2, ListsFacts
<1> HIDE DEF l, lines
<1>6. CASE chunk' = Tail(chunk) /\ built' = lines /\ out' = out /\ Len(chunk) > 1
  <2>1. OnPage(x) => chunk[1] = KeyOf(x) \/ OnPage(x)'
    <3> SUFFICES ASSUME NEW i \in DOMAIN chunk, chunk[i] = KeyOf(x), i # 1 PROVE OnPage(x)'
      BY DEF OnPage
    <3> DEFINE t == Tail(chunk)
    <3>1. i - 1 \in DOMAIN t /\ t[i - 1] = chunk[i]
      BY <1>1
    <3> HIDE DEF t
    <3>2. \E j \in DOMAIN t : t[j] = KeyOf(x)
      BY <3>1
    <3> QED
      BY <1>1, <1>6, <3>2 DEF OnPage, KeyOf, t
  <2>2. Lists(lines, x) => Lists(built, x)'
    BY <1>1, <1>6 DEF Lists, Fits
  <2>3. Lists(out, x) => Lists(out, x)'
    BY <1>1, <1>6 DEF Lists, Fits
  <2> QED
    BY <1>3, <1>5, <2>1, <2>2, <2>3
<1>7. CASE chunk' = <<>> /\ built' = <<>> /\ out' = out \o lines /\ Len(chunk) = 1
  <2>1. OnPage(x) => chunk[1] = KeyOf(x)
    BY <1>1, <1>7 DEF OnPage
  <2>2. Lists(out, x) \/ Lists(lines, x) => Lists(out \o lines, x)
    BY <1>1, <1>4, ListsFacts
  <2>3. Lists(out \o lines, x) => Lists(out, x)'
    BY <1>1, <1>7 DEF Lists, Fits
  <2> QED
    BY <1>3, <1>5, <2>1, <2>2, <2>3
<1> QED
  BY <1>2, <1>6, <1>7 DEF l, lines

LEMMA SteadyInit == ExportInit => SteadyInv
BY DEF ExportInit, SteadyInv

LEMMA SteadyPage ==
  ASSUME ExportTypes, SteadyInv, NextCombinations \/ get_sensors_by_station_chunked, ~removed,
         NEW x \in steady
  PROVE  SteadyListed(x)'
<1> DEFINE ids == PageOf(Listed)
           rank == Rank(Listable, KeyOf(x))
<1>1. TableTypes /\ offset \in Nat /\ stage = "page" /\ out \in Seq(Line)
  BY DEF NextCombinations, get_sensors_by_station_chunked, ExportTypes, RunTypes
<1>2. x \in Listing /\ (rank < offset => Lists(out, x))
  BY <1>1 DEF SteadyInv, SteadyListed
<1>3. KeyOf(x) \in Listable /\ rank \in Nat /\ rank < Cardinality(Listable)
  BY <1>1, <1>2, ListingFacts
<1>4. /\ ids \in Seq(Nat)
      /\ rank >= offset /\ rank < offset + ChunkSize => \E i \in 1..Len(ids) : ids[i] = KeyOf(x)
      /\ ids = <<>> => Cardinality(Listable) <= offset
  BY <1>1, <1>3, PageFacts
<1>5. Cardinality(Listable) \in Nat
  BY <1>1, ListableFacts, FS_CardinalityType
<1>6. /\ rank < offset \/ rank >= offset
      /\ ids = <<>> => rank < offset
  BY <1>1, <1>3, <1>4, <1>5
<1>7. UNCHANGED <<kind, header>> /\ Listable' = Listable
  BY SameTables DEF NextCombinations, get_sensors_by_station_chunked
<1>8. KeyOf(x)' = KeyOf(x)
  BY <1>7 DEF KeyOf
<1> HIDE DEF ids, rank
<1>9. CASE NextCombinations
  <2>1. /\ chunk' = ids /\ out' = out /\ offset' = offset
        /\ stage' = IF ids = <<>> THEN "done" ELSE "values"
    BY <1>9 DEF NextCombinations, ids
  <2>2. Lists(out, x) => Lists(out, x)'
    BY <1>7, <2>1 DEF Lists, Fits
  <2>3. (\E i \in 1..Len(ids) : ids[i] = KeyOf(x)) => OnPage(x)'
    BY <1>4, <1>8, <2>1 DEF OnPage
  <2>4. Rank(Listable, KeyOf(x))' = rank
    BY <1>7, <1>8 DEF Rank, rank
  <2>5. stage' = "values" /\ rank < offset + ChunkSize => Lists(out, x)' \/ OnPage(x)'
    BY <1>2, <1>4, <1>6, <2>2, <2>3
  <2>6. stage' = "done" => Lists(out, x)'
    BY <1>2, <1>6, <2>1, <2>2
  <2>7. stage' # "page"
    BY <2>1
  <2> QED
    BY <2>1, <2>4, <2>5, <2>6, <2>7 DEF SteadyListed
<1>10. CASE get_sensors_by_station_chunked
  <2> DEFINE lines == Lines(ids)
  <2>1. /\ out' = out \o lines /\ lines \in Seq(Line) /\ kind = "sensors"
        /\ Len(lines) = Len(ids) /\ \A i \in 1..Len(ids) : lines[i].key = ids[i]
        /\ IF ids = <<>> THEN stage' = "done" /\ offset' = offset
           ELSE stage' = "page" /\ offset' = offset + ChunkSize
    BY <1>10, SensorPage DEF ids
  <2> HIDE DEF lines
  <2>2. Lists(out, x) \/ Lists(lines, x) => Lists(out, x)'
    <3>1. Lists(out, x) \/ Lists(lines, x) => Lists(out \o lines, x)
      BY <1>1, <2>1, ListsFacts
    <3> QED
      BY <1>7, <2>1, <3>1 DEF Lists, Fits
  <2>3. (\E i \in 1..Len(ids) : ids[i] = KeyOf(x)) => Lists(lines, x)
    BY <2>1 DEF Lists, Fits, KeyOf
  <2>4. Rank(Listable, KeyOf(x))' = rank
    BY <1>7, <1>8 DEF Rank, rank
  <2>5. rank < offset + ChunkSize => Lists(out, x)'
    BY <1>2, <1>4, <1>6, <2>2, <2>3
  <2>6. stage' = "done" => Lists(out, x)'
    BY <1>2, <1>6, <2>1, <2>2
  <2>7. stage' # "values" /\ (stage' = "page" => offset' = offset + ChunkSize)
    BY <2>1
  <2> QED
    BY <2>4, <2>5, <2>6, <2>7 DEF SteadyListed
<1> QED
  BY <1>9, <1>10

LEMMA SteadyStep ==
  ASSUME ExportTypes, SteadyInv, [ExportNext]_exportVars
  PROVE  SteadyInv'
<1>0. TableTypes /\ RunTypes /\ ChunkSize \in Nat /\ offset \in Nat
  BY WritesAssumption DEF ExportTypes, RunTypes
<1>1. ASSUME NEW k \in {"measurements", "sensors"}, export_csv(k) PROVE SteadyInv'
  <2>1. /\ stage' = (IF k = "sensors" THEN "page" ELSE "header") /\ kind' = k /\ offset' = 0
        /\ UNCHANGED <<stationTables, out, chunk, built, removed>>
        /\ steady' = IF k = "sensors" THEN Sensor ELSE Pairs
    BY <1>0, <1>1 DEF export_csv, RunTypes
  <2>2. steady' = Listing' /\ TableTypes'
    BY <1>0, <2>1, SameTables DEF Listing, Sensor, stationTables
  <2>3. ASSUME NEW x \in steady', stage' = "page" PROVE ~(Rank(Listable', KeyOf(x)') < offset')
    <3>1. k = "sensors" /\ x \in Sensor /\ Listable' = Sensor /\ KeyOf(x)' = x
      BY <2>1, <2>3 DEF Listable, KeyOf, Sensor, stationTables
    <3>2. Listable' \in SUBSET Nat /\ IsFiniteSet(Listable')
      BY <2>2, ListableTypesNext
    <3>3. Rank(Listable', x) \in Nat
      BY <3>1, <3>2, RankFacts
    <3> QED
      BY <2>1, <3>1, <3>3
  <2>4. \A x \in steady' : SteadyListed(x)'
    BY <2>1, <2>3 DEF SteadyListed
  <2>5. kind' = "measurements" => stage' = "header"
    BY <2>1
  <2> QED
    BY <2>2, <2>4, <2>5 DEF SteadyInv
<1>2. ASSUME get_unique_sensor_aliases_for_station PROVE SteadyInv'
  <2>1. /\ stage = "header" /\ stage' = "page" /\ kind' = kind /\ kind # "sensors" /\ offset' = 0
        /\ UNCHANGED <<stationTables, steady, removed>>
        /\ header' = {alias[s] : s \in Sensor} \ {None}
    BY <1>0, <1>2 DEF get_unique_sensor_aliases_for_station, RunTypes, history
  <2>2. steady \subseteq Listing /\ Listing' = Listing /\ Listable' = Listable
    BY <2>1, SameTables DEF SteadyInv, Listing, Sensor, stationTables
  <2>3. \A x \in steady : x[1] \in header'
    <3> SUFFICES ASSUME NEW x \in steady PROVE x[1] \in header'
      OBVIOUS
    <3>1. PICK r \in Named : alias[r.sensor] = x[1]
      BY <1>0, <2>1, <2>2, ListingFacts
    <3>2. r.sensor \in Sensor /\ alias[r.sensor] # None
      BY <1>0, ListableFacts DEF Named
    <3> QED
      BY <2>1, <3>1, <3>2
  <2>4. \A x \in steady : SteadyListed(x)'
    <3> SUFFICES ASSUME NEW x \in steady PROVE SteadyListed(x)'
      OBVIOUS
    <3>1. Rank(Listable, KeyOf(x)) \in Nat
      BY <1>0, <2>2, ListingFacts
    <3>2. KeyOf(x)' = KeyOf(x)
      BY <2>1 DEF KeyOf
    <3>3. Rank(Listable', KeyOf(x)') \in Nat
      BY <2>2, <3>1, <3>2
    <3> QED
      BY <2>1, <3>3 DEF SteadyListed
  <2> QED
    BY <2>1, <2>2, <2>3, <2>4 DEF SteadyInv
<1>3. ASSUME NextCombinations \/ get_sensors_by_station_chunked PROVE SteadyInv'
  <2>1. /\ UNCHANGED <<stationTables, kind, header, steady, removed>>
        /\ stage = "page"
    BY <1>3 DEF NextCombinations, get_sensors_by_station_chunked, history
  <2>2. Listing' = Listing
    BY <2>1, SameTables DEF Listing, Sensor, stationTables
  <2>3. \A x \in steady' : ~removed' => SteadyListed(x)'
    BY <1>3, <2>1, SteadyPage
  <2> QED
    BY <2>1, <2>2, <2>3 DEF SteadyInv
<1>4. ASSUME ReadValues PROVE SteadyInv'
  <2>1. /\ stage = "values" /\ kind = "measurements"
        /\ UNCHANGED <<stationTables, kind, header, steady, removed>>
    BY <1>0, <1>4, ReadCases DEF history
  <2>2. Listing' = Listing /\ Listable' = Listable
    BY <2>1, SameTables DEF Listing, Sensor, stationTables
  <2>3. \/ stage' = "values" /\ offset' = offset
        \/ stage' = "page" /\ offset' = offset + ChunkSize /\ chunk' = <<>> /\ built' = <<>>
    BY <1>0, <1>4, <2>1, ReadCases
  <2>4. \A x \in steady : ~removed => SteadyListed(x)'
    <3> SUFFICES ASSUME NEW x \in steady, ~removed PROVE SteadyListed(x)'
      OBVIOUS
    <3>1. x \in Listing /\ x[1] \in header
      BY <2>1 DEF SteadyInv
    <3>2. Rank(Listable, KeyOf(x)) < offset + ChunkSize
            => Lists(out, x) \/ Lists(built, x) \/ OnPage(x)
      BY <2>1 DEF SteadyInv, SteadyListed
    <3>3. Lists(out, x) \/ Lists(built, x) \/ OnPage(x)
            => (Lists(out, x) \/ Lists(built, x) \/ OnPage(x))'
      BY <1>4, <3>1, ReadLists
    <3>4. chunk' = <<>> /\ built' = <<>> => ~Lists(built, x)' /\ ~OnPage(x)'
      BY DEF Lists, OnPage
    <3>5. KeyOf(x)' = KeyOf(x)
      BY <2>1 DEF KeyOf
    <3>6. Rank(Listable, KeyOf(x))' = Rank(Listable, KeyOf(x))
      BY <2>2, <3>5 DEF Rank
    <3> QED
      BY <2>3, <3>2, <3>3, <3>4, <3>6 DEF SteadyListed
  <2> QED
    BY <2>1, <2>2, <2>3, <2>4 DEF SteadyInv
<1>5. ASSUME Stops PROVE SteadyInv'
  <2>1. /\ stage' = "stopped" /\ stage # "idle" /\ UNCHANGED <<stationTables, kind, steady>>
    BY <1>5 DEF Stops, history
  <2>2. Listing' = Listing
    BY <2>1, SameTables DEF Listing, Sensor, stationTables
  <2> QED
    BY <2>1, <2>2 DEF SteadyInv, SteadyListed
<1>6. ASSUME Write PROVE SteadyInv'
  <2>1. Writes /\ TableTypes'
    BY <1>0, <1>6, WriteTables
  <2>2. UNCHANGED <<kind, stage, header, offset, chunk, built, out>> /\ stage # "idle"
    BY <2>1 DEF Writes, export
  <2>3. steady' \subseteq Listing' /\ steady' \subseteq steady
    BY <2>1, <2>2 DEF Writes, Listing
  <2>4. \A x \in steady' : ~removed' => SteadyListed(x)'
    <3> SUFFICES ASSUME NEW x \in steady', ~removed' PROVE SteadyListed(x)'
      OBVIOUS
    <3>1. ~removed /\ Listable \subseteq Listable'
      BY <2>1 DEF Writes
    <3>2. SteadyListed(x) /\ x \in Listing
      BY <2>2, <2>3, <3>1 DEF SteadyInv
    <3>3. KeyOf(x) \in Nat /\ Rank(Listable, KeyOf(x)) \in Nat
      BY <1>0, <3>2, ListingFacts
    <3>4. Listable' \in SUBSET Nat /\ IsFiniteSet(Listable')
      BY <2>1, ListableTypesNext
    <3> DEFINE k == KeyOf(x)
    <3>5. Rank(Listable, k) <= Rank(Listable', k) /\ Rank(Listable', k) \in Nat
      <4>1. {y \in Listable : y < k} \subseteq Listable'
        BY <3>1
      <4>2. Rank(Listable, k) <= Rank(Listable', k)
        BY <3>4, <4>1, RankGrows
      <4>3. Rank(Listable', k) \in Nat
        BY <3>3, <3>4, RankFacts
      <4> QED
        BY <4>2, <4>3
    <3>6. Rank(Listable, KeyOf(x))' = Rank(Listable', k)
      BY <2>2 DEF KeyOf, Rank
    <3>7. /\ Rank(Listable', k) < offset => Rank(Listable, k) < offset
          /\ Rank(Listable', k) < offset + ChunkSize => Rank(Listable, k) < offset + ChunkSize
      BY <1>0, <3>3, <3>5
    <3> HIDE DEF k
    <3>8. /\ Lists(out, x)' = Lists(out, x) /\ Lists(built, x)' = Lists(built, x)
          /\ OnPage(x)' = OnPage(x)
      BY <2>2 DEF Lists, Fits, OnPage, KeyOf
    <3> QED
      BY <2>2, <3>2, <3>6, <3>7, <3>8 DEF SteadyListed, k
  <2> QED
    BY <2>2, <2>3, <2>4 DEF SteadyInv
<1>7. CASE UNCHANGED exportVars
  <2>1. /\ UNCHANGED <<kind, stage, header, offset, chunk, built, out, removed, steady>>
        /\ UNCHANGED stationTables
    BY <1>7 DEF exportVars, export, history
  <2>2. Listing' = Listing /\ Listable' = Listable
    BY <2>1, SameTables DEF Listing, Sensor, stationTables
  <2> QED
    BY <2>1, <2>2 DEF SteadyInv, SteadyListed, Lists, Fits, OnPage, KeyOf, Rank
<1> QED
  BY <1>1, <1>2, <1>3, <1>4, <1>5, <1>6, <1>7 DEF ExportNext, Reads, Write
-----------------------------------------------------------------------------
(* Every state the specification reaches. *)

\* Types of the tables and of the export, whatever is written meanwhile:
\* measurements belong to existing sensors, lines of a chunk exist only while
\* its values are read.
THEOREM ExportTypesHold == ExportSpec => []ExportTypes
<1>1. ExportInit => ExportTypes
  BY ExportTypesInit
<1>2. ExportTypes /\ [ExportNext]_exportVars => ExportTypes'
  BY ExportTypesStep
<1> QED
  BY <1>1, <1>2, PTL DEF ExportSpec

\* A cell of a line was the stored value of its alias, time and place at some
\* moment since the request, and an empty one had none at some moment, whatever
\* was written between the page's statement and the line's.
THEOREM CellsHold == ExportSpec => []CellsWereTrue
<1>1. ExportInit => TrueInv
  BY TrueInit
<1>2. ExportTypes /\ TrueInv /\ [ExportNext]_exportVars => TrueInv'
  BY TrueStep
<1>3. TrueInv => CellsWereTrue
  BY DEF TrueInv, WereTrue, CellsWereTrue
<1> QED
  BY <1>1, <1>2, <1>3, ExportTypesHold, PTL DEF ExportSpec

\* Without a removal nothing that stays is skipped; without an insertion before
\* what ever was, no line comes twice.
THEOREM LinesHold == ExportSpec => []EachLineOnce
<1> DEFINE Inv == ExportTypes /\ TrueInv /\ KnownInv /\ OrderInv /\ SteadyInv
<1>1. ExportInit => Inv
  BY ExportTypesInit, TrueInit, KnownInit, OrderInit, SteadyInit
<1>2. Inv /\ [ExportNext]_exportVars => Inv'
  BY ExportTypesStep, TrueStep, KnownStep, OrderStep, SteadyStep
<1>3. Inv => EachLineOnce
  <2> SUFFICES ASSUME OrderInv, SteadyInv PROVE EachLineOnce
    OBVIOUS
  <2>1. ASSUME NEW x \in steady, stage = "done", ~removed PROVE LineFor(x)
    BY <2>1 DEF SteadyInv, SteadyListed, Lists, Fits, LineFor
  <2>2. ~inserted => \A i, j \in DOMAIN out : i < j => out[i].key < out[j].key
    BY DEF OrderInv, Ascending, Increasing
  <2> QED
    BY <2>1, <2>2 DEF EachLineOnce
<1> QED
  BY <1>1, <1>2, <1>3, PTL DEF ExportSpec
=============================================================================
