-------------------------- MODULE MCUploadSession --------------------------
(***************************************************************************)
(* Instances of UploadSession: two chunks of one value each, or a chunk of *)
(* two values, so that a request can fail between two batches.             *)
(***************************************************************************)
EXTENDS UploadSession

MCTimes == [c \in {0, 1} |-> IF c = 0 THEN {0} ELSE {1, 2}]
=============================================================================
