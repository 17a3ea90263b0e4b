---------------------------- MODULE ImportRecord ----------------------------
(***************************************************************************)
(* The part of one upload_imports row that the ingestion worker, the       *)
(* post-processing worker and the API all read and write, and the budget   *)
(* of faults that the environment may spend.                               *)
(*                                                                         *)
(* Every database transaction of the code is one atomic step: sessions run *)
(* at READ COMMITTED, so a row read in one transaction and written in a    *)
(* later one is two steps.                                                 *)
(***************************************************************************)
EXTENDS Naturals, FiniteSets

CONSTANTS
  Import,       \* identifiers of the imports under consideration
  MaxAttempts,  \* BULK_IMPORT_MAX_ATTEMPTS
  MaxFaults     \* bound: how many crashes and stalls a behaviour contains

ASSUME ImportAssumption      == IsFiniteSet(Import)
ASSUME MaxAttemptsAssumption == MaxAttempts \in Nat \ {0}
ASSUME MaxFaultsAssumption   == MaxFaults \in Nat

\* What an idle worker works for.
NoJob == "none"

ASSUME NoJobAssumption == NoJob \notin Import

VARIABLES
  status,   \* upload_imports.status
  files,    \* imports whose storage directory still holds its uploads
  faults    \* crashes and stalls so far

recordVars == <<status, files, faults>>

(***************************************************************************)
(* A token is the uuid4 a claim writes. It is fresh at each claim, and so  *)
(* is the number of the claim, which stands for it; 0 is SQL NULL.         *)
(***************************************************************************)
NoToken == 0

Status == {"queued", "processing", "data_loaded", "completed", "failed"}

TERMINAL_IMPORT_STATUSES == {"completed", "failed"}

\* lease_expires_at: NULL, in the future, or in the past.
Lease == {"none", "live", "expired"}

\* A crash or a stall happens, if the budget allows it.
Fault ==
  /\ faults < MaxFaults
  /\ faults' = faults + 1

(***************************************************************************)
(* cleanup_import_storage: rmtree of the import's directory. An OSError is *)
(* logged by the caller, and leaves the directory in place.                *)
(***************************************************************************)
cleanup_import_storage(i) == files' \in {files, files \ {i}}

RecordTypeOK ==
  /\ status \in [Import -> Status]
  /\ files \subseteq Import
  /\ faults \in 0..MaxFaults
=============================================================================
