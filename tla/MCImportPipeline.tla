-------------------------- MODULE MCImportPipeline --------------------------
(***************************************************************************)
(* The combined worker of the develop deployment beside a second process   *)
(* that only polls for post-processing. One import of two chunks with a    *)
(* common key.                                                             *)
(***************************************************************************)
EXTENDS ImportPipeline

CONSTANTS i1, all, post, s1, s2

MCPolls == [p \in Process |-> IF p = all THEN {"ingestion", "post"} ELSE {"post"}]

MCContent == [i \in Import |-> <<<<{"k1", "k2"}>>, <<{"k2", "k3"}>>>>]
=============================================================================
