----------------------------- MODULE MCBackfill -----------------------------
(***************************************************************************)
(* Instances of Backfill: two chunks that share the identity k2, over two  *)
(* buckets; k3 may also be inserted by another upload.                     *)
(***************************************************************************)
EXTENDS Backfill

MCKey == {"k1", "k2", "k3"}
MCStaged == [c \in 1..2 |-> IF c = 1 THEN {"k1", "k2"} ELSE {"k2", "k3"}]
MCBucket == [k \in MCKey |-> IF k = "k1" THEN 0 ELSE 1]
=============================================================================
