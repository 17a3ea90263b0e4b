--------------------------- MODULE MCImportWorker ---------------------------
(***************************************************************************)
(* Instances of ImportWorker. Two chunks; the first is loaded in two       *)
(* batches; the second repeats a key of the first and, when a second       *)
(* import is present, both imports hold a common key.                      *)
(***************************************************************************)
EXTENDS ImportWorker

CONSTANTS i1, i2

MCKey == {"k1", "k2", "k3"}

MCContent == [i \in Import |->
  IF i = i1 THEN [c \in 1..2 |-> IF c = 1 THEN <<{"k1"}, {"k2"}>> ELSE <<{"k2", "k3"}>>]
            ELSE [c \in 1..2 |-> IF c = 1 THEN <<{"k3"}>> ELSE <<>>]]
=============================================================================
