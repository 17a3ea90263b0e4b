------------------------ MODULE MCPartitionMigration ------------------------
(***************************************************************************)
(* Two measurements, of two sensors in two partitions.                     *)
(***************************************************************************)
EXTENDS PartitionMigration

MCId == 1..2
MCSensor == {"s0", "s1"}
MCSensorOf == [i \in MCId |-> IF i = 2 THEN "s1" ELSE "s0"]
MCRemainder == [s \in MCSensor |-> IF s = "s0" THEN 0 ELSE 1]
MCIndexKeys == <<"pkey", "geometry">>
=============================================================================
