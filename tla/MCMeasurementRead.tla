-------------------------- MODULE MCMeasurementRead --------------------------
(***************************************************************************)
(* Six readings at 1 to 6 and a minute of three seconds.                   *)
(***************************************************************************)
EXTENDS MeasurementRead

MCOpening == [i \in 1..6 |-> i]
MCTime == {0, 3, 7}
MCValue == 0..1
=============================================================================
