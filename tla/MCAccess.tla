------------------------------- MODULE MCAccess -------------------------------
(* Two calls, at once or in turn, and two instances. *)
EXTENDS Access, TLC

Symmetry == Permutations(Call)

=============================================================================
