------------------------------ MODULE MCCatalog ------------------------------
(* Two requests over two stations and a sensor. *)
EXTENDS Catalog, TLC

Symmetry == Permutations(Station) \union Permutations(Sensor) \union Permutations(Request)
            \union Permutations(Field)

=============================================================================
