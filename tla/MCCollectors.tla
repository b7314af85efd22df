---------------------------- MODULE MCCollectors ----------------------------
(* A reader and two registrants with every dependency graph between them. *)
EXTENDS Collectors

Symmetry == Permutations(Registrants)
=============================================================================
