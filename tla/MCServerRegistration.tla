------------------------ MODULE MCServerRegistration ------------------------
(* ServerRegistration for TLC. *)
EXTENDS ServerRegistration, TLC

Symmetry == Permutations(Server)
=============================================================================
