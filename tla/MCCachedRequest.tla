-------------------------- MODULE MCCachedRequest --------------------------
(* CachedRequest for TLC. *)
EXTENDS CachedRequest, TLC

Symmetry == Permutations(Request)
=============================================================================
