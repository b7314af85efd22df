--------------------------- MODULE MCPluginBuild ---------------------------
(* Every dependency graph over the plugins, any of them immediate. *)
EXTENDS PluginBuild

Symmetry == Permutations(Plugin)
=============================================================================
