-------------------------- MODULE MCAppLifecycle --------------------------
(* Every dependency graph over three plugins with hooks, one with a task. *)
EXTENDS AppLifecycle
=============================================================================
