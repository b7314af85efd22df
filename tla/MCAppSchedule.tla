--------------------------- MODULE MCAppSchedule ---------------------------
(* Three tasks and three hooks, in every order of registration. *)
EXTENDS AppSchedule
=============================================================================
