-------------------------- MODULE DependencyOrder --------------------------
(***************************************************************************)
(* What building the plugins promises, without rounds and without order:   *)
(* from a fixed pool, build one plugin after another, each when all its    *)
(* dependencies are done, until the pool is done or nothing can be built.  *)
(* PluginBuild implements this specification.                              *)
(***************************************************************************)
CONSTANT Plugin

VARIABLES
  deps,     \* deps[p]: what must be done before p (fixed)
  pool,     \* the plugins to build, fixed once the build starts
  done,     \* the plugins built
  outcome   \* "open" until the pool is fixed, then "ordering", then the result

vars == <<deps, pool, done, outcome>>

Buildable(p) == p \in pool \ done /\ deps[p] \subseteq done

Init ==
  /\ deps \in [Plugin -> SUBSET Plugin]
  /\ pool = {}
  /\ done = {}
  /\ outcome = "open"

Start ==
  /\ outcome = "open"
  /\ pool' \in SUBSET Plugin
  /\ outcome' = "ordering"
  /\ UNCHANGED <<deps, done>>

Build(p) ==
  /\ outcome = "ordering"
  /\ Buildable(p)
  /\ done' = done \cup {p}
  /\ UNCHANGED <<deps, pool, outcome>>

Complete ==
  /\ outcome = "ordering"
  /\ done = pool
  /\ outcome' = "complete"
  /\ UNCHANGED <<deps, pool, done>>

Stuck ==
  /\ outcome = "ordering"
  /\ done # pool
  /\ \A p \in Plugin : ~ Buildable(p)
  /\ outcome' = "stuck"
  /\ UNCHANGED <<deps, pool, done>>

\* A duplicate name, a plugin that panics or a listener that fails.
Abort ==
  /\ outcome # "stuck"
  /\ outcome' = "aborted"
  /\ UNCHANGED <<deps, pool, done>>

Next ==
  \/ Start
  \/ \E p \in Plugin : Build(p)
  \/ Complete
  \/ Stuck
  \/ Abort

Spec == Init /\ [][Next]_vars
=============================================================================
