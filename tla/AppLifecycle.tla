---------------------------- MODULE AppLifecycle ----------------------------
(***************************************************************************)
(* AppBuilder::run and AppBuilder::build from end to end: the plugins are  *)
(* built (PluginBuild) and register schedulers and shutdown hooks while    *)
(* they are, the services are injected, and run() then schedules the tasks *)
(* and shuts down (AppSchedule), while build() hands the App out.          *)
(*                                                                         *)
(* The injection is one step here; ServiceInject has its details.          *)
(***************************************************************************)
EXTENDS PluginBuild

CONSTANTS
  Schedules,   \* the plugins whose build calls add_scheduler
  Hooks        \* the plugins whose build calls add_shutdown_hook

ASSUME WiringAssumption == Schedules \subseteq Plugin /\ Hooks \subseteq Plugin

VARIABLES
  mode,        \* the method the program called, "run" or "build"; "either"
               \* until they differ
  schedulers, shutdown_hooks, main, task, handles, hook_log, cause, events

Schedule == INSTANCE AppSchedule WITH Task <- Schedules, Hook <- Hooks

wiringVars == <<schedulers, shutdown_hooks>>
runVars    == <<main, task, handles, hook_log, cause, events>>
appVars    == <<vars, mode, wiringVars, runVars>>

AppInit ==
  /\ Init
  /\ Schedule!Idle
  /\ mode = "either"
  /\ schedulers = <<>>
  /\ shutdown_hooks = <<>>
  /\ main = "building"

-----------------------------------------------------------------------------
\* Mutant of Wire: one hook, the last one, in place of a list.
WireLast(plugins) ==
  /\ \E added \in SetToSeqs(plugins \cap Schedules) : schedulers' = schedulers \o added
  /\ \E added \in SetToSeqs(plugins \cap Hooks) :
       shutdown_hooks' = IF added = <<>> THEN shutdown_hooks ELSE <<Last(added)>>

\* What build and immediately_build of `plugins` push on the lists of the
\* builder.  A build adds its scheduler, its hook and immediate plugins in an
\* order of its own.
Wire(plugins) ==
  /\ \E added \in SetToSeqs(plugins \cap Schedules) : schedulers' = schedulers \o added
  /\ \E added \in SetToSeqs(plugins \cap Hooks) : shutdown_hooks' = shutdown_hooks \o added

\* The immediate plugins a step adds; one added again is left out, which
\* bounds the lists.
NewlyImmediate == immediate_built' \ immediate_built

BuildAndWire(new) ==
  /\ BuildPlugin(new)
  /\ Wire({Head(to_register)} \cup NewlyImmediate)
  /\ UNCHANGED <<mode, runVars>>

AddAndWire(p) ==
  /\ AddPlugin(p)
  /\ Wire(NewlyImmediate)
  /\ UNCHANGED <<mode, runVars>>

\* The other steps of build_plugins.
BuildPhase ==
  /\ \/ AddAutoPlugins
     \/ ListenerError
     \/ TakeRegistry
     \/ \E new \in SUBSET Plugin : PluginPanics(new)
     \/ DeferPlugin
     \/ EndRound
     \/ RestoreRegistry
     \/ PluginsBuilt
  /\ Wire(NewlyImmediate)
  /\ UNCHANGED <<mode, runVars>>

\* Mutant of InjectServices: it does not wait for the plugins.
InjectEarly ==
  /\ main = "building" /\ phase \in {"building", "built"}
  /\ main' = "build_app" /\ mode' \in {"run", "build"}
  /\ UNCHANGED <<vars, wiringVars, task, handles, hook_log, events, cause>>

\* auto_inject_service and ServicesInjectedEvent: either may fail.
InjectServices ==
  /\ phase = "built" /\ main = "building"
  /\ main' \in {"build_app", "error"} /\ mode' \in {"run", "build"}
  /\ cause' = IF main' = "error" THEN "injection" ELSE cause
  /\ UNCHANGED <<vars, wiringVars, task, handles, hook_log, events>>

\* build() returns the App as soon as it is built.
HandOut ==
  /\ mode = "build"
  /\ Schedule!Publish("AppBuilt", "build_app", "returned")
  /\ UNCHANGED <<vars, mode>>

Run ==
  /\ mode = "run"
  /\ Schedule!ScheduleNext
  /\ UNCHANGED <<vars, mode>>

BuildPlugins == BuildPhase \/ \E new \in SUBSET Plugin : BuildAndWire(new)

AppNext ==
  \/ \E p \in Plugin : AddAndWire(p)
  \/ BuildPlugins
  \/ InjectServices
  \/ HandOut
  \/ Run

AppSpec == AppInit /\ [][AppNext]_appVars

\* One task drives the build, as in PluginBuild.
AppFairSpec == AppSpec /\ WF_appVars(BuildPlugins)

-----------------------------------------------------------------------------
(***************************************************************************)
(* Properties.                                                             *)
(***************************************************************************)

\* What a plugin built on is still open when its own hook runs: the hook of
\* a plugin never runs before that of a plugin that depends on it.
DependentsCloseFirst ==
  \A i, j \in DOMAIN hook_log :
    i < j => ~ DependsOn(hook_log[j], hook_log[i])

\* The tasks start when the registry is complete: no task runs while any
\* plugin is still to be built, and none ever runs if a plugin could not be.
TasksSeeBuiltPlugins ==
  (\E t \in Schedules : task[t] # "unborn") => phase = "built" /\ registered = registry

\* The plugins whose build or immediately_build has run.
Wired == registered \cup immediate_built

\* Every scheduler a built plugin added is spawned before run() awaits any
\* of them, and every hook is run before run() returns normally.
NothingRegisteredIsForgotten ==
  /\ main \in {"join", "before_hooks", "hooks", "after_hooks"} =>
       \A p \in Wired \cap Schedules : task[p] # "unborn"
  /\ mode = "run" /\ main = "returned" => Wired \cap Hooks = ToSet(hook_log)

(***************************************************************************)
(* The inductive invariant behind the three.  While the plugins are built  *)
(* nothing runs; who was built is on a list of the builder, or was taken   *)
(* off it to be spawned or closed; the stage tells which lists are empty;  *)
(* and the hooks closed so far, then those left from last to first, close  *)
(* dependents before what they depend on.                                  *)
(***************************************************************************)
AppTypeOK ==
  /\ TypeOK
  /\ Schedule!ScheduleTypeOK
  /\ mode \in {"either", "run", "build"}

BuildBeforeRun ==
  /\ main = "building" => Schedule!Idle
  /\ main # "building" => phase = "built"

OnListOrTaken ==
  /\ Wired \cap Schedules = ToSet(schedulers) \cup {t \in Schedules : task[t] # "unborn"}
  /\ Wired \cap Hooks = ToSet(shutdown_hooks) \cup ToSet(hook_log)

ListsEmptied ==
  /\ main \in {"join", "before_hooks", "hooks", "after_hooks"} => schedulers = <<>>
  /\ mode = "run" /\ main \in {"after_hooks", "returned"} => shutdown_hooks = <<>>

CloseOrder ==
  /\ \A p \in immediate : deps[p] = {}
  /\ \A i, j \in DOMAIN shutdown_hooks :
       i < j => ~ DependsOn(shutdown_hooks[i], shutdown_hooks[j])
  /\ \A p \in ToSet(shutdown_hooks), q \in ToSet(hook_log) : ~ DependsOn(p, q)
  /\ DependentsCloseFirst

AppInv ==
  /\ BuildBeforeRun
  /\ OnListOrTaken
  /\ ListsEmptied
  /\ CloseOrder
=============================================================================
