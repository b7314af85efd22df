---------------------------- MODULE PluginBuild ----------------------------
(***************************************************************************)
(* The plugin registry of AppBuilder and the loop that builds the plugins  *)
(* (summer/src/app.rs: add_plugin, add_auto_plugins, build_plugins).       *)
(* Plugins are built in rounds: a round walks over the plugins still to be *)
(* built, in the arbitrary order in which DashMap iterates, builds those   *)
(* whose dependencies are all registered and keeps the others for the next *)
(* round.  A round without progress panics.                                *)
(*                                                                         *)
(* A plugin is identified with its name, the key of the registry.          *)
(***************************************************************************)
EXTENDS Naturals, SequencesExt

CONSTANT Plugin   \* the names of the plugins

ASSUME PluginAssumption == IsFiniteSet(Plugin)

VARIABLES
  immediate,        \* the plugins whose immediately() returns true (fixed)
  deps,             \* deps[p] = dependencies() of p (fixed)
  auto,             \* the plugins inventory submitted (fixed)
  phase,            \* where build_plugins is, or how it ended
  plugin_registry,  \* self.plugin_registry
  immediate_built,  \* the immediate plugins that were added, hence built
  registry,         \* the local `registry`, taken from plugin_registry
  to_register,      \* the rest of the current round
  next_round,       \* the plugins kept for the next round
  progress,         \* has the current round built a plugin?
  registered,       \* names of the plugins built by the loop
  built,            \* history: the order in which the loop built them
  accepted          \* history: every name inserted into the registry

fixedVars == <<immediate, deps, auto>>
regVars   == <<plugin_registry, immediate_built, accepted>>
loopVars  == <<registry, to_register, next_round, progress, registered, built>>
vars      == <<fixedVars, phase, regVars, loopVars>>

Panics  == {"duplicate", "unresolved", "plugin_panic"}
Running == {"setup", "config_event", "building", "plugins_built_event"}
Phases  == Running \cup Panics \cup {"listener_error", "built"}

TypeOK ==
  /\ immediate \in SUBSET Plugin
  /\ deps \in [Plugin -> SUBSET Plugin]
  /\ auto \in SUBSET Plugin
  /\ phase \in Phases
  /\ plugin_registry \in SUBSET (Plugin \ immediate)
  /\ immediate_built \in SUBSET immediate
  /\ registry \in SUBSET (Plugin \ immediate)
  /\ to_register \in Seq(Plugin)
  /\ next_round \in Seq(Plugin)
  /\ progress \in BOOLEAN
  /\ registered \in SUBSET Plugin
  /\ built \in Seq(Plugin)
  /\ accepted \in SUBSET (Plugin \ immediate)

\* The dependencies of an immediate plugin are never looked at.
Init ==
  /\ immediate \in SUBSET Plugin
  /\ deps \in {f \in [Plugin -> SUBSET Plugin] : \A p \in immediate : f[p] = {}}
  /\ auto \in SUBSET Plugin
  /\ phase = "setup"
  /\ plugin_registry = {}
  /\ immediate_built = {}
  /\ registry = {}
  /\ to_register = <<>>
  /\ next_round = <<>>
  /\ progress = FALSE
  /\ registered = {}
  /\ built = <<>>
  /\ accepted = {}

-----------------------------------------------------------------------------
(***************************************************************************)
(* Adding plugins.  An immediate plugin is built at once and never enters  *)
(* the registry; any other name must not be in the registry yet.           *)
(***************************************************************************)
Duplicates(new) == (new \ immediate) \cap plugin_registry

Register(new) ==
  /\ plugin_registry' = plugin_registry \cup (new \ immediate)
  /\ immediate_built' = immediate_built \cup (new \cap immediate)
  /\ accepted' = accepted \cup (new \ immediate)

\* add_plugin, called by the program before run() or by an event listener
\* while a builder event is being published.
AddPlugin(p) ==
  /\ phase \in {"setup", "config_event", "plugins_built_event"}
  /\ IF Duplicates({p}) # {}
       THEN phase' = "duplicate" /\ UNCHANGED regVars
       ELSE Register({p}) /\ UNCHANGED phase
  /\ UNCHANGED <<fixedVars, loopVars>>

\* add_auto_plugins, the first step of build_plugins.  The order of the
\* inventory does not matter: names within `auto` are distinct.
AddAutoPlugins ==
  /\ phase = "setup"
  /\ IF Duplicates(auto) # {}
       THEN phase' = "duplicate" /\ UNCHANGED regVars
       ELSE Register(auto) /\ phase' = "config_event"
  /\ UNCHANGED <<fixedVars, loopVars>>

-----------------------------------------------------------------------------
\* The bodies of `publish(..).await?`: a listener may fail, and `?` ends the
\* build with that error.
ListenerError ==
  /\ phase \in {"config_event", "plugins_built_event"}
  /\ phase' = "listener_error"
  /\ UNCHANGED <<fixedVars, regVars, loopVars>>

\* ConfigEvent was published: take the registry and fix the iteration order.
TakeRegistry ==
  /\ phase = "config_event"
  /\ phase' = "building"
  /\ registry' = plugin_registry
  /\ plugin_registry' = {}
  /\ to_register' \in SetToSeqs(plugin_registry)
  /\ UNCHANGED <<fixedVars, immediate_built, accepted, next_round, progress, registered, built>>

\* Mutant of Ready: any(..) in place of all(..).
ReadyIfAny(p) == deps[p] = {} \/ deps[p] \cap registered # {}

Ready(p) == deps[p] \subseteq registered

\* plugin.build(self).await of the first plugin of the round.  `new` are the
\* plugins its build adds, into the registry that was emptied.
BuildPlugin(new) ==
  /\ phase = "building" /\ to_register # <<>>
  /\ LET p == Head(to_register) IN
       /\ Ready(p)
       /\ Duplicates(new) = {}
       /\ Register(new)
       /\ registered' = registered \cup {p}
       /\ built' = Append(built, p)
  /\ to_register' = Tail(to_register)
  /\ progress' = TRUE
  /\ UNCHANGED <<fixedVars, phase, registry, next_round>>

\* plugin.build panics: by itself, or in add_plugin of a name it already added.
PluginPanics(new) ==
  /\ phase = "building" /\ to_register # <<>>
  /\ Ready(Head(to_register))
  /\ phase' = IF Duplicates(new) # {} THEN "duplicate" ELSE "plugin_panic"
  /\ UNCHANGED <<fixedVars, regVars, loopVars>>

\* next_round.push(plugin)
DeferPlugin ==
  /\ phase = "building" /\ to_register # <<>>
  /\ ~ Ready(Head(to_register))
  /\ next_round' = Append(next_round, Head(to_register))
  /\ to_register' = Tail(to_register)
  /\ UNCHANGED <<fixedVars, phase, regVars, registry, progress, registered, built>>

\* Mutant of EndRound: without the panic.
EndRoundForever ==
  /\ phase = "building" /\ to_register = <<>> /\ next_round # <<>>
  /\ to_register' = next_round
  /\ next_round' = <<>>
  /\ progress' = FALSE
  /\ UNCHANGED <<fixedVars, phase, regVars, registry, registered, built>>

\* Mutant of EndRound: any deferred plugin is taken for a cycle.
EndRoundEagerly ==
  /\ phase = "building" /\ to_register = <<>> /\ next_round # <<>>
  /\ phase' = "unresolved"
  /\ UNCHANGED <<fixedVars, regVars, loopVars>>

\* The end of the for loop of a round that leaves plugins for another one:
\* panic without progress, otherwise start over with next_round.
EndRound ==
  /\ phase = "building" /\ to_register = <<>> /\ next_round # <<>>
  /\ IF progress
       THEN /\ to_register' = next_round
            /\ next_round' = <<>>
            /\ progress' = FALSE
            /\ UNCHANGED phase
       ELSE phase' = "unresolved" /\ UNCHANGED <<to_register, next_round, progress>>
  /\ UNCHANGED <<fixedVars, regVars, registry, registered, built>>

\* Mutant of RestoreRegistry: leave the loop after the first round.
RestoreAfterRound ==
  /\ phase = "building" /\ to_register = <<>>
  /\ phase' = "plugins_built_event"
  /\ plugin_registry' = registry
  /\ UNCHANGED <<fixedVars, immediate_built, accepted, loopVars>>

\* to_register is empty: self.plugin_registry = registry overwrites whatever
\* the builds added, and PluginsBuiltEvent is published.
RestoreRegistry ==
  /\ phase = "building" /\ to_register = <<>> /\ next_round = <<>>
  /\ phase' = "plugins_built_event"
  /\ plugin_registry' = registry
  /\ UNCHANGED <<fixedVars, immediate_built, accepted, loopVars>>

PluginsBuilt ==
  /\ phase = "plugins_built_event"
  /\ phase' = "built"
  /\ UNCHANGED <<fixedVars, regVars, loopVars>>

BuildStep ==
  \/ AddAutoPlugins
  \/ ListenerError
  \/ TakeRegistry
  \/ \E new \in SUBSET Plugin : BuildPlugin(new)
  \/ \E new \in SUBSET Plugin : PluginPanics(new)
  \/ DeferPlugin
  \/ EndRound
  \/ RestoreRegistry
  \/ PluginsBuilt

Next ==
  \/ \E p \in Plugin : AddPlugin(p)
  \/ BuildStep

\* One task drives the build: once run() is called each step follows.
Spec == Init /\ [][Next]_vars
FairSpec == Spec /\ WF_vars(BuildStep)

-----------------------------------------------------------------------------
(***************************************************************************)
(* Properties.                                                             *)
(***************************************************************************)

\* Plugin::dependencies(): a plugin is built after every plugin it depends
\* on, and none is built twice, however the registry is iterated.
DependenciesFirst ==
  \A i \in DOMAIN built :
    /\ deps[built[i]] \subseteq {built[j] : j \in 1..(i - 1)}
    /\ \A j \in DOMAIN built : built[i] = built[j] => i = j

\* p depends on q, directly or through other plugins: q is in every set of
\* plugins that holds the dependencies of p and those of its own members.
DependsOn(p, q) ==
  \A C \in SUBSET Plugin :
    deps[p] \subseteq C /\ (\A x \in C : deps[x] \subseteq C) => q \in C

\* A set of plugins none of which can be first: each depends on one of the
\* set or on a name that is not in the registry.
Blocked(S) ==
  S # {} /\ \A p \in S : deps[p] \cap S # {} \/ ~ (deps[p] \subseteq registry)

\* Whether build_plugins gets through or panics with "Cyclic dependency
\* detected or missing dependencies" is decided by the dependencies alone,
\* never by the order of the registry: it panics only when some plugins
\* block each other, and gets through only having built every one of them.
OutcomeByDependencies ==
  /\ phase = "unresolved" => \E S \in SUBSET registry : Blocked(S)
  /\ phase \in {"plugins_built_event", "built"} =>
       /\ registered = registry
       /\ ~ \E S \in SUBSET registry : Blocked(S)

(***************************************************************************)
(* The inductive invariant behind the two.  The loop has not started, or   *)
(* the round and the names registered partition the registry; a round      *)
(* without progress so far deferred only plugins that still are not ready; *)
(* and no plugin of a blocked set was ever built.                          *)
(***************************************************************************)
BeforeLoop ==
  phase \in {"setup", "config_event"} =>
    /\ registry = {} /\ registered = {}
    /\ to_register = <<>> /\ next_round = <<>> /\ built = <<>>
    /\ ~ progress

RoundPartition ==
  phase = "building" =>
    /\ registry = registered \cup ToSet(to_register) \cup ToSet(next_round)
    /\ registered \cap ToSet(to_register) = {}
    /\ registered \cap ToSet(next_round) = {}
    /\ ToSet(to_register) \cap ToSet(next_round) = {}
    /\ IsInjective(to_register) /\ IsInjective(next_round)

NoProgressNoneReady ==
  phase = "building" /\ ~ progress => \A p \in ToSet(next_round) : ~ Ready(p)

BlockedNeverBuilt ==
  \A S \in SUBSET registry : Blocked(S) => S \cap registered = {}

BuildInv ==
  /\ BeforeLoop
  /\ RoundPartition
  /\ NoProgressNoneReady
  /\ BlockedNeverBuilt
  /\ registered = ToSet(built)
  /\ DependenciesFirst
  /\ OutcomeByDependencies

\* The build ends: no graph of dependencies makes the rounds go on forever.
BuildEnds == (phase = "config_event") ~> (phase \notin Running)

\* The rounds implement the plain topological order.
Result ==
  CASE phase \in {"setup", "config_event"}         -> "open"
    [] phase = "building"                          -> "ordering"
    [] phase \in {"plugins_built_event", "built"}  -> "complete"
    [] phase = "unresolved"                        -> "stuck"
    [] OTHER                                       -> "aborted"

Order == INSTANCE DependencyOrder WITH
  pool <- registry, done <- registered, outcome <- Result
ImplementsOrder == Order!Spec

\* event.rs says of PluginsBuiltEvent "Published after all plugins have been
\* built"; a plugin that another one adds in its build is not.
PublishedAfterAllBuilt ==
  [][phase # "plugins_built_event" /\ phase' = "plugins_built_event"
       => accepted \subseteq registered]_vars
=============================================================================
