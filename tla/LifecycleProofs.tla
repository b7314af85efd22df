-------------------------- MODULE LifecycleProofs --------------------------
(***************************************************************************)
(* Proofs about PluginBuild, and about the two modules that build plugins  *)
(* as it does and give them something to register, for all finite sets of  *)
(* plugins.                                                                *)
(*                                                                         *)
(* PluginBuild: dependencies are built first, and whether the loop panics  *)
(* depends on the dependencies alone.  BuildInv is the inductive           *)
(* invariant.                                                              *)
(*                                                                         *)
(* AppLifecycle: tasks see every plugin built, nothing that a plugin       *)
(* registered is forgotten, and hooks close dependents first.  AppInv is   *)
(* the inductive invariant; it rests on BuildInv, and on the types of      *)
(* schedule(), of AppScheduleProofs.                                       *)
(*                                                                         *)
(* Collectors: what a plugin that reads what others registered may rely    *)
(* on, in its build, on an event and in its scheduler.  CollectInv is the  *)
(* inductive invariant; it rests on BuildInv, too.                         *)
(***************************************************************************)
EXTENDS AppLifecycle, Collectors, SeqLemmas

ScheduleProofs == INSTANCE AppScheduleProofs WITH Task <- Schedules, Hook <- Hooks

-----------------------------------------------------------------------------
(***************************************************************************)
(* The build of the plugins (PluginBuild).                                 *)
(***************************************************************************)
\* Every step keeps the types.
LEMMA TypingStep ==
  ASSUME TypeOK, [Next]_vars
  PROVE  TypeOK'
<1> USE DEF TypeOK, Phases, Running, Panics, fixedVars, regVars, loopVars
<1>1. ASSUME NEW p \in Plugin, AddPlugin(p) PROVE TypeOK'
  BY <1>1 DEF AddPlugin, Register
<1>2. CASE AddAutoPlugins
  BY <1>2 DEF AddAutoPlugins, Register
<1>3. CASE ListenerError
  BY <1>3 DEF ListenerError
<1>4. CASE TakeRegistry
  <2>1. IsFiniteSet(plugin_registry)
    BY PluginAssumption, FS_Subset
  <2>2. to_register' \in Seq(plugin_registry)
    BY <1>4, <2>1, OrderOfSet DEF TakeRegistry
  <2>3. to_register' \in Seq(Plugin)
    BY <2>2, SeqMonotonic
  <2> QED
    BY <1>4, <2>3 DEF TakeRegistry
<1>5. ASSUME NEW new \in SUBSET Plugin, BuildPlugin(new) PROVE TypeOK'
  BY <1>5 DEF BuildPlugin, Register
<1>6. ASSUME NEW new \in SUBSET Plugin, PluginPanics(new) PROVE TypeOK'
  BY <1>6 DEF PluginPanics
<1>7. CASE DeferPlugin
  BY <1>7 DEF DeferPlugin
<1>8. CASE EndRound
  BY <1>8 DEF EndRound
<1>9. CASE RestoreRegistry
  BY <1>9 DEF RestoreRegistry
<1>10. CASE PluginsBuilt
  BY <1>10 DEF PluginsBuilt
<1>11. CASE UNCHANGED vars
  BY <1>11 DEF vars
<1> QED
  BY <1>1, <1>2, <1>3, <1>4, <1>5, <1>6, <1>7, <1>8, <1>9, <1>10, <1>11
  DEF Next, BuildStep

\* The sets and sequences of the build range over Plugin.
THEOREM Typing == Spec => []TypeOK
<1>1. Init => TypeOK
  BY EmptySeq DEF Init, TypeOK, Phases, Running
<1>2. TypeOK /\ [Next]_vars => TypeOK'
  BY TypingStep
<1> QED
  BY <1>1, <1>2, PTL DEF Spec

-----------------------------------------------------------------------------
\* Taking the registry: the first round is an enumeration of it.
LEMMA TakeRegistryInv ==
  ASSUME TypeOK, BuildInv, TakeRegistry
  PROVE  BuildInv'
<1> USE DEF TypeOK, fixedVars, regVars
<1>1. /\ registered' = {} /\ built' = <<>> /\ next_round' = <<>> /\ ~ progress'
      /\ phase' = "building" /\ registry' = plugin_registry /\ deps' = deps
  BY DEF TakeRegistry, BuildInv, BeforeLoop
<1>2. ToSet(to_register') = plugin_registry /\ IsInjective(to_register')
  BY PluginAssumption, FS_Subset, OrderOfSet DEF TakeRegistry
<1>3. ToSet(<<>>) = {} /\ IsInjective(<<>>)
  BY DEF ToSet, IsInjective
<1>4. BeforeLoop' /\ NoProgressNoneReady' /\ BlockedNeverBuilt'
  BY <1>1, <1>3 DEF BeforeLoop, NoProgressNoneReady, BlockedNeverBuilt
<1>5. RoundPartition'
  BY <1>1, <1>2, <1>3 DEF RoundPartition
<1>6. (registered = ToSet(built))' /\ DependenciesFirst' /\ OutcomeByDependencies'
  BY <1>1, <1>3 DEF DependenciesFirst, OutcomeByDependencies
<1> QED
  BY <1>4, <1>5, <1>6 DEF BuildInv

\* Building the first plugin of the round.
LEMMA BuildPluginInv ==
  ASSUME TypeOK, BuildInv, NEW new \in SUBSET Plugin, BuildPlugin(new)
  PROVE  BuildInv'
<1> DEFINE p == Head(to_register)
<1> USE DEF TypeOK, fixedVars
<1>1. /\ phase = "building" /\ to_register # <<>> /\ Ready(p)
      /\ phase' = phase /\ registry' = registry /\ deps' = deps
      /\ next_round' = next_round /\ to_register' = Tail(to_register)
      /\ registered' = registered \cup {p} /\ built' = Append(built, p) /\ progress'
  BY DEF BuildPlugin
<1>2. /\ p \in Plugin
      /\ ToSet(to_register) = {p} \cup ToSet(to_register')
      /\ IsInjective(to_register') /\ p \notin ToSet(to_register')
  BY <1>1, TakeFirst DEF BuildInv, RoundPartition
<1>3. p \notin registered /\ p \in registry
  BY <1>1, <1>2 DEF BuildInv, RoundPartition
<1>4. BeforeLoop' /\ NoProgressNoneReady' /\ OutcomeByDependencies'
  BY <1>1 DEF BeforeLoop, NoProgressNoneReady, OutcomeByDependencies
<1>5. RoundPartition'
  BY <1>1, <1>2, <1>3 DEF BuildInv, RoundPartition
<1>6. BlockedNeverBuilt'
  <2> SUFFICES ASSUME NEW S \in SUBSET registry, Blocked(S) PROVE p \notin S
    BY <1>1 DEF BlockedNeverBuilt, BuildInv, Blocked
  <2>1. S \cap registered = {} /\ registered \subseteq registry
    BY <1>1 DEF BlockedNeverBuilt, BuildInv, RoundPartition
  <2>2. deps[p] \cap S = {} /\ deps[p] \subseteq registry
    BY <1>1, <2>1 DEF Ready
  <2> QED
    BY <2>2 DEF Blocked
<1>7. (registered = ToSet(built))'
  BY <1>1, <1>2, Push DEF BuildInv
<1>8. DependenciesFirst'
  <2>1. /\ Len(built) \in Nat
        /\ DOMAIN built = 1..Len(built)
        /\ DOMAIN built' = 1..(Len(built) + 1)
        /\ \A i \in 1..Len(built) : built'[i] = built[i]
        /\ built'[Len(built) + 1] = p
    BY <1>1, <1>2, AppendProperties, LenProperties
  <2>2. registered = {built[j] : j \in 1..Len(built)}
    BY <2>1 DEF BuildInv, ToSet
  <2>3. ASSUME NEW i \in DOMAIN built'
        PROVE deps[built'[i]] \subseteq {built'[j] : j \in 1..(i - 1)}
    <3>1. CASE i = Len(built) + 1
      <4>1. deps[built'[i]] \subseteq {built[j] : j \in 1..(i - 1)}
        BY <3>1, <2>1, <2>2, <1>1 DEF Ready
      <4> QED
        BY <4>1, <3>1, <2>1
    <3>2. CASE i \in 1..Len(built)
      <4>1. deps[built[i]] \subseteq {built[j] : j \in 1..(i - 1)}
        BY <3>2, <2>1 DEF BuildInv, DependenciesFirst
      <4>2. \A j \in 1..(i - 1) : built'[j] = built[j]
        BY <3>2, <2>1
      <4> QED
        BY <4>1, <4>2, <3>2, <2>1
    <3> QED
      BY <3>1, <3>2, <2>1
  <2>4. ASSUME NEW i \in DOMAIN built', NEW j \in DOMAIN built', built'[i] = built'[j]
        PROVE i = j
    BY <2>1, <2>2, <2>4, <1>3 DEF BuildInv, DependenciesFirst
  <2> QED
    BY <2>3, <2>4, <1>1 DEF DependenciesFirst
<1> QED
  BY <1>4, <1>5, <1>6, <1>7, <1>8 DEF BuildInv

\* Keeping the first plugin of the round for the next one.
LEMMA DeferPluginInv ==
  ASSUME TypeOK, BuildInv, DeferPlugin
  PROVE  BuildInv'
<1> DEFINE p == Head(to_register)
<1> USE DEF TypeOK, fixedVars, regVars
<1>1. /\ phase = "building" /\ to_register # <<>> /\ ~ Ready(p)
      /\ phase' = phase /\ registry' = registry /\ deps' = deps
      /\ next_round' = Append(next_round, p) /\ to_register' = Tail(to_register)
      /\ registered' = registered /\ built' = built /\ progress' = progress
  BY DEF DeferPlugin
<1>2. /\ p \in Plugin
      /\ ToSet(to_register) = {p} \cup ToSet(to_register')
      /\ IsInjective(to_register') /\ p \notin ToSet(to_register')
  BY <1>1, TakeFirst DEF BuildInv, RoundPartition
<1>3. /\ p \notin ToSet(next_round)
      /\ ToSet(next_round') = ToSet(next_round) \cup {p}
      /\ IsInjective(next_round')
  BY <1>1, <1>2, Push DEF BuildInv, RoundPartition
<1>4. BeforeLoop' /\ OutcomeByDependencies'
  BY <1>1 DEF BeforeLoop, OutcomeByDependencies
<1>5. RoundPartition'
  BY <1>1, <1>2, <1>3 DEF BuildInv, RoundPartition
<1>6. NoProgressNoneReady'
  BY <1>1, <1>3 DEF BuildInv, NoProgressNoneReady, Ready
<1>7. BlockedNeverBuilt'
  BY <1>1 DEF BuildInv, BlockedNeverBuilt, Blocked
<1>8. (registered = ToSet(built))' /\ DependenciesFirst'
  BY <1>1 DEF BuildInv, DependenciesFirst
<1> QED
  BY <1>4, <1>5, <1>6, <1>7, <1>8 DEF BuildInv

\* The end of a round: either another one, or no plugin was ready in this
\* one and the plugins left block each other.
LEMMA EndRoundInv ==
  ASSUME TypeOK, BuildInv, EndRound
  PROVE  BuildInv'
<1> USE DEF TypeOK, fixedVars, regVars
<1>1. /\ phase = "building" /\ to_register = <<>> /\ next_round # <<>>
      /\ registry' = registry /\ deps' = deps /\ registered' = registered /\ built' = built
  BY DEF EndRound
<1>2. ToSet(<<>>) = {} /\ IsInjective(<<>>)
  BY DEF ToSet, IsInjective
<1>3. BlockedNeverBuilt' /\ (registered = ToSet(built))' /\ DependenciesFirst'
  <2>1. BlockedNeverBuilt'
    BY <1>1 DEF BuildInv, BlockedNeverBuilt, Blocked
  <2>2. (registered = ToSet(built))' /\ DependenciesFirst'
    BY <1>1 DEF BuildInv, DependenciesFirst
  <2> QED
    BY <2>1, <2>2
<1>4. CASE progress
  <2>1. /\ phase' = phase /\ to_register' = next_round
        /\ next_round' = <<>> /\ ~ progress'
    BY <1>4 DEF EndRound
  <2>2. RoundPartition'
    BY <1>1, <1>2, <2>1 DEF BuildInv, RoundPartition
  <2>3. BeforeLoop' /\ NoProgressNoneReady' /\ OutcomeByDependencies'
    BY <1>1, <1>2, <2>1 DEF BeforeLoop, NoProgressNoneReady, OutcomeByDependencies
  <2> QED
    BY <1>3, <2>2, <2>3 DEF BuildInv
<1>5. CASE ~ progress
  <2>1. phase' = "unresolved"
    BY <1>5 DEF EndRound
  <2> DEFINE S == ToSet(next_round)
  <2>2. /\ registry = registered \cup S /\ S \subseteq registry
        /\ \A p \in S : ~ (deps[p] \subseteq registered)
    BY <1>1, <1>2, <1>5 DEF BuildInv, RoundPartition, NoProgressNoneReady, Ready
  <2>3. S # {}
    <3>1. Head(next_round) \in S
      BY <1>1, TakeFirst
    <3> QED
      BY <3>1
  <2>4. Blocked(S)
    BY <2>2, <2>3 DEF Blocked
  <2>5. \E T \in SUBSET registry : Blocked(T)
    BY <2>2, <2>4
  <2>6. (\E T \in SUBSET registry : Blocked(T))'
    BY <2>5, <1>1 DEF Blocked
  <2>7. OutcomeByDependencies'
    BY <2>1, <2>6 DEF OutcomeByDependencies
  <2>8. BeforeLoop' /\ RoundPartition' /\ NoProgressNoneReady'
    BY <2>1 DEF BeforeLoop, RoundPartition, NoProgressNoneReady
  <2> QED
    BY <1>3, <2>7, <2>8 DEF BuildInv
<1> QED
  BY <1>4, <1>5

\* Leaving the loop: everything was built, so nothing was blocked.
LEMMA RestoreRegistryInv ==
  ASSUME TypeOK, BuildInv, RestoreRegistry
  PROVE  BuildInv'
<1> USE DEF TypeOK, fixedVars, loopVars
<1>1. /\ phase = "building" /\ to_register = <<>> /\ next_round = <<>>
      /\ phase' = "plugins_built_event"
      /\ deps' = deps /\ registry' = registry /\ registered' = registered /\ built' = built
  BY DEF RestoreRegistry
<1>2. ToSet(<<>>) = {}
  BY DEF ToSet
<1>3. registered = registry
  BY <1>1, <1>2 DEF BuildInv, RoundPartition
<1>4. ~ \E S \in SUBSET registry : Blocked(S)
  <2> SUFFICES ASSUME NEW S \in SUBSET registry, Blocked(S) PROVE FALSE
    OBVIOUS
  <2>1. S \cap registered = {}
    BY DEF BuildInv, BlockedNeverBuilt
  <2>2. S # {}
    BY DEF Blocked
  <2> QED
    BY <2>1, <2>2, <1>3
<1>5. (~ \E S \in SUBSET registry : Blocked(S))'
  BY <1>1, <1>4 DEF Blocked
<1>6. OutcomeByDependencies'
  BY <1>1, <1>3, <1>5 DEF OutcomeByDependencies
<1>7. BeforeLoop' /\ RoundPartition' /\ NoProgressNoneReady'
  BY <1>1 DEF BeforeLoop, RoundPartition, NoProgressNoneReady
<1>8. BlockedNeverBuilt'
  BY <1>1 DEF BuildInv, BlockedNeverBuilt, Blocked
<1>9. (registered = ToSet(built))' /\ DependenciesFirst'
  BY <1>1 DEF BuildInv, DependenciesFirst
<1> QED
  BY <1>6, <1>7, <1>8, <1>9 DEF BuildInv

\* The steps that leave the variables of the loop alone.
LEMMA OutsideLoopInv ==
  ASSUME TypeOK, BuildInv, UNCHANGED <<deps, loopVars>>,
         \/ phase' = phase
         \/ phase = "setup" /\ phase' = "config_event"
         \/ phase = "plugins_built_event" /\ phase' = "built"
         \/ phase' \in {"duplicate", "plugin_panic", "listener_error"}
  PROVE  BuildInv'
<1>1. BeforeLoop' /\ RoundPartition' /\ NoProgressNoneReady'
  BY DEF loopVars, BuildInv, BeforeLoop, RoundPartition, NoProgressNoneReady, Ready
<1>2. BlockedNeverBuilt' /\ (registered = ToSet(built))' /\ DependenciesFirst'
  BY DEF loopVars, BuildInv, BlockedNeverBuilt, Blocked, DependenciesFirst
<1>3. \A S : Blocked(S)' <=> Blocked(S)
  BY DEF loopVars, Blocked
<1>4. OutcomeByDependencies'
  BY <1>3 DEF loopVars, BuildInv, OutcomeByDependencies
<1> QED
  BY <1>1, <1>2, <1>4 DEF BuildInv, loopVars

\* Before the loop there is nothing to say.
LEMMA BuildingStart ==
  ASSUME Init
  PROVE  BuildInv
<1>1. ToSet(<<>>) = {} /\ DOMAIN <<>> = {}
  BY DEF ToSet
<1>2. BeforeLoop /\ RoundPartition /\ NoProgressNoneReady /\ BlockedNeverBuilt
  BY DEF Init, BeforeLoop, RoundPartition, NoProgressNoneReady, BlockedNeverBuilt
<1>3. registered = ToSet(built) /\ DependenciesFirst /\ OutcomeByDependencies
  BY <1>1 DEF Init, DependenciesFirst, OutcomeByDependencies
<1> QED
  BY <1>2, <1>3 DEF BuildInv

\* Every step keeps BuildInv.
LEMMA BuildingStep ==
  ASSUME TypeOK, BuildInv, [Next]_vars
  PROVE  BuildInv'
<1> USE DEF fixedVars
<1>1. ASSUME NEW p \in Plugin, AddPlugin(p) PROVE BuildInv'
  BY <1>1, OutsideLoopInv DEF AddPlugin
<1>2. CASE AddAutoPlugins
  BY <1>2, OutsideLoopInv DEF AddAutoPlugins
<1>3. CASE ListenerError
  BY <1>3, OutsideLoopInv DEF ListenerError
<1>4. CASE TakeRegistry
  BY <1>4, TakeRegistryInv
<1>5. ASSUME NEW new \in SUBSET Plugin, BuildPlugin(new) PROVE BuildInv'
  BY <1>5, BuildPluginInv
<1>6. ASSUME NEW new \in SUBSET Plugin, PluginPanics(new) PROVE BuildInv'
  BY <1>6, OutsideLoopInv DEF PluginPanics
<1>7. CASE DeferPlugin
  BY <1>7, DeferPluginInv
<1>8. CASE EndRound
  BY <1>8, EndRoundInv
<1>9. CASE RestoreRegistry
  BY <1>9, RestoreRegistryInv
<1>10. CASE PluginsBuilt
  BY <1>10, OutsideLoopInv DEF PluginsBuilt
<1>11. CASE UNCHANGED vars
  BY <1>11, OutsideLoopInv DEF vars
<1> QED
  BY <1>1, <1>2, <1>3, <1>4, <1>5, <1>6, <1>7, <1>8, <1>9, <1>10, <1>11
  DEF Next, BuildStep

\* BuildInv is an invariant.
THEOREM Building == Spec => []BuildInv
<1>1. Init => BuildInv
  BY BuildingStart
<1>2. TypeOK /\ BuildInv /\ [Next]_vars => BuildInv'
  BY BuildingStep
<1> QED
  BY <1>1, <1>2, Typing, PTL DEF Spec

\* Every plugin is built after its dependencies, and once.
THEOREM BuildOrder == Spec => []DependenciesFirst
<1>1. BuildInv => DependenciesFirst
  BY DEF BuildInv
<1> QED
  BY <1>1, Building, PTL

\* The loop panics only when plugins block each other and gets through only
\* when none do, whatever the order of the registry.
THEOREM BuildOutcome == Spec => []OutcomeByDependencies
<1>1. BuildInv => OutcomeByDependencies
  BY DEF BuildInv
<1> QED
  BY <1>1, Building, PTL

-----------------------------------------------------------------------------
\* What is built holds all its own dependencies.
LEMMA BuiltAreClosed ==
  ASSUME TypeOK, BuildInv, NEW p \in registered
  PROVE  deps[p] \subseteq registered
<1>1. PICK i \in DOMAIN built : p = built[i]
  BY DEF BuildInv, ToSet
<1>2. {built[j] : j \in 1..(i - 1)} \subseteq registered
  BY LenProperties DEF BuildInv, ToSet, TypeOK
<1> QED
  BY <1>1, <1>2 DEF BuildInv, DependenciesFirst

\* A plugin whose dependencies are built depends on no plugin still to be
\* built, not even through others.
LEMMA NothingUnbuilt ==
  ASSUME TypeOK, BuildInv, NEW p, NEW q, deps[p] \subseteq registered, q \notin registered
  PROVE  ~ DependsOn(p, q)
<1>1. \A x \in registered : deps[x] \subseteq registered
  BY BuiltAreClosed
<1>2. registered \in SUBSET Plugin
  BY DEF TypeOK
<1> QED
  BY <1>1, <1>2 DEF DependsOn

-----------------------------------------------------------------------------
\* What the phases mean for the topological order.
LEMMA ResultOfPhase ==
  ASSUME phase \in Phases
  PROVE  /\ phase \in {"setup", "config_event"} => Result = "open"
         /\ phase = "building" => Result = "ordering"
         /\ phase \in {"plugins_built_event", "built"} => Result = "complete"
         /\ phase = "unresolved" => Result = "stuck"
         /\ phase \in {"duplicate", "plugin_panic", "listener_error"} => Result = "aborted"
BY DEF Result, Phases, Running, Panics

\* A step that only ends the build early aborts the order.
LEMMA EarlyEnd ==
  ASSUME TypeOK, TypeOK', UNCHANGED <<deps, registry, registered>>,
         phase \in Running,
         phase' \in {"duplicate", "plugin_panic", "listener_error"}
  PROVE  Order!Abort
<1>1. Result # "stuck"
  BY ResultOfPhase DEF TypeOK, Running
<1>2. Result' = "aborted"
  BY DEF Result
<1> QED
  BY <1>1, <1>2 DEF Order!Abort

\* Each step of the build is a step of DependencyOrder or leaves it alone.
LEMMA BuildStepImplements ==
  ASSUME TypeOK, TypeOK', BuildInv, [Next]_vars
  PROVE  [Order!Next]_(Order!vars)
<1> USE DEF fixedVars, regVars, loopVars
<1>1. ASSUME UNCHANGED <<deps, registry, registered, phase>>
      PROVE  UNCHANGED Order!vars
  BY <1>1 DEF Order!vars, Result
<1>2. ASSUME NEW p \in Plugin, AddPlugin(p) PROVE Order!Abort \/ UNCHANGED Order!vars
  BY <1>2, <1>1, EarlyEnd DEF AddPlugin, Running
<1>3. CASE AddAutoPlugins
  <2>1. CASE phase' = "duplicate"
    BY <1>3, <2>1, EarlyEnd DEF AddAutoPlugins, Running, Order!Next
  <2>2. CASE phase' = "config_event"
    BY <1>3, <2>2 DEF AddAutoPlugins, Order!vars, Result
  <2> QED
    BY <1>3, <2>1, <2>2 DEF AddAutoPlugins
<1>4. CASE ListenerError
  BY <1>4, EarlyEnd DEF ListenerError, Running, Order!Next
<1>5. CASE TakeRegistry
  <2>1. Result = "open" /\ Result' = "ordering"
    BY <1>5 DEF TakeRegistry, Result
  <2>2. registry' \in SUBSET Plugin /\ UNCHANGED <<deps, registered>>
    BY <1>5 DEF TakeRegistry, TypeOK
  <2> QED
    BY <2>1, <2>2 DEF Order!Next, Order!Start
<1>6. ASSUME NEW new \in SUBSET Plugin, BuildPlugin(new)
      PROVE  \E p \in Plugin : Order!Build(p)
  <2> DEFINE p == Head(to_register)
  <2>1. p \in Plugin /\ p \in ToSet(to_register)
    BY <1>6, TakeFirst DEF BuildPlugin, TypeOK
  <2>2. p \in registry \ registered /\ deps[p] \subseteq registered
    BY <1>6, <2>1 DEF BuildPlugin, Ready, BuildInv, RoundPartition
  <2>3. Result = "ordering" /\ UNCHANGED <<deps, registry, Result>>
    BY <1>6 DEF BuildPlugin, Result
  <2>4. registered' = registered \cup {p}
    BY <1>6 DEF BuildPlugin
  <2> QED
    BY <2>1, <2>2, <2>3, <2>4 DEF Order!Build, Order!Buildable
<1>7. ASSUME NEW new \in SUBSET Plugin, PluginPanics(new) PROVE Order!Abort
  BY <1>7, EarlyEnd DEF PluginPanics, Running
<1>8. CASE DeferPlugin
  BY <1>8, <1>1 DEF DeferPlugin
<1>9. CASE EndRound
  <2>1. CASE progress
    BY <1>9, <1>1, <2>1 DEF EndRound
  <2>2. CASE ~ progress
    <3>1. Result = "ordering" /\ Result' = "stuck" /\ UNCHANGED <<deps, registry, registered>>
      BY <1>9, <2>2 DEF EndRound, Result
    <3>2. /\ registry = registered \cup ToSet(next_round)
          /\ registered \cap ToSet(next_round) = {}
          /\ \A p \in ToSet(next_round) : ~ (deps[p] \subseteq registered)
      <4>1. ToSet(<<>>) = {}
        BY DEF ToSet
      <4> QED
        BY <1>9, <2>2, <4>1 DEF EndRound, BuildInv, RoundPartition, NoProgressNoneReady, Ready
    <3>3. registered # registry
      <4>1. Head(next_round) \in ToSet(next_round)
        BY <1>9, TakeFirst DEF EndRound, TypeOK
      <4> QED
        BY <3>2, <4>1
    <3>4. \A p \in Plugin : ~ Order!Buildable(p)
      BY <3>2 DEF Order!Buildable
    <3> QED
      BY <3>1, <3>3, <3>4 DEF Order!Next, Order!Stuck
  <2> QED
    BY <1>9, <2>1, <2>2 DEF EndRound
<1>10. CASE RestoreRegistry
  <2>1. Result = "ordering" /\ Result' = "complete" /\ UNCHANGED <<deps, registry, registered>>
    BY <1>10 DEF RestoreRegistry, Result
  <2>2. registered = registry
    <3>1. ToSet(<<>>) = {}
      BY DEF ToSet
    <3> QED
      BY <1>10, <3>1 DEF RestoreRegistry, BuildInv, RoundPartition
  <2> QED
    BY <2>1, <2>2 DEF Order!Next, Order!Complete
<1>11. CASE PluginsBuilt
  BY <1>11 DEF PluginsBuilt, Order!vars, Result
<1>12. CASE UNCHANGED vars
  BY <1>12, <1>1 DEF vars
<1> QED
  BY <1>2, <1>3, <1>4, <1>5, <1>6, <1>7, <1>8, <1>9, <1>10, <1>11, <1>12
  DEF Next, BuildStep, Order!Next

\* The rounds of build_plugins are a plain topological order of the registry.
THEOREM Refinement == Spec => ImplementsOrder
<1>1. Init => Order!Init
  BY DEF Init, Order!Init, Result
<1>2. TypeOK /\ TypeOK' /\ BuildInv /\ [Next]_vars => [Order!Next]_(Order!vars)
  BY BuildStepImplements
<1> QED
  BY <1>1, <1>2, Typing, Building, PTL DEF Spec, ImplementsOrder, Order!Spec

-----------------------------------------------------------------------------
(***************************************************************************)
(* run() and build() (AppLifecycle).                                       *)
(***************************************************************************)
\* A step of run() or build() is one of the build of the plugins, with what
\* it pushes on the lists, or leaves the plugins alone.
LEMMA StepOfBuild ==
  ASSUME [AppNext]_appVars
  PROVE  [Next]_vars
<1>1. ASSUME NEW p \in Plugin, AddAndWire(p) PROVE Next
  BY <1>1 DEF AddAndWire, Next
<1>2. CASE BuildPhase
  BY <1>2 DEF BuildPhase, Next, BuildStep
<1>3. ASSUME NEW new \in SUBSET Plugin, BuildAndWire(new) PROVE Next
  BY <1>3 DEF BuildAndWire, Next, BuildStep
<1>4. CASE InjectServices \/ HandOut \/ Run
  BY <1>4 DEF InjectServices, HandOut, Run
<1>5. CASE UNCHANGED appVars
  BY <1>5 DEF appVars
<1> QED
  BY <1>1, <1>2, <1>3, <1>4, <1>5 DEF AppNext, BuildPlugins

\* AppLifecycle builds as PluginBuild does.
THEOREM BuildsAsPluginBuild == AppSpec => Spec
<1>1. AppInit => Init
  BY DEF AppInit
<1>2. [AppNext]_appVars => [Next]_vars
  BY StepOfBuild
<1> QED
  BY <1>1, <1>2, PTL DEF AppSpec, Spec

-----------------------------------------------------------------------------
\* The actions of schedule(), in this module and in the module of its proofs.
LEMMA SameSchedule ==
  Schedule!ScheduleNext => ScheduleProofs!ScheduleNext
<1> USE DEF Schedule!taskVars, Schedule!hookVars, Schedule!Ended, Schedule!Fail, Schedule!Publish,
            ScheduleProofs!taskVars, ScheduleProofs!hookVars, ScheduleProofs!Ended,
            ScheduleProofs!Fail, ScheduleProofs!Publish
<1>1. /\ Schedule!BuildApp => ScheduleProofs!BuildApp
      /\ Schedule!PublishBeforeHooks => ScheduleProofs!PublishBeforeHooks
      /\ Schedule!PublishAfterHooks => ScheduleProofs!PublishAfterHooks
  BY DEF Schedule!BuildApp, Schedule!PublishBeforeHooks, Schedule!PublishAfterHooks,
         ScheduleProofs!BuildApp, ScheduleProofs!PublishBeforeHooks,
         ScheduleProofs!PublishAfterHooks
<1>2. /\ Schedule!SpawnTask => ScheduleProofs!SpawnTask
      /\ Schedule!AllSpawned => ScheduleProofs!AllSpawned
      /\ Schedule!AllJoined => ScheduleProofs!AllJoined
      /\ Schedule!HooksDone => ScheduleProofs!HooksDone
  BY DEF Schedule!SpawnTask, Schedule!AllSpawned, Schedule!AllJoined, Schedule!HooksDone,
         ScheduleProofs!SpawnTask, ScheduleProofs!AllSpawned, ScheduleProofs!AllJoined,
         ScheduleProofs!HooksDone
<1>3. Schedule!Join => ScheduleProofs!Join
  BY DEF Schedule!Join, Schedule!Last, Schedule!Front,
         ScheduleProofs!Join, ScheduleProofs!Last, ScheduleProofs!Front
<1>4. Schedule!RunHook => ScheduleProofs!RunHook
  BY DEF Schedule!RunHook, Schedule!Last, Schedule!Front,
         ScheduleProofs!RunHook, ScheduleProofs!Last, ScheduleProofs!Front
<1>5. Schedule!DropRuntime => ScheduleProofs!DropRuntime
  BY DEF Schedule!DropRuntime, Schedule!Returned,
         ScheduleProofs!DropRuntime, ScheduleProofs!Returned
<1>6. \A s \in Schedules : Schedule!TaskEnds(s) => ScheduleProofs!TaskEnds(s)
  BY DEF Schedule!TaskEnds, ScheduleProofs!TaskEnds
<1> QED
  BY <1>1, <1>2, <1>3, <1>4, <1>5, <1>6
  DEF Schedule!ScheduleStep, ScheduleProofs!ScheduleStep,
      Schedule!ScheduleNext, ScheduleProofs!ScheduleNext

\* The types of schedule() are the same in both instances.
LEMMA SameTypes ==
  /\ Schedule!ScheduleTypeOK <=> ScheduleProofs!ScheduleTypeOK
  /\ Schedule!ScheduleTypeOK' <=> ScheduleProofs!ScheduleTypeOK'
BY DEF Schedule!ScheduleTypeOK, ScheduleProofs!ScheduleTypeOK,
       Schedule!Stages, Schedule!Returned, Schedule!Ended, Schedule!Causes, Schedule!AppEvents,
       ScheduleProofs!Stages, ScheduleProofs!Returned, ScheduleProofs!Ended,
       ScheduleProofs!Causes, ScheduleProofs!AppEvents

\* There are finitely many schedulers and hooks.
LEMMA FiniteSchedule ==
  ScheduleProofs!IsFiniteSet(Schedules) /\ ScheduleProofs!IsFiniteSet(Hooks)
BY PluginAssumption, WiringAssumption, FS_Subset DEF IsFiniteSet, ScheduleProofs!IsFiniteSet

\* The steps of schedule() keep its types.
LEMMA ScheduleTyping ==
  ASSUME Schedule!ScheduleTypeOK, Schedule!ScheduleNext
  PROVE  Schedule!ScheduleTypeOK'
BY SameSchedule, SameTypes, FiniteSchedule, ScheduleProofs!TypingStep

-----------------------------------------------------------------------------
\* The dependencies of a plugin whose build has run are built.
LEMMA DependenciesBuilt ==
  ASSUME TypeOK, BuildInv, CloseOrder, NEW p \in Wired
  PROVE  deps[p] \subseteq registered
BY BuiltAreClosed DEF Wired, CloseOrder, TypeOK

\* The loop builds no immediate plugin.
LEMMA ImmediateOutside ==
  ASSUME TypeOK, BuildInv, phase \in Running
  PROVE  registered \cap immediate = {}
<1>1. registered \subseteq registry
  BY DEF BuildInv, BeforeLoop, RoundPartition, OutcomeByDependencies, Running
<1> QED
  BY <1>1 DEF TypeOK

\* What a batch of plugins pushes on one of the lists.
LEMMA WireList ==
  ASSUME NEW batch \in SUBSET Plugin, NEW H \in SUBSET Plugin,
         NEW list \in Seq(H), NEW added \in SetToSeqs(batch \cap H)
  PROVE  /\ added \in Seq(H)
         /\ ToSet(added) = batch \cap H
<1>1. IsFiniteSet(batch \cap H)
  BY PluginAssumption, FS_Subset
<1>2. added \in Seq(batch \cap H) /\ ToSet(added) = batch \cap H
  BY <1>1, OrderOfSet
<1> QED
  BY <1>2, SeqMonotonic

\* A step of the build that runs the build of `batch`: plugins not built so
\* far whose dependencies are.
LEMMA WiringInv ==
  ASSUME AppTypeOK, BuildInv, AppInv, main = "building",
         NEW batch \in SUBSET Plugin, Wire(batch),
         UNCHANGED <<immediate, deps, mode, runVars>>,
         Wired' = Wired \cup batch,
         batch \cap registered = {},
         \A p \in batch : deps[p] \subseteq registered
  PROVE  AppInv' /\ schedulers' \in Seq(Schedules) /\ shutdown_hooks' \in Seq(Hooks)
<1> USE DEF runVars
<1>t. /\ TypeOK /\ schedulers \in Seq(Schedules) /\ shutdown_hooks \in Seq(Hooks)
      /\ CloseOrder
  BY DEF AppTypeOK, AppInv, Schedule!ScheduleTypeOK
<1>i. Schedule!Idle
  BY DEF AppInv, BuildBeforeRun
<1>1. PICK s \in SetToSeqs(batch \cap Schedules) : schedulers' = schedulers \o s
  BY DEF Wire
<1>2. PICK h \in SetToSeqs(batch \cap Hooks) : shutdown_hooks' = shutdown_hooks \o h
  BY DEF Wire
<1>3. /\ schedulers' \in Seq(Schedules)
      /\ ToSet(schedulers') = ToSet(schedulers) \cup (batch \cap Schedules)
  <2>1. s \in Seq(Schedules) /\ ToSet(s) = batch \cap Schedules
    BY <1>t, WireList, WiringAssumption
  <2> QED
    BY <1>t, <1>1, <2>1, PushAll
<1>4. /\ shutdown_hooks' \in Seq(Hooks)
      /\ ToSet(shutdown_hooks') = ToSet(shutdown_hooks) \cup (batch \cap Hooks)
      /\ \A i, j \in DOMAIN shutdown_hooks' : i < j =>
           \/ /\ i \in DOMAIN shutdown_hooks /\ j \in DOMAIN shutdown_hooks
              /\ shutdown_hooks'[i] = shutdown_hooks[i]
              /\ shutdown_hooks'[j] = shutdown_hooks[j]
           \/ /\ shutdown_hooks'[i] \in ToSet(shutdown_hooks) \cup (batch \cap Hooks)
              /\ shutdown_hooks'[j] \in batch \cap Hooks
  <2>1. h \in Seq(Hooks) /\ ToSet(h) = batch \cap Hooks
    BY <1>t, WireList, WiringAssumption
  <2> QED
    BY <1>t, <1>2, <2>1, PushAll
<1>5. BuildBeforeRun'
  BY <1>i DEF BuildBeforeRun, Schedule!Idle
<1>6. OnListOrTaken'
  <2>1. (Wired \cap Schedules = ToSet(schedulers) \cup {t \in Schedules : task[t] # "unborn"})'
    BY <1>3 DEF AppInv, OnListOrTaken
  <2>2. (Wired \cap Hooks = ToSet(shutdown_hooks) \cup ToSet(hook_log))'
    BY <1>4 DEF AppInv, OnListOrTaken
  <2> QED
    BY <2>1, <2>2 DEF OnListOrTaken
<1>7. ListsEmptied'
  BY DEF ListsEmptied
<1>8. CloseOrder'
  <2>1. \A p, q : DependsOn(p, q)' <=> DependsOn(p, q)
    BY DEF DependsOn
  <2>2. hook_log' = <<>> /\ hook_log = <<>>
    BY <1>i DEF Schedule!Idle
  <2>3. \A p \in ToSet(shutdown_hooks) \cup (batch \cap Hooks), q \in batch \cap Hooks :
          ~ DependsOn(p, q)
    <3>1. \A p \in ToSet(shutdown_hooks) : deps[p] \subseteq registered
      BY <1>t, DependenciesBuilt DEF AppInv, OnListOrTaken
    <3> QED
      BY <1>t, <3>1, NothingUnbuilt
  <2>4. \A i, j \in DOMAIN shutdown_hooks' :
          i < j => ~ DependsOn(shutdown_hooks'[i], shutdown_hooks'[j])
    BY <1>t, <1>4, <2>3 DEF CloseOrder
  <2>5. ToSet(<<>>) = {} /\ DOMAIN <<>> = {}
    BY DEF ToSet
  <2>6. (\A i, j \in DOMAIN shutdown_hooks :
          i < j => ~ DependsOn(shutdown_hooks[i], shutdown_hooks[j]))'
    BY <2>1, <2>4
  <2>7. (\A p \in immediate : deps[p] = {})'
    BY <1>t DEF CloseOrder
  <2>8. (\A p \in ToSet(shutdown_hooks), q \in ToSet(hook_log) : ~ DependsOn(p, q))'
    BY <2>2, <2>5
  <2>9. DependentsCloseFirst'
    BY <2>2, <2>5 DEF DependentsCloseFirst
  <2> QED
    BY <2>6, <2>7, <2>8, <2>9 DEF CloseOrder
<1> QED
  BY <1>3, <1>4, <1>5, <1>6, <1>7, <1>8 DEF AppInv

\* The steps of the build but the build of the first plugin: they may run the
\* build of immediate plugins.
LEMMA OtherBuildSteps ==
  ASSUME AppTypeOK, BuildInv, AppInv,
         \/ \E p \in Plugin : AddAndWire(p)
         \/ BuildPhase
  PROVE  AppInv' /\ AppTypeOK'
<1> USE DEF fixedVars, regVars, loopVars
<1> DEFINE Growth ==
             /\ UNCHANGED <<fixedVars, registered, mode, runVars>>
             /\ phase \in Running /\ Wire(NewlyImmediate) /\ Next
             /\ immediate_built \subseteq immediate_built'
<1>1. Growth
  <2>1. ASSUME NEW p \in Plugin, AddAndWire(p) PROVE Growth
    BY <2>1 DEF AddAndWire, AddPlugin, Register, Running, Next
  <2>2. CASE BuildPhase
    <3>1. UNCHANGED <<mode, runVars>> /\ Wire(NewlyImmediate)
      BY <2>2 DEF BuildPhase
    <3>2. CASE AddAutoPlugins
      BY <3>1, <3>2 DEF AddAutoPlugins, Register, Running, Next, BuildStep
    <3>3. CASE ListenerError
      BY <3>1, <3>3 DEF ListenerError, Running, Next, BuildStep
    <3>4. CASE TakeRegistry
      BY <3>1, <3>4 DEF TakeRegistry, Running, Next, BuildStep
    <3>5. ASSUME NEW new \in SUBSET Plugin, PluginPanics(new) PROVE Growth
      BY <3>1, <3>5 DEF PluginPanics, Running, Next, BuildStep
    <3>6. CASE DeferPlugin
      BY <3>1, <3>6 DEF DeferPlugin, Running, Next, BuildStep
    <3>7. CASE EndRound
      BY <3>1, <3>7 DEF EndRound, Running, Next, BuildStep
    <3>8. CASE RestoreRegistry
      BY <3>1, <3>8 DEF RestoreRegistry, Running, Next, BuildStep
    <3>9. CASE PluginsBuilt
      BY <3>1, <3>9 DEF PluginsBuilt, Running, Next, BuildStep
    <3> QED
      BY <2>2, <3>2, <3>3, <3>4, <3>5, <3>6, <3>7, <3>8, <3>9 DEF BuildPhase
  <2> QED
    BY <2>1, <2>2
<1>2. TypeOK /\ TypeOK'
  BY <1>1, TypingStep DEF AppTypeOK
<1>3. /\ NewlyImmediate \subseteq immediate /\ NewlyImmediate \in SUBSET Plugin
      /\ Wired' = Wired \cup NewlyImmediate
  BY <1>1, <1>2 DEF TypeOK, NewlyImmediate, Wired
<1>4. NewlyImmediate \cap registered = {}
  BY <1>1, <1>2, <1>3, ImmediateOutside
<1>5. \A p \in NewlyImmediate : deps[p] \subseteq registered
  BY <1>3 DEF AppInv, CloseOrder
<1>6. main = "building"
  BY <1>1 DEF AppInv, BuildBeforeRun, Running
<1>7. AppInv' /\ schedulers' \in Seq(Schedules) /\ shutdown_hooks' \in Seq(Hooks)
  BY <1>1, <1>3, <1>4, <1>5, <1>6, WiringInv
<1>8. Schedule!ScheduleTypeOK'
  BY <1>1, <1>7 DEF AppTypeOK, Schedule!ScheduleTypeOK, runVars
<1> QED
  BY <1>1, <1>2, <1>7, <1>8 DEF AppTypeOK

\* The build of the first plugin of the round, and of the immediate plugins
\* it adds.
LEMMA BuildPluginStep ==
  ASSUME AppTypeOK, BuildInv, AppInv, NEW new \in SUBSET Plugin, BuildAndWire(new)
  PROVE  AppInv' /\ AppTypeOK'
<1> DEFINE p == Head(to_register)
           batch == {p} \cup NewlyImmediate
<1>1. /\ UNCHANGED <<immediate, deps, mode, runVars>>
      /\ phase = "building" /\ Wire(batch) /\ Next /\ BuildPlugin(new)
      /\ immediate_built \subseteq immediate_built'
      /\ registered' = registered \cup {p}
      /\ deps[p] \subseteq registered /\ to_register # <<>>
  BY DEF BuildAndWire, BuildPlugin, Register, Next, BuildStep, fixedVars, Ready
<1>2. TypeOK /\ TypeOK'
  BY <1>1, TypingStep DEF AppTypeOK
<1>3. p \in Plugin /\ p \in ToSet(to_register) /\ p \notin registered
  BY <1>1, <1>2, TakeFirst DEF TypeOK, BuildInv, RoundPartition
<1>4. /\ NewlyImmediate \subseteq immediate /\ batch \in SUBSET Plugin
      /\ Wired' = Wired \cup batch
  BY <1>1, <1>2, <1>3 DEF TypeOK, NewlyImmediate, Wired
<1>5. batch \cap registered = {}
  BY <1>1, <1>2, <1>3, <1>4, ImmediateOutside DEF Running
<1>6. \A q \in batch : deps[q] \subseteq registered
  BY <1>1, <1>4 DEF AppInv, CloseOrder
<1>7. main = "building"
  BY <1>1 DEF AppInv, BuildBeforeRun
<1> HIDE DEF batch
<1>8. AppInv' /\ schedulers' \in Seq(Schedules) /\ shutdown_hooks' \in Seq(Hooks)
  BY <1>1, <1>4, <1>5, <1>6, <1>7, WiringInv
<1>9. Schedule!ScheduleTypeOK'
  BY <1>1, <1>8 DEF AppTypeOK, Schedule!ScheduleTypeOK, runVars
<1> QED
  BY <1>1, <1>2, <1>8, <1>9 DEF AppTypeOK

-----------------------------------------------------------------------------
\* The end of the build: the lists and the plugins stay as they are.
LEMMA InjectServicesInv ==
  ASSUME AppTypeOK, AppInv, InjectServices
  PROVE  AppInv' /\ AppTypeOK'
<1> USE DEF vars, fixedVars, regVars, loopVars, wiringVars
<1>1. /\ phase = "built" /\ main = "building" /\ phase' = phase
      /\ main' \in {"build_app", "error"} /\ mode' \in {"run", "build"}
      /\ cause' \in {"injection", cause}
      /\ UNCHANGED <<vars, wiringVars, task, handles, hook_log, events>>
  BY DEF InjectServices
<1>2. TypeOK'
  BY <1>1 DEF AppTypeOK, TypeOK
<1>3. Schedule!ScheduleTypeOK'
  BY <1>1 DEF AppTypeOK, Schedule!ScheduleTypeOK, Schedule!Stages, Schedule!Returned,
              Schedule!Causes
<1>4. BuildBeforeRun' /\ ListsEmptied'
  BY <1>1 DEF BuildBeforeRun, ListsEmptied
<1>5. OnListOrTaken'
  BY <1>1 DEF AppInv, OnListOrTaken, Wired
<1>6. CloseOrder'
  BY <1>1 DEF AppInv, CloseOrder, DependentsCloseFirst, DependsOn
<1> QED
  BY <1>1, <1>2, <1>3, <1>4, <1>5, <1>6 DEF AppTypeOK, AppInv

\* Steps that start no hook.
LEMMA HooksUntouched ==
  ASSUME AppInv, UNCHANGED <<vars, shutdown_hooks, hook_log>>
  PROVE  CloseOrder'
BY DEF AppInv, CloseOrder, DependentsCloseFirst, DependsOn, vars, fixedVars

\* Spawning the first scheduler of the list.
LEMMA SpawnInv ==
  ASSUME AppTypeOK, AppInv, Schedule!SpawnTask, UNCHANGED <<vars, mode>>
  PROVE  AppInv'
<1> USE DEF Schedule!hookVars
<1>t. /\ schedulers \in Seq(Schedules)
      /\ task \in [Schedules -> Schedule!Ended \cup {"unborn", "running", "cancelled"}]
  BY DEF AppTypeOK, Schedule!ScheduleTypeOK
<1> DEFINE s == Head(schedulers)
<1>1. /\ main = "spawn" /\ main' = main /\ schedulers # <<>>
      /\ task' = [task EXCEPT ![s] = "running"] /\ schedulers' = Tail(schedulers)
      /\ shutdown_hooks' = shutdown_hooks /\ hook_log' = hook_log
      /\ phase' = phase /\ Wired' = Wired
  BY DEF Schedule!SpawnTask, vars, regVars, loopVars, Wired
<1>2. s \in Schedules /\ ToSet(schedulers) = {s} \cup ToSet(schedulers')
  BY <1>t, <1>1, TakeFirst
<1>3. {t \in Schedules : task'[t] # "unborn"} = {s} \cup {t \in Schedules : task[t] # "unborn"}
  BY <1>t, <1>1, <1>2
<1>4. OnListOrTaken'
  <2>1. Wired' \cap Schedules
          = ToSet(schedulers') \cup {t \in Schedules : task'[t] # "unborn"}
    BY <1>1, <1>2, <1>3 DEF AppInv, OnListOrTaken
  <2> QED
    BY <1>1, <2>1 DEF AppInv, OnListOrTaken
<1>5. BuildBeforeRun' /\ ListsEmptied'
  BY <1>1 DEF AppInv, BuildBeforeRun, ListsEmptied
<1> QED
  BY <1>1, <1>4, <1>5, HooksUntouched DEF AppInv

\* Running the last hook of the list.
LEMMA RunHookInv ==
  ASSUME AppTypeOK, AppInv, Schedule!RunHook, UNCHANGED <<vars, mode>>
  PROVE  AppInv'
<1> USE DEF Schedule!taskVars
<1>t. shutdown_hooks \in Seq(Hooks) /\ hook_log \in Seq(Hooks)
  BY DEF AppTypeOK, Schedule!ScheduleTypeOK
<1> DEFINE h == Last(shutdown_hooks)
<1>1. /\ main = "hooks" /\ main' \in {"hooks", "error", "panic"} /\ shutdown_hooks # <<>>
      /\ hook_log' = Append(hook_log, h) /\ shutdown_hooks' = Front(shutdown_hooks)
      /\ schedulers' = schedulers /\ task' = task
      /\ phase' = phase /\ Wired' = Wired /\ deps' = deps /\ immediate' = immediate
  BY DEF Schedule!RunHook, Schedule!Fail, Schedule!Last, Schedule!Front, Last, Front,
         vars, fixedVars, regVars, loopVars, Wired
<1>2. /\ h \in Hooks /\ ToSet(shutdown_hooks) = ToSet(shutdown_hooks') \cup {h}
      /\ ToSet(hook_log') = ToSet(hook_log) \cup {h}
  BY <1>t, <1>1, TakeLast, Push
<1>3. OnListOrTaken'
  BY <1>1, <1>2 DEF AppInv, OnListOrTaken
<1>4. BuildBeforeRun' /\ ListsEmptied'
  BY <1>1 DEF AppInv, BuildBeforeRun, ListsEmptied
<1>5. CloseOrder'
  <2> USE <1>1 DEF AppInv, CloseOrder, DependentsCloseFirst
  <2>1. \A p, q : DependsOn(p, q)' <=> DependsOn(p, q)
    BY DEF DependsOn
  <2>2. /\ DOMAIN shutdown_hooks' \subseteq DOMAIN shutdown_hooks
        /\ Len(shutdown_hooks) \in DOMAIN shutdown_hooks
        /\ shutdown_hooks[Len(shutdown_hooks)] = h
        /\ \A i \in DOMAIN shutdown_hooks' :
             shutdown_hooks'[i] = shutdown_hooks[i] /\ i < Len(shutdown_hooks)
    BY <1>t, FrontByPosition
  <2>3. \A i, j \in DOMAIN shutdown_hooks' :
          i < j => ~ DependsOn(shutdown_hooks'[i], shutdown_hooks'[j])
    BY <2>2
  <2>4. \A p \in ToSet(shutdown_hooks') : ~ DependsOn(p, h)
    BY <2>2 DEF ToSet
  <2>5. \A p \in ToSet(shutdown_hooks'), q \in ToSet(hook_log') : ~ DependsOn(p, q)
    BY <1>2, <2>4
  <2>6. /\ DOMAIN hook_log = 1..Len(hook_log) /\ Len(hook_log) \in Nat
        /\ DOMAIN hook_log' = 1..(Len(hook_log) + 1)
        /\ \A i \in 1..Len(hook_log) : hook_log'[i] = hook_log[i]
        /\ hook_log'[Len(hook_log) + 1] = h
    BY <1>t, <1>2, AppendProperties, LenProperties
  <2>7. \A i, j \in DOMAIN hook_log' : i < j => ~ DependsOn(hook_log'[j], hook_log'[i])
    <3>1. \A q \in ToSet(hook_log) : ~ DependsOn(h, q)
      BY <1>2
    <3> QED
      BY <2>6, <3>1 DEF ToSet
  <2> QED
    BY <2>1, <2>3, <2>5, <2>7
<1> QED
  BY <1>3, <1>4, <1>5 DEF AppInv

\* The other steps of run() and of the tasks: no task is unborn again, and no
\* stage is left before its list is empty.
LEMMA OtherRunSteps ==
  ASSUME AppTypeOK, AppInv, UNCHANGED <<vars, mode>>,
         main # "building", main' # "building",
         UNCHANGED <<schedulers, shutdown_hooks, hook_log>>,
         \A t \in Schedules : task'[t] = "unborn" <=> task[t] = "unborn",
         main' = "join" => main = "join" \/ schedulers = <<>>,
         main' \in {"before_hooks", "hooks", "after_hooks"} =>
           main \in {"join", "before_hooks", "hooks", "after_hooks"},
         main' \in {"after_hooks", "returned"} /\ mode = "run" =>
           main \in {"after_hooks", "returned"} \/ shutdown_hooks = <<>>
  PROVE  AppInv'
<1>1. phase' = phase /\ Wired' = Wired
  BY DEF vars, regVars, loopVars, Wired
<1>2. BuildBeforeRun' /\ ListsEmptied'
  BY <1>1 DEF AppInv, BuildBeforeRun, ListsEmptied
<1>3. {t \in Schedules : task'[t] # "unborn"} = {t \in Schedules : task[t] # "unborn"}
  OBVIOUS
<1>4. OnListOrTaken'
  BY <1>1, <1>3 DEF AppInv, OnListOrTaken
<1> QED
  BY <1>2, <1>4, HooksUntouched DEF AppInv

\* Every step of run() keeps AppInv.
LEMMA RunInv ==
  ASSUME AppTypeOK, AppInv, Run
  PROVE  AppInv' /\ AppTypeOK'
<1> USE DEF Schedule!taskVars, Schedule!hookVars
<1>1. Schedule!ScheduleNext /\ UNCHANGED <<vars, mode>> /\ mode = "run"
  BY DEF Run
<1>2. AppTypeOK'
  <2>1. TypeOK'
    BY <1>1 DEF AppTypeOK, TypeOK, vars, fixedVars, regVars, loopVars
  <2> QED
    BY <1>1, <2>1, ScheduleTyping DEF AppTypeOK
<1> SUFFICES AppInv'
  BY <1>2
<1>3. CASE Schedule!BuildApp
  BY <1>1, <1>3, OtherRunSteps DEF Schedule!BuildApp, Schedule!Publish, Schedule!Fail
<1>4. CASE Schedule!SpawnTask
  BY <1>1, <1>4, SpawnInv
<1>5. CASE Schedule!AllSpawned
  BY <1>1, <1>5, OtherRunSteps DEF Schedule!AllSpawned
<1>6. CASE Schedule!Join
  BY <1>1, <1>6, OtherRunSteps DEF Schedule!Join, Schedule!Fail
<1>7. CASE Schedule!AllJoined
  BY <1>1, <1>7, OtherRunSteps DEF Schedule!AllJoined
<1>8. CASE Schedule!PublishBeforeHooks
  BY <1>1, <1>8, OtherRunSteps DEF Schedule!PublishBeforeHooks, Schedule!Publish, Schedule!Fail
<1>9. CASE Schedule!RunHook
  BY <1>1, <1>9, RunHookInv
<1>10. CASE Schedule!HooksDone
  BY <1>1, <1>10, OtherRunSteps DEF Schedule!HooksDone
<1>11. CASE Schedule!PublishAfterHooks
  BY <1>1, <1>11, OtherRunSteps DEF Schedule!PublishAfterHooks, Schedule!Publish, Schedule!Fail
<1>12. CASE Schedule!DropRuntime
  <2>1. \A t \in Schedules : task'[t] = "unborn" <=> task[t] = "unborn"
    BY <1>12 DEF Schedule!DropRuntime
  <2> QED
    BY <1>1, <1>12, <2>1, OtherRunSteps DEF Schedule!DropRuntime, Schedule!Returned
<1>13. ASSUME NEW t \in Schedules, Schedule!TaskEnds(t) PROVE AppInv'
  <2>1. task \in [Schedules -> Schedule!Ended \cup {"unborn", "running", "cancelled"}]
    BY DEF AppTypeOK, Schedule!ScheduleTypeOK
  <2>2. \A s \in Schedules : task'[s] = "unborn" <=> task[s] = "unborn"
    BY <1>13, <2>1 DEF Schedule!TaskEnds, Schedule!Ended
  <2>3. main # "building"
    BY <1>13 DEF Schedule!TaskEnds, AppInv, BuildBeforeRun, Schedule!Idle
  <2> QED
    BY <1>1, <1>13, <2>2, <2>3, OtherRunSteps DEF Schedule!TaskEnds
<1> QED
  BY <1>1, <1>2, <1>3, <1>4, <1>5, <1>6, <1>7, <1>8, <1>9, <1>10, <1>11, <1>12, <1>13
  DEF Schedule!ScheduleNext, Schedule!ScheduleStep

\* build() hands the App out.
LEMMA HandOutInv ==
  ASSUME AppTypeOK, AppInv, HandOut
  PROVE  AppInv' /\ AppTypeOK'
<1> USE DEF Schedule!taskVars, Schedule!hookVars
<1>1. /\ main = "build_app" /\ main' \in {"returned", "error"} /\ mode = "build"
      /\ events' \in {events, Append(events, "AppBuilt")} /\ cause' \in {cause, "listener"}
      /\ UNCHANGED <<vars, mode, schedulers, task, handles, shutdown_hooks, hook_log>>
  BY DEF HandOut, Schedule!Publish, Schedule!Fail
<1>2. AppInv'
  BY <1>1, OtherRunSteps
<1>3. TypeOK'
  BY <1>1 DEF AppTypeOK, TypeOK, vars, fixedVars, regVars, loopVars
<1>4. events' \in Seq(Schedule!AppEvents)
  BY <1>1, AppendProperties DEF AppTypeOK, Schedule!ScheduleTypeOK, Schedule!AppEvents
<1>5. Schedule!ScheduleTypeOK'
  BY <1>1, <1>4
  DEF AppTypeOK, Schedule!ScheduleTypeOK, Schedule!Returned, Schedule!Causes
<1> QED
  BY <1>1, <1>2, <1>3, <1>5 DEF AppTypeOK

-----------------------------------------------------------------------------
\* AppInv is an invariant.
THEOREM Lifecycle == AppSpec => [](AppTypeOK /\ AppInv)
<1>1. AppInit => AppTypeOK /\ AppInv
  <2> SUFFICES ASSUME AppInit PROVE AppTypeOK /\ AppInv
    OBVIOUS
  <2> USE DEF AppInit, Init, Schedule!Idle
  <2>1. ToSet(<<>>) = {} /\ DOMAIN <<>> = {}
    BY DEF ToSet
  <2>2. TypeOK
    BY EmptySeq DEF TypeOK, Phases, Running
  <2>3. Schedule!ScheduleTypeOK
    BY EmptySeq DEF Schedule!ScheduleTypeOK, Schedule!Causes
  <2>4. BuildBeforeRun /\ ListsEmptied
    BY DEF BuildBeforeRun, ListsEmptied
  <2>5. OnListOrTaken
    BY <2>1 DEF OnListOrTaken, Wired
  <2>6. CloseOrder
    BY <2>1 DEF CloseOrder, DependentsCloseFirst
  <2> QED
    BY <2>2, <2>3, <2>4, <2>5, <2>6 DEF AppTypeOK, AppInv
<1>2. AppTypeOK /\ AppInv /\ BuildInv /\ [AppNext]_appVars => (AppTypeOK /\ AppInv)'
  <2> SUFFICES ASSUME AppTypeOK, AppInv, BuildInv, [AppNext]_appVars
               PROVE  AppTypeOK' /\ AppInv'
    OBVIOUS
  <2>1. CASE (\E p \in Plugin : AddAndWire(p)) \/ BuildPhase
    BY <2>1, OtherBuildSteps
  <2>2. ASSUME NEW new \in SUBSET Plugin, BuildAndWire(new) PROVE AppTypeOK' /\ AppInv'
    BY <2>2, BuildPluginStep
  <2>3. CASE InjectServices
    BY <2>3, InjectServicesInv
  <2>4. CASE HandOut
    BY <2>4, HandOutInv
  <2>5. CASE Run
    BY <2>5, RunInv
  <2>6. CASE UNCHANGED appVars
    <3>1. UNCHANGED <<vars, mode, wiringVars, runVars>>
      BY <2>6 DEF appVars
    <3>2. AppTypeOK'
      BY <3>1 DEF AppTypeOK, TypeOK, Schedule!ScheduleTypeOK, vars, fixedVars, regVars,
                  loopVars, wiringVars, runVars
    <3>3. BuildBeforeRun' /\ ListsEmptied'
      BY <3>1 DEF AppInv, BuildBeforeRun, ListsEmptied, Schedule!Idle, vars, wiringVars, runVars
    <3>4. OnListOrTaken'
      BY <3>1 DEF AppInv, OnListOrTaken, Wired, vars, regVars, loopVars, wiringVars, runVars
    <3>5. CloseOrder'
      BY <3>1, HooksUntouched DEF wiringVars, runVars
    <3> QED
      BY <3>2, <3>3, <3>4, <3>5 DEF AppInv
  <2> QED
    BY <2>1, <2>2, <2>3, <2>4, <2>5, <2>6 DEF AppNext, BuildPlugins
<1> QED
  BY <1>1, <1>2, BuildsAsPluginBuild, Building, PTL DEF AppSpec

\* The hook of a plugin never runs before that of a plugin that depends on
\* it, directly or through others, immediate plugins included.
THEOREM HooksCloseDependentsFirst == AppSpec => []DependentsCloseFirst
<1>1. AppInv => DependentsCloseFirst
  BY DEF AppInv, CloseOrder
<1> QED
  BY <1>1, Lifecycle, PTL

\* No task runs while a plugin is still to be built or after one could not be.
THEOREM TasksAfterBuild == AppSpec => []TasksSeeBuiltPlugins
<1>1. AppInv /\ BuildInv => TasksSeeBuiltPlugins
  BY DEF AppInv, BuildBeforeRun, Schedule!Idle, BuildInv, OutcomeByDependencies,
         TasksSeeBuiltPlugins
<1> QED
  BY <1>1, Lifecycle, BuildsAsPluginBuild, Building, PTL

\* run() spawns every scheduler and runs every hook of every plugin built.
THEOREM NothingForgotten == AppSpec => []NothingRegisteredIsForgotten
<1>1. AppInv => NothingRegisteredIsForgotten
  <2> SUFFICES ASSUME AppInv PROVE NothingRegisteredIsForgotten
    OBVIOUS
  <2>1. ToSet(<<>>) = {}
    BY DEF ToSet
  <2> QED
    BY <2>1 DEF AppInv, OnListOrTaken, ListsEmptied, NothingRegisteredIsForgotten
<1> QED
  BY <1>1, Lifecycle, PTL

\* run() and build() build the plugins in a topological order too.
THEOREM LifecycleRefinesOrder == AppSpec => ImplementsOrder
BY BuildsAsPluginBuild, Refinement, PTL

-----------------------------------------------------------------------------
\* What plugins and others register is collected as plugins are built.
LEMMA StepOfCollectBuild ==
  ASSUME [CollectNext]_collectVars
  PROVE  [Next]_vars
<1>1. CASE ProgramRegisters \/ ListenerRegisters
  BY <1>1 DEF ProgramRegisters, ListenerRegisters
<1>2. ASSUME NEW new \in SUBSET Plugin, BuildAndCollect(new) PROVE Next
  BY <1>2 DEF BuildAndCollect, Next, BuildStep
<1>3. CASE CollectPhase
  BY <1>3 DEF CollectPhase, Next, BuildStep
<1>4. CASE Inject \/ Drain \/ NoDrain \/ OtherListener \/ RunReader
  BY <1>4 DEF Inject, Drain, NoDrain, OtherListener, RunReader
<1>5. CASE UNCHANGED collectVars
  BY <1>5 DEF collectVars
<1> QED
  BY <1>1, <1>2, <1>3, <1>4, <1>5 DEF CollectNext

\* Collectors builds as PluginBuild does.
THEOREM CollectsAsPluginBuild == CollectSpec => Spec
<1>1. CollectInit => Init
  BY DEF CollectInit
<1>2. [CollectNext]_collectVars => [Next]_vars
  BY StepOfCollectBuild
<1> QED
  BY <1>1, <1>2, PTL DEF CollectSpec, Spec

-----------------------------------------------------------------------------
\* What a batch of plugins adds to the Vec.
LEMMA CollectBatch ==
  ASSUME collected \in Seq(Item), NEW batch, NEW items \in ItemsOf(batch), Collect(items)
  PROVE  /\ collected' \in Seq(Item)
         /\ ToSet(collected') = ToSet(collected) \cup (batch \cap Registrants)
<1>1. IsFiniteSet(batch \cap Registrants)
  BY PluginAssumption, CollectorAssumption, FS_Subset
<1>2. items \in Seq(batch \cap Registrants) /\ ToSet(items) = batch \cap Registrants
  BY <1>1, OrderOfSet DEF ItemsOf
<1>3. items \in Seq(Item)
  BY <1>2, SeqMonotonic DEF Item
<1> QED
  BY <1>2, <1>3, PushAll DEF Collect

\* What somebody else adds to it.
LEMMA CollectOne ==
  ASSUME collected \in Seq(Item), NEW who \in Others, CollectBy(who)
  PROVE  /\ collected' \in Seq(Item)
         /\ ToSet(collected') = ToSet(collected) \cup {who}
<1>1. who \in Item
  BY DEF Item
<1>2. collected' = Append(collected, who)
  BY <1>1, AppendIsConcat DEF CollectBy, Collect
<1> QED
  BY <1>1, <1>2, Push

\* EarlyRegistrationsInUse in terms of the elements.
EarlyMembers ==
  Reader \in registered =>
    /\ \A p \in Registrants : DependsOn(Reader, p) => p \in ToSet(at_build)
    /\ "program" \in ToSet(collected) => "program" \in ToSet(at_build)

\* The property is about the elements alone.
LEMMA EarlyByMembers ==
  ASSUME collected \in Seq(Item), at_build \in Seq(Item)
  PROVE  EarlyRegistrationsInUse <=> EarlyMembers
BY ContainsIsMember DEF EarlyRegistrationsInUse, EarlyMembers

\* Steps that keep what was read in the build of Reader, and before which the
\* program has registered whatever it does.
LEMMA EarlyKept ==
  ASSUME CollectTypeOK, CollectTypeOK', EarlyRegistrationsInUse,
         UNCHANGED <<deps, at_build>>,
         Reader \in registered' => Reader \in registered,
         Reader \in registered /\ "program" \in ToSet(collected') => "program" \in ToSet(collected)
  PROVE  EarlyRegistrationsInUse'
<1>1. EarlyMembers
  BY EarlyByMembers DEF CollectTypeOK
<1>2. \A p, q : DependsOn(p, q)' <=> DependsOn(p, q)
  BY DEF DependsOn
<1>3. EarlyMembers'
  BY <1>1, <1>2 DEF EarlyMembers
<1>4. (EarlyRegistrationsInUse <=> EarlyMembers)'
  BY ContainsIsMember DEF CollectTypeOK, EarlyRegistrationsInUse, EarlyMembers
<1> QED
  BY <1>3, <1>4

-----------------------------------------------------------------------------
\* The build of the first plugin of the round, which may be Reader.
LEMMA BuildAndCollectInv ==
  ASSUME CollectTypeOK, BuildInv, CollectInv, NEW new \in SUBSET Plugin, BuildAndCollect(new)
  PROVE  CollectTypeOK' /\ CollectInv'
<1> DEFINE p == Head(to_register)
           batch == {p} \cup (immediate_built' \ immediate_built)
<1>1. /\ phase = "building" /\ phase' = phase /\ deps' = deps
      /\ registered' = registered \cup {p} /\ deps[p] \subseteq registered
      /\ to_register # <<>> /\ Next
      /\ at_build' = IF p = Reader THEN collected ELSE at_build
      /\ UNCHANGED <<stage, at_drain, at_schedule, handlers>>
  BY DEF BuildAndCollect, BuildPlugin, Ready, fixedVars, Next, BuildStep
<1>2. PICK items \in ItemsOf(batch) : Collect(items)
  BY DEF BuildAndCollect
<1>3. TypeOK /\ TypeOK' /\ collected \in Seq(Item) /\ at_build \in Seq(Item)
  BY <1>1, TypingStep DEF CollectTypeOK
<1> HIDE DEF batch
<1>4. /\ collected' \in Seq(Item)
      /\ ToSet(collected') = ToSet(collected) \cup (batch \cap Registrants)
  BY <1>2, <1>3, CollectBatch
<1>5. CollectTypeOK'
  BY <1>1, <1>3, <1>4 DEF CollectTypeOK
<1>6. EveryoneCollected'
  BY <1>1, <1>4 DEF CollectInv, EveryoneCollected, batch
<1>7. BuildBeforeInjection' /\ DrainedAtOnce' /\ ReadLast'
  BY <1>1 DEF CollectInv, BuildBeforeInjection, DrainedAtOnce, ReadLast
<1>8. "program" \in ToSet(collected') <=> "program" \in ToSet(collected)
  BY <1>4, CollectorAssumption DEF Others
<1>9. EarlyRegistrationsInUse'
  <2>1. CASE p # Reader
    BY <1>1, <1>5, <1>8, <2>1, EarlyKept DEF CollectInv
  <2>2. CASE p = Reader
    <3>1. \A q \in Registrants : DependsOn(Reader, q) => q \in registered
      BY <1>1, <1>3, <2>2, NothingUnbuilt
    <3>2. \A q \in Registrants : DependsOn(Reader, q) => q \in ToSet(at_build')
      BY <1>1, <2>2, <3>1 DEF CollectInv, EveryoneCollected
    <3>3. \A q : DependsOn(Reader, q)' <=> DependsOn(Reader, q)
      BY <1>1 DEF DependsOn
    <3>4. EarlyMembers'
      BY <1>1, <1>8, <2>2, <3>2, <3>3 DEF EarlyMembers
    <3>5. (EarlyRegistrationsInUse <=> EarlyMembers)'
      BY <1>5, ContainsIsMember DEF CollectTypeOK, EarlyRegistrationsInUse, EarlyMembers
    <3> QED
      BY <3>4, <3>5
  <2> QED
    BY <2>1, <2>2
<1> QED
  BY <1>5, <1>6, <1>7, <1>9 DEF CollectInv

\* The other steps of the build.
LEMMA CollectPhaseInv ==
  ASSUME CollectTypeOK, BuildInv, CollectInv, CollectPhase
  PROVE  CollectTypeOK' /\ CollectInv'
<1> DEFINE Growth == /\ UNCHANGED <<fixedVars, registered>>
                     /\ phase \in Running /\ Next
<1> USE DEF fixedVars, regVars, loopVars
<1>1. UNCHANGED <<stage, readVars>>
  BY DEF CollectPhase
<1>2. Growth
  <2>1. ASSUME NEW p \in Plugin, AddPlugin(p) PROVE Growth
    BY <2>1 DEF AddPlugin, Running, Next
  <2>2. CASE AddAutoPlugins
    BY <2>2 DEF AddAutoPlugins, Running, Next, BuildStep
  <2>3. CASE ListenerError
    BY <2>3 DEF ListenerError, Running, Next, BuildStep
  <2>4. CASE TakeRegistry
    BY <2>4 DEF TakeRegistry, Running, Next, BuildStep
  <2>5. ASSUME NEW new \in SUBSET Plugin, PluginPanics(new) PROVE Growth
    BY <2>5 DEF PluginPanics, Running, Next, BuildStep
  <2>6. CASE DeferPlugin
    BY <2>6 DEF DeferPlugin, Running, Next, BuildStep
  <2>7. CASE EndRound
    BY <2>7 DEF EndRound, Running, Next, BuildStep
  <2>8. CASE RestoreRegistry
    BY <2>8 DEF RestoreRegistry, Running, Next, BuildStep
  <2>9. CASE PluginsBuilt
    BY <2>9 DEF PluginsBuilt, Running, Next, BuildStep
  <2> QED
    BY <2>1, <2>2, <2>3, <2>4, <2>5, <2>6, <2>7, <2>8, <2>9 DEF CollectPhase
<1>3. PICK items \in ItemsOf(immediate_built' \ immediate_built) : Collect(items)
  BY DEF CollectPhase
<1>4. /\ collected' \in Seq(Item)
      /\ ToSet(collected')
           = ToSet(collected) \cup ((immediate_built' \ immediate_built) \cap Registrants)
  BY <1>3, CollectBatch DEF CollectTypeOK
<1>5. CollectTypeOK'
  <2>1. TypeOK'
    BY <1>2, TypingStep DEF CollectTypeOK
  <2> QED
    BY <1>1, <1>4, <2>1 DEF CollectTypeOK, readVars
<1>6. stage = "plugins" /\ stage' = stage
  BY <1>1, <1>2 DEF CollectInv, BuildBeforeInjection, Running
<1>7. EveryoneCollected'
  BY <1>2, <1>4 DEF CollectInv, EveryoneCollected
<1>8. BuildBeforeInjection' /\ DrainedAtOnce' /\ ReadLast'
  BY <1>6 DEF BuildBeforeInjection, DrainedAtOnce, ReadLast
<1>9. "program" \in ToSet(collected') <=> "program" \in ToSet(collected)
  BY <1>4, CollectorAssumption DEF Others
<1>10. EarlyRegistrationsInUse'
  BY <1>1, <1>2, <1>5, <1>9, EarlyKept DEF CollectInv, readVars
<1> QED
  BY <1>5, <1>7, <1>8, <1>10 DEF CollectInv

\* Registrations by others than plugins, and steps without one: the Vec only
\* grows, and a registration of the program precedes the build.
LEMMA OtherRegistrations ==
  ASSUME CollectTypeOK, CollectInv, UNCHANGED <<vars, at_build>>,
         CollectTypeOK', ToSet(collected) \subseteq ToSet(collected'),
         Reader \in registered /\ "program" \in ToSet(collected') => "program" \in ToSet(collected)
  PROVE  EveryoneCollected' /\ EarlyRegistrationsInUse'
<1>1. UNCHANGED <<deps, registered, immediate_built>>
  BY DEF vars, fixedVars, regVars, loopVars
<1>2. EveryoneCollected'
  BY <1>1 DEF CollectInv, EveryoneCollected
<1>3. EarlyRegistrationsInUse'
  BY <1>1, EarlyKept DEF CollectInv
<1> QED
  BY <1>2, <1>3

\* The program before run(), or a listener of PluginsBuiltEvent.
LEMMA RegistersInv ==
  ASSUME CollectTypeOK, BuildInv, CollectInv, ProgramRegisters \/ ListenerRegisters
  PROVE  CollectTypeOK' /\ CollectInv'
<1> DEFINE who == IF phase = "setup" THEN "program" ELSE "plugins_built"
<1>1. /\ phase \in {"setup", "plugins_built_event"} /\ CollectBy(who)
      /\ UNCHANGED <<vars, stage, readVars>>
  BY DEF ProgramRegisters, ListenerRegisters
<1>2. UNCHANGED <<phase, registered>>
  BY <1>1 DEF vars, loopVars
<1>3. stage = "plugins"
  BY <1>1 DEF CollectInv, BuildBeforeInjection
<1>4. who \in Others /\ (phase = "setup" => registered = {})
  BY DEF Others, BuildInv, BeforeLoop
<1>5. collected' \in Seq(Item) /\ ToSet(collected') = ToSet(collected) \cup {who}
  BY <1>1, <1>4, CollectOne DEF CollectTypeOK
<1>6. CollectTypeOK'
  BY <1>1, <1>5
  DEF CollectTypeOK, TypeOK, vars, fixedVars, regVars, loopVars, readVars
<1>7. EveryoneCollected' /\ EarlyRegistrationsInUse'
  BY <1>1, <1>4, <1>5, <1>6, OtherRegistrations DEF readVars
<1>8. BuildBeforeInjection' /\ DrainedAtOnce' /\ ReadLast'
  BY <1>1, <1>3 DEF BuildBeforeInjection, DrainedAtOnce, ReadLast
<1> QED
  BY <1>6, <1>7, <1>8 DEF CollectInv

\* The injection of the services.
LEMMA InjectInv ==
  ASSUME CollectTypeOK, CollectInv, Inject
  PROVE  CollectTypeOK' /\ CollectInv'
<1>1. /\ phase = "built" /\ stage = "plugins" /\ stage' \in {"error", "injected"}
      /\ UNCHANGED collected \/ CollectBy("service")
      /\ UNCHANGED <<vars, readVars>>
  BY DEF Inject
<1>2. /\ collected' \in Seq(Item)
      /\ ToSet(collected') \in {ToSet(collected), ToSet(collected) \cup {"service"}}
  <2>1. CASE UNCHANGED collected
    BY <2>1 DEF CollectTypeOK
  <2>2. CASE CollectBy("service")
    BY <2>2, CollectOne DEF CollectTypeOK, Others
  <2> QED
    BY <1>1, <2>1, <2>2
<1>3. CollectTypeOK'
  BY <1>1, <1>2
  DEF CollectTypeOK, TypeOK, vars, fixedVars, regVars, loopVars, readVars
<1>4. EveryoneCollected' /\ EarlyRegistrationsInUse'
  BY <1>1, <1>2, <1>3, OtherRegistrations DEF readVars
<1>5. BuildBeforeInjection' /\ DrainedAtOnce' /\ ReadLast'
  BY <1>1 DEF BuildBeforeInjection, DrainedAtOnce, ReadLast, vars
<1> QED
  BY <1>3, <1>4, <1>5 DEF CollectInv

\* Draining: past the first failure the application does not get to run.
LEMMA DrainInv ==
  ASSUME CollectTypeOK, CollectInv, Drain
  PROVE  CollectTypeOK' /\ CollectInv'
<1>1. /\ stage = "injected" /\ at_drain' = collected
      /\ UNCHANGED <<vars, collected, at_build, at_schedule>>
  BY DEF Drain
<1>2. PICK k \in 0..Len(collected) :
        /\ handlers' = ToSet(SubSeq(collected, 1, k))
        /\ stage' \in IF k = Len(collected) THEN {"drained"} ELSE {"error", "panic"}
  BY DEF Drain
<1>3. collected \in Seq(Item) /\ Len(collected) \in Nat
  BY LenProperties DEF CollectTypeOK
<1>4. handlers' \in SUBSET Item
  <2>1. SubSeq(collected, 1, k) \in Seq(Item)
    BY <1>3, ElementOfSeq, SubSeqProperties
  <2> QED
    BY <1>2, <2>1, LenProperties, ElementOfSeq DEF ToSet
<1>5. CollectTypeOK'
  BY <1>1, <1>2, <1>4 DEF CollectTypeOK, TypeOK, vars, fixedVars, regVars, loopVars
<1>6. EveryoneCollected' /\ EarlyRegistrationsInUse'
  BY <1>1, <1>5, OtherRegistrations
<1>7. stage' = "drained" => handlers' = ToSet(collected)
  BY <1>2, <1>3, SubSeqFull
<1>8. DrainedAtOnce' /\ ReadLast' /\ BuildBeforeInjection'
  BY <1>1, <1>2, <1>7
  DEF CollectInv, DrainedAtOnce, ReadLast, BuildBeforeInjection, vars, loopVars
<1> QED
  BY <1>5, <1>6, <1>8 DEF CollectInv

\* The other listeners of the event.
LEMMA OtherListenerInv ==
  ASSUME CollectTypeOK, CollectInv, OtherListener
  PROVE  CollectTypeOK' /\ CollectInv'
<1>1. /\ stage \in {"injected", "drained"} /\ stage' \in {stage, "error"}
      /\ UNCHANGED collected \/ CollectBy("services_injected")
      /\ UNCHANGED <<vars, readVars>>
  BY DEF OtherListener
<1>2. /\ collected' \in Seq(Item)
      /\ ToSet(collected') \in {ToSet(collected), ToSet(collected) \cup {"services_injected"}}
  <2>1. CASE UNCHANGED collected
    BY <2>1 DEF CollectTypeOK
  <2>2. CASE CollectBy("services_injected")
    BY <2>2, CollectOne DEF CollectTypeOK, Others
  <2> QED
    BY <1>1, <2>1, <2>2
<1>3. CollectTypeOK'
  BY <1>1, <1>2
  DEF CollectTypeOK, TypeOK, vars, fixedVars, regVars, loopVars, readVars
<1>4. EveryoneCollected' /\ EarlyRegistrationsInUse'
  BY <1>1, <1>2, <1>3, OtherRegistrations DEF readVars
<1>5. DrainedAtOnce' /\ ReadLast' /\ BuildBeforeInjection'
  BY <1>1, <1>2
  DEF CollectInv, DrainedAtOnce, ReadLast, BuildBeforeInjection, vars, loopVars, readVars
<1> QED
  BY <1>3, <1>4, <1>5 DEF CollectInv

\* The steps that register nothing and drain nothing.
LEMMA RunReaderInv ==
  ASSUME CollectTypeOK, CollectInv, NoDrain \/ RunReader \/ UNCHANGED collectVars
  PROVE  CollectTypeOK' /\ CollectInv'
<1>1. UNCHANGED <<vars, collected, at_build, at_drain, handlers>>
  BY DEF NoDrain, RunReader, collectVars, readVars
<1>2. /\ stage' \in {stage, "drained", "running"} /\ at_schedule' \in {at_schedule, collected}
      /\ stage = "plugins" => stage' = "plugins"
      /\ stage' = "running" /\ Reader \in registered =>
           \/ at_schedule' = collected
           \/ stage = "running" /\ at_schedule' = at_schedule
      /\ stage' \in {"drained", "running"} /\ Reader \in registered =>
           stage \in {"drained", "running"}
  BY DEF NoDrain, RunReader, collectVars, readVars
<1>3. CollectTypeOK'
  BY <1>1, <1>2
  DEF CollectTypeOK, TypeOK, vars, fixedVars, regVars, loopVars
<1>4. EveryoneCollected' /\ EarlyRegistrationsInUse'
  BY <1>1, <1>3, OtherRegistrations
<1>5. DrainedAtOnce' /\ ReadLast' /\ BuildBeforeInjection'
  BY <1>1, <1>2
  DEF CollectInv, DrainedAtOnce, ReadLast, BuildBeforeInjection, vars, loopVars
<1> QED
  BY <1>3, <1>4, <1>5 DEF CollectInv

-----------------------------------------------------------------------------
\* CollectInv is an invariant.
THEOREM Collecting == CollectSpec => [](CollectTypeOK /\ CollectInv)
<1>1. CollectInit => CollectTypeOK /\ CollectInv
  <2> SUFFICES ASSUME CollectInit PROVE CollectTypeOK /\ CollectInv
    OBVIOUS
  <2> USE DEF CollectInit, Init
  <2>1. TypeOK
    BY EmptySeq DEF TypeOK, Phases, Running
  <2>2. CollectTypeOK
    BY <2>1, EmptySeq DEF CollectTypeOK
  <2>3. CollectInv
    BY DEF CollectInv, EveryoneCollected, BuildBeforeInjection, EarlyRegistrationsInUse,
           DrainedAtOnce, ReadLast
  <2> QED
    BY <2>2, <2>3
<1>2. CollectTypeOK /\ CollectInv /\ BuildInv /\ [CollectNext]_collectVars
        => (CollectTypeOK /\ CollectInv)'
  BY BuildAndCollectInv, CollectPhaseInv, RegistersInv, InjectInv, DrainInv,
     OtherListenerInv, RunReaderInv
  DEF CollectNext
<1> QED
  BY <1>1, <1>2, CollectsAsPluginBuild, Building, PTL DEF CollectSpec

\* What Reader reads in its build holds what the program and the plugins it
\* depends on registered.
THEOREM EarlyReads == CollectSpec => []EarlyRegistrationsInUse
<1>1. CollectInv => EarlyRegistrationsInUse
  BY DEF CollectInv
<1> QED
  BY <1>1, Collecting, PTL

\* What the scheduler of Reader reads is all that anybody registered.
THEOREM LateReads == CollectSpec => []LateReadersMissNothing
<1>1. CollectTypeOK /\ CollectInv => LateReadersMissNothing
  BY DEF CollectInv, EveryoneCollected, ReadLast, LateReadersMissNothing
<1> QED
  BY <1>1, Collecting, PTL

\* The application runs with all the lazy handlers or not at all.
THEOREM AllHandlers == CollectSpec => []AllHandlersOrNone
<1>1. CollectInv => AllHandlersOrNone
  BY DEF CollectInv, DrainedAtOnce, AllHandlersOrNone
<1> QED
  BY <1>1, Collecting, PTL
=============================================================================
