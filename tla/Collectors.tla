----------------------------- MODULE Collectors -----------------------------
(***************************************************************************)
(* What plugins and programs register for another plugin: routers, layers, *)
(* consumers, jobs, handlers, workers, gRPC services.  Every kind is kept  *)
(* as one Vec component that add_* creates or extends in place; what       *)
(* differs is when the plugin that uses it reads it:                       *)
(*   - in its build: Routers (summer-web), Consumers (summer-stream),      *)
(*     XxlHandlerRegistry (summer-xxl-job), workers (summer-apalis);       *)
(*   - on ServicesInjectedEvent: XxlLazyHandlerRegistry;                   *)
(*   - in its scheduler: RouterLayers (summer-web), Jobs (summer-job),     *)
(*     RoutesBuilder (summer-grpc).                                        *)
(* The registrations are the same for each kind, so one vector stands for  *)
(* all of them and `Reader` for a plugin that reads at the three moments.  *)
(***************************************************************************)
EXTENDS PluginBuild

CONSTANTS
  Reader,       \* the plugin that uses what is registered
  Registrants   \* the plugins whose build registers one item

\* Who registers besides plugins: the program before run(), a listener of
\* PluginsBuiltEvent, a service while it is installed (gRPC), and a listener
\* of ServicesInjectedEvent.
Others == {"program", "plugins_built", "service", "services_injected"}
Item == Registrants \cup Others

ASSUME CollectorAssumption ==
  /\ Reader \in Plugin
  /\ Registrants \subseteq Plugin \ {Reader}
  /\ Registrants \cap Others = {}

VARIABLES
  stage,       \* what follows build_plugins
  collected,   \* the Vec of registered items
  at_build,    \* what Reader read in its build
  at_drain,    \* the lazy items taken on ServicesInjectedEvent
  at_schedule, \* what the scheduler of Reader read
  handlers     \* the items registered with the xxl-job executor

readVars == <<at_build, at_drain, at_schedule, handlers>>
collectVars == <<vars, stage, collected, readVars>>

CollectInit ==
  /\ Init
  /\ Reader \notin immediate
  /\ stage = "plugins"
  /\ collected = <<>>
  /\ at_build = <<>>
  /\ at_drain = <<>>
  /\ at_schedule = <<>>
  /\ handlers = {}

-----------------------------------------------------------------------------
\* Mutant of Collect: add_component in place of extending the Vec.
CollectAnew(items) ==
  collected' = IF items = <<>> THEN collected ELSE items

\* add_router, add_router_layer, add_consumer, add_job(s), add_xxl_handler,
\* add_xxl_lazy_handler, add_worker, add_service.
Collect(items) == collected' = collected \o items

\* Each of Others registers one item, at most.
CollectBy(who) == ~ Contains(collected, who) /\ Collect(<<who>>)

ItemsOf(plugins) == SetToSeqs(plugins \cap Registrants)

ProgramRegisters ==
  /\ phase = "setup" /\ CollectBy("program")
  /\ UNCHANGED <<vars, stage, readVars>>

\* plugin.build of Reader reads, that of a registrant registers, and the
\* immediate plugins it adds register too.
BuildAndCollect(new) ==
  /\ BuildPlugin(new)
  /\ at_build' = IF Head(to_register) = Reader THEN collected ELSE at_build
  /\ \E items \in ItemsOf({Head(to_register)} \cup (immediate_built' \ immediate_built)) :
       Collect(items)
  /\ UNCHANGED <<stage, at_drain, at_schedule, handlers>>

\* The other steps of build_plugins, which may add immediate plugins.
CollectPhase ==
  /\ \/ \E p \in Plugin : AddPlugin(p)
     \/ AddAutoPlugins
     \/ ListenerError
     \/ TakeRegistry
     \/ \E new \in SUBSET Plugin : PluginPanics(new)
     \/ DeferPlugin
     \/ EndRound
     \/ RestoreRegistry
     \/ PluginsBuilt
  /\ \E items \in ItemsOf(immediate_built' \ immediate_built) : Collect(items)
  /\ UNCHANGED <<stage, readVars>>

ListenerRegisters ==
  /\ phase = "plugins_built_event" /\ CollectBy("plugins_built")
  /\ UNCHANGED <<vars, stage, readVars>>

\* auto_inject_service: an error ends run(); a service may register itself.
Inject ==
  /\ phase = "built" /\ stage = "plugins"
  /\ \/ stage' = "error" /\ UNCHANGED collected
     \/ stage' = "injected" /\ UNCHANGED collected
     \/ stage' = "injected" /\ CollectBy("service")
  /\ UNCHANGED <<vars, readVars>>

\* Mutant of Drain: continue in place of break, the outcome forgotten.
DrainOn ==
  /\ stage = "injected" /\ Reader \in registered
  /\ at_drain' = collected
  /\ \E H \in SUBSET ToSet(collected) : handlers' = H
  /\ stage' = "drained"
  /\ UNCHANGED <<vars, collected, at_build, at_schedule>>

\* The listener Reader registered for ServicesInjectedEvent takes all lazy
\* items and registers their handlers, up to the first factory that fails
\* or the first name that is taken.
Drain ==
  /\ stage = "injected" /\ Reader \in registered
  /\ at_drain' = collected
  /\ \E k \in 0..Len(collected) :
       /\ handlers' = ToSet(SubSeq(collected, 1, k))
       /\ stage' \in IF k = Len(collected) THEN {"drained"} ELSE {"error", "panic"}
  /\ UNCHANGED <<vars, collected, at_build, at_schedule>>

\* Without Reader nobody listens.
NoDrain ==
  /\ stage = "injected" /\ Reader \notin registered
  /\ stage' = "drained"
  /\ UNCHANGED <<vars, collected, readVars>>

\* The other listeners of the event, before or after it.
OtherListener ==
  /\ stage \in {"injected", "drained"}
  /\ \/ CollectBy("services_injected") /\ UNCHANGED stage
     \/ stage' = "error" /\ UNCHANGED collected
  /\ UNCHANGED <<vars, readVars>>

\* Mutant of RunReader: the scheduler uses what the build of Reader read.
RunReaderSnapshot ==
  /\ stage = "drained" /\ stage' = "running"
  /\ at_schedule' = at_build
  /\ UNCHANGED <<vars, collected, at_build, at_drain, handlers>>

\* build_app moves the components into the App, and the scheduler of Reader
\* reads them.
RunReader ==
  /\ stage = "drained" /\ stage' = "running"
  /\ at_schedule' = IF Reader \in registered THEN collected ELSE at_schedule
  /\ UNCHANGED <<vars, collected, at_build, at_drain, handlers>>

CollectNext ==
  \/ ProgramRegisters
  \/ \E new \in SUBSET Plugin : BuildAndCollect(new)
  \/ CollectPhase
  \/ ListenerRegisters
  \/ Inject
  \/ Drain
  \/ NoDrain
  \/ OtherListener
  \/ RunReader

CollectSpec == CollectInit /\ [][CollectNext]_collectVars

-----------------------------------------------------------------------------
(***************************************************************************)
(* Properties.                                                             *)
(***************************************************************************)

\* What is read in the build of Reader, like the routers, holds what the
\* program registered before run() and what the plugins Reader depends on,
\* directly or not, registered; a plugin has no other way to be sure of it.
EarlyRegistrationsInUse ==
  Reader \in registered =>
    /\ \A p \in Registrants : DependsOn(Reader, p) => Contains(at_build, p)
    /\ Contains(collected, "program") => Contains(at_build, "program")

\* web/lib.rs of the layers: "This is done after all plugins have built,
\* ensuring plugins that depend on other plugins can still register layers".
\* A scheduler misses no item of any plugin that was built, nor of a
\* listener or a service.
LateReadersMissNothing ==
  stage = "running" /\ Reader \in registered =>
    /\ Registrants \cap (registered \cup immediate_built) \subseteq ToSet(at_schedule)
    /\ \A who \in Others : Contains(collected, who) => Contains(at_schedule, who)

\* The application never runs with a part of the lazy handlers: whatever was
\* taken out of the registry is registered with the executor, and only what
\* a listener of the same event registered can be missing.
AllHandlersOrNone ==
  stage = "running" /\ Reader \in registered =>
    /\ ToSet(at_drain) = handlers
    /\ ToSet(collected) \subseteq handlers \cup {"services_injected"}

(***************************************************************************)
(* The inductive invariant behind the three.  Whatever a plugin registered *)
(* while it was built is in the Vec; nothing happens after build_plugins   *)
(* before it got through; what a drain took is what it registered, and     *)
(* later items are those of other listeners; and the scheduler reads last. *)
(***************************************************************************)
CollectTypeOK ==
  /\ TypeOK
  /\ stage \in {"plugins", "injected", "drained", "running", "error", "panic"}
  /\ collected \in Seq(Item) /\ at_build \in Seq(Item)
  /\ at_drain \in Seq(Item) /\ at_schedule \in Seq(Item)
  /\ handlers \in SUBSET Item

EveryoneCollected == Registrants \cap (registered \cup immediate_built) \subseteq ToSet(collected)

BuildBeforeInjection == stage # "plugins" => phase = "built"

DrainedAtOnce ==
  stage \in {"drained", "running"} /\ Reader \in registered =>
    /\ ToSet(at_drain) = handlers
    /\ ToSet(collected) \subseteq handlers \cup {"services_injected"}

ReadLast == stage = "running" /\ Reader \in registered => at_schedule = collected

CollectInv ==
  /\ EveryoneCollected
  /\ BuildBeforeInjection
  /\ EarlyRegistrationsInUse
  /\ DrainedAtOnce
  /\ ReadLast
=============================================================================
