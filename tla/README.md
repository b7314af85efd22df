# A TLA+ specification of spring-rs (summer)

`summer` is an application framework for Rust in the manner of Spring Boot:
plugins are added to an `AppBuilder`, built in the order of their dependencies,
fill a registry of components, and schedule the long-running tasks of the
application; services are injected from the registry; events connect the
parts. This directory specifies the part of it that is concurrent, stateful or
order-dependent, checks it with TLC on small instances, and proves for all
instances every safety property that a passing run checks, of the framework and
of the documentation site.

The repository has a second program: the scripts of its documentation site,
`docs/static/js/search.js` and the widgets of the theme under
`docs/sass/bootstrap/js/src`, a copy of Bootstrap 5.0 that the theme ships as
source and that the site's own templates do not load. They run in one thread,
but what they start ends later, in callbacks and timers that find another
state than the one that started them; section 2.2 models them. The framework
is what this directory is about first.

Paths are relative to the root of the repository. `PROJECT.json` names, for
every definition that models code, the lines it stands for.

## 1. Inventory

| Part | State | Operations | What is hard |
|---|---|---|---|
| Plugin registry and build loop (`summer/src/app.rs`) | `plugin_registry`, the rounds `to_register` / `next_round`, `registered` | `add_plugin`, `add_auto_plugins`, `build_plugins` | DashMap iterates in any order; plugins are added while the registry is taken out; cycles and missing names must end the rounds |
| Service injection (`summer/src/plugin/service.rs`, `summer-macros/src/inject.rs`) | `components`, the registrars pending and postponed | `auto_inject_service`, generated `install_service` | the order of the inventory is that of the linker; errors of a round are swallowed; optional fields read what is there at the moment |
| Scheduling and shutdown (`summer/src/app.rs`) | `schedulers`, `shutdown_hooks`, join handles, tokio tasks | `schedule`, `build_app`, `add_scheduler`, `add_shutdown_hook` | tasks end, fail and panic in any order; every `?` skips what follows |
| Event bus (`summer/src/event.rs`) | two maps of listener lists, each behind the locks of a DashMap | `listen*`, `publish_builder`, `publish_app` | publications of two tasks, publications and registrations nested in a listener, guards and awaits |
| Lazy components (`summer/src/plugin/lazy.rs`, `App::set_global`) | an `Option` in an `RwLock`, the global `App` | `get`, `get_if_initialized`, `set_global` | the window between read and write lock; the global App is replaced |
| Server schedulers (`summer-web`, `summer-grpc`, `summer/src/signal.rs`) | bound socket, shutdown future | `schedule` | signals arrive at any time, each server hears only those it waits for |
| Nacos registration (`summer-nacos/src/lib.rs`) | the shared vector of instances | `on_event`, the shutdown hook | a network that loses and delays; the hook drains a vector tasks push to |
| Collected registrations (`add_router`, `add_router_layer`, `add_consumer`, `add_job`, `add_xxl_handler`, `add_xxl_lazy_handler`, `add_worker`, `add_service`) | one component per kind, a `Vec` extended in place | collect; read in build, on an event, or when scheduled | what is registered too late is silently lost |
| Result cache (`summer-macros/src/cache.rs`) | an entry in Redis | code generated by `#[cache]` | concurrent calls, Redis failing between any two awaits, dropped futures |
| Request metrics (`summer-opentelemetry/src/metrics.rs`) | `active_requests` | `Http::call`, `ResponseFuture::poll` | a future that is dropped is never polled to the end |
| Configuration (`summer/src/config`), Nacos bootstrap | TOML documents, environment | layering, interpolation, remote documents | partial failure, precedence |
| Job scheduler, stream consumers | running jobs; position in a stream | start, fire, shut down; poll, handle | jobs outlive the task that starts them; one error ends a consumer |
| Pagination (`summer-sea-orm`) | none | page arithmetic, two queries | bounds, rows that come and go between the queries |
| Connection pools, mail | a component each | connect in build, close in a hook | order of the hooks |
| Overlays and widgets of the site (`docs/sass/bootstrap/js/src`) | per instance: flags (`_isShown`, `_isTransitioning`, `_hoverState`, `_isSliding`), timers, classes of the elements; shared: the body, the document's listeners | `show`, `hide`, `toggle`, `to`, `next`, clicks, keys, pointer | the end of every animation is a callback that runs in whatever state it finds; one click passes several handlers; timers nobody cancels |
| Search of the site (`docs/static/js/search.js`) | the children of the list of suggestions, the focus | query, arrows, Escape, clicks; the excerpt of a page | old suggestions among new ones; positions counted while splitting; cuts in the middle of a character |
| Macros, logging, errors, extractors, problem details, test server | none | conversions | none that is stateful |

How they interact: the program adds plugins and calls `run()`. `run()`
publishes `ConfigEvent`, builds the plugins (whose `build` adds components,
schedulers, hooks and listeners), publishes `PluginsBuiltEvent`, installs the
services, publishes `ServicesInjectedEvent`, installs the global `App`,
publishes `AppBuiltEvent`, spawns the schedulers, awaits them, and runs the
hooks between two `ShutdownEvent`s. The servers publish `ServerStartedEvent`
from their tasks while this goes on.

## 2. Modules

    DependencyOrder      abstract: a plain topological order
      ^ refined by
    PluginBuild          plugin registry and build loop
      ^ extended by
    AppLifecycle         run() and build() from the first plugin to the last hook
    Collectors           what is registered for another plugin, and when it is read
    ServiceInject        the injection of the services
    AppSchedule          tasks, join, shutdown hooks
      ^ instantiated by AppLifecycle and by
    ServerRegistration   servers, signals, Nacos
    EventBus             listeners, the guards of their map, publications
    LazyComponent        LazyComponent::get and the global App
    CachedRequest        #[cache] behind the request metrics
    SeqLemmas            facts about the sequences that stand for Vecs

    LifecycleProofs      theorems about PluginBuild, AppLifecycle, Collectors
    ContainerProofs      about ServiceInject, LazyComponent, EventBus, CachedRequest
    AppScheduleProofs, ServerRegistrationProofs
                         about the module of that name

    Collapse             panels and accordions
    Carousel             a slide show
    PageBody             what overlays do to the body of the page
      ^ extended by Modal and Offcanvas, and those by
    Overlays             a modal and panes on one page
    Tooltip, Dropdown, Toast
    SearchBox, Teaser    suggestions, and the excerpt of a page
    SeqFilter            taking elements out of a sequence
    DocsPage             all of them, one per page
    TeaserProofs         theorems about the excerpt
      ^ extended by
    DocsPageProofs       about panels, menus, panes, tips, toasts, slides, search
      ^ extended by
    OverlaysProofs       about the modal, a modal beside a pane, and all types

`MC<Module>` instantiates a module for TLC; `MCShared` puts LazyComponent, EventBus
and CachedRequest, which know nothing of each other, into one state machine of
which a behaviour uses one. An operator commented as "Mutant
of" is a plausible wrong version of the definition after it; no specification
uses it, it is there to see that a property notices.

### 2.1 The framework

**PluginBuild.** One variable per field and local of the code: `plugin_registry`
is the builder's field, `registry` the local that takes it, `to_register` and
`next_round` the vectors of the round, `registered` the set of names. The
properties of the plugins (dependencies, `immediately()`, submission through
`inventory`) are fixed in the initial state, which ranges over all of them.
`phase` says where `build_plugins` is, or how it ended: the three panics, a
listener's error, or built. A plugin's `build` adds any set of plugins
(`BuildPlugin(new)`), which is how the overwritten registry comes into play.
`deps` of a plugin is a set of names of `Plugin`; a name nobody added is a
missing dependency.

**ServiceInject.** A service is a component type. Fields are required
(`needs`), optional (`wants`) or lazy (not represented: they read nothing). A
configuration that cannot be read is a member of `misconfigured`. The final
`first.install_service(app)` after a round without progress is the action
`Retry`, with the success it could have.

**AppSchedule.** `main` is the position of `schedule()`, `task[t]` the state
of a tokio task. `Publish` and `Fail` are the `?` operators: `cause` records
why `run()` ended early. `DropRuntime` is what happens to tasks that still run
when `main` returns.

**AppLifecycle.** PluginBuild with the lists that builds and immediate builds
push to (`Wire`), the injection as one step that may fail, and AppSchedule
on the same variables. `mode` is `run` or `build`. Within one step the
schedulers and the hooks are pushed in orders independent of each other, since
nothing reads both lists.

**EventBus.** One event type of one of the two maps: types do not interact,
and the two maps have the same code. Looking up the list, cloning it and dropping
the read guard are steps of a publication; registering asks for the write guard
and waits until nobody reads. `parent` and `by` record the publication in whose
listener another one, or a registration, was made, because that listener waits
for it: a guard that lived across the await would close the circle.

**LazyComponent.** Every lock operation is an action, so is every look under a
lock. Global App 0 is the empty default; `provides` are the applications that
have the component. A waiting writer keeps new readers out, as std's RwLock
does; nothing depends on it but termination.

**ServerRegistration.** A server is a task of AppSchedule, the Nacos hook one
of its hooks, registered on `ConfigEvent` and so the first of the list. A
register request can be received after the client gave up on it (`sent`);
`refused` remembers whose register call the client saw fail, which is what tells
an instance that nobody could take back from one that was recorded.
Every server has its own address: with `registration.port` set, both servers
would register the same instance, which is left out.

**Collectors.** Eight kinds of registration have the same shape (a `Vec`
component, created or extended in place) and differ in the moment at which
they are read. One vector stands for all and `Reader` reads at all three
moments: in `build` (routers, consumers, eager XXL handlers, workers), on
`ServicesInjectedEvent` (lazy XXL handlers), in its scheduler (layers, jobs,
gRPC services).

**CachedRequest.** Every await of the generated function and of the layer is a
step, between which other requests run, data change, entries expire, Redis
fails and the client may disconnect. The value of the function is the version
of the data it read.

### 2.2 The documentation site

The code is one thread of event handlers, so an action is one event: a click, a
key, a call from a script of the page, the end of a transition, a timer. It
runs everything the code runs for that event, nested handlers included. The
callbacks that wait (`transitionend`, `setTimeout`, `EventHandler.one`) are
part of the state, in the order in which they were added, and it is their order
against the next event that the properties are about. A method of the larger
widgets is a function from the state of its instance, one record, to the next,
as the methods call each other. Classes of an element are kept where the code
reads them again; heights, placement and markup are not.

**Collapse.** A panel's class, its instance or `_isTransitioning`, and the
callbacks waiting on it. `own` tells a callback of the present instance from
one whose instance `show()` of another panel dropped. The option `parent` is
absent, a selector or an element, which `show()` filters differently.

**Carousel.** Buttons look at `_isSliding`; keys and swipes do not. `to()` in the
middle of a slide waits for `slid`, which is a task of its own.

**Modal, Offcanvas, Overlays.** The chain of transitions of a modal (with the
option `focus` at its default, true); the timers of panes, which nothing
cancels; and both on one page, where they share the body's padding and overflow,
the one attribute that remembers the padding, and the document's handlers. The
page is of either length, with a padding of its own or without. A click on an
element inside of a toggler is an event of its own (`ClickInsideToggler`): the
pane compares the target of the click with what the toggler points at, and hides
what the same click has shown.

**Tooltip.** Active triggers, hover state, one timeout, and the callbacks of show
and hide. A `mouseleave` or `focusout` to a place inside of the element, which
sets the trigger it should clear, comes with the enter that the browser sends
after it (`MoveInside`). **Dropdown.** The handlers one click passes, in their order. **Toast.**
The autohide timer that is remembered and those that are not.

**SearchBox** keeps for each child of the list the page and whether it belongs
to the last query. **Teaser** translates `makeTeaser` and `substringByByte` over
pages of abstract UTF-16 code units, and compares the quoted text with a
definition of the best passage that knows nothing of the running positions. The
words and their positions are those of the text in lower case, where a letter
(`dotted`, for İ) can become two. Its loops, and the filter of **SeqFilter** that
drops callbacks and suggestions, are recursive functions and not recursive
operators, so that they can be proved about.

**DocsPage** puts the widgets into one state machine of which a page uses one
at a time, or a modal together with a pane: the states of the widgets add up
and one run checks them.

## 3. What is checked

| Run | Shows | Instance |
|---|---|---|
| `plugins_built_event` | *violation*: `PublishedAfterAllBuilt` | 2 plugins |
| `service_inject` | `InjectionOutcome`, `NeedsInstalledFirst`, `PluginOptionsGiven`, `InjectionEnds` | 3 services and a plugin's component: all required fields, at most one optional field each |
| `app_schedule` | `NoHookBesideTasks`, `NoHookSkipped`, `ShutdownEnds` | 3 tasks, 3 hooks in all orders, with all results |
| `app_lifecycle` | `DependenciesFirst`, `OutcomeByDependencies`, `BuildEnds`, `ImplementsOrder`, `DependentsCloseFirst`, `TasksSeeBuiltPlugins`, `NothingRegisteredIsForgotten` | 3 plugins with hooks, one with a task: all 512 graphs less those of immediate plugins, every iteration order, any plugins added in any build |
| `shared` | `OneInstance`, `InstanceOfBuiltApp`, `GetEnds`; `NotifiesThoseRegistered`, `SameOrder`, `PublicationEnds`; `CacheIsTransparent`, `CounterOfRequests` | one of: 3 threads and 2 applications after the default one; 2 listeners and 3 publications, concurrent and nested; 3 requests and 2 versions of the data |
| `servers` | `ServingIsListed`, `NothingLeftBehind`, `SignalEndsRun` | 2 graceful servers, another hook, with and without Nacos |
| `servers_shutdown` | *violation*: `AllDeregistered` | the same |
| `collectors` | `EarlyRegistrationsInUse`, `LateReadersMissNothing`, `AllHandlersOrNone` | a reader and 2 registrants, all graphs |
| `active_requests` | *violation*: `CountsActiveRequests` | 3 requests, 2 versions of the data |
| `docs_page` | `OneOpenPanel`, `TriggerTellsPanel`, `OneActiveItem`, `DeferredToIsServed`, `ModalOwnsThePage`, `PageIsGivenBack`, `OneOfMany`, `NoticesAgree`, `SearchShowsResults`, `ClickHandlersAgree`, `EverythingSettles`, `DocsTypeOK` | 3 panels, 3 items, a modal, 2 panes or a modal and a pane, a tip, 2 menus of 2 items, a toast, 3 pages in the index, all texts of 5 code units |
| `docs_enclosed` | *violation*: `TermsAreEnclosed` | the same |
| `docs_scroll` | *violation*: `ModalKillsTheScroll` | the same |

The type invariants of the framework's modules are theorems (section 4) and
are not checked again; that of the site's widgets is a theorem and is checked
too, since it says something: the focus stays on an item that exists.

### The bounds

Three plugins or services are the least with a chain, a cycle of two beside an
innocent third, a cycle of three, and a plugin that is deferred twice; the
proofs of section 4 cover all sizes. Services carry arbitrary relations, so
one order of the inventory covers all of them by renaming (`MCInit`); at
most one service is misconfigured and at most one component is registered
beforehand, each of which blocks or panics on its own. Three tasks are needed
for one to panic while another is being awaited and a third runs. Three
publications allow one nested in another and a third beside them. Two
applications after the default one are needed for a component to be resolved
from one while another becomes global. Two instances are needed for one to be
skipped after the other's deregistration failed. `MaxVersion = 1` gives a
stale and a fresh version; three requests let one fill the cache with what a
second one reads while a third is dropped; they are alike, so one set of each
size stands for those whose `condition` holds (`OneOfEachSize`). Immediate plugins have no
dependencies in the initial states, since the code never looks at them.

For the site, three panels are an accordion with one open, one moving and one
clicked; three items a carousel with a slide interrupted on its way and an
item besides; two panes or menus the one that opens and the one that must
close; two callbacks or timers waiting (three for tips and toasts) the one that
ends and those that a hasty user put behind or before it. `NPanes = 1` beside
the modal is enough for what they share. The bounds stop what begins something:
the user, the page's scripts and the interval of a carousel. A callback or a
timer that was begun always runs. `TEASER_MAX_WORDS` and `LongWord`
(30 and 12 in the code) are scaled to texts of five code units, so that windows
slide, sentences end and long words are cut.

### Deadlock

Most of these systems stop: the build, the injection and `run()` end, every
publication and request is used once. Those runs say `CHECK_DEADLOCK FALSE`,
and that they stop only where they should is stated by their liveness
properties; so does `shared`, whose publications and requests stop. A deadlock of
the threads that resolve a component is a `get()` that never returns
(`GetEnds`).

### Fairness

* `PluginBuild!FairSpec`, `ServiceInject`, `AppSchedule!FairSpec`: one
  sequential function that the runtime polls until it is done, hence weak
  fairness of its steps. That `run()` is called is part of it; `AddPlugin` is
  not fair, and a scheduler task may run for ever.
* `EventBus`: a publication is awaited by somebody, and listeners return: those
  that wait do so for publications and registrations of their own. Who waits for
  the write guard has it when no reader is left; the publications are finitely
  many, so that a shard lock need not hold off readers for that.
* `LazyComponent`: threads inside `get()` are scheduled. `WF` is enough for the
  lock, since a waiting writer holds off new readers and the readers that are
  inside leave.
* `ServerRegistration`: `run()` and a server with something to do are polled,
  a client call ends with an answer or an error, and a server that heard the
  signal comes to an end, that is, its open connections do. No signal and no arrival of a
  request is assumed, so `SignalEndsRun` starts where every server has heard
  the signal or has ended.
* `DocsSpec`: every transition ends (`emulateTransitionEnd` backs it with a
  timer) and the timers of the tip fire. Nothing is assumed of the user.
* `CachedRequest` states no fairness: its properties are invariants, and a
  request may be dropped or wait for ever.

### What the violations show

* **`plugins_built_event`** A plugin added by another plugin's `build` goes
  into the registry that `build_plugins` had emptied and overwrites at the end
  (`summer/src/app.rs:328`): it is never built, and `PluginsBuiltEvent`,
  "Published after all plugins have been built" (`summer/src/event.rs:337`),
  is published all the same.
* **`servers_shutdown`** The hook drains the recorded instances and then
  leaves at the first one whose deregistration fails
  (`summer-nacos/src/lib.rs:253`); the others, of which "all are deregistered
  on shutdown" (`summer-nacos/src/lib.rs:54`), are not tried.
* **`active_requests`** The "Number of active HTTP server requests"
  (`summer-opentelemetry/src/metrics.rs:56`) goes up in `call` and down only
  when the future completes; a request whose client disconnects stays counted.
* **`docs_enclosed`** `makeTeaser()` counts positions in `body.toLowerCase()`
  (`docs/static/js/search.js:148`) and quotes `body` by them: behind an İ, whose
  lower case is two code units, the tags that should "Enclose the terms in <b>"
  (`search.js:133`) enclose the text one further on.
* **`docs_scroll`** When a pane goes, `reset()` leaves `overflow: auto` in the
  body's style (`util/scrollbar.js:43`), which wins over the rule of `.modal-open`,
  the "body class for killing the scroll" (`scss/_modal.scss:1`): the page scrolls
  behind every modal that is shown later.

## 4. What is proved

Every theorem holds for all values of the constants that the named assumption
admits. The properties of the runs are seldom inductive; for each component the
text says what the inductive invariant adds.

### The framework

**The plugin build** (`LifecycleProofs`), for every finite set of plugins, every
dependency relation and every iteration order, from `PluginAssumption` (the set
of plugins is finite) alone: `Typing`; `BuildOrder` (`DependenciesFirst`);
`BuildOutcome` (`OutcomeByDependencies`: the loop panics only when there is a set
of plugins that block each other and gets through only when there is none, so
that the order of the DashMap never decides); and `Refinement`: PluginBuild
implements DependencyOrder. `BuildInv` adds what the loop maintains: the round,
the next round and the names registered partition the registry, without
repetitions (`RoundPartition`); while a round has made no progress, none of the
plugins it deferred has become ready (`NoProgressNoneReady`, which makes the
panic justified); and no plugin of a blocked set has ever been built
(`BlockedNeverBuilt`, which makes completion mean that there is no such set).

**run() and build()** (`LifecycleProofs`), from the same assumption and
`WiringAssumption`, which only says that those with a scheduler or a hook are
plugins. `BuildsAsPluginBuild` shows that AppLifecycle implements PluginBuild,
whose theorems therefore hold of it, and `LifecycleRefinesOrder` that it
implements DependencyOrder. `HooksCloseDependentsFirst`, `TasksAfterBuild` and
`NothingForgotten` are the three safety properties of the run. `AppInv` relates
the two halves of a life: who was built is on a list, or was taken off it to be
spawned or closed (`OnListOrTaken`); the stage of `schedule()` tells which lists
are empty (`ListsEmptied`); and the hooks closed so far, then those left from
last to first, are in an order in which nobody depends on one closed earlier
(`CloseOrder`). A plugin is pushed behind what it depends on because `BuildInv`
says that the dependencies of a plugin whose build runs are built.

**Collected registrations** (`LifecycleProofs`), from `PluginAssumption` and
`CollectorAssumption`: `CollectsAsPluginBuild`, `EarlyReads`, `LateReads` and
`AllHandlers`, the three properties of the run. `CollectInv`: whatever a plugin
that was built registers is in the vector (`EveryoneCollected`), and what a drain
took is what it registered (`DrainedAtOnce`). A reader that is in the registry
under the name its users depend on finds their items by `BuildInv`.

**Service injection** (`ContainerProofs`), from `ServiceAssumption`: `Typing`,
`Outcome` (`InjectionOutcome`), `InjectionOrder` (`NeedsInstalledFirst`) and
`OptionsGiven` (`PluginOptionsGiven`). `InjectInv` has the shape of `BuildInv`:
partition of the registrars, nothing postponed that could be built while the
round has made no progress (so that the final retry cannot leave services out
with `Ok`), and `components = base \cup ToSet(installed)`.

**Lazy components** (`ContainerProofs`), from `LazyAssumption`: `LazyTyping`,
`SameInstance` (`OneInstance`), `BuiltInstance` (`InstanceOfBuiltApp`) and the
action property `NeverReplaced` (`ResolvedOnce`, which no run repeats). `LazyInv`:
the writer is the one thread between the two ends of the write lock, and whoever
is about to resolve or to store holds it and has seen `None`, which closes the
window between the two locks (`LockInv`); what is stored or about to be stored
comes from an application that was built with the component (`InstanceInv`).

**Event bus** (`ContainerProofs`), without assumptions: `BusTyping`, `Notified`
(`NotifiesThoseRegistered`) and `Agreement` (`SameOrder`). `BusInv`: while a
publication reads, its guard keeps the list as it found it; afterwards what it
called, followed by what it still has to call, is what it found, and that is a
prefix of the list as it is now; two prefixes of one list compare.

**Scheduling and shutdown** (`AppScheduleProofs`), from `ScheduleAssumption`:
`Typing`, `HooksAlone` (`NoHookBesideTasks`) and `HooksRun` (`NoHookSkipped`).
That no task runs beside a hook follows only from what the stages before it
maintain, `NobodyForgotten`: until the last spawn every task is in the list of
schedulers or has a join handle, and while handles are awaited a task without
one has ended well. `ShutdownStage` ties the list of hooks, the published events
and `cause` to the position of `schedule()`.

**Servers and Nacos** (`ServerRegistrationProofs`), from `ServerAssumption`:
`UnderSchedule`, `Listed` (`ServingIsListed`), `Deregistered`
(`NothingLeftBehind`) and `Typing`. Every step of the servers, the network and
the hook is a step of `schedule()` or leaves its variables alone, so the step
lemmas of AppScheduleProofs hold here and give that no server runs once the hook
drains; this is why no instance is recorded after the drain, and why after a
normal return what Nacos lists was refused to the client, also when a recorded
server failed later or another listener ended it. `RegistrationInv` adds
`Accounted`, the place of every instance that Nacos lists or may come to list
(its register call is under way, or was refused, or it is recorded), and
`Draining`, which ties the vector and the hook's local to whether the hook has
been taken from the list.

**Result cache** (`ContainerProofs`), from `RequestAssumption`:
`Transparency` (`CacheIsTransparent`), `Counter` (`CounterOfRequests`) and
`CacheTyped`. The first is inductive together with `AwaitInv`: what a request at the
set, or one that was dropped there, may store was computed under the condition
and is none of the values that `unless` excludes.

`SeqLemmas` has the facts about sequences these rest on: an enumeration of a
finite set, taking the first or the last element, pushing one, and prefixes.

### The documentation site

These are theorems of `DocsSpec`, the page as TLC checks it, with any number of
panels, menus, panes and items, and whatever the bounds on the callbacks that
wait.

**Panels** (`DocsPageProofs`), from `CollapseAssumption`: `PanelsKept`,
`AtMostOneOpen` (`OneOpenPanel`) and `TriggersTellPanels` (`TriggerTellsPanel`).
`CollapseInv` adds that a panel moves exactly until its last callback has run
(`MovesUntilEnd`), and that in a managed accordion every panel keeps its
instance, which is in transition while it moves (`InstancesKept`): this is what
`show()` looks at to give up.

**Menus and panes** (`DocsPageProofs`), from `DocsAssumption`: `OneOfManyKept`
(`OneOfMany`) and `MenusToggle` (`ClickToggles`). `MenuInv`: what is open is
known to its toggler and has an instance, so that `clearMenus()` finds it, and
the arrow keys leave the focus on an item of the menu (`MenusKept`).
`PanesInv`: a pane whose calls waited for one another has one timer at most, the
one that ends what the last call began (`Animated`).

**Tips and toasts** (`DocsPageProofs`), from `DocsAssumption`: `NoticesKept`
(`NoticesAgree`). `ToastInv`: a toast that is to hide by itself has a timer, or
waits for the callback that starts one, and while its calls wait for the fade
before them it has one timer at most, the one it remembers (`Unhurried`).
`TipInv`: a tip that no trigger asks for is shown only while the timeout that
hides it runs, with no callback of an earlier `hide()` among those that wait,
and one that is asked for is shown (`TipOk`). The end of a transition runs every
callback that waits; that this keeps the invariants, however many there are, is
shown callback by callback, each against those that remain (`ToastOnItsWay`,
`TipOnItsWay`).

**The slide show** (`DocsPageProofs`), from `DocsAssumption` (there is an item):
`OneItemActive` (`OneActiveItem`) and `DeferredServed` (`DeferredToIsServed`).
`CarouselInv` adds that all that moves, moves from the active item to the item
of the indicator (`Orderly`), unless a slide was rushed; that nothing moves to
where it comes from, so that an item stays active; and that nothing moves
without animation. The deferred calls of `to()` that a `slid` event runs, one of
which may begin a slide that the next one waits for, are again taken one by one.

**The search** (`DocsPageProofs`, `TeaserProofs`), from `DocsAssumption` and
`TeaserAssumption` (an excerpt has a word at least): `SearchShows`
(`SearchShowsResults`), for any index and for pages and words of any length. It
has three parts.

* `SuggestionsShown`: the list ends with the results of the last query, in their
  order. `SearchInv` counts what is left of earlier queries, which is no more than
  the results without a text, and keeps the focus inside the list.
* `CutIsLongest`: what `substringByByte()` leaves of a word is a beginning within
  the limit without half of a surrogate pair, and where the joiners of the word
  join pairs (`PairsJoined`), the longest one of whole characters, a joined emoji
  being one. The invariant of
  the loop (`CutOk`) says that what is kept is such a beginning, that no whole one
  lies between it and the character looked at, and that `len` has the bytes since.
* `TeaserIs`: what `makeTeaser()` quotes of a page without a letter that becomes
  two in lower case is the passage of the best window.
  `SplitPieces` locates the pieces that `split()` returns in the text; with it
  `WeightedIs` shows that the words pushed are those of the page, each with the
  position and the weight it has there, by way of what is known when the loop has
  read up to a position (`Known`); `WeightsAre` that the sliding sums are the sums
  of the windows; `LastOfLargest` and `BestIs` that the search backwards ends at
  the last largest one; and `QuoteIs` that the words and the text between them
  join without a gap.

`TeaserInv`, which every step keeps (`TeaserKept`), says that what is quoted is
what these operators return. That a loop has a value at each of its steps, and
that this is the one the specification names, is shown by a function that gives
the values outright and solves the same equation; `Reaches` and `Iterates` then
carry an invariant along it, by the least step that would break it.

**The modal** (`OverlaysProofs`), without assumptions: `ModalAndPageAgree`
(`ModalOwnsThePage`) and the action property `DragsDismissNothing`
(`DragNeverDismisses`), which with `MenusToggle` is `HandlersAgree`
(`ClickHandlersAgree`). `ModalInv` says of every leg of a show or a hide who owns
the page: from `show()` to the end of the last leg of the hide, which is the
element's transition or the fading of the backdrop behind it, the modal has the
class `modal-open` and its one backdrop, and afterwards nothing (`OwnsInv`); it
holds the focus from the end of the backdrop's transition until it begins to
hide; and a press in the dialog is remembered by a listener until the button is
released. On a page whose only overlay is the modal nobody writes an inline
overflow (`OverflowKept`), so that the class is enough to lock the page.

**A modal beside a pane** (`OverlaysProofs`): `PageGivenBack`
(`PageIsGivenBack`). Both modules that write the page's body are instantiated
twice, once alone and once on this page; `SameBody`, `SameModal` and
`SameActions` carry `ModalInv` over. `PageInv` adds that while no overlay is
opened over the other, one of them is gone, and that the body has, between the
two, the padding that `PaddingLeft` tells and under one of them remembers it once:
the padding it was loaded with, or none, for good, once a modal was shown on a
page that is too short for a scrollbar. There `_setScrollbar()` saves nothing, and
`_resetElementAttributes()` clears what it does not find saved (`modal.js:487`). That modal and that pane are those of `PlainModal` and
`PlainPane`.

**Legs and types** (`OverlaysProofs`), from `DocsAssumption` and
`CollapseAssumption`: `LegsKept` and `DocsTyped` (`DocsTypeOK`). The number of
backdrops is not kept by itself: a show that overtakes a hide leaves an old one
to fade beside the new one. `LegsInv` says that a modal waits for the end of one
leg at most, and that one that is shown or hiding leaves room for one more to
fade. With the types that the other invariants carry (`PanesAreTyped`,
`SearchKept`, `MenusKept` and the rest) every variable of a page is of its type,
for every value of the constants.

### Model-checked only

* All liveness properties (`InjectionEnds`, `ShutdownEnds`, `BuildEnds`,
  `PublicationEnds`, `GetEnds`, `SignalEndsRun`, `EverythingSettles`): the prover
  has no rules for fairness and ENABLED.
* The five violations, which are counterexamples.

Neither checked nor proved is what `SearchShowsResults` leaves open of the
excerpt: how a window quotes a word that is cut, and a page without words; nor
how a word is cut that joins an emoji to a character which is no surrogate pair,
or by way of a selector (`search.js:261` looks for the joiner behind a pair only):
such an emoji can be cut in two, the pairs in it never.

### What the models left out of the properties

Some behaviours came up while the properties of the site were written that a
user of the widgets could call defects; no document of the repository promises
otherwise, so they are stated as the histories that the properties exclude.

* An accordion made by the first clicks, or with an element as `parent`, can
  have two panels open (`Managed` in Collapse).
* A key or swipe during a slide can leave two active items
  (`docs/sass/bootstrap/js/src/carousel.js:337`).
* A vetoed show leaves an animated modal dead
  (`modal.js:117`, `stuck`), and a modal shown again while its backdrop fades
  loses its new backdrop (`modal.js:381`, `reshown`).
* A pane that is toggled within the duration of its animation gets the end of
  the older one (`offcanvas.js:131`, `hurried`), as does one whose toggler was
  clicked on an element inside of it; and overlays that overlap do not give the
  page back as it was (`overlapped`).
* The first modal takes the padding of its own from a page too short for a
  scrollbar (`modal.js:487`, `PaddingLeft`), and a pane leaves `overflow: auto`
  where nothing was (`scrollbar.js:43`); what that does to a modal is the run
  `docs_scroll`.
* A tip hidden and shown again within the fade can stay or lose its popper
  (`tooltip.js:334`, `crossed`).
* Results without a text leave old suggestions in the list (`search.js:108`).

## 5. What is not modelled

* The configuration layers and the Nacos bootstrap documents, the running jobs,
  the poll loop of a stream consumer, page arithmetic, and the plugins that
  `#[component]` generates: planned in section 6. A consumer, and the task that
  starts the jobs, are tasks of AppSchedule that end in any way at any time.
* Connection pools and mail: a component and a hook each, as any plugin of
  AppLifecycle.
* A second `run()` or `build()` on the same builder, and an immediate plugin
  added twice.
* What users put into builds, tasks, hooks, listeners and handlers, beyond
  succeeding, failing, panicking, and adding plugins, listeners and items.
* The network protocols (axum, tonic, Nacos, Redis, the databases) beyond
  loss, delay and failure of a call.
* A signal before any server listens for it: the process is killed by the
  default action of the operating system.
* Of the site: tabs, alerts, buttons, the scroll spy, the theme switch, the
  sanitizer and Bootstrap's event and data libraries, which the widgets are
  modelled on top of; `dispose()` except of panels; focus within a modal.
* Conversions without state: macros, logging, errors, extractors, problem
  details, span attributes.

## 6. Plan

In this order, the most consequential first:

1. PluginBuild, ServiceInject, AppSchedule, AppLifecycle, EventBus,
   LazyComponent: done.
2. ServerRegistration, Collectors, CachedRequest, with the proofs about the
   first and the last, and the widgets of the documentation site: done.
3. `ConfigLayers`: base file, profile file, environment and Nacos bootstrap
   documents, with documents that cannot be fetched or parsed; interpolation
   as a scanner over abstract tokens against a reference definition.
4. `JobRuns` over AppSchedule: jobs that fire after the task that started the
   scheduler ended, while hooks close what they use.
5. `StreamConsumer`: the poll and handle loop, errors and panics.
6. `Pagination`: page arithmetic at the width of the integers, the clamp of the
   size, and the two queries with rows that come and go.
7. `ComponentGraph`: the plugins that `#[component]` generates, as an instance
   of PluginBuild.
8. Proofs: every safety property of the passing runs is a theorem. What is added
   under 3 to 7 comes with its own.
