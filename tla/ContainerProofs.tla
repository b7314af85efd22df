--------------------------- MODULE ContainerProofs ---------------------------
(***************************************************************************)
(* Proofs about the parts of the container that plugins and services meet  *)
(* in: the injection of the services (ServiceInject), the components that  *)
(* are resolved on their first use (LazyComponent) and the event bus       *)
(* (EventBus); and about the results that requests share in the cache      *)
(* (CachedRequest).  Each is for any constants.                            *)
(*                                                                         *)
(* What auto_inject_service answers depends on the services and not on the *)
(* order of the inventory: InjectInv is inductive.  Every get() returns    *)
(* one instance, of an application that was built: LazyInv is.  A          *)
(* publication calls the listeners registered before it, in their order,   *)
(* and any two publications agree on the order: BusInv is.  The cache is   *)
(* transparent and the counter of requests counts what it counts:          *)
(* CacheInv is.                                                            *)
(***************************************************************************)
EXTENDS ServiceInject, LazyComponent, EventBus, CachedRequest, SeqLemmas

-----------------------------------------------------------------------------
(***************************************************************************)
(* The injection of the services (ServiceInject).                          *)
(***************************************************************************)
\* The registrars and the types range over Service and Component.
THEOREM Typing == Spec => []TypeOK
<1>1. Init => TypeOK
  <2> SUFFICES ASSUME Init PROVE TypeOK
    OBVIOUS
  <2>1. pending \in Seq(Service)
    BY ServiceAssumption, OrderOfSet DEF Init
  <2> QED
    BY <2>1, EmptySeq DEF Init, TypeOK
<1>2. TypeOK /\ [Next]_vars => TypeOK'
  <2> SUFFICES ASSUME TypeOK, [Next]_vars PROVE TypeOK'
    OBVIOUS
  <2> USE DEF TypeOK, fixedVars, roundVars, regVars, Component
  <2>1. CASE InstallFirst
    BY <2>1 DEF InstallFirst, Add, Given
  <2>2. CASE AddPanics
    BY <2>2 DEF AddPanics
  <2>3. CASE PostponeFirst
    BY <2>3 DEF PostponeFirst
  <2>4. CASE NextRound
    BY <2>4, EmptySeq DEF NextRound
  <2>5. CASE Retry
    <3>1. Head(next_pending) \in Service
      BY <2>5 DEF Retry
    <3>2. CASE Buildable(Head(next_pending))
      <4>1. Add(Head(next_pending)) /\ phase' = "ok" /\ UNCHANGED <<fixedVars, roundVars>>
        BY <2>5, <3>2 DEF Retry
      <4> QED
        BY <3>1, <4>1 DEF Add, Given
    <3>3. CASE ~ Buildable(Head(next_pending))
      BY <2>5, <3>3 DEF Retry
    <3> QED
      BY <3>2, <3>3
  <2>6. CASE Finish
    BY <2>6 DEF Finish
  <2>7. CASE UNCHANGED vars
    BY <2>7 DEF vars
  <2> QED
    BY <2>1, <2>2, <2>3, <2>4, <2>5, <2>6, <2>7 DEF Next
<1> QED
  BY <1>1, <1>2, PTL DEF Spec

-----------------------------------------------------------------------------
\* Installing the first registrar of the round.
LEMMA InstallFirstInv ==
  ASSUME TypeOK, InjectInv, InstallFirst
  PROVE  InjectInv'
<1> DEFINE s == Head(pending)
<1> USE DEF TypeOK, fixedVars
<1>1. /\ phase = "rounds" /\ pending # <<>> /\ Buildable(s) /\ s \notin components
      /\ phase' = phase /\ needs' = needs /\ base' = base /\ misconfigured' = misconfigured
      /\ next_pending' = next_pending /\ pending' = Tail(pending) /\ progress_made'
      /\ components' = components \cup {s} /\ installed' = Append(installed, s)
  BY DEF InstallFirst, Add
<1>2. /\ s \in Service
      /\ ToSet(pending) = {s} \cup ToSet(pending')
      /\ IsInjective(pending') /\ s \notin ToSet(pending')
  BY <1>1, TakeFirst DEF InjectInv, RoundPartition
<1>3. ToSet(installed') = ToSet(installed) \cup {s}
  BY <1>1, <1>2, Push
<1>4. s \notin ToSet(installed) /\ s \notin ToSet(next_pending)
  BY <1>1, <1>2 DEF InjectInv, RoundPartition
<1>5. RoundPartition'
  BY <1>1, <1>2, <1>3, <1>4 DEF InjectInv, RoundPartition
<1>6. (components = base \cup ToSet(installed))'
  BY <1>1, <1>3 DEF InjectInv
<1>7. NoProgressNoneBuildable' /\ InjectionOutcome'
  BY <1>1 DEF NoProgressNoneBuildable, InjectionOutcome
<1>8. NeedsInstalledFirst'
  <2>1. /\ Len(installed) \in Nat
        /\ DOMAIN installed = 1..Len(installed)
        /\ DOMAIN installed' = 1..(Len(installed) + 1)
        /\ \A i \in 1..Len(installed) : installed'[i] = installed[i]
        /\ installed'[Len(installed) + 1] = s
    BY <1>1, <1>2, AppendProperties, LenProperties
  <2>2. components = base \cup {installed[j] : j \in 1..Len(installed)}
    BY <2>1 DEF InjectInv, ToSet
  <2>3. ASSUME NEW i \in DOMAIN installed'
        PROVE needs[installed'[i]] \subseteq base \cup {installed'[j] : j \in 1..(i - 1)}
    <3>1. CASE i = Len(installed) + 1
      <4>1. needs[installed'[i]] \subseteq base \cup {installed[j] : j \in 1..(i - 1)}
        BY <3>1, <2>1, <2>2, <1>1 DEF Buildable
      <4> QED
        BY <4>1, <3>1, <2>1
    <3>2. CASE i \in 1..Len(installed)
      <4>1. needs[installed[i]] \subseteq base \cup {installed[j] : j \in 1..(i - 1)}
        BY <3>2, <2>1 DEF InjectInv, NeedsInstalledFirst
      <4>2. \A j \in 1..(i - 1) : installed'[j] = installed[j]
        BY <3>2, <2>1
      <4> QED
        BY <4>1, <4>2, <3>2, <2>1
    <3> QED
      BY <3>1, <3>2, <2>1
  <2>4. ASSUME NEW i \in DOMAIN installed', NEW j \in DOMAIN installed',
               installed'[i] = installed'[j]
        PROVE i = j
    BY <2>1, <2>4, <1>4 DEF InjectInv, NeedsInstalledFirst, ToSet
  <2> QED
    BY <2>3, <2>4, <1>1 DEF NeedsInstalledFirst
<1> QED
  BY <1>5, <1>6, <1>7, <1>8 DEF InjectInv

\* Postponing the first registrar of the round.
LEMMA PostponeFirstInv ==
  ASSUME TypeOK, InjectInv, PostponeFirst
  PROVE  InjectInv'
<1> DEFINE s == Head(pending)
<1> USE DEF TypeOK, fixedVars, regVars
<1>1. /\ phase = "rounds" /\ pending # <<>> /\ ~ Buildable(s)
      /\ phase' = phase /\ needs' = needs /\ base' = base /\ misconfigured' = misconfigured
      /\ next_pending' = Append(next_pending, s) /\ pending' = Tail(pending)
      /\ progress_made' = progress_made
      /\ components' = components /\ installed' = installed
  BY DEF PostponeFirst
<1>2. /\ s \in Service
      /\ ToSet(pending) = {s} \cup ToSet(pending')
      /\ IsInjective(pending') /\ s \notin ToSet(pending')
  BY <1>1, TakeFirst DEF InjectInv, RoundPartition
<1>3. /\ s \notin ToSet(next_pending)
      /\ ToSet(next_pending') = ToSet(next_pending) \cup {s}
      /\ IsInjective(next_pending')
  BY <1>1, <1>2, Push DEF InjectInv, RoundPartition
<1>4. RoundPartition'
  BY <1>1, <1>2, <1>3 DEF InjectInv, RoundPartition
<1>5. NoProgressNoneBuildable'
  BY <1>1, <1>3 DEF InjectInv, NoProgressNoneBuildable, Buildable
<1>6. NeedsInstalledFirst' /\ InjectionOutcome'
  BY <1>1 DEF InjectInv, NeedsInstalledFirst, InjectionOutcome
<1> QED
  BY <1>1, <1>4, <1>5, <1>6 DEF InjectInv

\* A new round.
LEMMA NextRoundInv ==
  ASSUME TypeOK, InjectInv, NextRound
  PROVE  InjectInv'
<1> USE DEF TypeOK, fixedVars, regVars
<1>1. /\ phase = "rounds" /\ pending = <<>>
      /\ phase' = phase /\ needs' = needs /\ base' = base /\ misconfigured' = misconfigured
      /\ pending' = next_pending /\ next_pending' = <<>> /\ ~ progress_made'
      /\ components' = components /\ installed' = installed
  BY DEF NextRound
<1>2. ToSet(<<>>) = {} /\ IsInjective(<<>>)
  BY DEF ToSet, IsInjective
<1>3. RoundPartition'
  BY <1>1, <1>2 DEF InjectInv, RoundPartition
<1>4. NoProgressNoneBuildable'
  BY <1>1, <1>2 DEF NoProgressNoneBuildable
<1>5. NeedsInstalledFirst' /\ InjectionOutcome'
  BY <1>1 DEF InjectInv, NeedsInstalledFirst, InjectionOutcome
<1> QED
  BY <1>1, <1>3, <1>4, <1>5 DEF InjectInv

\* The retry of the first registrar can only fail again, and the registrars
\* that are left block each other.
LEMMA RetryInv ==
  ASSUME TypeOK, InjectInv, Retry
  PROVE  InjectInv'
<1> USE DEF TypeOK, fixedVars, regVars
<1> DEFINE S == ToSet(next_pending)
<1>1. phase = "rounds" /\ pending = <<>> /\ next_pending # <<>> /\ ~ progress_made
  BY DEF Retry
<1>2. Head(next_pending) \in S /\ S \subseteq Service
  BY <1>1, TakeFirst DEF ToSet
<1>3. ~ Buildable(Head(next_pending))
  BY <1>1, <1>2 DEF InjectInv, NoProgressNoneBuildable
<1>4. /\ phase' = "err" /\ components' = components /\ installed' = installed
      /\ needs' = needs /\ base' = base /\ misconfigured' = misconfigured
  BY <1>3 DEF Retry
<1>5. Blocked(S)
  <2>1. ToSet(<<>>) = {}
    BY DEF ToSet
  <2>2. Service = ToSet(installed) \cup S /\ components = base \cup ToSet(installed)
    BY <1>1, <2>1 DEF InjectInv, RoundPartition
  <2> SUFFICES ASSUME NEW s \in S, s \notin misconfigured, needs[s] \cap S = {},
                      needs[s] \subseteq Service \cup base
               PROVE  FALSE
    BY <1>2 DEF Blocked
  <2>3. ~ (needs[s] \subseteq components)
    BY <1>1 DEF InjectInv, NoProgressNoneBuildable, Buildable
  <2> QED
    BY <2>2, <2>3
<1>6. (\E T \in SUBSET Service : Blocked(T))'
  <2> HIDE DEF TypeOK, S
  <2>1. \E T \in SUBSET Service : Blocked(T)
    BY <1>2, <1>5
  <2> QED
    BY <1>4, <2>1 DEF Blocked
<1>7. InjectionOutcome'
  BY <1>4, <1>6 DEF InjectionOutcome
<1>8. RoundPartition' /\ NoProgressNoneBuildable' /\ NeedsInstalledFirst'
  BY <1>4 DEF InjectInv, RoundPartition, NoProgressNoneBuildable, NeedsInstalledFirst
<1> QED
  BY <1>4, <1>7, <1>8 DEF InjectInv

\* InjectInv is an invariant.
THEOREM Injecting == Spec => []InjectInv
<1> USE DEF fixedVars, roundVars, regVars
<1>1. Init => InjectInv
  <2> SUFFICES ASSUME Init PROVE InjectInv
    OBVIOUS
  <2>1. ToSet(<<>>) = {} /\ IsInjective(<<>>) /\ DOMAIN <<>> = {}
    BY DEF ToSet, IsInjective
  <2>2. ToSet(pending) = Service /\ IsInjective(pending)
    BY ServiceAssumption, OrderOfSet DEF Init
  <2>3. RoundPartition /\ NoProgressNoneBuildable
    BY <2>1, <2>2 DEF Init, RoundPartition, NoProgressNoneBuildable
  <2>4. components = base \cup ToSet(installed) /\ NeedsInstalledFirst /\ InjectionOutcome
    BY <2>1 DEF Init, NeedsInstalledFirst, InjectionOutcome
  <2> QED
    BY <2>3, <2>4 DEF InjectInv
<1>2. TypeOK /\ InjectInv /\ [Next]_vars => InjectInv'
  <2> SUFFICES ASSUME TypeOK, InjectInv, [Next]_vars PROVE InjectInv'
    OBVIOUS
  <2>1. CASE InstallFirst
    BY <2>1, InstallFirstInv
  <2>2. CASE AddPanics
    <3>1. Head(pending) \in base /\ Head(pending) \in Service
      BY <2>2, TakeFirst DEF AddPanics, TypeOK, InjectInv, RoundPartition
    <3>2. InjectionOutcome'
      BY <2>2, <3>1 DEF AddPanics, InjectionOutcome
    <3>3. RoundPartition' /\ NoProgressNoneBuildable'
      BY <2>2 DEF AddPanics, RoundPartition, NoProgressNoneBuildable
    <3>4. (components = base \cup ToSet(installed))' /\ NeedsInstalledFirst'
      BY <2>2 DEF AddPanics, InjectInv, NeedsInstalledFirst
    <3> QED
      BY <3>2, <3>3, <3>4 DEF InjectInv
  <2>3. CASE PostponeFirst
    BY <2>3, PostponeFirstInv
  <2>4. CASE NextRound
    BY <2>4, NextRoundInv
  <2>5. CASE Retry
    BY <2>5, RetryInv
  <2>6. CASE Finish
    <3>1. ToSet(<<>>) = {}
      BY DEF ToSet
    <3>2. ToSet(installed) = Service
      BY <2>6, <3>1 DEF Finish, InjectInv, RoundPartition
    <3>3. RoundPartition' /\ NoProgressNoneBuildable' /\ InjectionOutcome'
      BY <2>6, <3>2 DEF Finish, RoundPartition, NoProgressNoneBuildable, InjectionOutcome
    <3>4. (components = base \cup ToSet(installed))' /\ NeedsInstalledFirst'
      BY <2>6 DEF Finish, InjectInv, NeedsInstalledFirst
    <3> QED
      BY <3>3, <3>4 DEF InjectInv
  <2>7. CASE UNCHANGED vars
    <3>1. RoundPartition' /\ NoProgressNoneBuildable' /\ NeedsInstalledFirst'
      BY <2>7 DEF vars, InjectInv, RoundPartition, NoProgressNoneBuildable, Buildable,
                  NeedsInstalledFirst
    <3>2. InjectionOutcome'
      BY <2>7 DEF vars, InjectInv, InjectionOutcome, Blocked
    <3> QED
      BY <2>7, <3>1, <3>2 DEF vars, InjectInv
  <2> QED
    BY <2>1, <2>2, <2>3, <2>4, <2>5, <2>6, <2>7 DEF Next
<1> QED
  BY <1>1, <1>2, Typing, PTL DEF Spec

\* The result of the injection does not depend on the order of the inventory.
THEOREM Outcome == Spec => []InjectionOutcome
<1>1. InjectInv => InjectionOutcome
  BY DEF InjectInv
<1> QED
  BY <1>1, Injecting, PTL

\* Services are installed after what they need, and once.
THEOREM InjectionOrder == Spec => []NeedsInstalledFirst
<1>1. InjectInv => NeedsInstalledFirst
  BY DEF InjectInv
<1> QED
  BY <1>1, Injecting, PTL

-----------------------------------------------------------------------------
\* Installing a service gives it the plugin components it wants.
LEMMA AddGivesOptions ==
  ASSUME TypeOK, InjectInv, PluginOptionsGiven, NEW s \in Service, Add(s),
         UNCHANGED fixedVars
  PROVE  PluginOptionsGiven'
<1>1. ToSet(installed') = ToSet(installed) \cup {s}
  BY Push DEF Add, TypeOK
<1>2. given' = [given EXCEPT ![s] = wants[s] \cap components] /\ given \in [Service -> SUBSET Component]
  BY DEF Add, Given, TypeOK
<1>3. base \subseteq components /\ wants' = wants /\ base' = base
  BY DEF InjectInv, fixedVars
<1>4. ASSUME NEW t \in ToSet(installed') PROVE wants[t] \cap base \subseteq given'[t]
  <2>1. CASE t = s
    BY <1>2, <1>3, <2>1
  <2>2. CASE t # s
    <3>1. t \in ToSet(installed) /\ given'[t] = given[t]
      BY <1>1, <1>2, <2>2
    <3> QED
      BY <3>1 DEF PluginOptionsGiven
  <2> QED
    BY <2>1, <2>2
<1> QED
  BY <1>3, <1>4 DEF PluginOptionsGiven

\* An Option field of a component that a plugin registered is Some in every
\* service installed, whatever the order of the inventory.
THEOREM OptionsGiven == Spec => []PluginOptionsGiven
<1>1. Init => PluginOptionsGiven
  BY DEF Init, PluginOptionsGiven, ToSet
<1>2. TypeOK /\ InjectInv /\ PluginOptionsGiven /\ [Next]_vars => PluginOptionsGiven'
  <2> SUFFICES ASSUME TypeOK, InjectInv, PluginOptionsGiven, [Next]_vars
               PROVE  PluginOptionsGiven'
    OBVIOUS
  <2>1. ASSUME UNCHANGED <<fixedVars, regVars>> PROVE PluginOptionsGiven'
    BY <2>1 DEF PluginOptionsGiven, fixedVars, regVars
  <2>2. CASE InstallFirst
    <3>1. Head(pending) \in Service
      BY <2>2, TakeFirst DEF InstallFirst, TypeOK
    <3> QED
      BY <2>2, <3>1, AddGivesOptions DEF InstallFirst
  <2>3. CASE AddPanics
    BY <2>1, <2>3 DEF AddPanics
  <2>4. CASE PostponeFirst
    BY <2>1, <2>4 DEF PostponeFirst
  <2>5. CASE NextRound
    BY <2>1, <2>5 DEF NextRound
  <2>6. CASE Retry
    <3>1. Head(next_pending) \in Service
      BY <2>6, TakeFirst DEF Retry, TypeOK
    <3>2. CASE Buildable(Head(next_pending))
      BY <2>6, <3>1, <3>2, AddGivesOptions DEF Retry
    <3>3. CASE ~ Buildable(Head(next_pending))
      BY <2>1, <2>6, <3>3 DEF Retry
    <3> QED
      BY <3>2, <3>3
  <2>7. CASE Finish
    BY <2>1, <2>7 DEF Finish
  <2>8. CASE UNCHANGED vars
    BY <2>1, <2>8 DEF vars
  <2> QED
    BY <2>2, <2>3, <2>4, <2>5, <2>6, <2>7, <2>8 DEF Next
<1> QED
  BY <1>1, <1>2, Typing, Injecting, PTL DEF Spec

-----------------------------------------------------------------------------
(***************************************************************************)
(* Components resolved on their first use (LazyComponent).                 *)
(***************************************************************************)
\* The values that stand for an instance, for None and for an error differ.
LEMMA Values ==
  /\ Missing \notin Apps /\ NoResult \notin Apps /\ None \notin Apps
  /\ Apps \subseteq Nat /\ None \in Nat
BY LazyAssumption DEF Apps, None, Missing, NoResult

\* An application is built and becomes global.
LEMMA SetGlobalInv == ASSUME LazyInv, SetGlobal PROVE LazyInv'
<1>1. LazyTypeOK'
  BY LazyAssumption DEF LazyInv, SetGlobal, LazyTypeOK
<1>2. LockInv'
  BY DEF LazyInv, SetGlobal, LockInv, WriteLocked
<1>3. InstanceInv'
  <2>1. \A n \in provides : n <= global => n <= global'
    BY LazyAssumption DEF LazyInv, SetGlobal, LazyTypeOK, Apps
  <2> QED
    BY <2>1 DEF LazyInv, SetGlobal, InstanceInv, OneInstance
<1> QED
  BY <1>1, <1>2, <1>3 DEF LazyInv

\* The steps that take or leave a lock, or answer from the Option.
LEMMA LockStepInv ==
  ASSUME LazyInv, NEW t \in Thread,
         \/ ReadLock(t) \/ Look(t) \/ LookOnly(t) \/ WriteLock(t) \/ LookAgain(t)
  PROVE  LazyInv'
<1> USE DEF Goto, Answer
<1>1. LazyTypeOK'
  BY Values DEF LazyInv, ReadLock, Look, LookOnly, WriteLock, LookAgain, LazyTypeOK
<1>2. LockInv'
  <2> USE DEF LazyInv, LazyTypeOK, LockInv, WriteLocked
  <2>1. CASE ReadLock(t)
    BY <2>1 DEF ReadLock
  <2>2. CASE Look(t) \/ LookOnly(t)
    BY <2>2 DEF Look, LookOnly
  <2>3. CASE WriteLock(t)
    BY <2>3 DEF WriteLock
  <2>4. CASE LookAgain(t)
    BY <2>4 DEF LookAgain
  <2> QED
    BY <2>1, <2>2, <2>3, <2>4
<1>3. InstanceInv'
  BY Values
  DEF LazyInv, ReadLock, Look, LookOnly, WriteLock, LookAgain, LazyTypeOK, InstanceInv, OneInstance
<1> QED
  BY <1>1, <1>2, <1>3 DEF LazyInv

\* The global App has the component, or the write lock is given back.
LEMMA ResolveInv == ASSUME LazyInv, NEW t \in Thread, Resolve(t) PROVE LazyInv'
<1> USE DEF Goto, Answer
<1>1. LazyTypeOK'
  BY Values DEF LazyInv, Resolve, LazyTypeOK
<1>2. LockInv'
  BY DEF LazyInv, Resolve, LazyTypeOK, LockInv, WriteLocked
<1>3. InstanceInv'
  <2>1. global <= global
    BY LazyAssumption DEF LazyInv, LazyTypeOK
  <2> QED
    BY <2>1, Values DEF LazyInv, Resolve, LazyTypeOK, InstanceInv, OneInstance
<1> QED
  BY <1>1, <1>2, <1>3 DEF LazyInv

\* The Option is empty until this step, so no call has returned an instance.
LEMMA StoreInv == ASSUME LazyInv, NEW t \in Thread, Store(t) PROVE LazyInv'
<1> USE DEF Goto, Answer
<1>1. pc[t] = "store" /\ t \in writer /\ component = None
  BY DEF LazyInv, Store, LockInv, WriteLocked
<1>2. found[t] \in provides /\ found[t] \in Apps /\ found[t] <= global
  BY <1>1 DEF LazyInv, LazyTypeOK, InstanceInv
<1>3. LazyTypeOK'
  BY <1>2 DEF LazyInv, Store, LazyTypeOK
<1>4. LockInv'
  BY <1>1 DEF LazyInv, Store, LazyTypeOK, LockInv, WriteLocked
<1>5. \A u \in Thread : result[u] \notin Apps
  BY <1>1, Values DEF LazyInv, InstanceInv, OneInstance
<1>6. InstanceInv'
  BY <1>2, <1>5 DEF LazyInv, Store, LazyTypeOK, InstanceInv, OneInstance
<1> QED
  BY <1>3, <1>4, <1>6 DEF LazyInv

\* LazyInv is an invariant.
THEOREM Locking == LazySpec => []LazyInv
<1>1. LazyInit => LazyInv
  BY LazyAssumption, Values
  DEF LazyInit, LazyInv, LazyTypeOK, LockInv, WriteLocked, InstanceInv, OneInstance, Apps, None
<1>2. LazyInv /\ [LazyNext]_lazyVars => LazyInv'
  <2> SUFFICES ASSUME LazyInv, [LazyNext]_lazyVars PROVE LazyInv'
    OBVIOUS
  <2>1. CASE UNCHANGED lazyVars
    BY <2>1
    DEF lazyVars, LazyInv, LazyTypeOK, LockInv, WriteLocked, InstanceInv, OneInstance
  <2> QED
    BY <2>1, SetGlobalInv, LockStepInv, ResolveInv, StoreInv DEF LazyNext, Get
<1> QED
  BY <1>1, <1>2, PTL DEF LazySpec

\* The state of get() is always well typed.
THEOREM LazyTyping == LazySpec => []LazyTypeOK
<1>1. LazyInv => LazyTypeOK
  BY DEF LazyInv
<1> QED
  BY <1>1, Locking, PTL

\* All calls that succeed return the same instance.
THEOREM SameInstance == LazySpec => []OneInstance
<1>1. LazyInv => OneInstance
  BY DEF LazyInv, InstanceInv
<1> QED
  BY <1>1, Locking, PTL

\* The instance comes from an application that was built with the component.
THEOREM BuiltInstance == LazySpec => []InstanceOfBuiltApp
<1>1. LazyInv => InstanceOfBuiltApp
  BY Values DEF LazyInv, InstanceInv, OneInstance, InstanceOfBuiltApp
<1> QED
  BY <1>1, Locking, PTL

\* What is resolved once is never replaced.
THEOREM NeverReplaced == LazySpec => ResolvedOnce
<1>1. LazyInv /\ [LazyNext]_lazyVars => [component # None => component' = component]_component
  <2> SUFFICES ASSUME LazyInv, LazyNext, component # None PROVE component' = component
    BY DEF lazyVars
  <2>1. ASSUME NEW t \in Thread, Store(t) PROVE FALSE
    BY <2>1 DEF LazyInv, LockInv, Store
  <2> QED
    BY <2>1 DEF LazyNext, Get, SetGlobal, ReadLock, Look, LookOnly, WriteLock, LookAgain, Resolve
<1> QED
  BY <1>1, Locking, PTL DEF LazySpec, ResolvedOnce

-----------------------------------------------------------------------------
(***************************************************************************)
(* Listeners and publications (EventBus).                                  *)
(***************************************************************************)
\* The lists hold listeners.
THEOREM BusTyping == BusSpec => []BusTypeOK
<1> USE DEF BusTypeOK, States, Callers
<1>1. BusInit => BusTypeOK
  BY EmptySeq DEF BusInit
<1>2. BusTypeOK /\ [BusNext]_busVars => BusTypeOK'
  <2> SUFFICES ASSUME BusTypeOK, [BusNext]_busVars PROVE BusTypeOK'
    OBVIOUS
  <2>1. ASSUME NEW l \in Listener, NEW from \in Callers, Ask(l, from) PROVE BusTypeOK'
    BY <2>1 DEF Ask
  <2>2. ASSUME NEW l \in Listener, Listen(l) PROVE BusTypeOK'
    BY <2>2 DEF Listen
  <2>3. ASSUME NEW p \in Publication, NEW from \in Callers, Publish(p, from)
        PROVE  BusTypeOK'
    BY <2>3 DEF Publish
  <2>4. ASSUME NEW p \in Publication, Clone(p) PROVE BusTypeOK'
    BY <2>4 DEF Clone
  <2>5. ASSUME NEW p \in Publication, Call(p) PROVE BusTypeOK'
    <3>1. /\ Tail(snapshot[p]) \in Seq(Listener)
          /\ Append(calls[p], Head(snapshot[p])) \in Seq(Listener)
      BY <2>5, HeadTailProperties, AppendProperties DEF Call
    <3> QED
      BY <2>5, <3>1 DEF Call
  <2>6. ASSUME NEW p \in Publication, Return(p) \/ Done(p) PROVE BusTypeOK'
    BY <2>6 DEF Return, Done
  <2>7. CASE UNCHANGED busVars
    BY <2>7 DEF busVars
  <2> QED
    BY <2>1, <2>2, <2>3, <2>4, <2>5, <2>6, <2>7 DEF BusNext, Step
<1> QED
  BY <1>1, <1>2, PTL DEF BusSpec

-----------------------------------------------------------------------------
\* Registering a listener only extends the list, and nobody reads it then.
LEMMA ListenInv == ASSUME BusTypeOK, BusInv, NEW l \in Listener, Listen(l) PROVE BusInv'
<1> SUFFICES ASSUME NEW p \in Publication
             PROVE  state[p] # "reading" /\ IsPrefix(before[p], listeners')
  BY DEF BusInv, Listen
<1>1. listeners' \in Seq(Listener) /\ IsPrefix(listeners, listeners')
  BY PrefixOfPushed, AppendProperties DEF Listen, BusTypeOK
<1>2. before[p] \in Seq(Listener) /\ listeners \in Seq(Listener)
  BY DEF BusTypeOK
<1>3. IsPrefix(before[p], listeners)
  BY DEF BusInv
<1>4. state[p] # "reading"
  BY DEF BusInv, Listen
<1> QED
  BY <1>1, <1>2, <1>3, <1>4, PrefixTransitive

\* A publication finds the list as it is, and guards it.
LEMMA PublishInv ==
  ASSUME BusTypeOK, BusInv, NEW p \in Publication, NEW from, Publish(p, from)
  PROVE  BusInv'
<1>1. listeners \in Seq(Listener) /\ listeners' = listeners
  BY DEF BusTypeOK, Publish
<1>2. IsPrefix(listeners, listeners)
  BY <1>1, PrefixReflexive
<1>3. calls[p] = <<>>
  BY DEF BusInv, Publish
<1>4. /\ before' = [before EXCEPT ![p] = listeners]
      /\ guards' = guards \cup {p}
      /\ state' = [state EXCEPT ![p] = "reading"]
      /\ snapshot' = snapshot /\ calls' = calls
  BY DEF Publish
<1>5. ASSUME NEW q \in Publication
      PROVE  /\ state'[q] = "reading" => q \in guards' /\ before'[q] = listeners'
             /\ state'[q] # "reading" => before'[q] = calls'[q] \o snapshot'[q]
             /\ state'[q] = "ok" => snapshot'[q] = <<>>
             /\ state'[q] \in {"idle", "reading"} => calls'[q] = <<>>
             /\ IsPrefix(before'[q], listeners')
  <2>1. CASE q = p
    BY <2>1, <1>1, <1>2, <1>3, <1>4 DEF BusTypeOK
  <2>2. CASE q # p
    BY <2>2, <1>1, <1>4 DEF BusTypeOK, BusInv
  <2> QED
    BY <2>1, <2>2
<1> QED
  BY <1>5 DEF BusInv

\* The clone is the list the publication found, which its guard kept.
LEMMA CloneInv == ASSUME BusTypeOK, BusInv, NEW p \in Publication, Clone(p) PROVE BusInv'
<1>1. /\ snapshot' = [snapshot EXCEPT ![p] = listeners]
      /\ state' = [state EXCEPT ![p] = "next"]
      /\ guards' = guards \ {p}
      /\ before' = before /\ listeners' = listeners /\ calls' = calls
  BY DEF Clone
<1>2. before[p] = listeners /\ calls[p] = <<>>
  BY DEF BusInv, Clone
<1>3. <<>> \o listeners = listeners
  BY ConcatEmptySeq DEF BusTypeOK
<1>4. ASSUME NEW q \in Publication
      PROVE  /\ state'[q] = "reading" => q \in guards' /\ before'[q] = listeners'
             /\ state'[q] # "reading" => before'[q] = calls'[q] \o snapshot'[q]
             /\ state'[q] = "ok" => snapshot'[q] = <<>>
             /\ state'[q] \in {"idle", "reading"} => calls'[q] = <<>>
             /\ IsPrefix(before'[q], listeners')
  <2>1. CASE q = p
    BY <2>1, <1>1, <1>2, <1>3 DEF BusTypeOK, BusInv
  <2>2. CASE q # p
    BY <2>2, <1>1 DEF BusTypeOK, BusInv
  <2> QED
    BY <2>1, <2>2
<1> QED
  BY <1>4 DEF BusInv

\* Calling a listener moves it from the list to call to the list called.
LEMMA CallInv == ASSUME BusTypeOK, BusInv, NEW p \in Publication, Call(p) PROVE BusInv'
<1>1. /\ snapshot[p] \in Seq(Listener) /\ snapshot[p] # <<>> /\ calls[p] \in Seq(Listener)
      /\ calls' = [calls EXCEPT ![p] = Append(calls[p], Head(snapshot[p]))]
      /\ snapshot' = [snapshot EXCEPT ![p] = Tail(snapshot[p])]
      /\ state' = [state EXCEPT ![p] = "calling"]
      /\ before' = before /\ listeners' = listeners /\ guards' = guards
  BY DEF Call, BusTypeOK
<1>2. Append(calls[p], Head(snapshot[p])) \o Tail(snapshot[p]) = calls[p] \o snapshot[p]
  BY <1>1, MoveHead
<1>3. before[p] = calls[p] \o snapshot[p]
  BY DEF BusInv, Call
<1>4. ASSUME NEW q \in Publication
      PROVE  /\ state'[q] = "reading" => q \in guards' /\ before'[q] = listeners'
             /\ state'[q] # "reading" => before'[q] = calls'[q] \o snapshot'[q]
             /\ state'[q] = "ok" => snapshot'[q] = <<>>
             /\ state'[q] \in {"idle", "reading"} => calls'[q] = <<>>
             /\ IsPrefix(before'[q], listeners')
  <2>1. CASE q = p
    BY <2>1, <1>1, <1>2, <1>3 DEF BusTypeOK, BusInv
  <2>2. CASE q # p
    BY <2>2, <1>1 DEF BusTypeOK, BusInv
  <2> QED
    BY <2>1, <2>2
<1> QED
  BY <1>4 DEF BusInv

\* A publication that goes on or ends has no guard it reads under.
LEMMA ReturnInv ==
  ASSUME BusTypeOK, BusInv, NEW p \in Publication, Return(p) \/ Done(p)
  PROVE  BusInv'
<1>1. PICK r \in {"next", "ok", "err"} :
        /\ state' = [state EXCEPT ![p] = r]
        /\ r = "ok" => snapshot[p] = <<>>
  BY DEF Return, Done
<1>2. /\ state[p] # "reading" /\ state[p] # "idle"
      /\ \A q \in Publication \ {p} : q \in guards => q \in guards'
      /\ snapshot' = snapshot /\ before' = before /\ listeners' = listeners /\ calls' = calls
  BY DEF Return, Done
<1>3. ASSUME NEW q \in Publication
      PROVE  /\ state'[q] = "reading" => q \in guards' /\ before'[q] = listeners'
             /\ state'[q] # "reading" => before'[q] = calls'[q] \o snapshot'[q]
             /\ state'[q] = "ok" => snapshot'[q] = <<>>
             /\ state'[q] \in {"idle", "reading"} => calls'[q] = <<>>
             /\ IsPrefix(before'[q], listeners')
  <2>1. CASE q = p
    BY <2>1, <1>1, <1>2 DEF BusTypeOK, BusInv
  <2>2. CASE q # p
    BY <2>2, <1>1, <1>2 DEF BusTypeOK, BusInv
  <2> QED
    BY <2>1, <2>2
<1> QED
  BY <1>3 DEF BusInv

\* BusInv is an invariant.
THEOREM Publishing == BusSpec => []BusInv
<1>1. BusInit => BusInv
  <2> SUFFICES ASSUME BusInit PROVE BusInv
    OBVIOUS
  <2>1. <<>> \o <<>> = <<>> /\ IsPrefix(<<>>, <<>>)
    <3>1. <<>> \in Seq(Listener)
      BY EmptySeq
    <3>2. <<>> \o <<>> = <<>>
      BY <3>1, ConcatEmptySeq
    <3>3. IsPrefix(<<>>, <<>>)
      BY <3>1, PrefixReflexive
    <3> QED
      BY <3>2, <3>3
  <2> QED
    BY <2>1 DEF BusInit, BusInv
<1>2. BusTypeOK /\ BusInv /\ [BusNext]_busVars => BusInv'
  <2> SUFFICES ASSUME BusTypeOK, BusInv, [BusNext]_busVars PROVE BusInv'
    OBVIOUS
  <2>1. ASSUME NEW l \in Listener, NEW from \in Callers, Ask(l, from) PROVE BusInv'
    BY <2>1 DEF Ask, BusInv
  <2>2. CASE UNCHANGED busVars
    BY <2>2 DEF busVars, BusInv
  <2> QED
    BY <2>1, <2>2, ListenInv, PublishInv, CloneInv, CallInv, ReturnInv DEF BusNext, Step
<1> QED
  BY <1>1, <1>2, BusTyping, PTL DEF BusSpec

\* What a publication called is a prefix of what it found.
LEMMA CallsArePrefix ==
  ASSUME BusTypeOK, BusInv, NEW p \in Publication
  PROVE  IsPrefix(calls[p], before[p]) /\ calls[p] \in Seq(Listener)
<1>1. /\ calls[p] \in Seq(Listener) /\ snapshot[p] \in Seq(Listener)
      /\ before[p] \in Seq(Listener)
  BY DEF BusTypeOK
<1>2. CASE state[p] = "reading"
  <2>1. calls[p] = <<>>
    BY <1>2 DEF BusInv
  <2>2. <<>> \o before[p] = before[p] /\ IsPrefix(<<>>, <<>> \o before[p])
    BY <1>1, ConcatEmptySeq, EmptySeq, PrefixOfConcat
  <2> QED
    BY <1>1, <2>1, <2>2
<1>3. CASE state[p] # "reading"
  <2>1. before[p] = calls[p] \o snapshot[p]
    BY <1>3 DEF BusInv
  <2> QED
    BY <1>1, <2>1, PrefixOfConcat
<1> QED
  BY <1>2, <1>3

\* A publication notifies those registered before it, in their order.
THEOREM Notified == BusSpec => []NotifiesThoseRegistered
<1>1. BusTypeOK /\ BusInv => NotifiesThoseRegistered
  <2> SUFFICES ASSUME BusTypeOK, BusInv, NEW p \in Publication
               PROVE  /\ IsPrefix(calls[p], before[p])
                      /\ state[p] = "ok" => calls[p] = before[p]
    BY DEF NotifiesThoseRegistered
  <2>1. calls[p] \o <<>> = calls[p]
    BY CallsArePrefix, ConcatEmptySeq
  <2> QED
    BY <2>1, CallsArePrefix DEF BusInv
<1> QED
  BY <1>1, BusTyping, Publishing, PTL

\* Any two publications call the listeners in the same order.
THEOREM Agreement == BusSpec => []SameOrder
<1>1. BusTypeOK /\ BusInv => SameOrder
  <2> SUFFICES ASSUME BusTypeOK, BusInv, NEW p \in Publication, NEW q \in Publication
               PROVE  IsPrefix(calls[p], calls[q]) \/ IsPrefix(calls[q], calls[p])
    BY DEF SameOrder
  <2>1. ASSUME NEW r \in Publication
        PROVE  calls[r] \in Seq(Listener) /\ IsPrefix(calls[r], listeners)
    <3>1. /\ IsPrefix(calls[r], before[r]) /\ calls[r] \in Seq(Listener)
          /\ IsPrefix(before[r], listeners)
      BY CallsArePrefix DEF BusInv
    <3>2. before[r] \in Seq(Listener) /\ listeners \in Seq(Listener)
      BY DEF BusTypeOK
    <3> QED
      BY <3>1, <3>2, PrefixTransitive
  <2>2. listeners \in Seq(Listener)
    BY DEF BusTypeOK
  <2> QED
    BY <2>1, <2>2, PrefixesCompare
<1> QED
  BY <1>1, BusTyping, Publishing, PTL
-----------------------------------------------------------------------------
(***************************************************************************)
(* The result cache (CachedRequest).  Transparency is inductive together   *)
(* with what a request at each await knows (AwaitInv): what it is about to *)
(* store may be stored.                                                    *)
(***************************************************************************)
RequestPlaces == Awaits \cup Outside

\* TypeOK without the range of the counter, which follows from its meaning.
RequestType ==
  /\ condition \in SUBSET Request
  /\ unless \in SUBSET Version
  /\ version \in Version
  /\ entry \in Version \cup {NoEntry, Garbage}
  /\ await \in [Request -> RequestPlaces]
  /\ answer \in [Request -> Version \cup {Err, Pending}]
  /\ computed \in SUBSET Request
  /\ failed \in SUBSET Request

\* Before the function has run there is no result; only requests with the
\* condition ask Redis; and what is on its way into the cache, or in it, was
\* computed under the condition and is none of the values `unless` excludes.
AwaitInv ==
  /\ \A r \in Request : await[r] \in {"idle", "get", "compute"} => answer[r] = Pending
  /\ \A r \in Request : await[r] = "get" => r \in condition
  /\ \A r \in Request : await[r] = "set" =>
       r \in condition \cap computed /\ answer[r] \in Version \ unless
  /\ entry \in Version => entry \notin unless

CacheInv == RequestType /\ AwaitInv /\ CacheIsTransparent

\* The special values are not versions.
LEMMA Distinct ==
  /\ \A v \in Version : v \notin {NoEntry, Garbage, Err, Pending}
  /\ Err # Pending /\ NoEntry # Garbage
  /\ 0 \in Version
BY RequestAssumption DEF Version, NoEntry, Garbage, Err, Pending

\* A request that does not touch the cache or its result keeps what holds of
\* the entry.
LEMMA CallHttpInv == ASSUME CacheInv, NEW r \in Request, CallHttp(r) PROVE CacheInv'
<1> USE DEF CacheInv, RequestType, RequestPlaces, Awaits, Outside, AwaitAt,
        macroVars, CallHttp
<1>1. RequestType'
  OBVIOUS
<1>2. AwaitInv'
  BY DEF AwaitInv
<1>3. CacheIsTransparent'
  BY DEF CacheIsTransparent
<1> QED
  BY <1>1, <1>2, <1>3

\* A hit is a version that `unless` does not exclude.
LEMMA RedisGetInv == ASSUME CacheInv, NEW r \in Request, RedisGet(r) PROVE CacheInv'
<1> USE DEF CacheInv, RequestType, RequestPlaces, Awaits, Outside, AwaitAt,
        Answers, macroVars, RedisGet
<1>1. RequestType'
  OBVIOUS
<1>2. AwaitInv'
  BY DEF AwaitInv
<1>3. answer[r] = Pending /\ r \in condition
  BY DEF AwaitInv
<1>4. CacheIsTransparent'
  BY <1>3, Distinct DEF AwaitInv, CacheIsTransparent
<1> QED
  BY <1>1, <1>2, <1>4

\* The result of the function is an error of its own or the version it read.
LEMMA ComputeInv == ASSUME CacheInv, NEW r \in Request, Compute(r) PROVE CacheInv'
<1> USE DEF CacheInv, RequestType, RequestPlaces, Awaits, Outside, AwaitAt,
        Answers, macroVars, Compute
<1>1. RequestType'
  OBVIOUS
<1>2. AwaitInv'
  BY DEF AwaitInv
<1>3. answer[r] = Pending
  BY DEF AwaitInv
<1>4. CacheIsTransparent'
  BY <1>3, Distinct DEF CacheIsTransparent
<1> QED
  BY <1>1, <1>2, <1>4

\* What a set stores, also for a request that was dropped, its request computed.
LEMMA RedisStoreInv ==
  ASSUME CacheInv, NEW r \in Request, RedisSet(r) \/ Drop(r)
  PROVE  CacheInv'
<1> USE DEF CacheInv, RequestType, RequestPlaces, Awaits, Outside, AwaitAt,
        macroVars, RedisSet, Drop
<1>1. \/ entry' = entry
      \/ /\ entry' = answer[r] /\ r \in condition \cap computed
         /\ answer[r] \in Version \ unless
  BY DEF AwaitInv
<1>2. RequestType'
  BY <1>1
<1>3. AwaitInv'
  BY <1>1 DEF AwaitInv
<1>4. CacheIsTransparent'
  BY <1>1 DEF CacheIsTransparent
<1> QED
  BY <1>2, <1>3, <1>4

\* What happens outside, and the end of a request, changes no result.
LEMMA OtherRequestInv ==
  ASSUME CacheInv, Update \/ Expire \/ (\E r \in Request : Respond(r)) \/ UNCHANGED cacheVars
  PROVE  CacheInv'
<1> USE DEF CacheInv, RequestType, RequestPlaces, Awaits, Outside, AwaitAt,
        macroVars
<1>1. CASE Update
  <2>1. version + 1 \in Version
    BY <1>1, RequestAssumption DEF Update, Version
  <2> QED
    BY <1>1, <2>1 DEF Update, AwaitInv, CacheIsTransparent
<1>2. CASE Expire
  BY <1>2, Distinct DEF Expire, AwaitInv, CacheIsTransparent
<1>3. ASSUME NEW r \in Request, Respond(r) PROVE CacheInv'
  BY <1>3 DEF Respond, AwaitInv, CacheIsTransparent
<1>4. CASE UNCHANGED cacheVars
  BY <1>4 DEF cacheVars, AwaitInv, CacheIsTransparent
<1> QED
  BY <1>1, <1>2, <1>3, <1>4

\* The inductive invariant.
THEOREM CacheInvariant == CacheSpec => []CacheInv
<1>1. CacheInit => CacheInv
  BY Distinct DEF CacheInit, CacheInv, RequestType, RequestPlaces, Awaits, Outside, AwaitInv,
                  CacheIsTransparent
<1>2. CacheInv /\ [CacheNext]_cacheVars => CacheInv'
  BY CallHttpInv, RedisGetInv, ComputeInv, RedisStoreInv, OtherRequestInv DEF CacheNext, RequestStep
<1> QED
  BY <1>1, <1>2, PTL DEF CacheSpec

\* Nobody can tell from a result or an error that there is a cache, whatever
\* Redis does and wherever requests are dropped, for any number of requests.
THEOREM Transparency == CacheSpec => []CacheIsTransparent
<1>1. CacheInv => CacheIsTransparent
  BY DEF CacheInv
<1> QED
  BY <1>1, CacheInvariant, PTL

-----------------------------------------------------------------------------
CountedRequests == {r \in Request : await[r] \in Awaits \cup {"dropped"}}

\* The requests that are counted are finitely many.
LEMMA CountedFinite == IsFiniteSet(CountedRequests) /\ Cardinality(CountedRequests) \in Nat
                         /\ Cardinality(CountedRequests) <= Cardinality(Request)
<1>1. CountedRequests \in SUBSET Request
  BY DEF CountedRequests
<1> QED
  BY <1>1, RequestAssumption, FS_Subset, FS_CardinalityType

\* A step counts a request in, counts one out, or leaves them alone.
LEMMA CountedStep ==
  ASSUME RequestType, CounterOfRequests, [CacheNext]_cacheVars
  PROVE  CounterOfRequests'
<1> USE DEF RequestType, RequestPlaces, Awaits, Outside, AwaitAt,
        Answers, macroVars
<1>1. ASSUME NEW r \in Request, CallHttp(r) PROVE CounterOfRequests'
  <2>1. CountedRequests' = CountedRequests \cup {r} /\ r \notin CountedRequests
    BY <1>1 DEF CallHttp, CountedRequests
  <2> QED
    BY <1>1, <2>1, CountedFinite, FS_AddElement DEF CallHttp, CounterOfRequests, CountedRequests
<1>2. ASSUME NEW r \in Request, Respond(r) PROVE CounterOfRequests'
  <2>1. CountedRequests' = CountedRequests \ {r} /\ r \in CountedRequests
    BY <1>2 DEF Respond, CountedRequests
  <2> QED
    BY <1>2, <2>1, CountedFinite, FS_RemoveElement DEF Respond, CounterOfRequests, CountedRequests
<1>3. ASSUME NEW r \in Request, RedisGet(r) \/ Compute(r) \/ RedisSet(r) \/ Drop(r)
      PROVE  CounterOfRequests'
  <2>1. CountedRequests' = CountedRequests /\ active' = active
    BY <1>3 DEF RedisGet, Compute, RedisSet, Drop, CountedRequests
  <2> QED
    BY <2>1 DEF CounterOfRequests, CountedRequests
<1>4. CASE Update \/ Expire \/ UNCHANGED cacheVars
  BY <1>4 DEF Update, Expire, cacheVars, CounterOfRequests
<1> QED
  BY <1>1, <1>2, <1>3, <1>4 DEF CacheNext, RequestStep

\* The counter is the number of requests in flight and of those that were
\* dropped, whatever the order in which they come, end and are dropped.
THEOREM Counter == CacheSpec => []CounterOfRequests
<1>1. CacheInit => CounterOfRequests
  <2> SUFFICES ASSUME CacheInit PROVE CounterOfRequests
    OBVIOUS
  <2>1. CountedRequests = {}
    BY DEF CacheInit, CountedRequests, Awaits
  <2> QED
    BY <2>1, FS_EmptySet DEF CacheInit, CounterOfRequests, CountedRequests
<1>2. RequestType /\ CounterOfRequests /\ [CacheNext]_cacheVars => CounterOfRequests'
  BY CountedStep
<1>3. CacheInv => RequestType
  BY DEF CacheInv
<1> QED
  BY <1>1, <1>2, <1>3, CacheInvariant, PTL DEF CacheSpec

\* The state is well typed: the counter stays within the number of requests.
THEOREM CacheTyped == CacheSpec => []CacheTypeOK
<1>1. CacheInv /\ CounterOfRequests => CacheTypeOK
  BY CountedFinite DEF CacheInv, RequestType, RequestPlaces, CounterOfRequests,
                       CountedRequests, CacheTypeOK
<1> QED
  BY <1>1, CacheInvariant, Counter, PTL
=============================================================================
