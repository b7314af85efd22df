--------------------------- MODULE LazyComponent ---------------------------
(***************************************************************************)
(* LazyComponent::get (summer/src/plugin/lazy.rs): the clones of a service *)
(* share one RwLock around an Option.  get() looks under the read lock,    *)
(* takes the write lock if it is None, looks again and then asks the       *)
(* global App for the component.  App::set_global (summer/src/app.rs) runs *)
(* whenever an application is built: first the empty default App, later    *)
(* the built one, and in a process that builds several (tests) another.    *)
(***************************************************************************)
EXTENDS Naturals, FiniteSets

CONSTANTS
  Thread,   \* the threads that call get()
  MaxApps   \* bound: the applications the process builds

ASSUME LazyAssumption == MaxApps \in Nat

VARIABLES
  global,     \* GLOBAL_APP: 0 is App::default(), n the n-th application
  provides,   \* the applications that have the component (fixed)
  component,  \* the Option in the lock: 0 is None, n the instance of app n
  readers,    \* the threads that hold the read lock
  writer,     \* the threads that hold the write lock: none or one
  pc,         \* pc[t] in get()
  found,      \* found[t]: the local `component`
  result      \* result[t] of the last call: an instance, Missing or NoResult

lazyVars == <<global, provides, component, readers, writer, pc, found, result>>

None == 0
Missing == MaxApps + 1
NoResult == MaxApps + 2
Apps == 1..MaxApps

LazyTypeOK ==
  /\ global \in 0..MaxApps
  /\ provides \in SUBSET Apps
  /\ component \in {None} \cup Apps
  /\ readers \in SUBSET Thread
  /\ writer \in SUBSET Thread
  /\ pc \in [Thread -> {"idle", "look", "want_write", "look_again", "resolve", "store"}]
  /\ found \in [Thread -> {None} \cup Apps]
  /\ result \in [Thread -> Apps \cup {Missing, NoResult}]

LazyInit ==
  /\ global = 0
  /\ provides \in SUBSET Apps
  /\ component = None
  /\ readers = {}
  /\ writer = {}
  /\ pc = [t \in Thread |-> "idle"]
  /\ found = [t \in Thread |-> None]
  /\ result = [t \in Thread |-> NoResult]

-----------------------------------------------------------------------------
\* build_app: App::set_global(app).
SetGlobal ==
  /\ global < MaxApps
  /\ global' = global + 1
  /\ UNCHANGED <<provides, component, readers, writer, pc, found, result>>

Goto(t, l) == pc' = [pc EXCEPT ![t] = l]

Answer(t, r) == Goto(t, "idle") /\ result' = [result EXCEPT ![t] = r]

\* self.component.read(), of get() or get_if_initialized().  The RwLock of
\* std lets no reader in while a writer waits.
ReadLock(t) ==
  /\ pc[t] = "idle" /\ writer = {}
  /\ \A u \in Thread : pc[u] # "want_write"
  /\ readers' = readers \cup {t}
  /\ Goto(t, "look")
  /\ UNCHANGED <<global, provides, component, writer, found, result>>

\* The first look; the guard is dropped at the end of the block.
Look(t) ==
  /\ pc[t] = "look"
  /\ readers' = readers \ {t}
  /\ IF component # None
       THEN Answer(t, component)
       ELSE Goto(t, "want_write") /\ UNCHANGED result
  /\ UNCHANGED <<global, provides, component, writer, found>>

\* get_if_initialized ends with the first look.
LookOnly(t) ==
  /\ pc[t] = "look"
  /\ readers' = readers \ {t}
  /\ Answer(t, IF component # None THEN component ELSE Missing)
  /\ UNCHANGED <<global, provides, component, writer, found>>

\* self.component.write()
WriteLock(t) ==
  /\ pc[t] = "want_write" /\ writer = {} /\ readers = {}
  /\ writer' = {t}
  /\ Goto(t, "look_again")
  /\ UNCHANGED <<global, provides, component, readers, found, result>>

\* Mutant of LookAgain: without the second look.
LookAgainSkipped(t) ==
  /\ pc[t] = "look_again"
  /\ Goto(t, "resolve")
  /\ UNCHANGED <<global, provides, component, readers, writer, found, result>>

\* The second look, under the write lock.
LookAgain(t) ==
  /\ pc[t] = "look_again"
  /\ IF component # None
       THEN writer' = {} /\ Answer(t, component)
       ELSE Goto(t, "resolve") /\ UNCHANGED <<writer, result>>
  /\ UNCHANGED <<global, provides, component, readers, found>>

\* Mutant of Resolve: the guard is not released on the `?` path.
ResolveStuck(t) ==
  /\ pc[t] = "resolve"
  /\ IF global \in provides
       THEN /\ found' = [found EXCEPT ![t] = global]
            /\ Goto(t, "store")
            /\ UNCHANGED <<writer, result>>
       ELSE Answer(t, Missing) /\ UNCHANGED <<writer, found>>
  /\ UNCHANGED <<global, provides, component, readers>>

\* Mutant of Resolve: the default App of App::global() is good enough.
ResolveUnchecked(t) ==
  /\ pc[t] = "resolve"
  /\ found' = [found EXCEPT ![t] = global]
  /\ Goto(t, "store")
  /\ UNCHANGED <<global, provides, component, readers, writer, result>>

\* App::global().try_get_component::<T>()?, the error not being cached.
Resolve(t) ==
  /\ pc[t] = "resolve"
  /\ IF global \in provides
       THEN /\ found' = [found EXCEPT ![t] = global]
            /\ Goto(t, "store")
            /\ UNCHANGED <<writer, result>>
       ELSE writer' = {} /\ Answer(t, Missing) /\ UNCHANGED found
  /\ UNCHANGED <<global, provides, component, readers>>

\* *guard = Some(component.clone()); Ok(component)
Store(t) ==
  /\ pc[t] = "store"
  /\ component' = found[t]
  /\ writer' = {}
  /\ Answer(t, found[t])
  /\ UNCHANGED <<global, provides, readers, found>>

Get(t) ==
  \/ Look(t) \/ LookOnly(t) \/ WriteLock(t)
  \/ LookAgain(t) \/ Resolve(t) \/ Store(t)

LazyNext == SetGlobal \/ \E t \in Thread : ReadLock(t) \/ Get(t)

LazySpec == LazyInit /\ [][LazyNext]_lazyVars

\* A thread inside get() goes on; whether it calls get(), or an application
\* is built, is up to the program.
LazyFairSpec == LazySpec /\ \A t \in Thread : WF_lazyVars(Get(t))

-----------------------------------------------------------------------------
(***************************************************************************)
(* Properties.                                                             *)
(***************************************************************************)

\* All the calls that succeed, of all threads and at all times, return the
\* same instance: the one in the lock, even if another application has been
\* built since or was being built while two threads resolved it.
OneInstance ==
  \A t \in Thread : result[t] \in Apps => result[t] = component

\* Once resolved the component is never replaced or reset.
ResolvedOnce == [][component # None => component' = component]_component

\* What is handed out is a component of an application that was built with
\* it, never of the empty App that is global during the build phase.
InstanceOfBuiltApp ==
  \A t \in Thread : result[t] \in Apps => result[t] \in provides /\ result[t] <= global

(***************************************************************************)
(* The inductive invariant behind OneInstance and InstanceOfBuiltApp: the  *)
(* locks are held where the program is inside them, by one writer, and     *)
(* what is resolved under the write lock finds the Option empty.           *)
(***************************************************************************)
WriteLocked(t) == pc[t] \in {"look_again", "resolve", "store"}

LockInv ==
  /\ \A t \in Thread : t \in writer <=> WriteLocked(t)
  /\ \A t, u \in writer : t = u
  /\ \A t \in Thread : pc[t] \in {"resolve", "store"} => component = None

InstanceInv ==
  /\ component # None => component \in provides /\ component <= global
  /\ \A t \in Thread : pc[t] = "store" => found[t] \in provides /\ found[t] <= global
  /\ OneInstance

LazyInv == LazyTypeOK /\ LockInv /\ InstanceInv

\* A call ends: the read lock is given back before the write lock is asked
\* for, and an error gives the write lock back.
GetEnds == \A t \in Thread : (pc[t] = "look") ~> (pc[t] = "idle")
=============================================================================
