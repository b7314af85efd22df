------------------------------ MODULE MCShared ------------------------------
(***************************************************************************)
(* What threads, tasks and requests share: a component that is resolved on *)
(* its first use, the listeners of an event type, an entry of the cache    *)
(* with the counter of requests.  They know nothing of each other, so a    *)
(* behaviour uses one of them and leaves the others as they were begun;    *)
(* the states of the three add up in place of multiplying.                 *)
(***************************************************************************)
EXTENDS LazyComponent, EventBus, CachedRequest

VARIABLE shared     \* which of them is used (fixed)

sharedVars == <<shared, lazyVars, busVars, cacheVars>>

\* The requests are alike, so one set of them of each size stands for the others.
OneOfEachSize ==
  {CHOOSE S \in SUBSET Request : Cardinality(S) = n : n \in 0..Cardinality(Request)}

SharedInit ==
  /\ shared \in {"component", "listeners", "entry"}
  /\ LazyInit /\ (shared # "component" => provides = Apps)
  /\ BusInit
  /\ CacheInit /\ condition \in OneOfEachSize
  /\ shared # "entry" => condition = {} /\ unless = {} /\ entry = NoEntry

SharedNext ==
  /\ UNCHANGED shared
  /\ IF shared = "component" THEN LazyNext ELSE UNCHANGED lazyVars
  /\ IF shared = "listeners" THEN BusNext ELSE UNCHANGED busVars
  /\ IF shared = "entry" THEN CacheNext ELSE UNCHANGED cacheVars

\* The fairness of LazyFairSpec and of BusFairSpec.
SharedSpec ==
  /\ SharedInit /\ [][SharedNext]_sharedVars
  /\ \A t \in Thread : WF_lazyVars(Get(t))
  /\ \A p \in Publication : WF_busVars(Step(p))
  /\ \A l \in Listener : WF_busVars(Listen(l))
=============================================================================
