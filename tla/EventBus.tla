----------------------------- MODULE EventBus -----------------------------
(***************************************************************************)
(* summer/src/event.rs: EventBus, for one event type of one of its two     *)
(* maps.  Registering pushes a listener under the write guard of the map   *)
(* (DashMap), which waits until nobody reads; publishing clones the list   *)
(* under a read guard, drops it, and then awaits the listeners one after   *)
(* the other, the first error ending the publication.  Publications run    *)
(* concurrently (summer-web and summer-grpc each publish                   *)
(* ServerStartedEvent from a task of their own), and a listener may        *)
(* register listeners, waiting for the guard, or publish in turn, awaiting *)
(* what it publishes.                                                      *)
(***************************************************************************)
EXTENDS Naturals, SequencesExt

CONSTANTS
  Listener,      \* the listeners that may be registered
  Publication    \* the calls of publish

VARIABLES
  listeners,   \* the entry of the event type in the map
  guards,      \* the publications that hold a read guard of the map
  waiting,     \* the listeners whose registration waits for the write guard
  by,          \* by[l]: the publication a listener of which registers l
  state,       \* state[p] of each publication
  snapshot,    \* snapshot[p]: the cloned list, less the listeners called
  parent,      \* parent[p]: the publication a listener of which published p
  calls,       \* history: calls[p], the listeners p called
  before       \* history: before[p], the listeners registered before p began

busVars == <<listeners, guards, waiting, by, state, snapshot, parent, calls, before>>

\* "idle" until published, "reading" with the guard, "next" between two
\* listeners, "calling" while a listener runs.
States == {"idle", "reading", "next", "calling", "ok", "err"}
NoPublication == "none"
Callers == Publication \cup {NoPublication}

BusTypeOK ==
  /\ listeners \in Seq(Listener)
  /\ guards \subseteq Publication
  /\ waiting \subseteq Listener
  /\ by \in [Listener -> Callers]
  /\ state \in [Publication -> States]
  /\ snapshot \in [Publication -> Seq(Listener)]
  /\ parent \in [Publication -> Callers]
  /\ calls \in [Publication -> Seq(Listener)]
  /\ before \in [Publication -> Seq(Listener)]

BusInit ==
  /\ listeners = <<>>
  /\ guards = {}
  /\ waiting = {}
  /\ by = [l \in Listener |-> NoPublication]
  /\ state = [p \in Publication |-> "idle"]
  /\ snapshot = [p \in Publication |-> <<>>]
  /\ parent = [p \in Publication |-> NoPublication]
  /\ calls = [p \in Publication |-> <<>>]
  /\ before = [p \in Publication |-> <<>>]

-----------------------------------------------------------------------------
\* What the running listener of p waits for: the publications it made that
\* are not over, and the registration it made that has no guard yet.
Children(p) == {q \in Publication : parent[q] = p /\ state[q] \notin {"ok", "err"}}
Registering(p) == {l \in waiting : by[l] = p}

\* The caller of publish or listen: the running listener of a publication,
\* which waits for nothing else, or other code (NoPublication).
MayCall(from) ==
  from # NoPublication =>
    state[from] = "calling" /\ Children(from) = {} /\ Registering(from) = {}

\* listen_dyn, listen_app_dyn are called, once for each listener (a bound):
\* entry(..) asks for the write guard.
Ask(l, from) ==
  /\ l \notin waiting /\ ~ Contains(listeners, l)
  /\ MayCall(from)
  /\ waiting' = waiting \cup {l}
  /\ by' = [by EXCEPT ![l] = from]
  /\ UNCHANGED <<listeners, guards, state, snapshot, parent, calls, before>>

\* Mutant of Listen: insert(0, listener) in place of push(listener).
ListenInFront(l) ==
  /\ l \in waiting /\ guards = {}
  /\ listeners' = <<l>> \o listeners
  /\ waiting' = waiting \ {l}
  /\ UNCHANGED <<guards, by, state, snapshot, parent, calls, before>>

\* The guard is there, nobody reads: or_default().push(listener).
Listen(l) ==
  /\ l \in waiting /\ guards = {}
  /\ listeners' = Append(listeners, l)
  /\ waiting' = waiting \ {l}
  /\ UNCHANGED <<guards, by, state, snapshot, parent, calls, before>>

\* publish_builder, publish_app: get(..) has the read guard, which readers
\* share.  `from` is the publication whose running listener publishes, if
\* one does.
Publish(p, from) ==
  /\ state[p] = "idle"
  /\ MayCall(from)
  /\ guards' = guards \cup {p}
  /\ before' = [before EXCEPT ![p] = listeners]
  /\ parent' = [parent EXCEPT ![p] = from]
  /\ state' = [state EXCEPT ![p] = "reading"]
  /\ UNCHANGED <<listeners, waiting, by, snapshot, calls>>

\* Mutant of Clone: the guard lives until the publication is over.
CloneUnderGuard(p) ==
  /\ state[p] = "reading"
  /\ snapshot' = [snapshot EXCEPT ![p] = listeners]
  /\ state' = [state EXCEPT ![p] = "next"]
  /\ UNCHANGED <<listeners, guards, waiting, by, parent, calls, before>>

\* .map(|entry| entry.clone()): the guard ends with the closure.
Clone(p) ==
  /\ state[p] = "reading"
  /\ snapshot' = [snapshot EXCEPT ![p] = listeners]
  /\ guards' = guards \ {p}
  /\ state' = [state EXCEPT ![p] = "next"]
  /\ UNCHANGED <<listeners, waiting, by, parent, calls, before>>

\* Mutant of Call: iterate over the live list in place of the clone.
CallLive(p) ==
  /\ state[p] = "next" /\ Len(calls[p]) < Len(listeners)
  /\ calls' = [calls EXCEPT ![p] = Append(calls[p], listeners[Len(calls[p]) + 1])]
  /\ snapshot' = [snapshot EXCEPT ![p] = IF @ = <<>> THEN @ ELSE Tail(@)]
  /\ state' = [state EXCEPT ![p] = "calling"]
  /\ UNCHANGED <<listeners, guards, waiting, by, parent, before>>

\* listener.on_event(event, app)
Call(p) ==
  /\ state[p] = "next" /\ snapshot[p] # <<>>
  /\ calls' = [calls EXCEPT ![p] = Append(calls[p], Head(snapshot[p]))]
  /\ snapshot' = [snapshot EXCEPT ![p] = Tail(@)]
  /\ state' = [state EXCEPT ![p] = "calling"]
  /\ UNCHANGED <<listeners, guards, waiting, by, parent, before>>

\* `.await?`: go on with the next listener, or return the error.  A
\* publication that returns drops the guard if it has one.
Return(p) ==
  /\ state[p] = "calling" /\ Children(p) = {} /\ Registering(p) = {}
  /\ \E r \in {"next", "err"} :
       /\ state' = [state EXCEPT ![p] = r]
       /\ guards' = IF r = "err" THEN guards \ {p} ELSE guards
  /\ UNCHANGED <<listeners, waiting, by, snapshot, parent, calls, before>>

\* Ok(()) after the last listener.
Done(p) ==
  /\ state[p] = "next" /\ snapshot[p] = <<>>
  /\ state' = [state EXCEPT ![p] = "ok"]
  /\ guards' = guards \ {p}
  /\ UNCHANGED <<listeners, waiting, by, snapshot, parent, calls, before>>

Step(p) == Clone(p) \/ Call(p) \/ Return(p) \/ Done(p)

BusNext ==
  \/ \E l \in Listener :
       \/ \E from \in Callers : Ask(l, from)
       \/ Listen(l)
  \/ \E p \in Publication :
       \/ \E from \in Callers : Publish(p, from)
       \/ Step(p)

BusSpec == BusInit /\ [][BusNext]_busVars

\* The task of a publication is polled until it is done, and so are the
\* listeners it awaits; who waits for the write guard has it once the readers
\* are gone (they are finitely many here).
BusFairSpec ==
  /\ BusSpec
  /\ \A p \in Publication : WF_busVars(Step(p))
  /\ \A l \in Listener : WF_busVars(Listen(l))

-----------------------------------------------------------------------------
(***************************************************************************)
(* Properties.                                                             *)
(***************************************************************************)

\* A publication calls the listeners registered before it, in the order of
\* registration, whatever is registered meanwhile: all of them if it ends
\* well, those up to the failing one otherwise.
NotifiesThoseRegistered ==
  \A p \in Publication :
    /\ IsPrefix(calls[p], before[p])
    /\ state[p] = "ok" => calls[p] = before[p]

\* Two publications, also concurrent or nested ones, call the listeners they
\* both call in the same order.
SameOrder ==
  \A p, q \in Publication : IsPrefix(calls[p], calls[q]) \/ IsPrefix(calls[q], calls[p])

(***************************************************************************)
(* The inductive invariant behind the two: while a publication reads, its  *)
(* guard keeps the list as it is; what it called and what it has still to  *)
(* call make up the list it found; and the list in the map only grows at   *)
(* its end.                                                                *)
(***************************************************************************)
BusInv ==
  \A p \in Publication :
    /\ state[p] = "reading" => p \in guards /\ before[p] = listeners
    /\ state[p] # "reading" => before[p] = calls[p] \o snapshot[p]
    /\ state[p] = "ok" => snapshot[p] = <<>>
    /\ state[p] \in {"idle", "reading"} => calls[p] = <<>>
    /\ IsPrefix(before[p], listeners)

\* Every publication ends and every registration is made, also those of a
\* listener that runs: nobody waits for a guard that a publication holds
\* across an await, for that of its own caller least of all.
PublicationEnds ==
  /\ \A p \in Publication : (state[p] # "idle") ~> (state[p] \in {"ok", "err"})
  /\ \A l \in Listener : (l \in waiting) ~> (l \notin waiting)
=============================================================================
