--------------------------- MODULE CachedRequest ---------------------------
(***************************************************************************)
(* Requests to a handler that calls a function under #[cache], behind the  *)
(* metrics layer: the code that the macro generates                        *)
(* (summer-macros/src/cache.rs) and the future of the layer                *)
(* (summer-opentelemetry/src/metrics.rs).  The requests run concurrently   *)
(* and use the same key.  A request whose client disconnects is dropped at *)
(* whatever await it has reached.                                          *)
(*                                                                         *)
(* What the function computes is the version of the data it reads, or an   *)
(* error; Redis may fail at any command, and an entry may expire or hold   *)
(* what this build of the program cannot decode.                           *)
(***************************************************************************)
EXTENDS Naturals, FiniteSets

CONSTANTS
  Request,
  MaxVersion    \* bound: the updates of the data

ASSUME RequestAssumption == IsFiniteSet(Request) /\ MaxVersion \in Nat

VARIABLES
  condition,    \* the requests whose `condition` holds (fixed)
  unless,       \* the versions for which `unless` holds (fixed)
  version,      \* the version of the data
  entry,        \* what Redis holds under the key
  await,        \* await[r]: the await r has reached
  answer,       \* answer[r]: the local `result`, or what the cache gave
  computed,     \* history: the requests that ran the function
  failed,       \* history: the requests whose function returned Err
  active        \* the active_requests counter

cacheVars == <<condition, unless, version, entry, await, answer, computed, failed, active>>
macroVars == <<condition, unless>>

Version == 0..MaxVersion
NoEntry == MaxVersion + 1
Garbage == MaxVersion + 2
Err     == MaxVersion + 3
Pending == MaxVersion + 4

Awaits  == {"get", "compute", "set", "respond"}
Outside == {"idle", "done", "dropped"}

CacheTypeOK ==
  /\ condition \in SUBSET Request
  /\ unless \in SUBSET Version
  /\ version \in Version
  /\ entry \in Version \cup {NoEntry, Garbage}
  /\ await \in [Request -> Awaits \cup Outside]
  /\ answer \in [Request -> Version \cup {Err, Pending}]
  /\ computed \in SUBSET Request
  /\ failed \in SUBSET Request
  /\ active \in 0..Cardinality(Request)

CacheInit ==
  /\ condition \in SUBSET Request
  /\ unless \in SUBSET Version
  /\ version = 0
  /\ entry \in {NoEntry, Garbage}
  /\ await = [r \in Request |-> "idle"]
  /\ answer = [r \in Request |-> Pending]
  /\ computed = {} /\ failed = {}
  /\ active = 0

-----------------------------------------------------------------------------
AwaitAt(r, l) == await' = [await EXCEPT ![r] = l]
Answers(r, v) == answer' = [answer EXCEPT ![r] = v]

\* The world outside: the data changes, the entry expires.
Update ==
  /\ version < MaxVersion
  /\ version' = version + 1
  /\ UNCHANGED <<macroVars, entry, await, answer, computed, failed, active>>

Expire ==
  /\ entry # NoEntry
  /\ entry' = NoEntry
  /\ UNCHANGED <<macroVars, version, await, answer, computed, failed, active>>

\* Http::call: the inner future is created and the counter goes up.
\* Without the condition the function is called directly.
CallHttp(r) ==
  /\ await[r] = "idle"
  /\ active' = active + 1
  /\ AwaitAt(r, IF r \in condition THEN "get" ELSE "compute")
  /\ UNCHANGED <<macroVars, version, entry, answer, computed, failed>>

\* Mutant of RedisGet: expect(..) on the answer of Redis.
RedisGetExpect(r) ==
  /\ await[r] = "get"
  /\ IF entry \in Version
       THEN Answers(r, entry) /\ AwaitAt(r, "respond")
       ELSE \/ AwaitAt(r, "compute") /\ UNCHANGED answer
            \/ Answers(r, Err) /\ AwaitAt(r, "respond")
  /\ UNCHANGED <<macroVars, version, entry, computed, failed, active>>

\* redis.get: a hit that decodes is the result; a miss, an error of Redis
\* and an error of the decoder all go on to the function.
RedisGet(r) ==
  /\ await[r] = "get"
  /\ \/ /\ entry \in Version
        /\ Answers(r, entry) /\ AwaitAt(r, "respond")
     \/ AwaitAt(r, "compute") /\ UNCHANGED answer
  /\ UNCHANGED <<macroVars, version, entry, computed, failed, active>>

\* The function runs to its end: `result?` returns an error at once, and a
\* result for which `unless` holds is returned without being stored.
Compute(r) ==
  /\ await[r] = "compute"
  /\ computed' = computed \cup {r}
  /\ \/ /\ Answers(r, Err) /\ AwaitAt(r, "respond")
        /\ failed' = failed \cup {r}
     \/ /\ Answers(r, version)
        /\ AwaitAt(r, IF r \in condition /\ version \notin unless THEN "set" ELSE "respond")
        /\ UNCHANGED failed
  /\ UNCHANGED <<macroVars, version, entry, active>>

\* redis.set or set_ex, an error being logged only; the result is returned
\* whatever Redis says.
RedisSet(r) ==
  /\ await[r] = "set"
  /\ entry' \in {entry, answer[r]}
  /\ AwaitAt(r, "respond")
  /\ UNCHANGED <<macroVars, version, answer, computed, failed, active>>

\* Mutant of Respond: the counter goes down for an Ok response only.
RespondOk(r) ==
  /\ await[r] = "respond"
  /\ active' = IF answer[r] = Err THEN active ELSE active - 1
  /\ AwaitAt(r, "done")
  /\ UNCHANGED <<macroVars, version, entry, answer, computed, failed>>

\* ResponseFuture::poll is Ready, with a response or an error.
Respond(r) ==
  /\ await[r] = "respond"
  /\ active' = active - 1
  /\ AwaitAt(r, "done")
  /\ UNCHANGED <<macroVars, version, entry, answer, computed, failed>>

\* The client disconnects and the server drops the future.  A set that was
\* sent may still be executed by Redis.
Drop(r) ==
  /\ await[r] \in Awaits
  /\ entry' \in IF await[r] = "set" THEN {entry, answer[r]} ELSE {entry}
  /\ AwaitAt(r, "dropped")
  /\ UNCHANGED <<macroVars, version, answer, computed, failed, active>>

RequestStep(r) == RedisGet(r) \/ Compute(r) \/ RedisSet(r) \/ Respond(r)

CacheNext ==
  \/ Update
  \/ Expire
  \/ \E r \in Request : CallHttp(r) \/ RequestStep(r) \/ Drop(r)

CacheSpec == CacheInit /\ [][CacheNext]_cacheVars

-----------------------------------------------------------------------------
(***************************************************************************)
(* Properties.                                                             *)
(***************************************************************************)

\* The cache is transparent, whatever Redis answers and whatever the entry
\* holds: nobody is served what `unless` keeps out of it without having run the
\* function, also not from a set that a dropped request had sent; a request
\* fails only if its own function failed; one without the condition sees only
\* what it computed, and what is stored was computed under the condition.
CacheIsTransparent ==
  /\ \A r \in Request : answer[r] \in unless => r \in computed
  /\ \A r \in Request : answer[r] = Err <=> r \in failed
  /\ \A r \in Request \ condition : answer[r] # Pending => r \in computed
  /\ entry \in Version => \E r \in condition \cap computed : answer[r] = entry

\* The counter counts the requests in flight and, for good, those that were
\* dropped: it never goes below the number of active requests.
CounterOfRequests ==
  active = Cardinality({r \in Request : await[r] \in Awaits \cup {"dropped"}})

\* The counter is described as "Number of active HTTP server requests".
CountsActiveRequests ==
  active = Cardinality({r \in Request : await[r] \in Awaits})
=============================================================================
