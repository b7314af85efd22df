------------------------- MODULE ServerRegistration -------------------------
(***************************************************************************)
(* Servers under service discovery: the schedulers of summer-web and       *)
(* summer-grpc bind, publish ServerStartedEvent and serve; the listener of *)
(* summer-nacos registers an instance on that event and records it, and    *)
(* its shutdown hook deregisters what is recorded.  Each server is a task  *)
(* of AppSchedule and the hook is one of its hooks: AppSchedule decides    *)
(* when they start and what their results do to run().                     *)
(*                                                                         *)
(* Nacos is on the network: a request or its answer may be lost, and a     *)
(* request the client gave up on may still arrive.  Without                *)
(* registration.port each server has an address of its own, so a server    *)
(* stands for its instance.                                                *)
(***************************************************************************)
EXTENDS Naturals, SequencesExt

CONSTANTS
  Server,     \* the server plugins
  Graceful,   \* those configured with graceful = true
  OtherHooks  \* the shutdown hooks of other plugins

ASSUME ServerAssumption ==
  /\ IsFiniteSet(Server) /\ IsFiniteSet(OtherHooks)
  /\ Graceful \subseteq Server
  /\ "nacos" \notin OtherHooks

VARIABLES
  schedulers, shutdown_hooks, main, task, handles, hook_log, cause, events,
  wired,       \* was wire_registration called? (fixed)
  has_ip,      \* the servers for which an ip can be determined (fixed)
  pc,          \* pc[s]: where the scheduler of s is
  signalled,   \* the servers whose shutdown_signal resolved
  sent,        \* the register requests that may still arrive
  remote,      \* the instances Nacos lists
  registered,  \* the vector the listener and the hook share
  instances,   \* the local of the hook
  drained,     \* did the hook take the vector?
  refused      \* history: the servers whose register call failed

Schedule == INSTANCE AppSchedule WITH Task <- Server, Hook <- OtherHooks \cup {"nacos"}

scheduleVars == <<schedulers, shutdown_hooks, main, task, handles, hook_log, cause, events>>
nacosVars    == <<sent, remote, registered>>
hookVars     == <<instances, drained>>
fixedVars    == <<wired, has_ip>>
vars == <<scheduleVars, fixedVars, pc, signalled, nacosVars, hookVars, refused>>

ServerStates == {"start", "bound", "registering", "announced", "serving", "done"}

TypeOK ==
  /\ Schedule!ScheduleTypeOK
  /\ wired \in BOOLEAN
  /\ has_ip \in SUBSET Server
  /\ pc \in [Server -> ServerStates]
  /\ signalled \in SUBSET Server
  /\ sent \in SUBSET Server
  /\ remote \in SUBSET Server
  /\ registered \in Seq(Server)
  /\ instances \in Seq(Server)
  /\ drained \in BOOLEAN
  /\ refused \in SUBSET Server

\* wire_registration runs on ConfigEvent, before any plugin is built: its
\* hook is the first one, hence the last to run.
Init ==
  /\ wired \in BOOLEAN
  /\ has_ip \in SUBSET Server
  /\ schedulers \in SetToSeqs(Server)
  /\ shutdown_hooks \in {IF wired THEN <<"nacos">> \o h ELSE h : h \in SetToSeqs(OtherHooks)}
  /\ main = "build_app"
  /\ Schedule!Idle
  /\ pc = [s \in Server |-> "start"]
  /\ signalled = {} /\ sent = {} /\ remote = {}
  /\ registered = <<>> /\ instances = <<>>
  /\ drained = FALSE /\ refused = {}

-----------------------------------------------------------------------------
(***************************************************************************)
(* The schedulers of the servers.                                          *)
(***************************************************************************)
At(s, l) == task[s] = "running" /\ pc[s] = l

Goto(s, l) == pc' = [pc EXCEPT ![s] = l] /\ UNCHANGED scheduleVars

\* The task of s ends with one of `results`.
End(s, results) ==
  /\ Schedule!TaskEnds(s) /\ task'[s] \in results
  /\ pc' = [pc EXCEPT ![s] = "done"]

\* Assemble the final router, which may panic, and bind.  A gRPC plugin
\* without routes is done with Ok.
Bind(s) ==
  /\ At(s, "start")
  /\ Goto(s, "bound") \/ End(s, {"ok", "err", "panicked"})
  /\ UNCHANGED <<fixedVars, signalled, nacosVars, hookVars, refused>>

\* publish(ServerStartedEvent) without listener.
AnnounceUnheard(s) ==
  /\ At(s, "bound") /\ ~ wired
  /\ Goto(s, "announced")
  /\ UNCHANGED <<fixedVars, signalled, nacosVars, hookVars, refused>>

\* on_event: build_service_instance, and send the register request.
Announce(s) ==
  /\ At(s, "bound") /\ wired
  /\ IF s \in has_ip
       THEN Goto(s, "registering") /\ sent' = sent \cup {s}
       ELSE End(s, {"err"}) /\ UNCHANGED sent
  /\ UNCHANGED <<fixedVars, signalled, remote, registered, hookVars, refused>>

\* The answer is Ok: registered.lock().push(instance).
Record(s) ==
  /\ At(s, "registering") /\ s \in remote
  /\ registered' = Append(registered, s)
  /\ Goto(s, "announced")
  /\ UNCHANGED <<fixedVars, signalled, sent, remote, hookVars, refused>>

\* Mutant of RegisterFails: best effort, the error is only logged.
RegisterFailsIgnored(s) ==
  /\ At(s, "registering")
  /\ Goto(s, "announced")
  /\ UNCHANGED <<fixedVars, signalled, nacosVars, hookVars, refused>>

\* batch_register_instance(..).await?: whether or not the request arrived.
RegisterFails(s) ==
  /\ At(s, "registering")
  /\ End(s, {"err"})
  /\ refused' = refused \cup {s}
  /\ UNCHANGED <<fixedVars, signalled, nacosVars, hookVars>>

\* All listeners are through, and the server serves; or another listener
\* fails and the server never does.
Serve(s) ==
  /\ At(s, "announced")
  /\ Goto(s, "serving") \/ End(s, {"err"})
  /\ UNCHANGED <<fixedVars, signalled, nacosVars, hookVars, refused>>

\* Ctrl+C or SIGTERM resolves the shutdown_signal futures that wait for it;
\* a server that starts to serve later waits for another signal.
Signal ==
  /\ \E s \in Graceful : At(s, "serving")
  /\ signalled' = signalled \cup {s \in Graceful : At(s, "serving")}
  /\ UNCHANGED <<scheduleVars, fixedVars, pc, nacosVars, hookVars, refused>>

\* The graceful shutdown is over.
ServeEnds(s) ==
  /\ At(s, "serving") /\ s \in signalled
  /\ End(s, {"ok", "err"})
  /\ UNCHANGED <<fixedVars, signalled, nacosVars, hookVars, refused>>

\* The transport failed; without graceful shutdown nothing else ends it.
ServeFails(s) ==
  /\ At(s, "serving")
  /\ End(s, {"err"})
  /\ UNCHANGED <<fixedVars, signalled, nacosVars, hookVars, refused>>

\* A register request reaches Nacos, possibly long after the client gave up.
RequestArrives(s) ==
  /\ s \in sent
  /\ sent' = sent \ {s}
  /\ remote' = remote \cup {s}
  /\ UNCHANGED <<scheduleVars, fixedVars, pc, signalled, registered, hookVars, refused>>

-----------------------------------------------------------------------------
(***************************************************************************)
(* The shutdown hooks.                                                     *)
(***************************************************************************)
AtNacosHook == main = "hooks" /\ shutdown_hooks # <<>> /\ Last(shutdown_hooks) = "nacos"

OtherHook ==
  /\ main = "hooks" /\ shutdown_hooks # <<>> /\ Last(shutdown_hooks) # "nacos"
  /\ Schedule!RunHook
  /\ UNCHANGED <<fixedVars, pc, signalled, nacosVars, hookVars, refused>>

\* registered.lock().drain(..).collect()
Drain ==
  /\ AtNacosHook /\ ~ drained
  /\ drained' = TRUE
  /\ instances' = registered
  /\ registered' = <<>>
  /\ UNCHANGED <<scheduleVars, fixedVars, pc, signalled, sent, remote, refused>>

\* Mutant of DeregisterFails: try again until it works.
DeregisterRetried ==
  /\ AtNacosHook /\ drained /\ instances # <<>>
  /\ UNCHANGED <<scheduleVars, instances>>
  /\ remote' \in {remote, remote \ {Head(instances)}}
  /\ sent' = IF remote' = remote THEN sent ELSE sent \cup {Head(instances)}
  /\ UNCHANGED <<fixedVars, pc, signalled, registered, drained, refused>>

\* Mutant of DeregisterFails: log the error and go on.
DeregisterLogged ==
  /\ AtNacosHook /\ drained /\ instances # <<>>
  /\ remote' \in {remote, remote \ {Head(instances)}}
  /\ instances' = Tail(instances)
  /\ UNCHANGED <<scheduleVars, fixedVars, pc, signalled, sent, registered, drained, refused>>

\* deregister_instance(..).await?: the first error ends the hook, and with
\* it run(); the remaining instances are not tried.
DeregisterFails ==
  /\ AtNacosHook /\ drained /\ instances # <<>>
  /\ remote' \in {remote, remote \ {Head(instances)}}
  /\ Schedule!RunHook /\ cause' = "hook"
  /\ UNCHANGED <<fixedVars, pc, signalled, sent, registered, hookVars, refused>>

Deregister ==
  /\ AtNacosHook /\ drained /\ instances # <<>>
  /\ remote' = remote \ {Head(instances)}
  /\ instances' = Tail(instances)
  /\ UNCHANGED <<scheduleVars, fixedVars, pc, signalled, sent, registered, drained, refused>>

\* Ok(..) after the last instance.
HookOk ==
  /\ AtNacosHook /\ drained /\ instances = <<>>
  /\ Schedule!RunHook /\ cause' = cause
  /\ UNCHANGED <<fixedVars, pc, signalled, nacosVars, hookVars, refused>>

\* The steps of schedule() around the tasks and the hooks.
RunStep ==
  /\ \/ Schedule!BuildApp
     \/ Schedule!SpawnTask
     \/ Schedule!AllSpawned
     \/ Schedule!Join
     \/ Schedule!AllJoined
     \/ Schedule!PublishBeforeHooks
     \/ Schedule!HooksDone
     \/ Schedule!PublishAfterHooks
     \/ Schedule!DropRuntime
  /\ UNCHANGED <<fixedVars, pc, signalled, nacosVars, hookVars, refused>>

MainStep ==
  RunStep \/ OtherHook \/ Drain \/ DeregisterFails \/ Deregister \/ HookOk

ServerStep(s) ==
  \/ Bind(s) \/ AnnounceUnheard(s) \/ Announce(s)
  \/ Record(s) \/ RegisterFails(s) \/ Serve(s) \/ ServeEnds(s)

Next ==
  \/ MainStep
  \/ \E s \in Server : ServerStep(s) \/ ServeFails(s) \/ RequestArrives(s)
  \/ Signal

Spec == Init /\ [][Next]_vars

\* run() is polled until it is done, and so is each task while it has
\* something to do; a client call ends, if only with a timeout.  Nothing
\* makes a signal come or a request arrive.
FairSpec ==
  /\ Spec
  /\ WF_vars(MainStep)
  /\ \A s \in Server : WF_vars(ServerStep(s))

-----------------------------------------------------------------------------
(***************************************************************************)
(* Properties.                                                             *)
(***************************************************************************)

\* A server that takes requests is listed by Nacos and recorded for the
\* hook, up to the end of its task; it never serves unlisted.
ServingIsListed ==
  \A s \in Server :
    wired /\ At(s, "serving") => s \in remote /\ Contains(registered, s)

\* After a normal shutdown Nacos lists, or may still come to list, at most
\* the instances whose register call had failed on the client: each recorded
\* instance is gone, also that of a server that failed to serve, or whose
\* event another listener refused, after it was registered.
NothingLeftBehind == main = "returned" => sent \cup remote \subseteq refused

\* Once each server has ended or has heard the signal, run() returns: the
\* hook waits for nothing but its own calls.
SignalEndsRun ==
  (main = "join" /\ \A s \in Server : pc[s] = "done" \/ s \in signalled)
    ~> (main \in Schedule!Returned)

\* summer-nacos/src/lib.rs says of the recorded instances "all are
\* deregistered on shutdown".  One whose call failed may well remain; the
\* ones after it remain because they are not even tried.
AllDeregistered ==
  drained /\ main \in Schedule!Returned =>
    \A i \in 2..Len(instances) : instances[i] \notin remote
=============================================================================
