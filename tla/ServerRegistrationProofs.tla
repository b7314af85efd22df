---------------------- MODULE ServerRegistrationProofs ----------------------
(***************************************************************************)
(* Proofs about ServerRegistration, for any servers and hooks: a server    *)
(* that takes requests is listed and recorded, and a normal shutdown       *)
(* leaves behind only what the client was refused.  The servers move       *)
(* only as schedule() lets them, so the step lemmas of AppScheduleProofs   *)
(* hold here; RegistrationInv adds where each listed instance is recorded. *)
(***************************************************************************)
EXTENDS ServerRegistration, SeqLemmas

ScheduleProofs == INSTANCE AppScheduleProofs
                    WITH Task <- Server, Hook <- OtherHooks \cup {"nacos"}

ScheduleInv ==
  /\ ScheduleProofs!ScheduleTypeOK
  /\ ScheduleProofs!NobodyForgotten
  /\ ScheduleProofs!ShutdownStage

\* TypeOK without the part of schedule().
RegistrationTypeOK ==
  /\ wired \in BOOLEAN
  /\ has_ip \in SUBSET Server
  /\ pc \in [Server -> ServerStates]
  /\ signalled \in SUBSET Server
  /\ sent \in SUBSET Server
  /\ remote \in SUBSET Server
  /\ registered \in Seq(Server)
  /\ instances \in Seq(Server)
  /\ drained \in BOOLEAN
  /\ refused \in SUBSET Server

Recorded(s) == s \in ToSet(registered) \cup ToSet(instances)

\* A task and its program counter: `done` tells that the task has ended, and
\* a task that is still to be spawned has not moved.
TaskAndPc ==
  /\ IsInjective(schedulers)
  /\ \A s \in ToSet(schedulers) : task[s] = "unborn" /\ pc[s] = "start"
  /\ \A s \in Server : /\ task[s] = "running" => pc[s] # "done"
                       /\ task[s] \in {"ok", "err"} => pc[s] = "done"

\* Nacos hears of an instance from its server only, once: then it is on the
\* way to be recorded, or the call was refused, or it is recorded.
Accounted ==
  \A s \in Server :
    /\ pc[s] \in {"start", "bound"} => s \notin sent \cup remote /\ ~ Recorded(s)
    /\ s \notin sent \cap remote
    /\ Recorded(s) => s \notin sent
    /\ s \in sent \cup remote => \/ pc[s] = "registering" /\ task[s] \in {"running", "cancelled"}
                                 \/ pc[s] = "done" /\ s \in refused
                                 \/ Recorded(s)
    /\ wired /\ task[s] = "running" /\ pc[s] \in {"announced", "serving"} =>
         s \in remote /\ s \in ToSet(registered)

\* The hook: it drains once, after all tasks, and is done with its vector.
Draining ==
  /\ ~ drained => instances = <<>>
  /\ drained => /\ registered = <<>>
                /\ main \in {"hooks", "after_hooks"} \cup Schedule!Returned
                /\ \A s \in Server : task[s] \in {"ok", "err"}
  /\ main \notin {"error", "panic"} /\ wired /\ "nacos" \notin ToSet(shutdown_hooks) =>
       drained /\ instances = <<>>
  /\ ~ wired => sent = {} /\ remote = {} /\ registered = <<>>

RegistrationInv == RegistrationTypeOK /\ TaskAndPc /\ Accounted /\ Draining

-----------------------------------------------------------------------------
\* What schedule() asks of its constants.
LEMMA FiniteHooks ==
  ScheduleProofs!IsFiniteSet(Server) /\ ScheduleProofs!IsFiniteSet(OtherHooks \cup {"nacos"})
<1>1. IsFiniteSet(Server) /\ IsFiniteSet(OtherHooks \cup {"nacos"})
  BY ServerAssumption, FS_AddElement
<1> QED
  BY <1>1 DEF IsFiniteSet, ScheduleProofs!IsFiniteSet

\* The actions of schedule(), in this module and in the module of its proofs.
LEMMA SameSchedule ==
  /\ Schedule!ScheduleStep => ScheduleProofs!ScheduleStep
  /\ \A s \in Server : Schedule!TaskEnds(s) => ScheduleProofs!TaskEnds(s)
<1> USE DEF Schedule!taskVars, Schedule!hookVars, Schedule!Ended, Schedule!Fail, Schedule!Publish,
            ScheduleProofs!taskVars, ScheduleProofs!hookVars, ScheduleProofs!Ended,
            ScheduleProofs!Fail, ScheduleProofs!Publish
<1>1. /\ Schedule!BuildApp => ScheduleProofs!BuildApp
      /\ Schedule!PublishBeforeHooks => ScheduleProofs!PublishBeforeHooks
      /\ Schedule!PublishAfterHooks => ScheduleProofs!PublishAfterHooks
  BY DEF Schedule!BuildApp, Schedule!PublishBeforeHooks, Schedule!PublishAfterHooks,
         ScheduleProofs!BuildApp, ScheduleProofs!PublishBeforeHooks,
         ScheduleProofs!PublishAfterHooks
<1>2. /\ Schedule!SpawnTask => ScheduleProofs!SpawnTask
      /\ Schedule!AllSpawned => ScheduleProofs!AllSpawned
      /\ Schedule!AllJoined => ScheduleProofs!AllJoined
      /\ Schedule!HooksDone => ScheduleProofs!HooksDone
  BY DEF Schedule!SpawnTask, Schedule!AllSpawned, Schedule!AllJoined, Schedule!HooksDone,
         ScheduleProofs!SpawnTask, ScheduleProofs!AllSpawned, ScheduleProofs!AllJoined,
         ScheduleProofs!HooksDone
<1>3. Schedule!Join => ScheduleProofs!Join
  BY DEF Schedule!Join, Schedule!Last, Schedule!Front,
         ScheduleProofs!Join, ScheduleProofs!Last, ScheduleProofs!Front
<1>4. Schedule!RunHook => ScheduleProofs!RunHook
  BY DEF Schedule!RunHook, Schedule!Last, Schedule!Front,
         ScheduleProofs!RunHook, ScheduleProofs!Last, ScheduleProofs!Front
<1>5. Schedule!DropRuntime => ScheduleProofs!DropRuntime
  BY DEF Schedule!DropRuntime, Schedule!Returned,
         ScheduleProofs!DropRuntime, ScheduleProofs!Returned
<1>6. \A s \in Server : Schedule!TaskEnds(s) => ScheduleProofs!TaskEnds(s)
  BY DEF Schedule!TaskEnds, ScheduleProofs!TaskEnds
<1> QED
  BY <1>1, <1>2, <1>3, <1>4, <1>5, <1>6
  DEF Schedule!ScheduleStep, ScheduleProofs!ScheduleStep

\* Every step is one of schedule() and its tasks, or leaves them alone.
LEMMA ScheduleSteps ==
  ASSUME [Next]_vars
  PROVE  [ScheduleProofs!ScheduleNext]_(ScheduleProofs!scheduleVars)
<1> DEFINE Stutter == UNCHANGED Schedule!scheduleVars
<1>u. UNCHANGED scheduleVars => Stutter
  BY DEF scheduleVars, Schedule!scheduleVars, Schedule!taskVars, Schedule!hookVars
<1> HIDE DEF Stutter
<1>1. MainStep => Stutter \/ Schedule!ScheduleStep
  <2>1. RunStep \/ OtherHook \/ DeregisterFails \/ HookOk => Schedule!ScheduleStep
    BY DEF RunStep, OtherHook, DeregisterFails, HookOk, Schedule!ScheduleStep
  <2>2. Drain \/ Deregister => Stutter
    BY <1>u DEF Drain, Deregister
  <2> QED
    BY <2>1, <2>2 DEF MainStep
<1>2. ASSUME NEW s \in Server, ServerStep(s) \/ ServeFails(s) \/ RequestArrives(s)
      PROVE  Stutter \/ Schedule!TaskEnds(s)
  <2>1. ASSUME NEW l, Goto(s, l) PROVE Stutter
    BY <2>1, <1>u DEF Goto
  <2>2. ASSUME NEW R, End(s, R) PROVE Schedule!TaskEnds(s)
    BY <2>2 DEF End
  <2>3. CASE Bind(s) \/ Serve(s)
    BY <2>1, <2>2, <2>3 DEF Bind, Serve
  <2>4. CASE AnnounceUnheard(s) \/ Record(s)
    BY <2>1, <2>4 DEF AnnounceUnheard, Record
  <2>5. CASE Announce(s)
    BY <2>1, <2>2, <2>5 DEF Announce
  <2>6. CASE RegisterFails(s) \/ ServeEnds(s) \/ ServeFails(s)
    BY <2>2, <2>6 DEF RegisterFails, ServeEnds, ServeFails
  <2>7. CASE RequestArrives(s)
    BY <2>7, <1>u DEF RequestArrives
  <2> QED
    BY <1>2, <2>3, <2>4, <2>5, <2>6, <2>7 DEF ServerStep
<1>3. Signal => Stutter
  BY <1>u DEF Signal
<1>4. UNCHANGED vars => Stutter
  BY <1>u DEF vars
<1>5. \/ Stutter \/ Schedule!ScheduleStep
      \/ \E s \in Server : Schedule!TaskEnds(s)
  BY <1>1, <1>2, <1>3, <1>4 DEF Next
<1>6. Stutter => UNCHANGED ScheduleProofs!scheduleVars
  BY DEF Stutter, Schedule!scheduleVars, Schedule!taskVars, Schedule!hookVars,
         ScheduleProofs!scheduleVars, ScheduleProofs!taskVars, ScheduleProofs!hookVars
<1> QED
  BY <1>5, <1>6, SameSchedule DEF ScheduleProofs!ScheduleNext

\* The servers are tasks under schedule(): what AppSchedule proves of every
\* task and hook is true of them, with or without Nacos.
THEOREM UnderSchedule == Spec => []ScheduleInv
<1>1. Init => ScheduleInv
  <2> SUFFICES ASSUME Init PROVE ScheduleInv
    OBVIOUS
  <2> DEFINE H == OtherHooks \cup {"nacos"}
  <2>1. schedulers \in Seq(Server) /\ ToSet(schedulers) = Server
    BY ServerAssumption, OrderOfSet DEF Init
  <2>2. shutdown_hooks \in Seq(H)
    <3>1. PICK h \in SetToSeqs(OtherHooks) :
            shutdown_hooks = IF wired THEN <<"nacos">> \o h ELSE h
      BY DEF Init
    <3>2. h \in Seq(OtherHooks)
      BY ServerAssumption, OrderOfSet
    <3>3. h \in Seq(H) /\ <<"nacos">> \in Seq(H)
      BY <3>2
    <3>4. <<"nacos">> \o h \in Seq(H)
      BY <3>3, ConcatProperties
    <3> QED
      BY <3>1, <3>3, <3>4
  <2>3. /\ task = [t \in Server |-> "unborn"] /\ handles = <<>> /\ hook_log = <<>>
        /\ cause = "none" /\ events = <<>> /\ main = "build_app"
    BY DEF Init, Schedule!Idle
  <2>4. ScheduleProofs!ScheduleTypeOK
    BY <2>1, <2>2, <2>3, EmptySeq
    DEF ScheduleProofs!ScheduleTypeOK, ScheduleProofs!Stages, ScheduleProofs!Causes
  <2>5. Server \subseteq ScheduleProofs!ToSet(schedulers)
    BY <2>1 DEF ToSet, ScheduleProofs!ToSet
  <2>6. ScheduleProofs!NobodyForgotten /\ ScheduleProofs!ShutdownStage
    BY <2>3, <2>5
    DEF ScheduleProofs!NobodyForgotten, ScheduleProofs!ShutdownStage, ScheduleProofs!Contains
  <2> QED
    BY <2>4, <2>6 DEF ScheduleInv
<1>2. ScheduleInv /\ [Next]_vars => ScheduleInv'
  <2> SUFFICES ASSUME ScheduleInv, [Next]_vars PROVE ScheduleInv'
    OBVIOUS
  <2>1. [ScheduleProofs!ScheduleNext]_(ScheduleProofs!scheduleVars)
    BY ScheduleSteps
  <2>2. ScheduleProofs!ScheduleTypeOK'
    BY <2>1, ScheduleProofs!TypingStep, FiniteHooks DEF ScheduleInv
  <2>3. ScheduleProofs!NobodyForgotten'
    BY <2>1, ScheduleProofs!WaitingStep, FiniteHooks DEF ScheduleInv
  <2>4. ScheduleProofs!ShutdownStage'
    BY <2>1, ScheduleProofs!StagingStep, FiniteHooks DEF ScheduleInv
  <2> QED
    BY <2>2, <2>3, <2>4 DEF ScheduleInv
<1> QED
  BY <1>1, <1>2, PTL DEF Spec

-----------------------------------------------------------------------------
\* In and after the hooks no task is left but those that ended well.
LEMMA TasksOver ==
  ASSUME ScheduleInv, main \in {"hooks", "after_hooks", "returned"}
  PROVE  \A s \in Server : task[s] \in {"ok", "err"}
BY DEF ScheduleInv, ScheduleProofs!NobodyForgotten, ScheduleProofs!EndedWell

\* What schedule() knows of its variables, in the words of this module.
LEMMA ScheduleTypes ==
  ASSUME ScheduleInv
  PROVE  /\ task \in [Server -> {"ok", "err", "panicked", "unborn", "running", "cancelled"}]
         /\ shutdown_hooks \in Seq(OtherHooks \cup {"nacos"})
         /\ schedulers \in Seq(Server) /\ ToSet(schedulers) \subseteq Server
<1>1. schedulers \in Seq(Server)
  BY DEF ScheduleInv, ScheduleProofs!ScheduleTypeOK
<1>2. ToSet(schedulers) \subseteq Server
  BY <1>1, ElementOfSeq, LenProperties DEF ToSet
<1> QED
  BY <1>1, <1>2 DEF ScheduleInv, ScheduleProofs!ScheduleTypeOK, ScheduleProofs!Ended

\* A step of one server: only its own program counter and task change, and
\* the hook has not drained the vector while the task runs.
LEMMA ServerInv ==
  ASSUME ScheduleInv, RegistrationInv, NEW s \in Server, ServerStep(s) \/ ServeFails(s)
  PROVE  RegistrationInv'
<1> USE DEF RegistrationInv, RegistrationTypeOK, ServerStates, Recorded, At, fixedVars,
            hookVars, nacosVars, scheduleVars
<1>t. task \in [Server -> {"ok", "err", "panicked", "unborn", "running", "cancelled"}]
  BY ScheduleTypes
<1>g. ASSUME NEW l \in ServerStates \ {"done"}, Goto(s, l)
      PROVE  /\ pc' = [pc EXCEPT ![s] = l] /\ UNCHANGED scheduleVars
  BY <1>g DEF Goto
<1>e. ASSUME NEW R \in SUBSET {"ok", "err", "panicked"}, End(s, R)
      PROVE  /\ pc' = [pc EXCEPT ![s] = "done"]
             /\ \E r \in R : task' = [task EXCEPT ![s] = r]
             /\ UNCHANGED <<schedulers, main, shutdown_hooks>>
  BY <1>e, <1>t DEF End, Schedule!TaskEnds, Schedule!hookVars
<1>r. task[s] = "running"
  BY DEF ServerStep, Bind, AnnounceUnheard, Announce, Record, RegisterFails, Serve, ServeEnds,
         ServeFails
<1>s. s \notin ToSet(schedulers) /\ ToSet(schedulers) \subseteq Server
  BY <1>r, ScheduleTypes DEF TaskAndPc
<1>d. ~ drained /\ instances = <<>>
  BY <1>r DEF Draining
<1>1. CASE Bind(s)
  <2>1. \/ pc' = [pc EXCEPT ![s] = "bound"] /\ UNCHANGED scheduleVars
        \/ /\ pc' = [pc EXCEPT ![s] = "done"] /\ UNCHANGED <<schedulers, main, shutdown_hooks>>
           /\ \E r \in {"ok", "err", "panicked"} : task' = [task EXCEPT ![s] = r]
    BY <1>1, <1>g, <1>e DEF Bind
  <2>2. pc[s] = "start" /\ UNCHANGED <<fixedVars, signalled, nacosVars, hookVars, refused>>
    BY <1>1 DEF Bind
  <2>3. RegistrationTypeOK' /\ TaskAndPc'
    BY <2>1, <2>2, <1>t, <1>r, <1>s DEF TaskAndPc
  <2>4. Accounted'
    BY <2>1, <2>2, <1>t, <1>r DEF Accounted
  <2>5. Draining'
    BY <2>1, <2>2, <1>d DEF Draining
  <2> QED
    BY <2>3, <2>4, <2>5
<1>2. CASE AnnounceUnheard(s)
  <2>1. /\ pc[s] = "bound" /\ ~ wired /\ pc' = [pc EXCEPT ![s] = "announced"]
        /\ UNCHANGED <<scheduleVars, fixedVars, signalled, nacosVars, hookVars, refused>>
    BY <1>2, <1>g DEF AnnounceUnheard
  <2>2. RegistrationTypeOK' /\ TaskAndPc'
    BY <2>1, <1>s DEF TaskAndPc
  <2>3. Accounted'
    BY <2>1 DEF Accounted
  <2>4. Draining'
    BY <2>1 DEF Draining
  <2> QED
    BY <2>2, <2>3, <2>4
<1>3. CASE Announce(s)
  <2>1. /\ pc[s] = "bound" /\ wired
        /\ UNCHANGED <<fixedVars, signalled, remote, registered, hookVars, refused>>
        /\ UNCHANGED <<schedulers, main, shutdown_hooks>>
        /\ \/ pc' = [pc EXCEPT ![s] = "registering"] /\ sent' = sent \cup {s} /\ task' = task
           \/ /\ pc' = [pc EXCEPT ![s] = "done"] /\ sent' = sent
              /\ task' = [task EXCEPT ![s] = "err"]
    BY <1>3, <1>g, <1>e DEF Announce
  <2>2. RegistrationTypeOK' /\ TaskAndPc'
    BY <2>1, <1>t, <1>r, <1>s DEF TaskAndPc
  <2>3. Accounted'
    BY <2>1, <1>t, <1>r DEF Accounted
  <2>4. Draining'
    BY <2>1, <1>d DEF Draining
  <2> QED
    BY <2>2, <2>3, <2>4
<1>4. CASE Record(s)
  <2>1. /\ pc[s] = "registering" /\ s \in remote /\ pc' = [pc EXCEPT ![s] = "announced"]
        /\ UNCHANGED <<scheduleVars, fixedVars, signalled, sent, remote, hookVars, refused>>
    BY <1>4, <1>g DEF Record
  <2>2. registered' \in Seq(Server) /\ ToSet(registered') = ToSet(registered) \cup {s}
    BY <1>4, Push DEF Record
  <2>3. RegistrationTypeOK' /\ TaskAndPc'
    BY <2>1, <2>2, <1>s DEF TaskAndPc
  <2>4. Accounted'
    BY <2>1, <2>2 DEF Accounted
  <2>5. Draining'
    BY <2>1, <1>d DEF Draining
  <2> QED
    BY <2>3, <2>4, <2>5
<1>5. CASE Serve(s)
  <2>1. \/ pc' = [pc EXCEPT ![s] = "serving"] /\ UNCHANGED scheduleVars
        \/ /\ pc' = [pc EXCEPT ![s] = "done"] /\ task' = [task EXCEPT ![s] = "err"]
           /\ UNCHANGED <<schedulers, main, shutdown_hooks>>
    BY <1>5, <1>g, <1>e DEF Serve
  <2>2. pc[s] = "announced" /\ UNCHANGED <<fixedVars, signalled, nacosVars, hookVars, refused>>
    BY <1>5 DEF Serve
  <2>3. RegistrationTypeOK' /\ TaskAndPc'
    BY <2>1, <2>2, <1>t, <1>s DEF TaskAndPc
  <2>4. Accounted'
    BY <2>1, <2>2, <1>t, <1>r DEF Accounted
  <2>5. Draining'
    BY <2>1, <2>2, <1>d DEF Draining
  <2> QED
    BY <2>3, <2>4, <2>5
<1>6. CASE RegisterFails(s)
  <2>1. /\ pc' = [pc EXCEPT ![s] = "done"] /\ task' = [task EXCEPT ![s] = "err"]
        /\ UNCHANGED <<schedulers, main, shutdown_hooks>>
    BY <1>6, <1>e DEF RegisterFails
  <2>2. /\ pc[s] = "registering" /\ refused' = refused \cup {s}
        /\ UNCHANGED <<fixedVars, signalled, nacosVars, hookVars>>
    BY <1>6 DEF RegisterFails
  <2>3. RegistrationTypeOK' /\ TaskAndPc'
    BY <2>1, <2>2, <1>t, <1>s DEF TaskAndPc
  <2>4. Accounted'
    BY <2>1, <2>2, <1>t, <1>r DEF Accounted
  <2>5. Draining'
    BY <2>1, <2>2, <1>d DEF Draining
  <2> QED
    BY <2>3, <2>4, <2>5
<1>7. CASE ServeEnds(s) \/ ServeFails(s)
  <2>1. /\ pc' = [pc EXCEPT ![s] = "done"]
        /\ UNCHANGED <<schedulers, main, shutdown_hooks>>
        /\ \E r \in {"ok", "err"} : task' = [task EXCEPT ![s] = r]
        /\ pc[s] = "serving"
        /\ UNCHANGED <<fixedVars, signalled, nacosVars, hookVars, refused>>
    BY <1>7, <1>e DEF ServeEnds, ServeFails
  <2>2. RegistrationTypeOK' /\ TaskAndPc'
    BY <2>1, <1>t, <1>s DEF TaskAndPc
  <2>3. Accounted'
    BY <2>1, <1>t, <1>r DEF Accounted
  <2>4. Draining'
    BY <2>1, <1>d DEF Draining
  <2> QED
    BY <2>2, <2>3, <2>4
<1> QED
  BY <1>1, <1>2, <1>3, <1>4, <1>5, <1>6, <1>7 DEF ServerStep

\* What reaches Nacos, or the servers, from outside.
LEMMA OutsideInv ==
  ASSUME RegistrationInv, Signal \/ (\E s \in Server : RequestArrives(s)) \/ UNCHANGED vars
  PROVE  RegistrationInv'
<1> USE DEF RegistrationInv, RegistrationTypeOK, Recorded, fixedVars, hookVars, nacosVars,
            scheduleVars, TaskAndPc, Accounted, Draining
<1>1. CASE Signal
  BY <1>1, ServerAssumption DEF Signal
<1>2. ASSUME NEW s \in Server, RequestArrives(s) PROVE RegistrationInv'
  BY <1>2 DEF RequestArrives
<1>3. CASE UNCHANGED vars
  BY <1>3 DEF vars
<1> QED
  BY <1>1, <1>2, <1>3

\* The steps of schedule() around the tasks and hooks: a task is spawned only
\* before the hooks, and cancelled only after run() has ended.
LEMMA RunInv ==
  ASSUME ScheduleInv, RegistrationInv, RunStep
  PROVE  RegistrationInv'
<1> USE DEF RegistrationInv, RegistrationTypeOK, Recorded, fixedVars, hookVars, nacosVars,
            Schedule!taskVars, Schedule!hookVars, Schedule!Returned
<1>t. /\ task \in [Server -> {"ok", "err", "panicked", "unborn", "running", "cancelled"}]
      /\ ToSet(schedulers) \subseteq Server
  BY ScheduleTypes
<1>u. UNCHANGED <<fixedVars, pc, signalled, nacosVars, hookVars, refused>>
  BY DEF RunStep
<1>0. RegistrationTypeOK'
  BY <1>u
<1>1. CASE Schedule!SpawnTask
  <2>1. schedulers \in Seq(Server) /\ schedulers # <<>>
    BY <1>1 DEF Schedule!SpawnTask, ScheduleInv, ScheduleProofs!ScheduleTypeOK
  <2>2. /\ schedulers' = Tail(schedulers)
        /\ task' = [task EXCEPT ![Head(schedulers)] = "running"]
        /\ main = "spawn" /\ UNCHANGED <<main, shutdown_hooks>>
    BY <1>1 DEF Schedule!SpawnTask
  <2>3. /\ Head(schedulers) \in Server /\ pc[Head(schedulers)] = "start"
        /\ IsInjective(schedulers') /\ ToSet(schedulers') \subseteq ToSet(schedulers)
        /\ Head(schedulers) \notin ToSet(schedulers')
    BY <2>1, <2>2, TakeFirst DEF TaskAndPc
  <2>4. TaskAndPc'
    BY <1>u, <1>t, <2>2, <2>3 DEF TaskAndPc
  <2>5. Accounted'
    BY <1>u, <1>t, <2>2, <2>3 DEF Accounted
  <2>6. Draining'
    BY <1>u, <1>t, <2>2, <2>3 DEF Draining
  <2> QED
    BY <1>0, <2>4, <2>5, <2>6
<1>2. CASE Schedule!DropRuntime
  <2>1. /\ task' = [t \in Server |-> IF task[t] = "running" THEN "cancelled" ELSE task[t]]
        /\ UNCHANGED <<schedulers, main, shutdown_hooks>>
    BY <1>2 DEF Schedule!DropRuntime
  <2>2. TaskAndPc'
    BY <2>1, <1>u, <1>t DEF TaskAndPc
  <2>3. Accounted'
    BY <2>1, <1>u, <1>t DEF Accounted
  <2>4. Draining'
    BY <2>1, <1>u, <1>t DEF Draining
  <2> QED
    BY <1>0, <2>2, <2>3, <2>4
<1>3. CASE \/ Schedule!BuildApp \/ Schedule!AllSpawned \/ Schedule!Join \/ Schedule!AllJoined
           \/ Schedule!PublishBeforeHooks \/ Schedule!HooksDone \/ Schedule!PublishAfterHooks
  <2>1. /\ UNCHANGED <<schedulers, task, shutdown_hooks>>
        /\ \/ main' = main
           \/ main' \in {"error", "panic"}
           \/ main \notin {"hooks", "after_hooks"} \cup Schedule!Returned
           \/ main = "hooks" /\ main' = "after_hooks"
           \/ main = "after_hooks" /\ main' = "returned"
        /\ main \in {"error", "panic"} => main' = main
    BY <1>3
    DEF Schedule!BuildApp, Schedule!AllSpawned, Schedule!Join, Schedule!AllJoined,
        Schedule!PublishBeforeHooks, Schedule!HooksDone, Schedule!PublishAfterHooks,
        Schedule!Publish, Schedule!Fail
  <2>2. TaskAndPc' /\ Accounted'
    BY <2>1, <1>u DEF TaskAndPc, Accounted
  <2>3. Draining'
    BY <2>1, <1>u DEF Draining
  <2> QED
    BY <1>0, <2>2, <2>3
<1> QED
  BY <1>1, <1>2, <1>3 DEF RunStep

\* The hooks: what another hook leaves, and the one that deregisters.
LEMMA HookInv ==
  ASSUME ScheduleInv, RegistrationInv,
         OtherHook \/ Drain \/ DeregisterFails \/ Deregister \/ HookOk
  PROVE  RegistrationInv'
<1> USE DEF RegistrationInv, RegistrationTypeOK, Recorded, fixedVars, hookVars, nacosVars,
            scheduleVars, AtNacosHook
<1>m. main = "hooks"
  BY DEF OtherHook, Drain, DeregisterFails, Deregister, HookOk
<1>t. \A s \in Server : task[s] \in {"ok", "err"}
  BY <1>m, TasksOver
<1>r. ASSUME Schedule!RunHook
      PROVE  /\ UNCHANGED <<schedulers, task>>
             /\ main' \in {"hooks", "error", "panic"}
             /\ main' = "hooks" => cause' = cause /\ cause = "none"
             /\ ToSet(shutdown_hooks) = ToSet(shutdown_hooks') \cup {Last(shutdown_hooks)}
  <2>1. shutdown_hooks # <<>> /\ shutdown_hooks' = Front(shutdown_hooks)
    BY <1>r DEF Schedule!RunHook, Schedule!Front, Front
  <2>2. /\ UNCHANGED <<schedulers, task>>
        /\ main' \in {"hooks", "error", "panic"} /\ (main' = "hooks" => cause' = cause)
    BY <1>m, <1>r DEF Schedule!RunHook, Schedule!taskVars, Schedule!Fail
  <2>3. cause = "none"
    BY <1>m DEF ScheduleInv, ScheduleProofs!ShutdownStage
  <2> QED
    BY <2>1, <2>2, <2>3, ScheduleTypes, TakeLast
<1>1. CASE OtherHook
  <2>1. /\ UNCHANGED <<fixedVars, pc, signalled, nacosVars, hookVars, refused, schedulers, task>>
        /\ main' \in {"hooks", "error", "panic"}
        /\ "nacos" \in ToSet(shutdown_hooks) => "nacos" \in ToSet(shutdown_hooks')
    BY <1>1, <1>r DEF OtherHook
  <2> QED
    BY <2>1, <1>m DEF TaskAndPc, Accounted, Draining, Schedule!Returned
<1>2. CASE Drain
  <2>1. /\ drained' = TRUE /\ instances' = registered /\ registered' = <<>>
        /\ instances = <<>>
        /\ UNCHANGED <<scheduleVars, fixedVars, pc, signalled, sent, remote, refused>>
    BY <1>2 DEF Drain, Draining
  <2>2. RegistrationTypeOK' /\ TaskAndPc'
    BY <2>1, EmptySeq DEF TaskAndPc
  <2>3. Accounted'
    <3>1. ToSet(registered') \cup ToSet(instances') = ToSet(registered) \cup ToSet(instances)
      BY <2>1
    <3> QED
      BY <2>1, <3>1, <1>t DEF Accounted
  <2>4. Draining'
    <3>1. "nacos" \in ToSet(shutdown_hooks)
      BY <1>2, ScheduleTypes, TakeLast DEF Drain
    <3> QED
      BY <2>1, <3>1, <1>m, <1>t DEF Draining
  <2> QED
    BY <2>2, <2>3, <2>4
<1>3. CASE DeregisterFails
  <2>1. /\ remote' \in SUBSET remote /\ drained
        /\ UNCHANGED <<fixedVars, pc, signalled, sent, registered, hookVars, refused, schedulers, task>>
        /\ main' \in {"error", "panic"}
    BY <1>3, <1>r DEF DeregisterFails
  <2> QED
    BY <2>1, <1>t DEF TaskAndPc, Accounted, Draining, Schedule!Returned
<1>4. CASE Deregister
  <2>1. /\ drained /\ remote' = remote \ {Head(instances)}
        /\ instances' \in Seq(Server)
        /\ ToSet(instances) = {Head(instances)} \cup ToSet(instances')
        /\ UNCHANGED <<scheduleVars, fixedVars, pc, signalled, sent, registered, drained, refused>>
    BY <1>4, TakeFirst DEF Deregister
  <2>2. RegistrationTypeOK' /\ TaskAndPc'
    BY <2>1 DEF TaskAndPc
  <2>3. Accounted'
    BY <2>1, <1>t DEF Accounted
  <2>4. Draining'
    <3>1. "nacos" \in ToSet(shutdown_hooks)
      BY <1>4, ScheduleTypes, TakeLast DEF Deregister
    <3> QED
      BY <2>1, <3>1 DEF Draining
  <2> QED
    BY <2>2, <2>3, <2>4
<1>5. CASE HookOk
  <2>1. /\ drained /\ instances = <<>>
        /\ UNCHANGED <<fixedVars, pc, signalled, nacosVars, hookVars, refused, schedulers, task>>
        /\ main' \in {"hooks", "error", "panic"}
    BY <1>5, <1>r DEF HookOk
  <2> QED
    BY <2>1 DEF TaskAndPc, Accounted, Draining, Schedule!Returned
<1> QED
  BY <1>1, <1>2, <1>3, <1>4, <1>5

\* The inductive invariant: where each instance that Nacos lists, or may come
\* to list, is accounted for.
THEOREM Registration == Spec => []RegistrationInv
<1>1. Init => RegistrationInv
  <2> SUFFICES ASSUME Init PROVE RegistrationInv
    OBVIOUS
  <2>e. ToSet(<<>>) = {}
    BY DEF ToSet
  <2>1. ToSet(schedulers) = Server /\ IsInjective(schedulers)
    BY ServerAssumption, OrderOfSet DEF Init
  <2>2. task = [s \in Server |-> "unborn"] /\ main = "build_app"
    BY DEF Init, Schedule!Idle
  <2>3. RegistrationTypeOK
    BY EmptySeq DEF Init, RegistrationTypeOK, ServerStates
  <2>4. TaskAndPc
    BY <2>1, <2>2 DEF Init, TaskAndPc
  <2>5. Accounted
    BY <2>e, <2>2 DEF Init, Accounted, Recorded
  <2>6. wired => "nacos" \in ToSet(shutdown_hooks)
    <3>1. PICK h \in SetToSeqs(OtherHooks) :
            shutdown_hooks = IF wired THEN <<"nacos">> \o h ELSE h
      BY DEF Init
    <3>2. h \in Seq(OtherHooks)
      BY ServerAssumption, OrderOfSet
    <3>3. Len(<<"nacos">> \o h) = 1 + Len(h) /\ (<<"nacos">> \o h)[1] = "nacos" /\ Len(h) \in Nat
      BY <3>2
    <3>4. "nacos" \in ToSet(<<"nacos">> \o h)
      BY <3>2, <3>3 DEF ToSet
    <3> QED
      BY <3>1, <3>4
  <2>7. Draining
    BY <2>2, <2>6 DEF Init, Draining
  <2> QED
    BY <2>3, <2>4, <2>5, <2>7 DEF RegistrationInv
<1>2. ScheduleInv /\ RegistrationInv /\ [Next]_vars => RegistrationInv'
  BY ServerInv, OutsideInv, RunInv, HookInv DEF Next, MainStep
<1> QED
  BY <1>1, <1>2, UnderSchedule, PTL DEF Spec

\* A server takes requests only while Nacos lists it and the hook knows of it,
\* whatever the network does with requests and answers.
THEOREM Listed == Spec => []ServingIsListed
<1>1. RegistrationInv => ServingIsListed
  <2> SUFFICES ASSUME RegistrationInv, NEW s \in Server, wired, At(s, "serving")
               PROVE  s \in remote /\ Contains(registered, s)
    BY DEF ServingIsListed
  <2>1. s \in remote /\ s \in ToSet(registered) /\ registered \in Seq(Server)
    BY DEF RegistrationInv, RegistrationTypeOK, Accounted, At
  <2> QED
    BY <2>1, LenProperties DEF ToSet, Contains
<1> QED
  BY <1>1, Registration, PTL

\* After a normal shutdown Nacos lists, or may come to list, at most servers
\* whose own register call had failed: no push comes after the drain, and each
\* recorded instance is taken off the list, whatever became of its server.
THEOREM Deregistered == Spec => []NothingLeftBehind
<1>1. ScheduleInv /\ RegistrationInv => NothingLeftBehind
  <2> SUFFICES ASSUME ScheduleInv, RegistrationInv, main = "returned", NEW s \in sent \cup remote
               PROVE  s \in refused
    BY DEF NothingLeftBehind
  <2>1. s \in Server /\ wired
    BY DEF RegistrationInv, RegistrationTypeOK, Draining
  <2>2. shutdown_hooks = <<>>
    BY DEF ScheduleInv, ScheduleProofs!ShutdownStage
  <2>3. instances = <<>> /\ registered = <<>>
    BY <2>1, <2>2 DEF RegistrationInv, Draining, ToSet
  <2>4. task[s] \in {"ok", "err"}
    BY <2>1, TasksOver
  <2>5. ~ Recorded(s)
    BY <2>3 DEF Recorded, ToSet
  <2> QED
    BY <2>1, <2>4, <2>5 DEF RegistrationInv, Accounted
<1> QED
  BY <1>1, UnderSchedule, Registration, PTL

\* The state of the servers, of Nacos and of schedule() is always well typed.
THEOREM Typing == Spec => []TypeOK
<1>1. ScheduleInv => Schedule!ScheduleTypeOK
  BY DEF ScheduleInv, Schedule!ScheduleTypeOK, Schedule!Ended, Schedule!Returned,
         Schedule!Stages, Schedule!Causes, Schedule!AppEvents,
         ScheduleProofs!ScheduleTypeOK, ScheduleProofs!Ended, ScheduleProofs!Returned,
         ScheduleProofs!Stages, ScheduleProofs!Causes, ScheduleProofs!AppEvents
<1>2. ScheduleInv /\ RegistrationInv => TypeOK
  BY <1>1 DEF RegistrationInv, RegistrationTypeOK, TypeOK
<1> QED
  BY <1>2, UnderSchedule, Registration, PTL
=============================================================================
