---------------------------- MODULE AppSchedule ----------------------------
(***************************************************************************)
(* AppBuilder::schedule and build_app (summer/src/app.rs): install the     *)
(* App, spawn every scheduler as a tokio task, await the handles last in   *)
(* first out, and then run the shutdown hooks last in first out between    *)
(* the two ShutdownEvents.  Each `?` on the way ends run() early: a task   *)
(* that panicked (JoinError), a listener or a hook that failed.            *)
(***************************************************************************)
EXTENDS Naturals, SequencesExt

CONSTANTS
  Task,    \* the schedulers the plugins may add
  Hook     \* the shutdown hooks the plugins may add

ASSUME ScheduleAssumption == IsFiniteSet(Task) /\ IsFiniteSet(Hook)

VARIABLES
  schedulers,      \* self.schedulers, and those not yet spawned
  shutdown_hooks,  \* self.shutdown_hooks
  main,            \* where schedule() is, or how run() ended
  task,            \* task[t]: the state of the tokio task
  handles,         \* the join handles not yet awaited
  hook_log,        \* history: the hooks started, in order
  cause,           \* history: why run() ended early, or "none"
  events           \* history: the app events delivered to every listener

taskVars == <<task, handles>>
hookVars == <<shutdown_hooks, hook_log>>
scheduleVars == <<schedulers, main, taskVars, hookVars, cause, events>>

Ended    == {"ok", "err", "panicked"}
Returned == {"returned", "error", "panic"}
Stages   == {"build_app", "spawn", "join", "before_hooks", "hooks", "after_hooks"}
Causes   == {"none", "injection", "listener", "task", "hook", "hook_panic"}
AppEvents == {"AppBuilt", "BeforeHooks", "AfterHooks"}

ScheduleTypeOK ==
  /\ schedulers \in Seq(Task)
  /\ shutdown_hooks \in Seq(Hook)
  /\ main \in Stages \cup Returned \cup {"building"}
  /\ task \in [Task -> Ended \cup {"unborn", "running", "cancelled"}]
  /\ handles \in Seq(Task)
  /\ hook_log \in Seq(Hook)
  /\ cause \in Causes
  /\ events \in Seq(AppEvents)

\* While the plugins are built there is nothing but what they add.
Idle ==
  /\ task = [t \in Task |-> "unborn"]
  /\ handles = <<>>
  /\ hook_log = <<>>
  /\ cause = "none"
  /\ events = <<>>

Init ==
  /\ schedulers \in SetToSeqs(Task)
  /\ shutdown_hooks \in SetToSeqs(Hook)
  /\ main = "build_app"
  /\ Idle

Fail(why) ==
  /\ main' = IF why = "hook_panic" THEN "panic" ELSE "error"
  /\ cause' = why

-----------------------------------------------------------------------------
\* app.publish(event).await?: all listeners succeed, or one fails and the
\* error ends run().
Publish(event, stage, next) ==
  /\ main = stage
  /\ \/ /\ main' = next
        /\ events' = Append(events, event)
        /\ UNCHANGED cause
     \/ Fail("listener") /\ UNCHANGED events
  /\ UNCHANGED <<schedulers, taskVars, hookVars>>

\* build_app: set the global App and publish AppBuiltEvent.
BuildApp == Publish("AppBuilt", "build_app", "spawn")

\* handles.push(tokio::spawn(task.run(app)))
SpawnTask ==
  /\ main = "spawn" /\ schedulers # <<>>
  /\ task' = [task EXCEPT ![Head(schedulers)] = "running"]
  /\ handles' = Append(handles, Head(schedulers))
  /\ schedulers' = Tail(schedulers)
  /\ UNCHANGED <<main, hookVars, cause, events>>

AllSpawned ==
  /\ main = "spawn" /\ schedulers = <<>>
  /\ main' = "join"
  /\ UNCHANGED <<schedulers, taskVars, hookVars, cause, events>>

\* A task runs concurrently with schedule() until it ends.
TaskEnds(t) ==
  /\ task[t] = "running"
  /\ \E r \in Ended : task' = [task EXCEPT ![t] = r]
  /\ UNCHANGED <<schedulers, main, handles, hookVars, cause, events>>

\* Mutant of Join: an empty look at the handle in place of awaiting it.
JoinWithoutWaiting ==
  /\ main = "join" /\ handles # <<>>
  /\ IF task[Last(handles)] = "panicked"
       THEN Fail("task")
       ELSE UNCHANGED <<main, cause>>
  /\ handles' = Front(handles)
  /\ UNCHANGED <<schedulers, task, hookVars, events>>

\* Mutant of Join: a task that returned an error is awaited for good.
JoinOkOnly ==
  /\ main = "join" /\ handles # <<>>
  /\ task[Last(handles)] \in {"ok", "panicked"}
  /\ IF task[Last(handles)] = "panicked"
       THEN Fail("task")
       ELSE UNCHANGED <<main, cause>>
  /\ handles' = Front(handles)
  /\ UNCHANGED <<schedulers, task, hookVars, events>>

\* `match handle.await? {..}` of the handle popped last: a panic comes back
\* as a JoinError and is returned, an error of the task is only logged.
Join ==
  /\ main = "join" /\ handles # <<>>
  /\ task[Last(handles)] \in Ended
  /\ IF task[Last(handles)] = "panicked"
       THEN Fail("task")
       ELSE UNCHANGED <<main, cause>>
  /\ handles' = Front(handles)
  /\ UNCHANGED <<schedulers, task, hookVars, events>>

AllJoined ==
  /\ main = "join" /\ handles = <<>>
  /\ main' = "before_hooks"
  /\ UNCHANGED <<schedulers, taskVars, hookVars, cause, events>>

PublishBeforeHooks == Publish("BeforeHooks", "before_hooks", "hooks")

\* Mutant of RunHook: remove(0) in place of pop().
RunHookFifo ==
  /\ main = "hooks" /\ shutdown_hooks # <<>>
  /\ hook_log' = Append(hook_log, Head(shutdown_hooks))
  /\ shutdown_hooks' = Tail(shutdown_hooks)
  /\ \/ UNCHANGED <<main, cause>>
     \/ \E why \in {"hook", "hook_panic"} : Fail(why)
  /\ UNCHANGED <<schedulers, taskVars, events>>

\* Mutant of RunHook: the error of a hook ends the hooks silently.
RunHookBreak ==
  /\ main = "hooks" /\ shutdown_hooks # <<>>
  /\ hook_log' = Append(hook_log, Last(shutdown_hooks))
  /\ shutdown_hooks' = Front(shutdown_hooks)
  /\ \/ UNCHANGED <<main, cause>>
     \/ main' = "after_hooks" /\ UNCHANGED cause
  /\ UNCHANGED <<schedulers, taskVars, events>>

\* hook.run(app).await? of the hook popped last.
RunHook ==
  /\ main = "hooks" /\ shutdown_hooks # <<>>
  /\ hook_log' = Append(hook_log, Last(shutdown_hooks))
  /\ shutdown_hooks' = Front(shutdown_hooks)
  /\ \/ UNCHANGED <<main, cause>>
     \/ \E why \in {"hook", "hook_panic"} : Fail(why)
  /\ UNCHANGED <<schedulers, taskVars, events>>

HooksDone ==
  /\ main = "hooks" /\ shutdown_hooks = <<>>
  /\ main' = "after_hooks"
  /\ UNCHANGED <<schedulers, taskVars, hookVars, cause, events>>

PublishAfterHooks == Publish("AfterHooks", "after_hooks", "returned")

\* run() returned to main and the runtime is dropped: tokio cancels the
\* tasks that still run.
DropRuntime ==
  /\ main \in Returned
  /\ \E t \in Task : task[t] = "running"
  /\ task' = [t \in Task |-> IF task[t] = "running" THEN "cancelled" ELSE task[t]]
  /\ UNCHANGED <<schedulers, main, handles, hookVars, cause, events>>

ScheduleStep ==
  \/ BuildApp
  \/ SpawnTask
  \/ AllSpawned
  \/ Join
  \/ AllJoined
  \/ PublishBeforeHooks
  \/ RunHook
  \/ HooksDone
  \/ PublishAfterHooks
  \/ DropRuntime

ScheduleNext ==
  \/ ScheduleStep
  \/ \E t \in Task : TaskEnds(t)

Spec == Init /\ [][ScheduleNext]_scheduleVars

\* schedule() is one future that the runtime polls until it is done; a task
\* may run as long as it likes.
FairSpec == Spec /\ WF_scheduleVars(ScheduleStep)

-----------------------------------------------------------------------------
(***************************************************************************)
(* Properties.                                                             *)
(***************************************************************************)

\* A hook closes what the tasks use, so none starts while a task runs, was
\* not even spawned, or died of a panic.
NoHookBesideTasks ==
  hook_log # <<>> => \A t \in Task : task[t] \in {"ok", "err"}

\* A hook is skipped only if run() ended early, and ShutdownEvent with
\* AfterHooks is only delivered once every hook succeeded.
NoHookSkipped ==
  /\ main \in Returned /\ cause = "none" => main = "returned" /\ shutdown_hooks = <<>>
  /\ Contains(events, "AfterHooks") => shutdown_hooks = <<>> /\ cause = "none"
  /\ \A t \in Task : task[t] = "panicked" => main \in Returned \cup {"spawn", "join"}

(***************************************************************************)
(* The inductive invariant behind the two.  Every task is still to be      *)
(* spawned, has a handle to be awaited, or ended without a panic; and the  *)
(* stage tells what of the shutdown is over.                               *)
(***************************************************************************)
EndedWell(t) == task[t] \in {"ok", "err"}

NobodyForgotten ==
  /\ main = "build_app" => \A t \in Task : task[t] = "unborn"
  /\ main \in {"build_app", "spawn"} => Task \subseteq ToSet(schedulers) \cup ToSet(handles)
  /\ main = "join" => \A t \in Task : t \in ToSet(handles) \/ EndedWell(t)
  /\ main \in {"before_hooks", "hooks", "after_hooks", "returned"} \/ hook_log # <<>> =>
       \A t \in Task : EndedWell(t)
  /\ hook_log # <<>> => main \in Returned \cup {"hooks", "after_hooks"}

ShutdownStage ==
  /\ main # "building"
  /\ cause = "none" <=> main \notin {"error", "panic"}
  /\ main \in {"after_hooks", "returned"} => shutdown_hooks = <<>>
  /\ Contains(events, "AfterHooks") => main = "returned"

\* Once every task has ended run() returns: nothing waits for a task that
\* was awaited already, or for a hook that was taken.
ShutdownEnds ==
  (main = "join" /\ \A t \in Task : task[t] \in Ended) ~> (main \in Returned)
=============================================================================
