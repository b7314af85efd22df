------------------------- MODULE AppScheduleProofs -------------------------
(***************************************************************************)
(* Proofs about AppSchedule: no hook starts beside a task, and a hook is   *)
(* skipped only when run() ends early, for all finite sets of tasks and    *)
(* hooks.  NobodyForgotten and ShutdownStage are inductive.                *)
(***************************************************************************)
EXTENDS AppSchedule, SeqLemmas

-----------------------------------------------------------------------------
\* Every step of schedule() and of a task keeps the types.
LEMMA TypingStep ==
  ASSUME ScheduleTypeOK, [ScheduleNext]_scheduleVars
  PROVE  ScheduleTypeOK'
<1> USE DEF ScheduleTypeOK, Ended, Returned, Stages, Causes, AppEvents, taskVars, hookVars
<1>1. ASSUME NEW event \in AppEvents, NEW stage, NEW next \in Stages \cup Returned,
             Publish(event, stage, next)
      PROVE  ScheduleTypeOK'
  <2>1. Append(events, event) \in Seq(AppEvents)
    BY AppendProperties
  <2>2. main' \in Stages \cup Returned /\ cause' \in Causes
    BY <1>1 DEF Publish, Fail
  <2>3. events' \in Seq(AppEvents)
    BY <1>1, <2>1 DEF Publish
  <2> QED
    BY <1>1, <2>2, <2>3 DEF Publish
<1>2. CASE SpawnTask
  <2>1. Head(schedulers) \in Task /\ Tail(schedulers) \in Seq(Task)
    BY <1>2, TakeFirst DEF SpawnTask
  <2> QED
    BY <1>2, <2>1 DEF SpawnTask
<1>3. CASE AllSpawned
  BY <1>3 DEF AllSpawned
<1>4. CASE Join
  <2>1. Front(handles) \in Seq(Task)
    BY <1>4, TakeLast DEF Join
  <2> QED
    BY <1>4, <2>1 DEF Join, Fail
<1>5. CASE AllJoined
  BY <1>5 DEF AllJoined
<1>6. CASE RunHook
  <2>1. Last(shutdown_hooks) \in Hook /\ Front(shutdown_hooks) \in Seq(Hook)
    BY <1>6, TakeLast DEF RunHook
  <2> QED
    BY <1>6, <2>1 DEF RunHook, Fail
<1>7. CASE HooksDone
  BY <1>7 DEF HooksDone
<1>8. CASE DropRuntime
  BY <1>8 DEF DropRuntime
<1>9. ASSUME NEW t \in Task, TaskEnds(t) PROVE ScheduleTypeOK'
  BY <1>9 DEF TaskEnds
<1>10. CASE UNCHANGED scheduleVars
  BY <1>10 DEF scheduleVars
<1> QED
  BY <1>1, <1>2, <1>3, <1>4, <1>5, <1>6, <1>7, <1>8, <1>9, <1>10
  DEF ScheduleNext, ScheduleStep, BuildApp, PublishBeforeHooks, PublishAfterHooks

\* The variables of schedule() range over the tasks, the hooks and the stages.
THEOREM Typing == Spec => []ScheduleTypeOK
<1> USE DEF ScheduleTypeOK, Ended, Returned, Stages, Causes, AppEvents
<1>1. Init => ScheduleTypeOK
  <2> SUFFICES ASSUME Init PROVE ScheduleTypeOK
    OBVIOUS
  <2>1. schedulers \in Seq(Task) /\ shutdown_hooks \in Seq(Hook)
    BY ScheduleAssumption, OrderOfSet DEF Init
  <2> QED
    BY <2>1, EmptySeq DEF Init, Idle
<1>2. ScheduleTypeOK /\ [ScheduleNext]_scheduleVars => ScheduleTypeOK'
  BY TypingStep
<1> QED
  BY <1>1, <1>2, PTL DEF Spec

-----------------------------------------------------------------------------
\* No step forgets a task.
LEMMA WaitingStep ==
  ASSUME ScheduleTypeOK, NobodyForgotten, [ScheduleNext]_scheduleVars
  PROVE  NobodyForgotten'
<1> USE DEF NobodyForgotten, EndedWell, Returned, taskVars, hookVars
<1>e. ToSet(<<>>) = {}
  BY DEF ToSet
<1>1. CASE BuildApp
  BY <1>1 DEF BuildApp, Publish, Fail
<1>2. CASE SpawnTask
  <2>1. /\ Head(schedulers) \in Task
        /\ ToSet(schedulers) = {Head(schedulers)} \cup ToSet(schedulers')
        /\ ToSet(handles') = ToSet(handles) \cup {Head(schedulers)}
    BY <1>2, TakeFirst, Push DEF SpawnTask, ScheduleTypeOK
  <2> QED
    BY <1>2, <2>1 DEF SpawnTask
<1>3. CASE AllSpawned
  BY <1>3, <1>e DEF AllSpawned
<1>4. CASE Join
  <2>1. ToSet(handles) = ToSet(handles') \cup {Last(handles)} /\ Last(handles) \in Task
    BY <1>4, TakeLast DEF Join, ScheduleTypeOK
  <2> QED
    BY <1>4, <2>1 DEF Join, Fail, Ended
<1>5. CASE AllJoined
  BY <1>5, <1>e DEF AllJoined
<1>6. CASE PublishBeforeHooks
  BY <1>6 DEF PublishBeforeHooks, Publish, Fail
<1>7. CASE RunHook
  BY <1>7 DEF RunHook, Fail
<1>8. CASE HooksDone
  BY <1>8 DEF HooksDone
<1>9. CASE PublishAfterHooks
  BY <1>9 DEF PublishAfterHooks, Publish, Fail
<1>10. CASE DropRuntime
  BY <1>10 DEF DropRuntime, ScheduleTypeOK
<1>11. ASSUME NEW t \in Task, TaskEnds(t) PROVE NobodyForgotten'
  BY <1>11 DEF TaskEnds, ScheduleTypeOK
<1>12. CASE UNCHANGED scheduleVars
  BY <1>12 DEF scheduleVars
<1> QED
  BY <1>1, <1>2, <1>3, <1>4, <1>5, <1>6, <1>7, <1>8, <1>9, <1>10, <1>11, <1>12
  DEF ScheduleNext, ScheduleStep

\* Every task is waited for before the shutdown, and then none runs.
THEOREM Waiting == Spec => []NobodyForgotten
<1> USE DEF NobodyForgotten, EndedWell, Returned
<1>1. Init => NobodyForgotten
  <2> SUFFICES ASSUME Init PROVE NobodyForgotten
    OBVIOUS
  <2>1. ToSet(schedulers) = Task
    BY ScheduleAssumption, OrderOfSet DEF Init
  <2> QED
    BY <2>1 DEF Init, Idle
<1>2. ScheduleTypeOK /\ NobodyForgotten /\ [ScheduleNext]_scheduleVars => NobodyForgotten'
  BY WaitingStep
<1> QED
  BY <1>1, <1>2, Typing, PTL DEF Spec

\* Each step keeps what the stage tells.
LEMMA StagingStep ==
  ASSUME ScheduleTypeOK, ShutdownStage, [ScheduleNext]_scheduleVars
  PROVE  ShutdownStage'
<1> USE DEF ShutdownStage, taskVars, hookVars
<1>1. ASSUME NEW event \in AppEvents
      PROVE  Contains(Append(events, event), "AfterHooks")
               <=> Contains(events, "AfterHooks") \/ event = "AfterHooks"
  BY ContainsPushed DEF ScheduleTypeOK
<1>2. CASE BuildApp
  BY <1>2, <1>1 DEF BuildApp, Publish, Fail, AppEvents
<1>3. CASE SpawnTask
  BY <1>3 DEF SpawnTask
<1>4. CASE AllSpawned
  BY <1>4 DEF AllSpawned
<1>5. CASE Join
  BY <1>5 DEF Join, Fail
<1>6. CASE AllJoined
  BY <1>6 DEF AllJoined
<1>7. CASE PublishBeforeHooks
  BY <1>7, <1>1 DEF PublishBeforeHooks, Publish, Fail, AppEvents
<1>8. CASE RunHook
  BY <1>8 DEF RunHook, Fail
<1>9. CASE HooksDone
  BY <1>9 DEF HooksDone
<1>10. CASE PublishAfterHooks
  BY <1>10, <1>1 DEF PublishAfterHooks, Publish, Fail, AppEvents
<1>11. CASE DropRuntime
  BY <1>11 DEF DropRuntime
<1>12. ASSUME NEW t \in Task, TaskEnds(t) PROVE ShutdownStage'
  BY <1>12 DEF TaskEnds
<1>13. CASE UNCHANGED scheduleVars
  BY <1>13 DEF scheduleVars
<1> QED
  BY <1>2, <1>3, <1>4, <1>5, <1>6, <1>7, <1>8, <1>9, <1>10, <1>11, <1>12, <1>13
  DEF ScheduleNext, ScheduleStep

\* The stage of schedule() tells which hooks are left and what was published.
THEOREM Staging == Spec => []ShutdownStage
<1> USE DEF ShutdownStage
<1>1. Init => ShutdownStage
  BY DEF Init, Idle, Contains
<1>2. ScheduleTypeOK /\ ShutdownStage /\ [ScheduleNext]_scheduleVars => ShutdownStage'
  BY StagingStep
<1> QED
  BY <1>1, <1>2, Typing, PTL DEF Spec

-----------------------------------------------------------------------------
\* No shutdown hook starts while a task runs, is still to be spawned, or died
\* of a panic.
THEOREM HooksAlone == Spec => []NoHookBesideTasks
<1>1. NobodyForgotten => NoHookBesideTasks
  BY DEF NobodyForgotten, EndedWell, NoHookBesideTasks
<1> QED
  BY <1>1, Waiting, PTL

\* A hook is skipped only if run() ended early, and the last ShutdownEvent is
\* only delivered after the last hook.
THEOREM HooksRun == Spec => []NoHookSkipped
<1>1. ScheduleTypeOK /\ NobodyForgotten /\ ShutdownStage => NoHookSkipped
  BY DEF ScheduleTypeOK, Stages, Returned, NobodyForgotten, EndedWell, ShutdownStage, NoHookSkipped
<1> QED
  BY <1>1, Typing, Waiting, Staging, PTL
=============================================================================
